---------------------------- MODULE StreamProofs ----------------------------
(*****************************************************************************)
(* Proofs about the two streams that pass through a buffer, Socket and       *)
(* DebugLog, and about FlattenSeq, which both promises are stated with.      *)
(*                                                                           *)
(* Socket, for any number of sockets, packets and tokens: the types; that no *)
(* URC handler uses a freed handle and a reported connection is one, as long *)
(* as the module answers in time; and that what was read and what is still   *)
(* in the packet list are what the module delivered.                         *)
(*                                                                           *)
(* DebugLog, for any ring, texts and number of tasks: the types; that        *)
(* quectel.log is made of the accepted texts, whole and in their order; and  *)
(* that the thread sleeps only when it has caught up.                        *)
(*****************************************************************************)
EXTENDS Socket, DebugLog, SequenceTheorems, WellFoundedInduction, TLAPS

Kinds == Results \cup {"recv", "closed"}
Lines == [line : Kinds, bytes : Seq(Nat)] \cup {Ok}

LEMMA ConstantTypes ==
    /\ \A n \in PktLens : n \in Nat
    /\ \A n \in Wants : n \in Nat
    /\ Tokens \in Nat /\ 0 < Tokens
BY ConstantsAssumption

-----------------------------------------------------------------------------
(* Types, from the lines of the module to the fields of the handle.         *)

WireTypes ==
    /\ wire \in Seq(Lines) /\ urc \in Lines /\ sent \in Nat
    /\ ppc \in {"idle", "err", "closed", "recv", "head", "walk", "link", "post"}
    /\ ppc = "err" => urc.line \in Results

\* ql_recvfrom has a packet whenever it copies or cuts, and offset lies in it.
ListTypes ==
    /\ list \in Seq(Seq(Nat)) /\ offset \in Nat /\ want \in Nat
    /\ upc \in {"copy", "cut"} => list # <<>>
    /\ IF list = <<>> THEN offset = 0 ELSE offset <= Len(list[1])

LEMMA WireInit == Init => WireTypes
<1>1. <<>> \in Seq(Lines) /\ <<>> \in Seq(Nat)
  OBVIOUS
<1> QED
  BY <1>1 DEF Init, WireTypes, Ok, Lines, Kinds

LEMMA LinesOfModule ==
    /\ Ok \in Lines
    /\ \A e \in Results : Open(e) \in Lines
    /\ [line |-> "closed", bytes |-> <<>>] \in Lines
    /\ \A b \in Seq(Nat) : [line |-> "recv", bytes |-> b] \in Lines
BY DEF Ok, Open, Lines, Kinds, Results

LEMMA Numbered == ASSUME NEW n \in Nat, NEW s \in Nat
                  PROVE  [k \in 1 .. n |-> s + k] \in Seq(Nat)
<1>1. [k \in 1 .. n |-> s + k] \in [1 .. n -> Nat]
  OBVIOUS
<1> QED
  BY <1>1, SeqDef

LEMMA HeadAndTail ==
    ASSUME NEW S, NEW s \in Seq(S), s # <<>>
    PROVE  Head(s) \in S /\ Tail(s) \in Seq(S)
OBVIOUS

LEMMA AppendTwo ==
    ASSUME NEW S, NEW s \in Seq(S), NEW a \in S, NEW b \in S
    PROVE  s \o <<a, b>> \in Seq(S)
<1>1. <<a, b>> \in Seq(S)
  OBVIOUS
<1> QED
  BY <1>1, ConcatProperties

LEMMA AppendOne ==
    ASSUME NEW S, NEW s \in Seq(S), NEW a \in S
    PROVE  /\ Append(s, a) \in Seq(S) /\ Append(s, a) # <<>>
           /\ Append(s, a)[1] = IF s = <<>> THEN a ELSE s[1]
<1>1. Len(Append(s, a)) = Len(s) + 1 /\ Append(s, a)[Len(s) + 1] = a /\ Append(s, a) \in Seq(S)
  OBVIOUS
<1>2. CASE s = <<>>
  BY <1>1, <1>2
<1>3. CASE s # <<>>
  <2>1. Len(s) \in Nat /\ 1 <= Len(s)
    BY <1>3
  <2>2. Append(s, a)[1] = s[1]
    BY <2>1
  <2> QED
    BY <1>1, <1>3, <2>1, <2>2
<1> QED
  BY <1>2, <1>3

LEMMA Lists ==
    ASSUME NEW S, NEW a \in S, NEW b \in S
    PROVE  Append(<<>>, a) = <<a>> /\ Append(<<a>>, b) = <<a, b>>
<1>1. <<>> \in Seq(S) /\ <<a>> \in Seq(S) /\ <<a, b>> \in Seq(S)
  OBVIOUS
<1>2. Append(<<>>, a) \in Seq(S) /\ Len(Append(<<>>, a)) = 1 /\ Append(<<>>, a)[1] = a
  BY <1>1
<1>3. /\ Append(<<a>>, b) \in Seq(S) /\ Len(Append(<<a>>, b)) = 2
      /\ Append(<<a>>, b)[1] = a /\ Append(<<a>>, b)[2] = b
  BY <1>1
<1>4. Len(<<a>>) = 1 /\ <<a>>[1] = a /\ Len(<<a, b>>) = 2 /\ <<a, b>>[1] = a /\ <<a, b>>[2] = b
  OBVIOUS
<1>5. \A i \in 1 .. 2 : Append(<<a>>, b)[i] = <<a, b>>[i]
  BY <1>3, <1>4
<1>6. Append(<<>>, a) = <<a>>
  BY <1>1, <1>2, <1>4, SeqEqual
<1> QED
  BY <1>1, <1>3, <1>4, <1>5, <1>6, SeqEqual

LEMMA Singleton ==
    ASSUME NEW S, NEW s \in Seq(S), s # <<>>, Tail(s) = <<>>
    PROVE  s = <<Head(s)>>
<1>1. Len(Tail(s)) = Len(s) - 1 /\ Len(<<>>) = 0 /\ Len(s) \in Nat /\ Head(s) \in S
  BY HeadTailProperties
<1>2. Len(s) = 1
  BY <1>1
<1>3. <<Head(s)>> \in Seq(S) /\ Len(<<Head(s)>>) = 1 /\ <<Head(s)>>[1] = Head(s)
  BY <1>1
<1>4. Head(s) = s[1]
  BY <1>2
<1> QED
  BY <1>2, <1>3, <1>4, SeqEqual

LEMMA WireNext == ASSUME WireTypes, [Next]_vars PROVE WireTypes'
<1> USE DEF WireTypes
<1>1. ASSUME NEW e \in Results, Opened(e) PROVE WireTypes'
  BY <1>1, LinesOfModule DEF Opened, parser
<1>2. ASSUME NEW n \in PktLens, Data(n) PROVE WireTypes'
  <2>1. n \in Nat
    BY ConstantTypes
  <2>2. [k \in 1 .. n |-> sent + k] \in Seq(Nat)
    BY <2>1, Numbered
  <2> DEFINE new == [line |-> "recv", bytes |-> [k \in 1 .. n |-> sent + k]]
  <2>3. new \in Lines
    BY <2>2, LinesOfModule
  <2>4. wire' = Append(wire, new) /\ sent' = sent + n /\ UNCHANGED <<ppc, urc>>
    BY <1>2 DEF Data, parser
  <2> QED
    BY <2>1, <2>3, <2>4
<1>3. CASE PeerCloses
  BY <1>3, LinesOfModule DEF PeerCloses, parser
<1>4. CASE ReadOk
  BY <1>4, HeadAndTail DEF ReadOk, parser
<1>5. CASE FindHandle
  <2>1. Head(wire) \in Lines /\ Tail(wire) \in Seq(Lines)
    BY <1>5, HeadAndTail DEF FindHandle
  <2>2. Head(wire) \in [line : Kinds, bytes : Seq(Nat)]
    BY <1>5, <2>1 DEF FindHandle, Lines
  <2> QED
    BY <1>5, <2>1, <2>2 DEF FindHandle, Kinds
<1>6. CASE SetErr \/ SetClosing \/ FindLast \/ Link
  BY <1>6 DEF SetErr, SetClosing, FindLast, TestHead, LoadHead, Walk, Link, module
<1>7. CASE PostUrc
  BY <1>7, LinesOfModule DEF PostUrc, module
<1>8. CASE Connect \/ Close
  <2>1. \/ UNCHANGED wire
        \/ wire' = Append(wire, Ok)
        \/ wire' = wire \o <<Ok, Open("fd_used")>>
    BY <1>8 DEF Connect, Close, Execute, Lost
  <2>2. Ok \in Lines /\ Open("fd_used") \in Lines
    BY LinesOfModule DEF Results
  <2>3. wire \in Seq(Lines)
    OBVIOUS
  <2> HIDE DEF WireTypes
  <2>4. Append(wire, Ok) \in Seq(Lines)
    BY <2>2, <2>3, AppendOne
  <2>5. wire \o <<Ok, Open("fd_used")>> \in Seq(Lines)
    BY <2>2, <2>3, AppendTwo
  <2>6. wire' \in Seq(Lines)
    BY <2>1, <2>3, <2>4, <2>5
  <2> QED
    BY <1>8, <2>6 DEF Connect, Close, parser, WireTypes
<1>9. CASE NewSocket \/ (\E n \in Wants : Recv(n)) \/ Task \/ ConnectTimesOut \/ RecvFails
  BY <1>9 DEF NewSocket, Recv, Task, ConnectFails, ConnectSent, Connected, Peek, Empty, Woken,
     Copy, Cut, CloseSent, ReleaseFd, FreeHandle, ConnectTimesOut, RecvFails, module, parser
<1>10. CASE UNCHANGED vars
  BY <1>10 DEF vars, module, parser
<1> HIDE DEF WireTypes
<1> QED
  BY <1>1, <1>2, <1>3, <1>4, <1>5, <1>6, <1>7, <1>8, <1>9, <1>10
     DEF Next, Module, Parser, Calls

-----------------------------------------------------------------------------

LEMMA ListInit == Init => ListTypes
BY DEF Init, ListTypes

LEMMA ListNext == ASSUME WireTypes, ListTypes, [Next]_vars PROVE ListTypes'
<1> USE DEF ListTypes
<1>1. CASE Link
  <2>1. urc.bytes \in Seq(Nat)
    <3>1. Ok.bytes \in Seq(Nat)
      BY DEF Ok
    <3> QED
      BY <3>1 DEF WireTypes, Lines
  <2>2. list' = list \/ list' = Append(list, urc.bytes)
    BY <1>1 DEF Link
  <2>3. UNCHANGED <<offset, want, upc>>
    BY <1>1 DEF Link, task
  <2>4. CASE list = <<>> /\ list' # list
    <3>1. list' \in Seq(Seq(Nat)) /\ list' # <<>> /\ list'[1] = urc.bytes
      <4>1. list' = Append(list, urc.bytes) /\ list \in Seq(Seq(Nat)) /\ list = <<>>
        BY <2>2, <2>4
      <4> HIDE DEF ListTypes
      <4> QED
        BY <2>1, <4>1, AppendOne
    <3> QED
      BY <2>1, <2>3, <2>4, <3>1
  <2>5. CASE list # <<>> /\ list' # list
    <3>1. list' = Append(list, urc.bytes) /\ list \in Seq(Seq(Nat))
      BY <2>2, <2>5
    <3>2. list' \in Seq(Seq(Nat)) /\ list' # <<>> /\ list'[1] = list[1]
      <4> HIDE DEF ListTypes
      <4> QED
        BY <2>1, <2>5, <3>1, AppendOne
    <3> QED
      BY <2>3, <2>5, <3>2
  <2> QED
    BY <2>3, <2>4, <2>5
<1>2. CASE NewSocket
  BY <1>2, ConstantTypes DEF NewSocket
<1>3. ASSUME NEW n \in Wants, Recv(n) PROVE ListTypes'
  BY <1>3, ConstantTypes DEF Recv, packets
<1>4. CASE Peek
  BY <1>4 DEF Peek, packets
<1>5. CASE Copy
  <2>1. list[1] \in Seq(Nat) /\ Len(list[1]) \in Nat /\ offset <= Len(list[1])
    BY <1>5 DEF Copy
  <2>2. Len(Left) = Len(list[1]) - offset
    BY <2>1 DEF Left
  <2> QED
    BY <1>5, <2>1, <2>2 DEF Copy
<1>6. CASE Cut
  <2>1. Tail(list) \in Seq(Seq(Nat))
    BY <1>6 DEF Cut
  <2>2. list' \in Seq(Seq(Nat)) /\ (list' # <<>> => Len(list'[1]) \in Nat)
    BY <1>6, <2>1 DEF Cut
  <2> QED
    BY <1>6, <2>2 DEF Cut
<1>7. CASE FreeHandle
  BY <1>7 DEF FreeHandle
<1>8. CASE Connect \/ Close
  BY <1>8 DEF Connect, Close, packets
<1>9. CASE ConnectFails \/ ConnectSent \/ Connected \/ Empty \/ Woken \/ CloseSent
           \/ ReleaseFd \/ ConnectTimesOut \/ RecvFails
  BY <1>9 DEF ConnectFails, ConnectSent, Connected, Empty, Woken, CloseSent, ReleaseFd,
     ConnectTimesOut, RecvFails, packets
<1>10. CASE Module \/ ReadOk \/ FindHandle \/ SetErr \/ SetClosing \/ FindLast \/ PostUrc
            \/ UNCHANGED vars
  BY <1>10 DEF Module, Opened, Data, PeerCloses, ReadOk, FindHandle, SetErr, SetClosing, FindLast,
     TestHead, LoadHead, Walk, PostUrc, vars, packets, task
<1> HIDE DEF ListTypes
<1> QED
  BY <1>1, <1>2, <1>3, <1>4, <1>5, <1>6, <1>7, <1>8, <1>9, <1>10 DEF Next, Parser, Calls, Task

-----------------------------------------------------------------------------

LEMMA TypeInit == Init => TypeOK
BY ConstantTypes DEF Init, TypeOK, Results

LEMMA TypeNext ==
    ASSUME WireTypes, ListTypes, ListTypes', TypeOK, [Next]_vars PROVE TypeOK'
<1> USE ConstantTypes DEF TypeOK, WireTypes, ListTypes
<1>1. CASE Module
  BY <1>1 DEF Module, Opened, Data, PeerCloses, handle, packets, task, parser
<1>2. CASE ReadOk
  BY <1>2 DEF ReadOk, handle, packets, parser
<1>3. CASE FindHandle
  <2>1. Head(wire) \in Lines /\ Head(wire) # Ok
    BY <1>3, HeadAndTail DEF FindHandle
  <2>2. Head(wire).line \in Kinds
    BY <2>1 DEF Lines
  <2> QED
    BY <1>3, <2>2 DEF FindHandle, handle, packets, task, Kinds
<1>4. CASE SetErr
  BY <1>4 DEF SetErr, module, packets, task
<1>5. CASE SetClosing \/ FindLast \/ Link
  BY <1>5 DEF SetClosing, FindLast, TestHead, LoadHead, Walk, Link, module, handle, packets, task
<1>6. CASE PostUrc
  BY <1>6 DEF PostUrc, Post, module, handle, packets, task
<1>7. CASE NewSocket
  BY <1>7 DEF NewSocket, module, parser, Results
<1>8. CASE Connect \/ Close
  BY <1>8 DEF Connect, Close, Execute, Lost, handle, packets, parser
<1>9. CASE ConnectFails \/ ConnectSent \/ Connected \/ ConnectTimesOut
  BY <1>9, SMTT(30) DEF ConnectFails, ConnectSent, Connected, ConnectTimesOut, module, handle, packets,
     parser
<1>10. CASE Peek \/ Empty \/ Woken \/ RecvFails \/ (\E n \in Wants : Recv(n))
  BY <1>10 DEF Peek, Empty, Woken, RecvFails, Recv, module, handle, packets, parser
<1>11. CASE Copy \/ Cut
  BY <1>11 DEF Copy, Cut, module, handle, parser
<1>12. CASE CloseSent \/ ReleaseFd
  BY <1>12 DEF CloseSent, ReleaseFd, module, handle, packets, parser
<1>14. CASE FreeHandle
  BY <1>14 DEF FreeHandle, module, parser
<1>13. CASE UNCHANGED vars
  BY <1>13 DEF vars, module, handle, packets, task, parser
<1> HIDE DEF TypeOK, WireTypes, ListTypes
<1> QED
  BY <1>1, <1>2, <1>3, <1>4, <1>5, <1>6, <1>7, <1>8, <1>9, <1>10, <1>11, <1>12, <1>13,
     <1>14 DEF Next, Parser, Calls, Task

Types == TypeOK /\ WireTypes /\ ListTypes

LEMMA TypesAlways == Spec => []Types
<1>1. Init => Types
  BY WireInit, ListInit, TypeInit DEF Types
<1>2. Types /\ [Next]_vars => Types'
  BY WireNext, ListNext, TypeNext DEF Types
<1> QED
  BY <1>1, <1>2, PTL DEF Spec

\* The fields of the handle and of the two tasks keep their types, and the
\* semaphore never has more tokens than the kernel allows.
THEOREM TypeCorrect == Spec => []TypeOK
BY TypesAlways, PTL DEF Types

-----------------------------------------------------------------------------
(* Where the lines, the parser and the connection stand at each place of    *)
(* the task, as long as nothing timed out.                                  *)

\* Lines that are not an answer and not the result of a connection.
Pure(lines) == \A i \in 1 .. Len(lines) : lines[i].line \in {"recv", "closed"}

Quiet == wire = <<>> /\ ppc = "idle"

\* What follows a +QIOPEN with the result e.
Outcome(e, rest) ==
    IF e = "ok" THEN conn \in {"open", "closed"} /\ Pure(rest) ELSE conn = "idle" /\ rest = <<>>

\* +QIOPEN is on its way, or first in rest.
Coming(rest) ==
    \/ conn = "opening" /\ rest = <<>>
    \/ /\ rest # <<>> /\ Head(rest).line \in Results
       /\ Outcome(Head(rest).line, Tail(rest))

\* +QIOPEN is still to be read, in the hands of the parser, or told to the task.
ResultToRead == ppc = "idle" /\ sem = 0 /\ Coming(wire)
ResultInHand == /\ ppc \in {"err", "post"} /\ sem = 0 /\ urc.line \in Results
                /\ ppc = "post" => err = urc.line
                /\ Outcome(urc.line, wire)
ResultTold == sem > 0 /\ ppc # "err" /\ Outcome(err, wire) /\ (err # "ok" => ppc = "idle" /\ sem = 1)
Result == ResultToRead \/ ResultInHand \/ ResultTold

Opening ==
    \/ /\ cmd = "sent" /\ ppc = "idle" /\ sem = 0
       /\ wire # <<>> /\ Head(wire) = Ok /\ Coming(Tail(wire))
    \/ cmd = "done" /\ Result

Transfer == conn \in {"open", "closed"} /\ err = "ok" /\ ppc # "err" /\ Pure(wire)

Closing ==
    /\ conn = "idle" /\ ppc # "err"
    /\ \/ cmd = "sent" /\ \E lines \in Seq(Lines) : Pure(lines) /\ wire = Append(lines, Ok)
       \/ cmd = "done" /\ Quiet

Reading == {"ready", "peek", "empty", "wait", "copy", "cut", "eof"}

Stages ==
    /\ upc \in {"none", "open", "closed", "free"} => Quiet /\ conn = "idle"
    /\ upc = "open" => sem = 0
    /\ upc \notin {"opening", "closing"} => cmd = "none"
    /\ upc = "opening" => Opening
    /\ upc = "result" => Result
    /\ upc \in Reading => Transfer
    /\ upc = "closing" => Closing

Handles ==
    /\ alive <=> upc # "none"
    /\ used <=> upc \notin {"none", "free"}
    /\ ppc # "idle" => ph = gen

LEMMA PureGrows ==
    ASSUME NEW s \in Seq(Lines), Pure(s), NEW e \in Lines, e.line \in {"recv", "closed"}
    PROVE  Pure(Append(s, e))
BY DEF Pure

LEMMA PureShrinks ==
    ASSUME NEW s \in Seq(Lines), Pure(s), s # <<>>
    PROVE  Head(s).line \in {"recv", "closed"} /\ Head(s) # Ok /\ Pure(Tail(s))
BY DEF Pure, Ok

LEMMA HeadStays ==
    ASSUME NEW s \in Seq(Lines), NEW e \in Lines, s # <<>>
    PROVE  /\ Append(s, e) # <<>> /\ Head(Append(s, e)) = Head(s)
           /\ Tail(Append(s, e)) = Append(Tail(s), e) /\ Tail(s) \in Seq(Lines)
OBVIOUS

Frame == UNCHANGED <<handle, sem, task, parser>>

\* A line about an open connection comes after everything that is on its way.
LEMMA Arrival ==
    ASSUME Types, Stages, Frame, conn = "open", conn' \in {"open", "closed"},
           NEW e \in Lines, e.line \in {"recv", "closed"}, wire' = Append(wire, e)
    PROVE  Stages'
<1>1. wire \in Seq(Lines) /\ UNCHANGED <<upc, cmd, ppc, sem, err, urc>>
  BY DEF Types, WireTypes, Frame, handle, task, parser
<1>2. upc \notin {"none", "open", "closed", "free", "closing"}
  BY DEF Stages, Closing
<1>3. ASSUME NEW x, NEW rest \in Seq(Lines), Outcome(x, rest)
      PROVE  x = "ok" /\ Pure(Append(rest, e))
  BY <1>3, PureGrows DEF Outcome
<1>4. ASSUME NEW rest \in Seq(Lines), Coming(rest)
      PROVE  /\ Append(rest, e) # <<>> /\ Head(Append(rest, e)).line = "ok"
             /\ Pure(Tail(Append(rest, e)))
  <2>1. rest # <<>> /\ Outcome(Head(rest).line, Tail(rest))
    BY <1>4 DEF Coming
  <2> QED
    BY <2>1, <1>3, HeadStays
<1>5. Result => Result'
  <2>1. ResultToRead => ResultToRead'
    BY <1>1, <1>4 DEF ResultToRead, Coming, Outcome, Results
  <2>2. ResultInHand => ResultInHand'
    BY <1>1, <1>3 DEF ResultInHand, Outcome
  <2>3. ResultTold => ResultTold'
    BY <1>1, <1>3 DEF ResultTold, Outcome
  <2> QED
    BY <2>1, <2>2, <2>3 DEF Result
<1>6. Opening => Opening'
  <2>1. ASSUME wire # <<>>, Coming(Tail(wire))
        PROVE  wire' # <<>> /\ Head(wire') = Head(wire) /\ Coming(Tail(wire))'
    <3>1. Tail(wire) \in Seq(Lines) /\ Tail(wire') = Append(Tail(wire), e)
      BY <1>1, <2>1, HeadStays
    <3> QED
      BY <1>1, <1>4, <2>1, <3>1, HeadStays DEF Coming, Outcome, Results
  <2> QED
    BY <1>1, <1>5, <2>1 DEF Opening
<1>7. Transfer => Transfer'
  BY <1>1, PureGrows DEF Transfer
<1> QED
  BY <1>1, <1>2, <1>5, <1>6, <1>7 DEF Stages, Reading

LEMMA OpenedStages == ASSUME Types, Stages, NEW e \in Results, Opened(e) PROVE Stages'
<1>1. /\ conn = "opening" /\ conn' = (IF e = "ok" THEN "open" ELSE "idle")
      /\ wire' = Append(wire, Open(e)) /\ UNCHANGED <<upc, cmd, ppc, sem, err, urc>>
  BY DEF Opened, handle, task, parser
<1>2. upc \notin {"none", "open", "closed", "free", "closing"} /\ upc \notin Reading
  BY <1>1 DEF Stages, Closing, Transfer
<1>3. ASSUME NEW x, NEW rest, Outcome(x, rest) PROVE FALSE
  BY <1>1, <1>3 DEF Outcome
<1>4. ASSUME NEW rest, Coming(rest) PROVE rest = <<>>
  BY <1>1, <1>3, <1>4 DEF Coming
<1>5. Head(<<Open(e)>>).line = e /\ Tail(<<Open(e)>>) = <<>> /\ Pure(<<>>)
  BY DEF Open, Pure
<1>6. Append(<<>>, Open(e)) = <<Open(e)>> /\ Append(<<Ok>>, Open(e)) = <<Ok, Open(e)>>
  <2>1. Ok \in Lines /\ Open(e) \in Lines
    BY LinesOfModule
  <2> QED
    BY <2>1, Lists
<1>7. Result => Result'
  <2>1. Result => ResultToRead
    BY <1>3 DEF Result, ResultInHand, ResultTold
  <2>2. ResultToRead => wire' = <<Open(e)>>
    BY <1>1, <1>4, <1>6 DEF ResultToRead
  <2>3. ASSUME wire' = <<Open(e)>> PROVE Coming(wire)'
    <3>1. wire' # <<>> /\ Head(wire').line = e /\ Tail(wire') = <<>>
      BY <1>5, <2>3
    <3> QED
      BY <1>1, <1>5, <3>1 DEF Coming, Outcome
  <2> QED
    BY <1>1, <2>1, <2>2, <2>3 DEF Result, ResultToRead
<1>8. Opening => Opening'
  <2>1. ASSUME wire # <<>>, Head(wire) = Ok, Coming(Tail(wire))
        PROVE  wire' = <<Ok, Open(e)>>
    <3>1. wire \in Seq(Lines) /\ Tail(wire) = <<>>
      BY <1>4, <2>1 DEF Types, WireTypes
    <3>2. wire = <<Ok>>
      BY <2>1, <3>1, Singleton
    <3> QED
      BY <1>1, <1>6, <3>2
  <2>2. Head(<<Ok, Open(e)>>) = Ok /\ Tail(<<Ok, Open(e)>>) = <<Open(e)>>
    OBVIOUS
  <2>3. ASSUME wire' = <<Ok, Open(e)>>
        PROVE  wire' # <<>> /\ Head(wire') = Ok /\ Coming(Tail(wire))'
    <3>1. Tail(wire') # <<>> /\ Head(Tail(wire')).line = e /\ Tail(Tail(wire')) = <<>>
      BY <1>5, <2>2, <2>3
    <3> QED
      BY <1>1, <1>5, <2>2, <2>3, <3>1 DEF Coming, Outcome
  <2> QED
    BY <1>1, <1>7, <2>1, <2>3 DEF Opening
<1> QED
  BY <1>1, <1>2, <1>7, <1>8 DEF Stages

LEMMA ModuleStages == ASSUME Types, Stages, Handles, Module PROVE Stages' /\ Handles'
<1>1. Handles'
  <2>1. UNCHANGED <<handle, task, parser>>
    BY DEF Module, Opened, Data, PeerCloses
  <2> QED
    BY <2>1 DEF Handles, handle, task, parser
<1>2. ASSUME NEW n \in PktLens, Data(n) PROVE Stages'
  <2>1. [k \in 1 .. n |-> sent + k] \in Seq(Nat)
    BY ConstantTypes, Numbered DEF Types, WireTypes
  <2> DEFINE new == [line |-> "recv", bytes |-> [k \in 1 .. n |-> sent + k]]
  <2>2. new \in Lines /\ new.line = "recv"
    BY <2>1, LinesOfModule
  <2>3. wire' = Append(wire, new) /\ conn = "open" /\ conn' = "open" /\ Frame
    BY <1>2 DEF Data, Frame, packets
  <2> QED
    BY <2>2, <2>3, Arrival
<1>3. CASE PeerCloses
  <2> DEFINE new == [line |-> "closed", bytes |-> <<>>]
  <2>1. new \in Lines /\ new.line = "closed"
    BY LinesOfModule
  <2>2. wire' = Append(wire, new) /\ conn = "open" /\ conn' = "closed" /\ Frame
    BY <1>3 DEF PeerCloses, Frame
  <2> HIDE DEF new
  <2> QED
    BY <1>1, <2>1, <2>2, Arrival
<1> QED
  BY <1>1, <1>2, <1>3, OpenedStages DEF Module

\* No OK is first when a result is expected or data are.
LEMMA NoOk ==
    ASSUME Types, Result \/ Transfer, ppc = "idle", wire # <<>>
    PROVE  Head(wire) # Ok
<1>1. wire \in Seq(Lines) /\ Ok.line \notin Results
  BY DEF Types, WireTypes, Ok, Results
<1> QED
  BY <1>1, PureShrinks
     DEF Result, ResultToRead, ResultInHand, ResultTold, Transfer, Coming, Outcome

\* The answer of AT+QICLOSE is the last line.
LEMMA CloseAnswer ==
    ASSUME NEW lines \in Seq(Lines), Pure(lines)
    PROVE  /\ Head(Append(lines, Ok)) = Ok => Tail(Append(lines, Ok)) = <<>>
           /\ Head(Append(lines, Ok)) # Ok =>
                /\ Head(Append(lines, Ok)).line \in {"recv", "closed"}
                /\ Tail(lines) \in Seq(Lines) /\ Pure(Tail(lines))
                /\ Tail(Append(lines, Ok)) = Append(Tail(lines), Ok)
<1>1. Ok \in Lines
  BY LinesOfModule
<1>2. CASE lines = <<>>
  <2>1. Append(<<>>, Ok) = <<Ok>>
    BY <1>1, Lists
  <2>2. Head(<<Ok>>) = Ok /\ Tail(<<Ok>>) = <<>>
    OBVIOUS
  <2> QED
    BY <1>2, <2>1, <2>2
<1>3. CASE lines # <<>>
  BY <1>1, <1>3, PureShrinks, HeadStays
<1> QED
  BY <1>2, <1>3

LEMMA ReadOkStages == ASSUME Types, Stages, Handles, ReadOk PROVE Stages' /\ Handles'
<1>1. /\ ppc = "idle" /\ wire # <<>> /\ Head(wire) = Ok /\ wire' = Tail(wire)
      /\ cmd' = IF cmd = "sent" THEN "done" ELSE cmd
      /\ UNCHANGED <<conn, upc, sem, ppc, ph, urc, err, used, gen, alive>>
  BY DEF ReadOk, handle, parser
<1>2. Handles'
  BY <1>1 DEF Handles
<1>3. ~Quiet /\ ~Result /\ ~Transfer
  BY <1>1, NoOk DEF Quiet
<1>4. CASE upc = "opening"
  <2>1. cmd = "sent" /\ sem = 0 /\ Coming(Tail(wire))
    BY <1>3, <1>4 DEF Stages, Opening
  <2>2. ResultToRead'
    BY <1>1, <2>1 DEF ResultToRead, Coming, Outcome
  <2> QED
    BY <1>1, <1>2, <1>4, <2>1, <2>2 DEF Stages, Opening, Result, Reading
<1>5. CASE upc = "closing"
  <2>1. PICK lines \in Seq(Lines) : cmd = "sent" /\ Pure(lines) /\ wire = Append(lines, Ok)
    BY <1>3, <1>5 DEF Stages, Closing
  <2>2. wire' = <<>>
    BY <1>1, <2>1, CloseAnswer
  <2> QED
    BY <1>1, <1>2, <1>5, <2>1, <2>2 DEF Stages, Closing, Quiet, Reading
<1>6. upc \in {"opening", "closing"}
  BY <1>3 DEF Stages, Types, TypeOK, Reading
<1> QED
  BY <1>4, <1>5, <1>6

LEMMA FindHandleStages == ASSUME Types, Stages, Handles, FindHandle PROVE Stages' /\ Handles'
<1>1. /\ ppc = "idle" /\ wire # <<>> /\ Head(wire) # Ok /\ wire' = Tail(wire)
      /\ UNCHANGED <<conn, upc, cmd, sem, err, used, gen, alive>>
  BY DEF FindHandle, handle, task
<1>2. wire \in Seq(Lines) /\ ~Quiet
  BY <1>1 DEF Types, WireTypes, Quiet
<1>3. upc \in {"opening", "result", "closing"} \cup Reading /\ used
  BY <1>2 DEF Stages, Handles, Types, TypeOK, Reading
<1>4. /\ ph' = gen /\ urc' = Head(wire)
      /\ ppc' = IF Head(wire).line \in Results THEN "err" ELSE Head(wire).line
  BY <1>3 DEF FindHandle
<1>5. Handles'
  BY <1>1, <1>4 DEF Handles
<1>6. ASSUME Pure(wire)
      PROVE  ppc' \in {"recv", "closed"} /\ Pure(wire')
  BY <1>1, <1>2, <1>4, <1>6, PureShrinks DEF Results
<1>7. Result => Result'
  <2>1. ResultToRead => ResultInHand'
    BY <1>1, <1>4 DEF ResultToRead, ResultInHand, Coming, Outcome
  <2>2. ResultTold => ResultTold'
    BY <1>1, <1>6 DEF ResultTold, Outcome
  <2> QED
    BY <1>1, <2>1, <2>2 DEF Result, ResultInHand
<1>8. Transfer => Transfer'
  BY <1>1, <1>6 DEF Transfer
<1>9. Closing => Closing'
  <2>1. SUFFICES ASSUME Closing PROVE Closing'
    OBVIOUS
  <2>2. PICK lines \in Seq(Lines) : cmd = "sent" /\ Pure(lines) /\ wire = Append(lines, Ok)
    BY <1>2, <2>1 DEF Closing
  <2>3. /\ Tail(lines) \in Seq(Lines) /\ Pure(Tail(lines)) /\ wire' = Append(Tail(lines), Ok)
        /\ Head(wire).line \in {"recv", "closed"}
    BY <1>1, <2>2, CloseAnswer
  <2> QED
    BY <1>1, <1>4, <2>1, <2>2, <2>3 DEF Closing, Results
<1>10. Opening => Opening'
  BY <1>1, <1>7 DEF Opening
<1> QED
  BY <1>1, <1>3, <1>5, <1>7, <1>8, <1>9, <1>10 DEF Stages, Reading

LEMMA ParserStages ==
    ASSUME Types, Stages, Handles, SetErr \/ SetClosing \/ FindLast \/ Link \/ PostUrc
    PROVE  Stages' /\ Handles'
<1>1. UNCHANGED <<wire, conn, upc, cmd, used, gen, alive>> /\ ppc # "idle"
  BY DEF SetErr, SetClosing, FindLast, TestHead, LoadHead, Walk, Link, PostUrc, module, handle,
     packets, task
<1>2. upc \in {"opening", "result", "closing"} \cup Reading /\ Mine
  BY <1>1 DEF Stages, Handles, Quiet, Types, TypeOK, Reading, Mine
<1>3. Handles'
  <2>1. ppc' = "idle" \/ ph' = ph
    BY DEF SetErr, SetClosing, FindLast, TestHead, LoadHead, Walk, Link, PostUrc
  <2> QED
    BY <1>1, <2>1 DEF Handles
<1>4. CASE SetErr
  <2>1. ppc = "err" /\ ppc' = "post" /\ err' = urc.line /\ UNCHANGED <<sem, urc>>
    BY <1>2, <1>4 DEF SetErr
  <2>2. Result => Result'
    BY <1>1, <2>1 DEF Result, ResultToRead, ResultInHand, ResultTold, Outcome
  <2> QED
    BY <1>1, <1>2, <1>3, <2>1, <2>2 DEF Stages, Opening, Transfer, Closing, Reading
<1>5. CASE SetClosing \/ FindLast \/ Link
  <2>1. ppc \notin {"idle", "err", "post"} /\ ppc' \notin {"idle", "err"} /\ UNCHANGED <<sem, err, urc>>
    BY <1>5 DEF SetClosing, FindLast, TestHead, LoadHead, Walk, Link, handle
  <2>2. Result => Result'
    BY <1>1, <2>1 DEF Result, ResultToRead, ResultInHand, ResultTold, Outcome
  <2> QED
    BY <1>1, <1>2, <1>3, <2>1, <2>2 DEF Stages, Opening, Transfer, Closing, Quiet, Reading
<1>6. CASE PostUrc
  <2>1. ppc = "post" /\ ppc' = "idle" /\ UNCHANGED err
    BY <1>6 DEF PostUrc, handle
  <2>2. sem \in Nat /\ sem' > 0 /\ (sem = 0 => sem' = 1)
    BY <1>2, <1>6, ConstantTypes DEF PostUrc, Post, Types, TypeOK
  <2>3. Result => Result'
    BY <1>1, <2>1, <2>2 DEF Result, ResultToRead, ResultInHand, ResultTold, Outcome
  <2> QED
    BY <1>1, <1>2, <1>3, <2>1, <2>3 DEF Stages, Opening, Transfer, Closing, Quiet, Reading
<1> QED
  BY <1>4, <1>5, <1>6

LEMMA ConnectStages ==
    ASSUME Types, Stages, Handles, NewSocket \/ Connect, late' = 0 PROVE Stages' /\ Handles'
<1> USE DEF Stages, Handles, Reading
<1>1. CASE NewSocket
  BY <1>1 DEF NewSocket, Quiet, module, parser
<1>2. CASE Connect
  <2>1. Execute("QIOPEN") /\ upc = "open"
    BY <1>2 DEF Connect, Types, TypeOK
  <2>2. Quiet /\ conn = "idle" /\ sem = 0
    BY <2>1
  <2>3. wire' = <<Ok>> /\ conn' = "opening" /\ cmd' = "sent" /\ upc' = "opening"
    BY <1>2, <2>1, <2>2, LinesOfModule, Lists DEF Connect, Execute, Quiet
  <2>4. UNCHANGED <<used, gen, alive, ppc, ph, sem>>
    BY <1>2 DEF Connect, handle, parser
  <2>5. wire' # <<>> /\ Head(wire') = Ok /\ Tail(wire') = <<>>
    BY <2>3
  <2>6. Opening'
    BY <2>2, <2>3, <2>4, <2>5 DEF Opening, Coming, Quiet
  <2> QED
    BY <2>1, <2>3, <2>4, <2>6
<1> QED
  BY <1>1, <1>2

LEMMA ResultStages ==
    ASSUME Types, Stages, Handles, late' = 0,
           ConnectFails \/ ConnectSent \/ Connected \/ ConnectTimesOut
    PROVE  Stages' /\ Handles'
<1> USE DEF Stages, Handles, Reading
<1>1. CASE ConnectFails
  BY <1>1 DEF ConnectFails, Opening
<1>2. CASE ConnectSent
  <2>1. upc = "opening" /\ upc' = "result" /\ cmd' = "none" /\ cmd = "done"
    BY <1>2 DEF ConnectSent
  <2>2. UNCHANGED <<module, handle, sem, parser>>
    BY <1>2 DEF ConnectSent
  <2>3. Result'
    BY <2>1, <2>2 DEF Opening, Result, ResultToRead, ResultInHand, ResultTold, Coming, Outcome,
       module, handle, parser
  <2> QED
    BY <2>1, <2>2, <2>3 DEF handle, parser
<1>3. CASE Connected
  <2>1. ResultTold /\ upc = "result" /\ sem > 0
    BY <1>3 DEF Connected, Result, ResultToRead, ResultInHand
  <2>2. UNCHANGED <<wire, conn, cmd, used, gen, alive, err, ppc, ph>> /\ sem' = sem - 1
    BY <1>3 DEF Connected, module, parser
  <2>3. CASE err = "ok"
    <3>1. upc' = "ready"
      BY <1>3, <2>3 DEF Connected
    <3> QED
      BY <2>1, <2>2, <2>3, <3>1 DEF ResultTold, Outcome, Transfer
  <2>4. CASE err # "ok"
    <3>1. upc' = "open"
      BY <1>3, <2>4 DEF Connected
    <3> QED
      BY <2>1, <2>2, <2>4, <3>1 DEF ResultTold, Outcome, Quiet
  <2> QED
    BY <2>3, <2>4
<1>4. CASE ConnectTimesOut
  BY <1>4 DEF ConnectTimesOut, Types, TypeOK
<1> QED
  BY <1>1, <1>2, <1>3, <1>4

LEMMA RecvStages ==
    ASSUME Types, Stages, Handles,
           \/ \E n \in Wants : Recv(n)
           \/ Peek \/ Empty \/ Woken \/ RecvFails \/ Copy \/ Cut
    PROVE  Stages' /\ Handles'
<1>1. upc \in Reading /\ upc' \in Reading
  BY DEF Recv, Peek, Empty, Woken, RecvFails, Copy, Cut, Reading
<1>2. UNCHANGED <<wire, conn, cmd, used, gen, alive, err, ppc, ph>>
  BY DEF Recv, Peek, Empty, Woken, RecvFails, Copy, Cut, module, handle, parser
<1>3. Transfer'
  BY <1>1, <1>2 DEF Stages, Transfer
<1> QED
  BY <1>1, <1>2, <1>3 DEF Stages, Handles, Reading

LEMMA CloseStages ==
    ASSUME Types, Stages, Handles, late' = 0, Close \/ CloseSent \/ ReleaseFd \/ FreeHandle
    PROVE  Stages' /\ Handles'
<1> USE DEF Stages, Handles, Reading
<1>1. CASE Close
  <2>1. UNCHANGED <<used, gen, alive, err, sem, ppc, ph>>
    BY <1>1 DEF Close, handle, parser
  <2>2. CASE err = "fd_used"
    <3>1. upc = "open" /\ upc' = "closed" /\ UNCHANGED <<wire, conn, cmd>>
      BY <1>1, <2>2 DEF Close, Transfer
    <3> QED
      BY <2>1, <3>1 DEF Quiet
  <2>3. CASE err # "fd_used"
    <3>1. /\ upc \in {"open", "ready", "eof"} /\ upc' = "closing"
          /\ conn' = "idle" /\ cmd' = "sent" /\ wire' = Append(wire, Ok)
      BY <1>1, <2>3 DEF Close, Execute, Types, TypeOK
    <3>2. wire \in Seq(Lines) /\ Pure(wire) /\ ppc # "err"
      BY <3>1 DEF Quiet, Pure, Transfer, Types, WireTypes
    <3>3. Closing'
      BY <2>1, <3>1, <3>2 DEF Closing
    <3> QED
      BY <2>1, <3>1, <3>3
  <2> QED
    BY <2>2, <2>3
<1>2. CASE CloseSent
  BY <1>2 DEF CloseSent, Closing, Quiet, module, handle, parser
<1>3. CASE ReleaseFd
  BY <1>3 DEF ReleaseFd, Quiet, module, parser
<1>4. CASE FreeHandle
  BY <1>4 DEF FreeHandle, Quiet, module, parser
<1> QED
  BY <1>1, <1>2, <1>3, <1>4

InTime == late = 0 => Stages /\ Handles

LEMMA InTimeInit == Init => InTime
BY DEF Init, InTime, Stages, Handles, Quiet, Reading

LEMMA InTimeNext == ASSUME Types, InTime, [Next]_vars PROVE InTime'
<1>1. SUFFICES ASSUME late' = 0 PROVE Stages' /\ Handles'
  BY DEF InTime
<1>2. late = 0
  <2>1. UNCHANGED late \/ late' = late + 1
    BY DEF Next, Module, Parser, Calls, Task, Opened, Data, PeerCloses, ReadOk, FindHandle, SetErr,
       SetClosing, FindLast, TestHead, LoadHead, Walk, Link, PostUrc, NewSocket, Connect,
       ConnectFails, ConnectSent, Connected, ConnectTimesOut, Recv, Peek, Empty, Woken, RecvFails, Copy, Cut, Close, CloseSent, ReleaseFd,
       FreeHandle, task, vars
  <2> QED
    BY <1>1, <2>1 DEF Types, TypeOK
<1>3. Stages /\ Handles
  BY <1>2 DEF InTime
<1>4. CASE UNCHANGED vars
  BY <1>3, <1>4 DEF Stages, Handles, Quiet, Opening, Result, ResultToRead, ResultInHand, ResultTold,
     Coming, Outcome, Transfer, Closing, vars, module, handle, task, parser
<1> QED
  BY <1>1, <1>3, <1>4, ModuleStages, ReadOkStages, FindHandleStages, ParserStages, ConnectStages,
     ResultStages, RecvStages, CloseStages DEF Next, Parser, Calls, Task

LEMMA InTimeAlways == Spec => []InTime
<1>1. Types /\ InTime /\ [Next]_vars => InTime'
  BY InTimeNext
<1> QED
  BY <1>1, TypesAlways, InTimeInit, PTL DEF Spec

\* As long as every command was answered in time, no URC handler still uses a
\* handle when ql_close frees it, however many sockets are opened and closed.
THEOREM HandleNotFreedInUse == Spec => []NoUseAfterFree
<1>1. InTime => NoUseAfterFree
  BY DEF InTime, Stages, Handles, NoUseAfterFree, Mine, Quiet
<1> QED
  BY <1>1, InTimeAlways, PTL

\* As long as nothing timed out, a socket reported connected has a connection in
\* the module, and a descriptor that was closed has none.
THEOREM ConnectionsMatch == Spec => []ConnectionMatches
<1>1. InTime => ConnectionMatches
  BY DEF InTime, Stages, Transfer, Reading, ConnectionMatches
<1> QED
  BY <1>1, InTimeAlways, PTL
-----------------------------------------------------------------------------
(* FlattenSeq of the packet list.  It is defined by recursion over the      *)
(* positions of the list; what holds of every position is proved from the   *)
(* smallest one at which it would not.                                      *)

LEMMA LeastIn == ASSUME NEW T, T \subseteq Nat, T # {}
               PROVE  \E x \in T : \A y \in T : x <= y
<1>1. PICK x \in T : \A y \in T : ~ (<<y, x>> \in OpToRel(<, Nat))
  BY WFMin, NatLessThanWellFounded
<1>2. \A y \in T : y < x => <<y, x>> \in OpToRel(<, Nat)
  BY DEF OpToRel
<1>3. \A y \in T : ~ (y < x)
  BY <1>1, <1>2, Zenon
<1> QED
  BY <1>3

\* f[i] is the first i sequences of s, one after the other.
Flat(f, s, n) == f = [i \in 1 .. n |-> IF i = 1 THEN s[i] ELSE f[i - 1] \o s[i]]

LEMMA FlatExists ==
    ASSUME NEW s
    PROVE  \A n \in Nat : \E f : Flat(f, s, n)
<1> DEFINE T == {n \in Nat : ~ \E f : Flat(f, s, n)}
<1> SUFFICES ASSUME T # {} PROVE FALSE
  OBVIOUS
<1>1. PICK n \in T : \A k \in T : n <= k
  <2> HIDE DEF T
  <2>1. T \subseteq Nat
    BY DEF T
  <2> QED
    BY <2>1, LeastIn
<1>2. CASE n = 0
  <2>1. Flat([i \in 1 .. 0 |-> 0], s, 0)
    BY DEF Flat
  <2> QED
    BY <1>1, <1>2, <2>1
<1>3. CASE n # 0
  <2>1. n \in Nat /\ n - 1 \in Nat /\ n - 1 < n
    BY <1>1, <1>3
  <2>2. n - 1 \notin T
    BY <1>1, <2>1
  <2>3. PICK f : Flat(f, s, n - 1)
    BY <2>1, <2>2
  <2> DEFINE g == [i \in 1 .. n |-> IF i < n THEN f[i] ELSE IF i = 1 THEN s[i] ELSE f[i - 1] \o s[i]]
  <2>4. \A i \in 1 .. n - 1 : f[i] = IF i = 1 THEN s[i] ELSE f[i - 1] \o s[i]
    BY <2>1, <2>3 DEF Flat
  <2>5. \A i \in 1 .. n : g[i] = IF i = 1 THEN s[i] ELSE g[i - 1] \o s[i]
    BY <2>1, <2>4
  <2>6. g = [i \in 1 .. n |-> IF i = 1 THEN s[i] ELSE g[i - 1] \o s[i]]
    <3>1. g = [i \in 1 .. n |-> g[i]]
      OBVIOUS
    <3> HIDE DEF g
    <3> QED
      BY <2>5, <3>1
  <2>7. Flat(g, s, n)
    BY <2>6 DEF Flat
  <2> QED
    BY <1>1, <2>7
<1> QED
  BY <1>2, <1>3

LEMMA FlatStep ==
    ASSUME NEW s, NEW n \in Nat, NEW f, Flat(f, s, n)
    PROVE  \A i \in 1 .. n : f[i] = IF i = 1 THEN s[i] ELSE f[i - 1] \o s[i]
BY DEF Flat

Same(s, t, m) == \A i \in 1 .. m : s[i] = t[i]

\* Two flattenings agree as far as what they flatten does.
LEMMA FlatPrefix ==
    ASSUME NEW s, NEW t, NEW m \in Nat, NEW n \in Nat, NEW f, NEW g,
           Flat(f, s, m), Flat(g, t, n), m <= n, Same(s, t, m)
    PROVE  Same(f, g, m)
<1> DEFINE T == {i \in 1 .. m : f[i] # g[i]}
<1> SUFFICES ASSUME T # {} PROVE FALSE
  BY DEF Same
<1>1. T \subseteq Nat
  OBVIOUS
<1>2. PICK i \in T : \A j \in T : i <= j
  <2> HIDE DEF T
  <2> QED
    BY <1>1, LeastIn
<1>3. i \in 1 .. m /\ f[i] # g[i] /\ (i # 1 => i - 1 \in 1 .. m /\ i - 1 \notin T)
  BY <1>2
<1>4. i # 1 => f[i - 1] = g[i - 1]
  BY <1>3
<1> HIDE DEF T
<1>5. i \in 1 .. m /\ i \in 1 .. n
  BY <1>3
<1>6. f[i] = IF i = 1 THEN s[i] ELSE f[i - 1] \o s[i]
  <2>1. \A j \in 1 .. m : f[j] = IF j = 1 THEN s[j] ELSE f[j - 1] \o s[j]
    BY FlatStep
  <2> QED
    BY <1>5, <2>1
<1>7. g[i] = IF i = 1 THEN t[i] ELSE g[i - 1] \o t[i]
  <2>1. \A j \in 1 .. n : g[j] = IF j = 1 THEN t[j] ELSE g[j - 1] \o t[j]
    BY FlatStep
  <2> QED
    BY <1>5, <2>1
<1> QED
  BY <1>3, <1>4, <1>5, <1>6, <1>7 DEF Same

LEMMA FlatTypes ==
    ASSUME NEW S, NEW s \in Seq(Seq(S)), NEW n \in Nat, n <= Len(s), NEW f, Flat(f, s, n)
    PROVE  \A i \in 1 .. n : f[i] \in Seq(S)
<1> DEFINE T == {i \in 1 .. n : f[i] \notin Seq(S)}
<1> SUFFICES ASSUME T # {} PROVE FALSE
  OBVIOUS
<1>1. T \subseteq Nat
  OBVIOUS
<1>2. PICK i \in T : \A j \in T : i <= j
  <2> HIDE DEF T
  <2> QED
    BY <1>1, LeastIn
<1>3. i \in 1 .. n /\ f[i] \notin Seq(S) /\ (i # 1 => i - 1 \in 1 .. n /\ i - 1 \notin T)
  BY <1>2
<1>4. i # 1 => f[i - 1] \in Seq(S)
  BY <1>3
<1>5. f[i] = IF i = 1 THEN s[i] ELSE f[i - 1] \o s[i]
  BY <1>3, FlatStep
<1>6. s[i] \in Seq(S)
  BY <1>3, ElementOfSeq
<1>7. i # 1 => f[i - 1] \o s[i] \in Seq(S)
  BY <1>4, <1>6, ConcatProperties
<1> QED
  BY <1>3, <1>5, <1>6, <1>7

LEMMA FlatOf ==
    ASSUME NEW S, NEW s \in Seq(Seq(S)), s # <<>>
    PROVE  /\ Len(s) \in Nat \ {0}
           /\ \E f : Flat(f, s, Len(s)) /\ FlattenSeq(s) = f[Len(s)]
<1>1. Len(s) \in Nat \ {0}
  BY EmptySeq
<1> DEFINE f == CHOOSE f : f = [i \in 1 .. Len(s) |-> IF i = 1 THEN s[i] ELSE f[i - 1] \o s[i]]
<1>2. FlattenSeq(s) = f[Len(s)]
  BY <1>1, Zenon DEF FlattenSeq
<1>3. \E g : g = [i \in 1 .. Len(s) |-> IF i = 1 THEN s[i] ELSE g[i - 1] \o s[i]]
  BY <1>1, FlatExists DEF Flat
<1>4. f = [i \in 1 .. Len(s) |-> IF i = 1 THEN s[i] ELSE f[i - 1] \o s[i]]
  BY <1>3, Zenon
<1>5. Flat(f, s, Len(s))
  BY <1>4, Zenon DEF Flat
<1> HIDE DEF f
<1> QED
  BY <1>1, <1>2, <1>5

LEMMA FlattenType ==
    ASSUME NEW S, NEW s \in Seq(Seq(S))
    PROVE  FlattenSeq(s) \in Seq(S) /\ FlattenSeq(<<>>) = <<>>
<1>1. FlattenSeq(<<>>) = <<>> /\ <<>> \in Seq(S)
  BY DEF FlattenSeq
<1>2. CASE s # <<>>
  BY <1>1, <1>2, FlatOf, FlatTypes
<1> QED
  BY <1>1, <1>2

LEMMA FlattenAppend ==
    ASSUME NEW S, NEW s \in Seq(Seq(S)), NEW p \in Seq(S)
    PROVE  FlattenSeq(Append(s, p)) = FlattenSeq(s) \o p
<1> DEFINE more == Append(s, p)
<1>1. more \in Seq(Seq(S)) /\ more # <<>> /\ Len(more) = Len(s) + 1 /\ more[Len(s) + 1] = p
      /\ (\A i \in 1 .. Len(s) : more[i] = s[i]) /\ Len(s) \in Nat
  BY AppendProperties
<1> HIDE DEF more
<1>2. PICK g : Flat(g, more, Len(more)) /\ FlattenSeq(more) = g[Len(more)]
  BY <1>1, FlatOf
<1>3. g[Len(more)] = IF Len(s) = 0 THEN p ELSE g[Len(s)] \o p
  <2>1. Len(more) \in 1 .. Len(more) /\ Len(more) - 1 = Len(s)
    BY <1>1
  <2>2. g[Len(more)] = IF Len(more) = 1 THEN more[Len(more)] ELSE g[Len(more) - 1] \o more[Len(more)]
    BY <1>1, <1>2, <2>1, FlatStep
  <2> QED
    BY <1>1, <2>1, <2>2
<1>4. CASE s = <<>>
  <2>1. Len(s) = 0
    BY <1>4
  <2>2. <<>> \o p = p
    BY ConcatEmptySeq
  <2> QED
    BY <1>2, <1>3, <1>4, <2>1, <2>2, FlattenType DEF more
<1>5. CASE s # <<>>
  <2>1. PICK f : Flat(f, s, Len(s)) /\ FlattenSeq(s) = f[Len(s)]
    BY <1>5, FlatOf
  <2>2. Len(s) # 0 /\ Len(s) <= Len(more)
    BY <1>1, <1>5
  <2>3. \A i \in 1 .. Len(s) : f[i] = g[i]
    <3>1. Len(s) <= Len(s) /\ Len(more) \in Nat /\ \A i \in 1 .. Len(s) : s[i] = more[i]
      BY <1>1
    <3> QED
      <4>1. Flat(f, s, Len(s)) /\ Flat(g, more, Len(more))
        BY <1>2, <2>1
      <4>2. Len(s) \in Nat
        BY <1>1
      <4> QED
        <5>1. Same(s, more, Len(s))
          BY <3>1 DEF Same
        <5>2. Same(f, g, Len(s))
          BY <2>2, <3>1, <4>1, <4>2, <5>1, FlatPrefix
        <5> QED
          BY <5>2 DEF Same
  <2>4. f[Len(s)] = g[Len(s)]
    BY <1>1, <2>2, <2>3
  <2> QED
    BY <1>2, <1>3, <2>1, <2>2, <2>4 DEF more
<1> QED
  BY <1>4, <1>5

Associates(S) == \A a, b, c \in Seq(S) : (a \o b) \o c = a \o (b \o c)

LEMMA Associative == ASSUME NEW S PROVE Associates(S)
BY ConcatAssociative DEF Associates

LEMMA FlattenTail ==
    ASSUME NEW S, NEW s \in Seq(Seq(S)), s # <<>>
    PROVE  FlattenSeq(s) = Head(s) \o FlattenSeq(Tail(s))
<1> DEFINE rest == Tail(s)
           first == Head(s)
<1>1. first = s[1] /\ first \in Seq(S) /\ rest \in Seq(Seq(S)) /\ Len(rest) = Len(s) - 1
      /\ (\A i \in 1 .. Len(rest) : rest[i] = s[i + 1]) /\ Len(rest) \in Nat /\ Len(s) \in Nat
  BY HeadTailProperties
<1> HIDE DEF rest, first
<1>2. PICK f : Flat(f, s, Len(s)) /\ FlattenSeq(s) = f[Len(s)]
  BY FlatOf
<1>3. f[1] = first /\ \A i \in 2 .. Len(s) : f[i] = f[i - 1] \o s[i]
  <2>1. Len(s) \in Nat \ {0}
    BY EmptySeq
  <2>2. Len(s) \in Nat /\ 1 \in 1 .. Len(s)
    BY <2>1
  <2>3. \A i \in 1 .. Len(s) : f[i] = IF i = 1 THEN s[i] ELSE f[i - 1] \o s[i]
    <3>1. Flat(f, s, Len(s))
      BY <1>2
    <3>2. Len(s) \in Nat
      BY <2>2
    <3> QED
      BY <3>1, <3>2, FlatStep
  <2>4. f[1] = s[1]
    BY <2>2, <2>3
  <2>5. ASSUME NEW i \in 2 .. Len(s) PROVE f[i] = f[i - 1] \o s[i]
    <3>1. i \in 1 .. Len(s) /\ i # 1
      BY <2>2
    <3> QED
      BY <2>3, <3>1
  <2>6. s[1] = first
    BY <1>1
  <2> QED
    BY <2>4, <2>5, <2>6
<1>4. CASE rest = <<>>
  <2>1. Len(s) = 1
    BY <1>1, <1>4
  <2>2. first \o <<>> = first
    BY <1>1, ConcatEmptySeq
  <2> QED
    BY <1>2, <1>3, <1>4, <2>1, <2>2, FlattenType DEF rest, first
<1>5. CASE rest # <<>>
  <2>1. PICK g : Flat(g, rest, Len(rest)) /\ FlattenSeq(rest) = g[Len(rest)]
    BY <1>1, <1>5, FlatOf
  <2>2. \A i \in 1 .. Len(rest) : g[i] \in Seq(S)
    <3>1. Len(rest) <= Len(rest)
      BY <1>1
    <3> QED
      BY <1>1, <2>1, <3>1, FlatTypes
  <2> DEFINE T == {i \in 1 .. Len(rest) : f[i + 1] # first \o g[i]}
  <2>3. T = {}
    <3> SUFFICES ASSUME T # {} PROVE FALSE
      OBVIOUS
    <3>1. T \subseteq Nat
      OBVIOUS
    <3>2. PICK i \in T : \A j \in T : i <= j
      <4> HIDE DEF T
      <4> QED
        BY <3>1, LeastIn
    <3>0. i \in 1 .. Len(rest) /\ i \in Nat /\ Len(rest) \in Nat
      BY <1>1, <3>2
    <3>3. i \in 1 .. Len(rest) /\ f[i + 1] # first \o g[i] /\ (i # 1 => i - 1 \in 1 .. Len(rest) /\ i - 1 \notin T)
      <4>1. i # 1 => i - 1 \in 1 .. Len(rest) /\ ~ (i <= i - 1)
        BY <3>0
      <4> QED
        BY <3>2, <4>1
    <3>4. f[i + 1] = f[i] \o rest[i]
      <4>1. i + 1 \in 2 .. Len(s) /\ (i + 1) - 1 = i /\ rest[i] = s[i + 1]
        BY <1>1, <3>0
      <4>2. f[i + 1] = f[(i + 1) - 1] \o s[i + 1]
        BY <1>3, <4>1
      <4> QED
        BY <4>1, <4>2
    <3>5. g[i] = IF i = 1 THEN rest[i] ELSE g[i - 1] \o rest[i]
      BY <2>1, <3>3 DEF Flat
    <3>6. rest[i] \in Seq(S)
      BY <1>1, <3>3, ElementOfSeq
    <3>7. CASE i = 1
      BY <1>3, <3>3, <3>4, <3>5, <3>7
    <3>8. CASE i # 1
      <4>0. i - 1 \in 1 .. Len(rest) /\ (i - 1) + 1 = i
        BY <3>3, <3>8
      <4>1. f[(i - 1) + 1] = first \o g[i - 1]
        BY <3>3, <3>8, <4>0
      <4>2. g[i - 1] \in Seq(S)
        BY <2>2, <3>3, <3>8
      <4>3. (first \o g[i - 1]) \o rest[i] = first \o (g[i - 1] \o rest[i])
        <5>1. first \in Seq(S)
          BY <1>1
        <5> QED
          <6>1. Associates(S)
            BY Associative
          <6>2. \A b, c \in Seq(S) : (first \o b) \o c = first \o (b \o c)
            BY <5>1, <6>1, Zenon DEF Associates
          <6>3. \A c \in Seq(S) : (first \o g[i - 1]) \o c = first \o (g[i - 1] \o c)
            BY <4>2, <6>2, Zenon
          <6>4. rest[i] \in Seq(S)
            BY <3>6
          <6> HIDE DEF T
          <6> QED
            BY <6>4, <6>3, Zenon
      <4> QED
        BY <3>3, <3>4, <3>5, <3>8, <4>0, <4>1, <4>3
    <3> QED
      BY <3>7, <3>8
  <2>4. Len(rest) \in 1 .. Len(rest) /\ Len(rest) + 1 = Len(s)
    BY <1>1, <1>5, EmptySeq
  <2>5. f[Len(s)] = first \o g[Len(rest)]
    BY <2>3, <2>4
  <2> QED
    BY <1>2, <2>1, <2>5 DEF rest, first
<1> QED
  BY <1>4, <1>5
-----------------------------------------------------------------------------
(* What is left of a sequence behind its first elements.                    *)

\* What is left of f behind its first o elements.
Rest(f, o) == SubSeq(f, o + 1, Len(f))

LEMMA RestProperties ==
    ASSUME NEW S, NEW f \in Seq(S), NEW o \in Nat, o <= Len(f)
    PROVE  /\ Rest(f, o) \in Seq(S) /\ Len(Rest(f, o)) = Len(f) - o
           /\ \A i \in 1 .. Len(f) - o : Rest(f, o)[i] = f[o + i]
           /\ Len(f) \in Nat
<1>1. Len(f) \in Nat /\ o + 1 \in Int /\ Len(f) \in Int
  OBVIOUS
<1>2. \A i \in o + 1 .. Len(f) : f[i] \in S
  BY <1>1, ElementOfSeq
<1>3. /\ Rest(f, o) \in Seq(S)
      /\ Len(Rest(f, o)) = IF o + 1 <= Len(f) THEN Len(f) - (o + 1) + 1 ELSE 0
      /\ \A i \in 1 .. (Len(f) - (o + 1)) + 1 : Rest(f, o)[i] = f[(o + 1) + i - 1]
  BY <1>1, <1>2, SubSeqProperties DEF Rest
<1>4. \A i \in 1 .. Len(f) - o : i \in 1 .. (Len(f) - (o + 1)) + 1 /\ (o + 1) + i - 1 = o + i
  BY <1>1
<1> QED
  BY <1>1, <1>3, <1>4

LEMMA TakeProperties ==
    ASSUME NEW S, NEW f \in Seq(S), NEW n \in Nat, n <= Len(f)
    PROVE  /\ SubSeq(f, 1, n) \in Seq(S) /\ Len(SubSeq(f, 1, n)) = n
           /\ \A i \in 1 .. n : SubSeq(f, 1, n)[i] = f[i]
<1>1. Len(f) \in Nat /\ n \in Int /\ 1 \in Int
  OBVIOUS
<1>2. \A i \in 1 .. n : f[i] \in S
  BY <1>1, ElementOfSeq
<1>3. /\ SubSeq(f, 1, n) \in Seq(S)
      /\ Len(SubSeq(f, 1, n)) = IF 1 <= n THEN n - 1 + 1 ELSE 0
      /\ \A i \in 1 .. n - 1 + 1 : SubSeq(f, 1, n)[i] = f[1 + i - 1]
  BY <1>1, <1>2, SubSeqProperties
<1>4. \A i \in 1 .. n : i \in 1 .. n - 1 + 1 /\ 1 + i - 1 = i
  BY <1>1
<1> QED
  BY <1>1, <1>3, <1>4

LEMMA RestOfFirst ==
    ASSUME NEW S, NEW h \in Seq(S), NEW r \in Seq(S)
    PROVE  Rest(h \o r, Len(h)) = r
<1>1. Len(h) \in Nat /\ Len(r) \in Nat
  OBVIOUS
<1> DEFINE f == h \o r
<1>2. /\ f \in Seq(S) /\ Len(f) = Len(h) + Len(r)
      /\ \A i \in 1 .. Len(h) + Len(r) : f[i] = IF i <= Len(h) THEN h[i] ELSE r[i - Len(h)]
  BY ConcatProperties
<1> HIDE DEF f
<1>3. /\ Rest(f, Len(h)) \in Seq(S) /\ Len(Rest(f, Len(h))) = Len(r)
      /\ \A i \in 1 .. Len(r) : Rest(f, Len(h))[i] = f[Len(h) + i]
  <2>1. f \in Seq(S) /\ Len(h) \in Nat /\ Len(h) <= Len(f) /\ Len(f) - Len(h) = Len(r)
    BY <1>1, <1>2
  <2>2. /\ Rest(f, Len(h)) \in Seq(S) /\ Len(Rest(f, Len(h))) = Len(f) - Len(h)
        /\ \A i \in 1 .. Len(f) - Len(h) : Rest(f, Len(h))[i] = f[Len(h) + i]
    BY <2>1, RestProperties
  <2> QED
    BY <2>1, <2>2
<1>4. \A i \in 1 .. Len(r) : f[Len(h) + i] = r[i]
  <2> TAKE i \in 1 .. Len(r)
  <2>1. Len(h) + i \in 1 .. Len(h) + Len(r) /\ ~ (Len(h) + i <= Len(h)) /\ (Len(h) + i) - Len(h) = i
    BY <1>1
  <2> QED
    BY <1>2, <2>1
<1>5. Rest(f, Len(h)) = r
  BY <1>3, <1>4, SeqEqual
<1> QED
  BY <1>5 DEF f

LEMMA RestAppended ==
    ASSUME NEW S, NEW f \in Seq(S), NEW b \in Seq(S), NEW o \in Nat, o <= Len(f)
    PROVE  Rest(f \o b, o) = Rest(f, o) \o b
<1>1. Len(f) \in Nat /\ Len(b) \in Nat
  OBVIOUS
<1> DEFINE w == f \o b
           r == Rest(f, o)
           q == r \o b
<1>2. /\ w \in Seq(S) /\ Len(w) = Len(f) + Len(b)
      /\ \A i \in 1 .. Len(f) + Len(b) : w[i] = IF i <= Len(f) THEN f[i] ELSE b[i - Len(f)]
  BY ConcatProperties
<1>3. /\ r \in Seq(S) /\ Len(r) = Len(f) - o
      /\ \A i \in 1 .. Len(f) - o : r[i] = f[o + i]
  BY RestProperties
<1> HIDE DEF w, r
<1>4. /\ q \in Seq(S) /\ Len(q) = Len(r) + Len(b)
      /\ \A i \in 1 .. Len(r) + Len(b) : q[i] = IF i <= Len(r) THEN r[i] ELSE b[i - Len(r)]
  BY <1>3, ConcatProperties
<1> HIDE DEF q
<1>5. /\ Rest(w, o) \in Seq(S) /\ Len(Rest(w, o)) = Len(w) - o
      /\ \A i \in 1 .. Len(w) - o : Rest(w, o)[i] = w[o + i]
  <2>1. w \in Seq(S) /\ o <= Len(w)
    BY <1>1, <1>2
  <2> QED
    BY <2>1, RestProperties
<1>6. Len(Rest(w, o)) = Len(q) /\ Len(q) = (Len(f) - o) + Len(b)
  BY <1>1, <1>2, <1>3, <1>4, <1>5
<1>7. \A i \in 1 .. Len(q) : Rest(w, o)[i] = q[i]
  <2> TAKE i \in 1 .. Len(q)
  <2>1. i \in 1 .. Len(w) - o /\ o + i \in 1 .. Len(f) + Len(b) /\ i \in 1 .. Len(r) + Len(b)
    BY <1>1, <1>2, <1>3, <1>6
  <2>2. CASE i <= Len(r)
    <3>1. o + i <= Len(f) /\ i \in 1 .. Len(f) - o
      BY <1>1, <1>3, <2>1, <2>2
    <3> QED
      BY <1>2, <1>3, <1>4, <1>5, <2>1, <2>2, <3>1
  <2>3. CASE ~ (i <= Len(r))
    <3>1. ~ (o + i <= Len(f)) /\ (o + i) - Len(f) = i - Len(r)
      BY <1>1, <1>3, <2>1, <2>3
    <3> QED
      BY <1>2, <1>4, <1>5, <2>1, <2>3, <3>1
  <2> QED
    BY <2>2, <2>3
<1>8. Rest(w, o) = q
  BY <1>4, <1>5, <1>6, <1>7, SeqEqual
<1> QED
  BY <1>8 DEF w, q, r

LEMMA RestSplit ==
    ASSUME NEW S, NEW f \in Seq(S), NEW o \in Nat, NEW n \in Nat, o + n <= Len(f)
    PROVE  SubSeq(Rest(f, o), 1, n) \o Rest(f, o + n) = Rest(f, o)
<1>1. Len(f) \in Nat /\ o <= Len(f)
  OBVIOUS
<1> DEFINE w == Rest(f, o)
           a == SubSeq(w, 1, n)
           b == Rest(f, o + n)
           q == a \o b
<1>2. /\ w \in Seq(S) /\ Len(w) = Len(f) - o
      /\ \A i \in 1 .. Len(f) - o : w[i] = f[o + i]
  BY <1>1, RestProperties
<1>3. /\ b \in Seq(S) /\ Len(b) = Len(f) - (o + n)
      /\ \A i \in 1 .. Len(f) - (o + n) : b[i] = f[(o + n) + i]
  BY <1>1, RestProperties
<1> HIDE DEF w, b
<1>4. n <= Len(w)
  BY <1>1, <1>2
<1>5. a \in Seq(S) /\ Len(a) = n /\ \A i \in 1 .. n : a[i] = w[i]
  BY <1>2, <1>4, TakeProperties
<1> HIDE DEF a
<1>6. /\ q \in Seq(S) /\ Len(q) = Len(a) + Len(b)
      /\ \A i \in 1 .. Len(a) + Len(b) : q[i] = IF i <= Len(a) THEN a[i] ELSE b[i - Len(a)]
  <2>1. a \in Seq(S) /\ b \in Seq(S)
    BY <1>3, <1>5
  <2> QED
    BY <2>1, ConcatProperties
<1> HIDE DEF q
<1>7. Len(q) = Len(w)
  BY <1>1, <1>2, <1>3, <1>5, <1>6
<1>8. \A i \in 1 .. Len(q) : q[i] = w[i]
  <2> TAKE i \in 1 .. Len(q)
  <2>1. i \in 1 .. Len(f) - o /\ i \in 1 .. Len(a) + Len(b)
    BY <1>1, <1>2, <1>6, <1>7
  <2>2. CASE i <= n
    <3>1. i \in 1 .. n
      BY <2>1, <2>2
    <3> QED
      BY <1>5, <1>6, <2>1, <2>2, <3>1
  <2>3. CASE ~ (i <= n)
    <3>1. i - n \in 1 .. Len(f) - (o + n) /\ (o + n) + (i - n) = o + i
      BY <1>1, <2>1, <2>3
    <3>2. q[i] = b[i - n]
      BY <1>5, <1>6, <2>1, <2>3
    <3>3. b[i - n] = f[o + i]
      BY <1>3, <3>1
    <3> QED
      BY <1>2, <2>1, <3>2, <3>3
  <2> QED
    BY <2>2, <2>3
<1>9. q = w
  BY <1>2, <1>6, <1>7, <1>8, SeqEqual
<1> QED
  BY <1>9 DEF q, a, b, w
-----------------------------------------------------------------------------
(* What was read and what is still in the list is what was put into it.     *)

\* The parser walks along the list of its handle, and only under the lock: as long
\* as nothing is cut off meanwhile, it stands on a packet of the list, in the end
\* on the last one.
OnList ==
    /\ ppc = "head" => lock = "parser" /\ list # <<>>
    /\ ppc = "walk" => lock = "parser" /\ list # <<>> /\ \E k \in 1 .. Len(list) : list[k] = tailOf
    /\ ppc = "link" /\ tailOf # <<>> => lock = "parser" /\ list # <<>> /\ list[Len(list)] = tailOf

Walking ==
    /\ gen \in Nat /\ ph \in Nat /\ ph <= gen
    /\ ppc \in {"idle", "err", "closed", "recv"} => tailOf = <<>>
    /\ Mine /\ ~ raced => OnList

\* A packet is cut when all of it has been copied, and whether it is the last one
\* is known unless the parser has linked another one since.
Stream ==
    /\ given \in Seq(Nat) /\ got \in Seq(Nat)
    /\ upc = "cut" => offset = Len(list[1]) /\ (last \/ Len(list) > 1)
    /\ upc = "cut" /\ last /\ ~ raced => Len(list) = 1
    /\ StreamKept

LEMMA WalkingInit == Init => Walking
BY DEF Init, Walking, Mine

LEMMA WalkStays == ASSUME Types, Walking, Walk PROVE Walking'
<1>1. /\ ppc = "walk" /\ UNCHANGED <<gen, alive, ph, list, lock, raced>>
  BY DEF Walk, handle, packets
<1>2. \/ ppc' = "walk" /\ \E k \in 1 .. Len(list) - 1 : list[k] = tailOf /\ tailOf' = list[k + 1]
      \/ /\ ppc' = "link" /\ tailOf' = tailOf
         /\ \A k \in 1 .. Len(list) - 1 : list[k] # tailOf
  BY <1>1 DEF Walk
<1>3. SUFFICES ASSUME Mine, ~ raced PROVE OnList'
  BY <1>1, <1>2 DEF Walking, Mine
<1>4. lock = "parser" /\ list # <<>> /\ Len(list) \in Nat /\ \E k \in 1 .. Len(list) : list[k] = tailOf
  BY <1>1, <1>3 DEF Walking, OnList, Types, ListTypes
<1>5. CASE ppc' = "walk"
  <2>1. PICK k \in 1 .. Len(list) - 1 : tailOf' = list[k + 1]
    BY <1>2, <1>5
  <2>2. k + 1 \in 1 .. Len(list)
    BY <1>4
  <2>3. \E i \in 1 .. Len(list') : list'[i] = tailOf'
    BY <1>1, <2>1, <2>2
  <2> QED
    BY <1>1, <1>4, <1>5, <2>3 DEF OnList
<1>6. CASE ppc' = "link"
  <2>1. PICK k \in 1 .. Len(list) : list[k] = tailOf
    BY <1>4
  <2>2. tailOf' = tailOf /\ k \notin 1 .. Len(list) - 1
    BY <1>2, <1>6, <2>1
  <2>3. k = Len(list)
    BY <1>4, <2>2
  <2> QED
    BY <1>1, <1>4, <1>6, <2>1, <2>2, <2>3 DEF OnList
<1> QED
  BY <1>2, <1>5, <1>6

LEMMA WalkingNext == ASSUME Types, Walking, [Next]_vars PROVE Walking'
<1>1. CASE TestHead
  <2>1. /\ ppc = "recv" /\ lock' = "parser" /\ UNCHANGED <<gen, alive, ph, list, raced, tailOf>>
        /\ ppc' = IF Mine /\ list # <<>> THEN "head" ELSE "link"
    BY <1>1 DEF TestHead, handle
  <2> QED
    BY <2>1 DEF Walking, OnList, Mine
<1>2. CASE LoadHead
  <2>1. /\ ppc = "head" /\ ppc' = "walk" /\ UNCHANGED <<gen, alive, ph, list, lock, raced>>
        /\ Mine /\ list # <<>> => tailOf' = list[1]
    BY <1>2 DEF LoadHead, handle, packets
  <2>2. list # <<>> => 1 \in 1 .. Len(list)
    BY EmptySeq DEF Types, ListTypes
  <2>3. SUFFICES ASSUME Mine, ~ raced PROVE OnList'
    BY <2>1 DEF Walking, Mine
  <2>4. lock = "parser" /\ list # <<>>
    BY <2>1, <2>3 DEF Walking, OnList
  <2>5. \E k \in 1 .. Len(list') : list'[k] = tailOf'
    BY <2>1, <2>2, <2>3, <2>4
  <2> QED
    BY <2>1, <2>4, <2>5 DEF OnList
<1>3. CASE Link \/ SetErr \/ SetClosing
  <2>1. ppc' = "post" /\ UNCHANGED <<gen, alive, ph>>
    BY <1>3 DEF Link, SetErr, SetClosing, handle
  <2>2. gen \in Nat /\ ph \in Nat /\ ph <= gen
    BY DEF Walking
  <2> QED
    BY <2>1, <2>2 DEF Walking, OnList
<1>4. CASE PostUrc
  <2>1. ppc' = "idle" /\ ph' = 0 /\ tailOf' = <<>> /\ UNCHANGED gen
    BY <1>4 DEF PostUrc, handle
  <2> QED
    BY <2>1 DEF Walking, OnList, Mine
<1>5. CASE FindHandle
  <2>1. UNCHANGED <<gen, alive, tailOf, list, lock, raced>> /\ ppc = "idle"
    BY <1>5 DEF FindHandle, handle, packets
  <2>2. Head(wire) \in Lines /\ Head(wire) # Ok
    BY <1>5, HeadAndTail DEF FindHandle, Types, WireTypes
  <2>3. Head(wire).line \in Kinds
    BY <2>2 DEF Lines
  <2>4. (UNCHANGED <<ppc, ph>>) \/ (ph' = gen /\ ppc' \in {"err", "recv", "closed"})
    BY <1>5, <2>3 DEF FindHandle, Kinds
  <2> QED
    BY <2>1, <2>4 DEF Walking, OnList, Mine
<1>6. CASE NewSocket
  <2>1. gen' = gen + 1 /\ UNCHANGED <<ppc, ph, tailOf>>
    BY <1>6 DEF NewSocket, parser
  <2> QED
    BY <2>1 DEF Walking, Mine
<1>7. CASE FreeHandle
  <2>1. alive' = FALSE /\ UNCHANGED <<gen, ppc, ph, tailOf>>
    BY <1>7 DEF FreeHandle, parser
  <2> QED
    BY <2>1 DEF Walking, Mine
<1>8. CASE Cut
  <2>1. /\ UNCHANGED <<gen, alive, lock, ppc, ph, tailOf>>
        /\ raced' = (raced \/ lock = "parser")
    BY <1>8 DEF Cut, handle, parser
  <2>2. ASSUME Mine, ~ raced' PROVE OnList'
    <3>1. ~ raced /\ lock # "parser"
      BY <2>1, <2>2
    <3> QED
      BY <2>1, <2>2, <3>1 DEF Walking, OnList
  <2> QED
    BY <2>1, <2>2 DEF Walking, Mine
<1>9. ASSUME UNCHANGED <<gen, alive, list, lock, raced, ppc, ph, tailOf>> PROVE Walking'
  BY <1>9 DEF Walking, OnList, Mine
<1>10. CASE Module \/ ReadOk \/ UNCHANGED vars
  BY <1>9, <1>10 DEF Module, Opened, Data, PeerCloses, ReadOk, vars, handle, packets, parser
<1>11. CASE Connect \/ Close \/ ConnectFails \/ ConnectSent \/ Connected \/ ConnectTimesOut
  BY <1>9, <1>11 DEF Connect, Close, ConnectFails, ConnectSent, Connected, ConnectTimesOut, handle,
     packets, parser
<1>12. CASE \/ Peek \/ Empty \/ Woken \/ RecvFails \/ CloseSent \/ ReleaseFd \/ Copy
            \/ \E n \in Wants : Recv(n)
  BY <1>9, <1>12 DEF Peek, Empty, Woken, RecvFails, CloseSent, ReleaseFd, Copy, Recv, handle,
     packets, parser
<1> QED
  BY <1>1, <1>2, <1>3, <1>4, <1>5, <1>6, <1>7, <1>8, <1>10, <1>11, <1>12, WalkStays
     DEF Next, Parser, FindLast, Calls, Task

LEMMA OneOrMore == \A k \in Nat \ {0} : k = 1 \/ k > 1
OBVIOUS

LEMMA UnreadIsRest == Unread = Rest(FlattenSeq(list), offset)
BY DEF Unread, Rest

LEMMA ListStarts ==
    ASSUME ListTypes, list # <<>>
    PROVE  /\ list[1] \in Seq(Nat) /\ FlattenSeq(Tail(list)) \in Seq(Nat)
           /\ FlattenSeq(list) = list[1] \o FlattenSeq(Tail(list))
           /\ offset <= Len(list[1])
<1>1. list \in Seq(Seq(Nat)) /\ offset <= Len(list[1])
  BY DEF ListTypes
<1>2. Tail(list) \in Seq(Seq(Nat)) /\ Head(list) = list[1] /\ list[1] \in Seq(Nat)
  BY <1>1, HeadTailProperties
<1>3. FlattenSeq(Tail(list)) \in Seq(Nat)
  BY <1>2, FlattenType
<1>4. FlattenSeq(list) = Head(list) \o FlattenSeq(Tail(list))
  BY <1>1, FlattenTail
<1> QED
  BY <1>1, <1>2, <1>3, <1>4

LEMMA OffsetInList ==
    ASSUME ListTypes
    PROVE  /\ FlattenSeq(list) \in Seq(Nat) /\ offset \in Nat
           /\ offset <= Len(FlattenSeq(list)) /\ Len(FlattenSeq(list)) \in Nat
<1>1. FlattenSeq(list) \in Seq(Nat) /\ offset \in Nat /\ Len(FlattenSeq(list)) \in Nat
  <2>1. list \in Seq(Seq(Nat)) /\ offset \in Nat
    BY DEF ListTypes
  <2>2. FlattenSeq(list) \in Seq(Nat)
    BY <2>1, FlattenType
  <2> HIDE DEF ListTypes
  <2> QED
    BY <2>1, <2>2
<1>2. CASE list = <<>>
  <2>1. offset = 0
    BY <1>2 DEF ListTypes
  <2> QED
    BY <1>1, <2>1
<1>3. CASE list # <<>>
  <2> DEFINE b == FlattenSeq(Tail(list))
             a == list[1]
             c == FlattenSeq(list)
  <2>1. a \in Seq(Nat) /\ b \in Seq(Nat) /\ c = a \o b /\ offset <= Len(a)
    BY <1>3, ListStarts
  <2> HIDE DEF a, b, c
  <2>2. Len(c) = Len(a) + Len(b) /\ Len(a) \in Nat /\ Len(b) \in Nat
    BY <2>1, ConcatProperties
  <2>3. offset <= Len(c)
    BY <1>1, <2>1, <2>2
  <2> QED
    BY <1>1, <2>3 DEF c
<1> QED
  BY <1>2, <1>3

LEMMA StreamInit == Init => Stream
<1>1. <<>> \in Seq(Nat)
  BY EmptySeq
<1> QED
  BY <1>1 DEF Init, Stream, StreamKept

LEMMA LinkStream == ASSUME Types, Walking, Stream, Link PROVE Stream'
<1>1. urc.bytes \in Seq(Nat)
  <2>1. Ok.bytes \in Seq(Nat)
    BY DEF Ok
  <2> QED
    BY <2>1 DEF Types, WireTypes, Lines
<1>2. UNCHANGED <<upc, last, offset, got, alive>>
  BY DEF Link, handle, task
<1> DEFINE kept == list' = list /\ (raced' \/ (given' = given /\ (raced => raced')))
           added == /\ list' = Append(list, urc.bytes) /\ given' = given \o urc.bytes
                    /\ raced => raced'
           lost == tailOf # <<>> /\ (list = <<>> \/ list[Len(list)] # tailOf)
<1>3. kept \/ added
  <2>1. CASE Mine
    <3>1. /\ list' = IF lost THEN list ELSE Append(list, urc.bytes)
          /\ given' = given \o urc.bytes
          /\ raced' = (raced \/ (upc = "cut" /\ last))
      BY <2>1 DEF Link
    <3>3. lost => raced
      BY <2>1 DEF Walking, OnList, Link
    <3> HIDE DEF lost
    <3>2. (lost => raced') /\ (raced => raced')
      BY <3>1, <3>3, Zenon
    <3> QED
      BY <3>1, <3>2
  <2>2. CASE ~ Mine
    <3>1. UNCHANGED <<list, given, raced>>
      BY <2>2 DEF Link
    <3> QED
      BY <3>1
  <2> QED
    BY <2>1, <2>2
<1> HIDE DEF lost
<1>4. given' \in Seq(Nat) /\ got' \in Seq(Nat)
  <2>1. given' = given \/ given' = given \o urc.bytes
    BY DEF Link
  <2>2. given \in Seq(Nat) /\ got \in Seq(Nat)
    BY DEF Stream
  <2> QED
    BY <1>1, <1>2, <2>1, <2>2, ConcatProperties
<1>5. (upc = "cut" => offset = Len(list[1]) /\ (last \/ Len(list) > 1))'
  <2>1. SUFFICES ASSUME upc = "cut" PROVE (offset = Len(list[1]) /\ (last \/ Len(list) > 1))'
    BY <1>2
  <2>2. offset = Len(list[1]) /\ (last \/ Len(list) > 1) /\ list # <<>> /\ list \in Seq(Seq(Nat))
    BY <2>1 DEF Stream, Types, ListTypes
  <2>3. list' = list \/ list' = Append(list, urc.bytes)
    BY DEF Link
  <2>4. CASE list' = Append(list, urc.bytes)
    <3>1. list'[1] = list[1]
      BY <1>1, <2>2, <2>4, AppendOne
    <3>2. Len(list') = Len(list) + 1 /\ Len(list) \in Nat
      BY <1>1, <2>2, <2>4
    <3>3. Len(list) > 1 => Len(list') > 1
      BY <3>2
    <3> QED
      BY <1>2, <2>2, <3>1, <3>3
  <2> QED
    BY <1>2, <2>2, <2>3, <2>4
<1>7. (upc = "cut" /\ last /\ ~ raced => Len(list) = 1)'
  <2>1. SUFFICES ASSUME upc = "cut", last, ~ raced' PROVE Len(list') = 1
    BY <1>2
  <2>2. ~ Mine
    <3>1. Mine => raced' = (raced \/ (upc = "cut" /\ last))
      BY DEF Link
    <3> QED
      BY <2>1, <3>1, Zenon
  <2>3. list' = list /\ raced' = raced
    BY <2>2 DEF Link
  <2> QED
    BY <2>1, <2>3 DEF Stream
<1>6. StreamKept'
  <2>1. SUFFICES ASSUME alive, ~ raced' PROVE (got \o Unread)' = given'
    BY <1>2 DEF StreamKept
  <2>2. ~ raced
    BY <1>3, <2>1
  <2>3. got \o Unread = given
    BY <2>1, <2>2 DEF Stream, StreamKept
  <2>4. CASE kept
    <3>1. given' = given /\ list' = list
      BY <2>1, <2>4
    <3> QED
      BY <1>2, <2>3, <3>1 DEF Unread
  <2>5. CASE added
    <3> DEFINE b == urc.bytes
               f == FlattenSeq(list)
               r == Rest(f, offset)
    <3>1. b \in Seq(Nat) /\ given' = given \o b /\ list' = Append(list, b)
      BY <1>1, <2>5
    <3>2. f \in Seq(Nat) /\ offset \in Nat /\ offset <= Len(f)
      BY OffsetInList DEF Types
    <3>3. FlattenSeq(Append(list, b)) = f \o b
      BY <3>1, FlattenAppend DEF Types, ListTypes
    <3>4. Unread = r
      BY UnreadIsRest
    <3>5. Unread' = Rest(FlattenSeq(list'), offset')
      BY DEF Unread, Rest
    <3>6. r \in Seq(Nat)
      <4> HIDE DEF f
      <4> QED
        BY <3>2, RestProperties
    <3> HIDE DEF f, b
    <3>7. Rest(f \o b, offset) = r \o b
      BY <3>1, <3>2, RestAppended
    <3>8. Unread' = r \o b
      BY <1>2, <3>1, <3>3, <3>5, <3>7, Zenon
    <3> HIDE DEF r
    <3>9. got \in Seq(Nat)
      BY DEF Stream
    <3>10. (got \o r) \o b = got \o (r \o b)
      <4>1. Associates(Nat)
        BY Associative
      <4> QED
        BY <3>1, <3>6, <3>9, <4>1 DEF Associates
    <3> QED
      BY <1>2, <2>3, <3>1, <3>4, <3>8, <3>10
  <2> QED
    BY <1>3, <2>4, <2>5
<1> QED
  BY <1>4, <1>5, <1>6, <1>7 DEF Stream

LEMMA CopyStream == ASSUME Types, Stream, Copy PROVE Stream'
<1> DEFINE n == IF Len(Left) < want THEN Len(Left) ELSE want
           f == FlattenSeq(list)
           a == list[1]
           z == FlattenSeq(Tail(list))
<1>1. list # <<>> /\ want \in Nat /\ offset \in Nat
  BY DEF Types, ListTypes, Copy
<1>2. a \in Seq(Nat) /\ z \in Seq(Nat) /\ f = a \o z /\ offset <= Len(a)
  BY <1>1, ListStarts DEF Types
<1>3. Left = Rest(a, offset)
  BY DEF Left, Rest
<1>4. /\ got' = got \o SubSeq(Left, 1, n)
      /\ offset' = offset + n /\ last' = (Len(list) = 1)
      /\ upc' = IF n = Len(Left) THEN "cut" ELSE "ready"
      /\ UNCHANGED <<list, given, raced, alive>>
  BY DEF Copy, handle
<1> HIDE DEF a, z, f
<1>5. Left \in Seq(Nat) /\ Len(Left) = Len(a) - offset /\ Len(a) \in Nat /\ Len(Left) \in Nat
  BY <1>1, <1>2, <1>3, RestProperties
<1>6. n \in Nat /\ n <= Len(Left) /\ offset + n \in Nat /\ offset + n <= Len(a)
  BY <1>1, <1>5
<1> HIDE DEF n
<1>7. SubSeq(Left, 1, n) \in Seq(Nat)
  BY <1>5, <1>6, TakeProperties
<1>8. got \in Seq(Nat) /\ given \in Seq(Nat)
  BY DEF Stream
<1>9. got' \in Seq(Nat) /\ given' \in Seq(Nat)
  BY <1>4, <1>7, <1>8, ConcatProperties
<1>10. (upc = "cut" => offset = Len(list[1]) /\ (last \/ Len(list) > 1))'
  <2>1. SUFFICES ASSUME n = Len(Left) PROVE (offset = Len(list[1]) /\ (last \/ Len(list) > 1))'
    BY <1>4
  <2>2. offset' = Len(a)
    BY <1>1, <1>4, <1>5, <2>1
  <2>3. Len(list) \in Nat \ {0}
    BY <1>1, EmptySeq DEF Types, ListTypes
  <2>4. last' \/ Len(list) > 1
    <3>1. Len(list) = 1 \/ Len(list) > 1
      BY <2>3, OneOrMore
    <3> QED
      BY <1>4, <3>1
  <2>5. list' = list
    BY <1>4
  <2> QED
    BY <2>2, <2>4, <2>5 DEF a
<1>11. StreamKept'
  <2>1. SUFFICES ASSUME alive, ~ raced PROVE (got \o Unread)' = given
    BY <1>4 DEF StreamKept
  <2>2. got \o Unread = given
    BY <2>1 DEF Stream, StreamKept
  <2>3. Unread = Rest(f, offset)
    BY UnreadIsRest DEF f
  <2>4. Unread' = Rest(f, offset + n)
    BY <1>4 DEF Unread, Rest, f
  <2>5. f \in Seq(Nat) /\ offset + n <= Len(f) /\ Len(f) = Len(a) + Len(z) /\ Len(z) \in Nat
    <3>1. f \in Seq(Nat) /\ Len(f) = Len(a) + Len(z) /\ Len(z) \in Nat
      BY <1>2, ConcatProperties
    <3> QED
      BY <1>5, <1>6, <3>1
  <2>6. Rest(f, offset) = Left \o z
    BY <1>1, <1>2, <1>3, RestAppended
  <2> DEFINE c == SubSeq(Left, 1, n)
             r == Rest(f, offset + n)
             w == Rest(f, offset)
  <2>7. SubSeq(w, 1, n) \o r = w
    BY <1>1, <1>6, <2>5, RestSplit
  <2>8. SubSeq(w, 1, n) = c
    <3>1. w \in Seq(Nat) /\ Len(w) = Len(Left) + Len(z)
          /\ \A i \in 1 .. Len(Left) + Len(z) : w[i] = IF i <= Len(Left) THEN Left[i] ELSE z[i - Len(Left)]
      <4>1. Left \in Seq(Nat) /\ z \in Seq(Nat)
        BY <1>2, <1>5
      <4> QED
        BY <2>6, <4>1, ConcatProperties
    <3> HIDE DEF w
    <3>2. n <= Len(w)
      BY <1>5, <1>6, <2>5, <3>1
    <3>3. /\ SubSeq(w, 1, n) \in Seq(Nat) /\ Len(SubSeq(w, 1, n)) = n
          /\ \A i \in 1 .. n : SubSeq(w, 1, n)[i] = w[i]
      BY <1>6, <3>1, <3>2, TakeProperties
    <3>4. c \in Seq(Nat) /\ Len(c) = n /\ \A i \in 1 .. n : c[i] = Left[i]
      BY <1>5, <1>6, TakeProperties
    <3>5. \A i \in 1 .. n : w[i] = Left[i]
      BY <1>5, <1>6, <2>5, <3>1
    <3> QED
      BY <3>3, <3>4, <3>5, SeqEqual
  <2>9. r \in Seq(Nat) /\ c \in Seq(Nat)
    <3>1. Rest(f, offset + n) \in Seq(Nat)
      BY <1>6, <2>5, RestProperties
    <3> QED
      BY <1>7, <3>1
  <2>10. c \o r = w
    BY <2>7, <2>8, Zenon
  <2> HIDE DEF c, r, w
  <2>11. (got \o c) \o r = got \o (c \o r)
    <3>1. Associates(Nat)
      BY Associative
    <3> QED
      BY <1>8, <2>9, <3>1 DEF Associates
  <2>12. got' = got \o c /\ Unread' = r /\ Unread = w
    BY <1>4, <2>3, <2>4 DEF c, r, w
  <2> QED
    BY <2>2, <2>10, <2>11, <2>12
<1>12. (upc = "cut" /\ last /\ ~ raced => Len(list) = 1)'
  BY Zenon DEF Copy
<1> QED
  BY <1>9, <1>10, <1>11, <1>12 DEF Stream

LEMMA CutStream == ASSUME Types, Stream, Cut PROVE Stream'
<1> DEFINE a == list[1]
           z == FlattenSeq(Tail(list))
<1>1. /\ list # <<>> /\ offset = Len(a) /\ (last \/ Len(list) > 1)
      /\ list \in Seq(Seq(Nat)) /\ Len(list) \in Nat \ {0}
  BY EmptySeq DEF Types, ListTypes, Cut, Stream
<1>2. a \in Seq(Nat) /\ z \in Seq(Nat) /\ FlattenSeq(list) = a \o z
  BY <1>1, ListStarts DEF Types
<1>3. UNCHANGED <<alive, given, got>> /\ upc' # "cut" /\ offset' = 0
      /\ raced' = (raced \/ lock = "parser")
      /\ list' = IF last THEN <<>> ELSE Tail(list)
  BY DEF Cut, handle
<1>4. StreamKept'
  <2>1. SUFFICES ASSUME alive, ~ raced PROVE (got \o Unread)' = given
    BY <1>3 DEF StreamKept
  <2>2. got \o Unread = given
    BY <2>1 DEF Stream, StreamKept
  <2>3. list' = Tail(list)
    <3>1. CASE last
      <4>1. Len(list) = 1
        BY <2>1, <3>1 DEF Stream, Cut
      <4>2. Len(Tail(list)) = 0 /\ Tail(list) \in Seq(Seq(Nat))
        BY <1>1, <4>1, HeadTailProperties
      <4>3. Tail(list) = <<>>
        BY <4>2, EmptySeq
      <4> QED
        BY <1>3, <3>1, <4>3
    <3> QED
      BY <1>3, <3>1
  <2>4. Unread' = Rest(z, 0)
    BY <1>3, <2>3 DEF Unread, Rest
  <2>5. Rest(z, 0) = z
    <3> HIDE DEF z
    <3>1. SubSeq(z, 1, Len(z)) = z
      BY <1>2, SubSeqFull
    <3> QED
      BY <3>1 DEF Rest
  <2>6. Unread = Rest(a \o z, Len(a))
    BY <1>1, <1>2, UnreadIsRest
  <2> HIDE DEF a, z
  <2>7. Rest(a \o z, Len(a)) = z
    BY <1>2, RestOfFirst
  <2> QED
    BY <1>3, <2>2, <2>4, <2>5, <2>6, <2>7
<1> QED
  BY <1>3, <1>4 DEF Stream

LEMMA StreamNext == ASSUME Types, Walking, Stream, [Next]_vars PROVE Stream'
<1>1. CASE NewSocket
  <2>1. <<>> \in Seq(Nat)
    BY EmptySeq
  <2>2. list' = <<>> /\ offset' = 0 /\ given' = <<>> /\ got' = <<>> /\ upc' = "open"
    BY <1>1 DEF NewSocket
  <2>3. Unread' = Rest(FlattenSeq(<<>>), 0)
    BY <2>2 DEF Unread, Rest
  <2>4. Unread' = <<>>
    <3>1. FlattenSeq(<<>>) = <<>>
      BY DEF FlattenSeq
    <3>2. SubSeq(<<>>, 1, Len(<<>>)) = <<>>
      BY <2>1, SubSeqFull
    <3> QED
      BY <2>3, <3>1, <3>2 DEF Rest
  <2>5. <<>> \o <<>> = <<>>
    BY <2>1, ConcatEmptySeq
  <2> QED
    BY <2>1, <2>2, <2>4, <2>5 DEF Stream, StreamKept
<1>2. CASE FreeHandle
  BY <1>2 DEF FreeHandle, Stream, StreamKept
<1>3. ASSUME UNCHANGED <<list, offset, given, got, raced, alive, last>>, upc' # "cut" \/ UNCHANGED upc
      PROVE  Stream'
  BY <1>3 DEF Stream, StreamKept, Unread
<1>4. CASE \/ Module \/ ReadOk \/ FindHandle \/ SetErr \/ SetClosing \/ FindLast \/ PostUrc
           \/ UNCHANGED vars
  BY <1>3, <1>4 DEF Module, Opened, Data, PeerCloses, ReadOk, FindHandle, SetErr, SetClosing,
     FindLast, TestHead, LoadHead, Walk, PostUrc, vars, handle, packets, task
<1>5. CASE \/ Connect \/ Close \/ ConnectFails \/ ConnectSent \/ Connected \/ ConnectTimesOut
  BY <1>3, <1>5 DEF Connect, Close, ConnectFails, ConnectSent, Connected, ConnectTimesOut, handle,
     packets
<1>6. CASE \/ Peek \/ Empty \/ Woken \/ RecvFails \/ CloseSent \/ ReleaseFd
           \/ \E n \in Wants : Recv(n)
  BY <1>3, <1>6 DEF Peek, Empty, Woken, RecvFails, CloseSent, ReleaseFd, Recv, handle, packets
<1> QED
  BY <1>1, <1>2, <1>4, <1>5, <1>6, LinkStream, CopyStream, CutStream
     DEF Next, Parser, Calls, Task

\* What was read from a socket and what is still in its list are what the parser
\* put into the list, in order, unless ql_recvfrom took a packet off it while the
\* parser was adding one: for packets and reads of any length and any number of them.
THEOREM StreamCorrect == Spec => []StreamKept
<1>1. Types /\ Walking /\ [Next]_vars => Walking'
  BY WalkingNext
<1>2. Types /\ Walking /\ Stream /\ [Next]_vars => Stream'
  BY StreamNext
<1>3. Stream => StreamKept
  BY DEF Stream
<1> QED
  BY <1>1, <1>2, <1>3, TypesAlways, WalkingInit, StreamInit, PTL DEF Spec

-----------------------------------------------------------------------------
(* Places in a buffer that is used in a circle.                              *)

LEMMA Wrap ==
    ASSUME NEW R \in Nat \ {0}, NEW a \in 0 .. R - 1, NEW b \in 0 .. R
    PROVE  (a + b) % R = IF a + b < R THEN a + b ELSE a + b - R
OBVIOUS

LEMMA Back ==
    ASSUME NEW R \in Nat \ {0}, NEW k \in 0 .. R - 1, NEW t \in 0 .. R - 1
    PROVE  (k - t) % R = IF k >= t THEN k - t ELSE k - t + R
OBVIOUS

\* The place k behind the c places from h on, seen from where these end.
LEMMA Around ==
    ASSUME NEW R \in Nat \ {0}, NEW h \in 0 .. R - 1, NEW c \in 0 .. R, NEW k \in 1 .. R - c
    PROVE  (((h + c + k - 1) % R) - ((h + c) % R)) % R = k - 1
<1> DEFINE t == IF h + c < R THEN h + c ELSE h + c - R
           p == IF h + c + k - 1 < R THEN h + c + k - 1 ELSE h + c + k - 1 - R
<1>1. (h + c) % R = t
  BY Wrap
<1>2. (h + c + k - 1) % R = p
  <2>1. c + k - 1 \in 0 .. R
    OBVIOUS
  <2>2. (h + (c + k - 1)) % R = IF h + (c + k - 1) < R THEN h + (c + k - 1) ELSE h + (c + k - 1) - R
    BY <2>1, Wrap
  <2> QED
    BY <2>2
<1>3. t \in 0 .. R - 1 /\ p \in 0 .. R - 1
  OBVIOUS
<1>4. (IF p >= t THEN p - t ELSE p - t + R) = k - 1
  OBVIOUS
<1> HIDE DEF t, p
<1>5. (p - t) % R = IF p >= t THEN p - t ELSE p - t + R
  BY <1>3, Back
<1>6. (((h + c + k - 1) % R) - ((h + c) % R)) % R = (p - t) % R
  BY <1>1, <1>2, Zenon
<1>7. (p - t) % R = k - 1
  BY <1>4, <1>5
<1> QED
  BY <1>6, <1>7, Zenon

\* The places from h on, seen from behind the last of them.
LEMMA Behind ==
    ASSUME NEW R \in Nat \ {0}, NEW h \in 0 .. R - 1, NEW c \in 0 .. R, NEW k \in 1 .. c
    PROVE  ~((((h + k - 1) % R) - ((h + c) % R)) % R < R - c)
<1> DEFINE t == IF h + c < R THEN h + c ELSE h + c - R
           p == IF h + k - 1 < R THEN h + k - 1 ELSE h + k - 1 - R
<1>1. (h + c) % R = t
  BY Wrap
<1>2. (h + k - 1) % R = p
  <2>1. k - 1 \in 0 .. R
    OBVIOUS
  <2>2. (h + (k - 1)) % R = IF h + (k - 1) < R THEN h + (k - 1) ELSE h + (k - 1) - R
    BY <2>1, Wrap
  <2> QED
    BY <2>2
<1>3. t \in 0 .. R - 1 /\ p \in 0 .. R - 1
  OBVIOUS
<1>4. ~((IF p >= t THEN p - t ELSE p - t + R) < R - c)
  OBVIOUS
<1> HIDE DEF t, p
<1>5. (p - t) % R = IF p >= t THEN p - t ELSE p - t + R
  BY <1>3, Back
<1>6. (((h + k - 1) % R) - ((h + c) % R)) % R = (p - t) % R
  BY <1>1, <1>2, Zenon
<1>7. ~(((p - t) % R) < R - c)
  BY <1>4, <1>5, Zenon
<1> QED
  BY <1>6, <1>7, Zenon

LEMMA InRange == ASSUME NEW R \in Nat \ {0}, NEW a \in Int PROVE a % R \in 0 .. R - 1
OBVIOUS

\* Advancing by r and then by k places.
LEMMA WrapTwice ==
    ASSUME NEW R \in Nat \ {0}, NEW h \in 0 .. R - 1, NEW r \in 0 .. R, NEW k \in 0 .. R - r
    PROVE  (((h + r) % R) + k) % R = (h + r + k) % R
<1>1. PICK t \in 0 .. R - 1 : t = (h + r) % R /\ t = IF h + r < R THEN h + r ELSE h + r - R
  <2>1. (h + r) % R = IF h + r < R THEN h + r ELSE h + r - R
    BY Wrap
  <2> QED
    BY <2>1
<1>5. k \in 0 .. R
  OBVIOUS
<1>2. (t + k) % R = IF t + k < R THEN t + k ELSE t + k - R
  BY <1>5, Wrap
<1>3. r + k \in 0 .. R
  OBVIOUS
<1>4. (h + (r + k)) % R = IF h + (r + k) < R THEN h + (r + k) ELSE h + (r + k) - R
  BY <1>3, Wrap
<1>6. r + k = (r + k) /\ h + (r + k) = h + r + k
  OBVIOUS
<1>7. (IF t + k < R THEN t + k ELSE t + k - R)
      = IF h + (r + k) < R THEN h + (r + k) ELSE h + (r + k) - R
  BY <1>1, <1>5
<1> QED
  BY <1>1, <1>2, <1>4, <1>6, <1>7, Zenon

LEMMA Distinct ==
    ASSUME NEW R \in Nat \ {0}, NEW h \in 0 .. R - 1,
           NEW a \in 0 .. R - 1, NEW b \in 0 .. R - 1, a # b
    PROVE  (h + a) % R # (h + b) % R
<1>1. a \in 0 .. R /\ b \in 0 .. R
  OBVIOUS
<1>2. (h + a) % R = IF h + a < R THEN h + a ELSE h + a - R
  BY <1>1, Wrap
<1>3. (h + b) % R = IF h + b < R THEN h + b ELSE h + b - R
  BY <1>1, Wrap
<1>4. (IF h + a < R THEN h + a ELSE h + a - R) # (IF h + b < R THEN h + b ELSE h + b - R)
  OBVIOUS
<1> QED
  BY <1>2, <1>3, <1>4

-----------------------------------------------------------------------------
(* DebugLog: the types.                                                      *)

LEMMA LogSizes ==
    /\ RingSize \in Nat \ {0} /\ BuffLen \in Nat \ {0} /\ SemTokens \in Nat \ {0}
    /\ \A n \in Texts : n \in 1 .. BuffLen
    /\ "nobody" \notin Tasks
BY SizesAssumption

\* A cell is a piece of a record that was printed, or what a fresh buffer holds.
Pieces == {Junk} \cup ((1 .. Len(texts)) \X (0 .. BuffLen))

Registers == [size : 0 .. RingSize, n : 0 .. RingSize, start : Nat]

\* What a debug_print has loaded it can add; what the thread has loaded it can take.
Loads ==
    /\ reg \in [Tasks -> Registers] /\ loaded \in Registers /\ starts \in Nat
    /\ \A t \in Tasks : reg[t].size + reg[t].n <= RingSize /\ (pc[t] = "add" => reg[t].n > 0)
    /\ loaded.n <= loaded.size

\* The lock is held by the debug_print that is not idle.
Holder ==
    /\ pc \in [Tasks -> {"idle", "test", "put", "add", "release"}]
    /\ slock \in Tasks \cup {"nobody"}
    /\ \A t \in Tasks : pc[t] # "idle" <=> slock = t

\* A message is there while the lock is held.
Printed == texts \in Seq(Texts) /\ (slock # "nobody" => texts # <<>>)

Held ==
    /\ cells \in [0 .. RingSize - 1 -> Pieces] /\ logBuffer \in Seq(Pieces)
    /\ accepted \in Seq(Pieces) /\ file \in Seq(Pieces)

\* A header is read from a ring that is not empty; the thread has a semaphore, and
\* the log is saved only while it is in its loop.
Places ==
    /\ tpc = "header" => size > 0
    /\ tpc = "size" => Len(logBuffer) = 1
    /\ saving => tpc \notin {"none", "open", "raise", "destroy"}
    /\ tpc = "none" <=> serviceSem = -1
    /\ cli = "create" => tpc = "none"

LEMMA HolderInit == LogInit => Holder /\ Printed
<1>1. <<>> \in Seq(Texts)
  OBVIOUS
<1> QED
  BY <1>1, LogSizes DEF LogInit, Holder, Printed

LEMMA HolderNext == ASSUME Holder, Printed, [LogNext]_logVars PROVE Holder' /\ Printed'
<1> USE LogSizes DEF Holder, Printed
<1>1. ASSUME NEW t \in Tasks, NEW len \in Texts, Record(t, len) PROVE Holder' /\ Printed'
  <2>1. texts' \in Seq(Texts) /\ texts' # <<>>
    BY <1>1 DEF Record
  <2> QED
    BY <1>1, <2>1 DEF Record
<1>2. ASSUME NEW t \in Tasks, DebugPrint(t) PROVE Holder' /\ Printed'
  BY <1>2 DEF DebugPrint, Test, Put, Add, Release, Leave
<1>3. CASE On \/ Off \/ Command \/ OpenFails \/ WriteFails
  BY <1>3 DEF On, Off, Command, Create, Wake, Slept, OpenFails, WriteFails, printer
<1>4. CASE Save
  BY <1>4 DEF Save, OpenLog, Raise, Loop, Wait, More, Header, Size, Text, SubText, Write, Exit,
     Destroy, printer
<1>5. CASE UNCHANGED logVars
  BY <1>5 DEF logVars, printer
<1> HIDE DEF Holder, Printed
<1> QED
  BY <1>1, <1>2, <1>3, <1>4, <1>5 DEF LogNext

\* A message more leaves the pieces what they are.
LEMMA PiecesGrow ==
    ASSUME Printed, \/ UNCHANGED texts
                    \/ \E len \in Texts : texts' = Append(texts, len)
    PROVE  Pieces \subseteq Pieces'
<1>1. Len(texts) \in Nat /\ Len(texts') \in Nat /\ Len(texts) <= Len(texts')
  BY DEF Printed
<1>2. 1 .. Len(texts) \subseteq 1 .. Len(texts')
  BY <1>1
<1> QED
  BY <1>2 DEF Pieces, Junk

LEMMA HeldGrow ==
    ASSUME Held, Pieces \subseteq Pieces', UNCHANGED <<cells, logBuffer, accepted, file>>
    PROVE  Held'
<1>1. ASSUME NEW s \in Seq(Pieces) PROVE s \in Seq(Pieces')
  BY <1>1
<1>2. cells \in [0 .. RingSize - 1 -> Pieces']
  BY DEF Held
<1> QED
  BY <1>1, <1>2 DEF Held

LEMMA LoadsInit == LogInit => Loads /\ Held /\ Places
<1>1. <<>> \in Seq(Pieces) /\ Junk \in Pieces
  BY DEF Pieces
<1> QED
  BY <1>1, LogSizes DEF LogInit, Loads, Registers, NoReg, Held, Places

LEMMA LogTypeInit == LogInit => LogTypeOK
BY LogSizes DEF LogInit, LogTypeOK

LEMMA CellsOf ==
    ASSUME Holder, Printed, slock # "nobody"
    PROVE  /\ Len(texts) \in Nat \ {0} /\ texts[Len(texts)] \in 1 .. BuffLen
           /\ Cells(Len(texts)) \in Seq(Pieces) /\ Len(Cells(Len(texts))) = 1 + texts[Len(texts)]
<1>1. Len(texts) \in Nat \ {0} /\ texts[Len(texts)] \in 1 .. BuffLen
  <2>1. texts # <<>> /\ texts \in Seq(Texts)
    BY DEF Printed
  <2>2. Len(texts) \in Nat \ {0}
    BY <2>1, EmptySeq
  <2>3. texts[Len(texts)] \in Texts
    BY <2>1, <2>2, ElementOfSeq
  <2> QED
    BY <2>2, <2>3, LogSizes
<1>2. Cells(Len(texts)) \in [1 .. 1 + texts[Len(texts)] -> Pieces]
  BY <1>1, LogSizes DEF Cells, Pieces
<1>3. Cells(Len(texts)) \in Seq(Pieces)
  <2>1. 1 + texts[Len(texts)] \in Nat
    BY <1>1
  <2> QED
    BY <1>2, <2>1, SeqDef
<1> QED
  BY <1>1, <1>2, <1>3

LEMMA LeastOf == ASSUME NEW a \in Int, NEW b \in Int
                 PROVE  /\ Least(a, b) \in Int /\ Least(a, b) <= a /\ Least(a, b) <= b
                        /\ Least(a, b) = a \/ Least(a, b) = b
BY DEF Least

\* ringbuffer_put: what fits of the record.
LEMMA PutFits ==
    ASSUME Holder, Printed, LogTypeOK, NEW t \in Tasks, Put(t)
    PROVE  \E n \in 0 .. RingSize :
              /\ n = Least(Len(Cells(Len(texts))), RingSize - size)
              /\ n <= Len(Cells(Len(texts))) /\ n + size <= RingSize
              /\ n = 0 => n < Len(Cells(Len(texts))) 
<1>1. slock # "nobody"
  BY LogSizes DEF Holder, Put
<1>2. Len(Cells(Len(texts))) \in Nat \ {0}
  <2>1. Len(Cells(Len(texts))) = 1 + texts[Len(texts)] /\ texts[Len(texts)] \in 1 .. BuffLen
    BY <1>1, CellsOf
  <2> HIDE DEF Cells
  <2> QED
    BY <2>1, LogSizes
<1>3. RingSize - size \in Nat /\ size \in Nat
  BY LogSizes DEF LogTypeOK
<1> DEFINE m == Len(Cells(Len(texts)))
           n == Least(m, RingSize - size)
<1> HIDE DEF m
<1>4. m \in Nat \ {0}
  BY <1>2 DEF m
<1>5. n <= m /\ n <= RingSize - size /\ n \in 0 .. RingSize
  BY <1>3, <1>4, LogSizes DEF Least
<1>6. n + size <= RingSize /\ (n = 0 => n < m)
  BY <1>3, <1>4, <1>5, LogSizes
<1> HIDE DEF n
<1>7. n = Least(m, RingSize - size)
  BY DEF n
<1> QED
  BY <1>5, <1>6, <1>7 DEF m

\* ringbuffer_get: what there is of the n cells asked for.
LEMMA GetGives ==
    ASSUME LogTypeOK, Held, NEW n \in Nat, Get(n)
    PROVE  /\ Least(n, size) \in Nat /\ Least(n, size) <= n /\ Least(n, size) <= size
           /\ logBuffer' \in Seq(Pieces) /\ Len(logBuffer') = Least(n, size)
<1>1. Least(n, size) \in Nat /\ Least(n, size) <= n /\ Least(n, size) <= size
  BY LogSizes DEF LogTypeOK, Least
<1> DEFINE m == Least(n, size)
<1>2. ASSUME NEW k \in 1 .. m PROVE cells[(head + k - 1) % RingSize] \in Pieces
  <2>1. (head + k - 1) \in Int
    BY <1>1 DEF LogTypeOK
  <2>2. (head + k - 1) % RingSize \in 0 .. RingSize - 1
    BY <2>1, LogSizes, InRange
  <2> QED
    BY <2>2 DEF Held
<1>3. logBuffer' = [k \in 1 .. m |-> cells[(head + k - 1) % RingSize]]
  BY DEF Get
<1> HIDE DEF m
<1>4. m \in Nat
  BY <1>1 DEF m
<1>5. logBuffer' \in [1 .. m -> Pieces]
  BY <1>2, <1>3, Zenon
<1>6. logBuffer' \in Seq(Pieces)
  BY <1>4, <1>5, SeqDef, Zenon
<1>7. Len(logBuffer') = m
  BY <1>3, <1>4, <1>6
<1> QED
  BY <1>1, <1>6, <1>7 DEF m

LEMMA NeedBounds == ASSUME LogTypeOK PROVE Need \in Nat /\ Need <= left /\ Need <= BuffLen /\ left - Need \in Nat
BY LogSizes DEF LogTypeOK, Need, Least

LEMMA LoadsNext ==
    ASSUME Holder, Printed, LogTypeOK, Held, Loads, [LogNext]_logVars PROVE Loads'
<1> USE LogSizes DEF Loads
<1>1. ASSUME NEW t \in Tasks, NEW len \in Texts, Record(t, len) PROVE Loads'
  BY <1>1 DEF Record, service, thread, Holder
<1>2. ASSUME NEW t \in Tasks, Test(t) \/ Release(t) PROVE Loads'
  BY <1>2 DEF Test, Release, Leave, service, thread, Holder
<1>3. ASSUME NEW t \in Tasks, Put(t) PROVE Loads'
  <2>1. PICK n \in 0 .. RingSize : n = Least(Len(Cells(Len(texts))), RingSize - size)
                                   /\ n + size <= RingSize
    BY <1>3, PutFits
  <2>2. reg' = [reg EXCEPT ![t] = IF n = 0 THEN NoReg ELSE [size |-> size, n |-> n, start |-> starts]]
        /\ pc' = [pc EXCEPT ![t] = IF n = 0 THEN "release" ELSE "add"]
        /\ UNCHANGED <<starts, loaded>>
    BY <1>3, <2>1 DEF Put, service, thread
  <2>3. (IF n = 0 THEN NoReg ELSE [size |-> size, n |-> n, start |-> starts]) \in Registers
    BY DEF Registers, NoReg, LogTypeOK
  <2>4. reg' \in [Tasks -> Registers]
    BY <2>2, <2>3
  <2>5. ASSUME NEW u \in Tasks
        PROVE  reg'[u].size + reg'[u].n <= RingSize /\ (pc'[u] = "add" => reg'[u].n > 0)
    BY <2>1, <2>2 DEF NoReg, Holder, LogTypeOK
  <2> QED
    BY <2>2, <2>4, <2>5
<1>4. ASSUME NEW t \in Tasks, Add(t) PROVE Loads'
  <2>1. reg' = [reg EXCEPT ![t] = NoReg] /\ pc' = [pc EXCEPT ![t] = "release"]
        /\ UNCHANGED <<starts, loaded>>
    BY <1>4 DEF Add, service, thread
  <2>2. NoReg \in Registers
    BY DEF Registers, NoReg
  <2>3. ASSUME NEW u \in Tasks
        PROVE  reg'[u].size + reg'[u].n <= RingSize /\ (pc'[u] = "add" => reg'[u].n > 0)
    BY <2>1 DEF NoReg, Holder
  <2> QED
    BY <2>1, <2>2, <2>3
<1>5. CASE On \/ Off \/ Command
  <2>1. UNCHANGED <<pc, reg, loaded>>
    BY <1>5 DEF On, Off, Command, Create, Wake, Slept, printer, thread
  <2>2. starts' = starts + 1 \/ starts' = starts
    BY <1>5 DEF On, Off, Command, Create, Wake, Slept
  <2> QED
    BY <2>1, <2>2
<1>6. CASE Header \/ Text
  <2>1. ASSUME NEW n \in Nat, Get(n) PROVE loaded' \in Registers /\ loaded'.n <= loaded'.size
    BY <2>1, GetGives, SMTT(30) DEF Get, Registers, LogTypeOK
  <2>2. UNCHANGED <<pc, reg, starts>>
    BY <1>6 DEF Header, Text, printer, service
  <2>3. loaded' \in Registers /\ loaded'.n <= loaded'.size
    BY <1>6, <2>1, NeedBounds DEF Header, Text
  <2> QED
    BY <2>2, <2>3
<1>7. CASE Size \/ SubText
  BY <1>7 DEF Size, SubText, Sub, NoReg, Registers, printer, service
<1>8. CASE OpenLog \/ Raise \/ Loop \/ Wait \/ More \/ Write \/ Exit \/ Destroy \/ OpenFails \/ WriteFails
  BY <1>8 DEF OpenLog, Raise, Loop, Wait, More, Write, Exit, Destroy, OpenFails, WriteFails, printer, service
<1>9. CASE UNCHANGED logVars
  BY <1>9 DEF logVars, printer, service, thread
<1> HIDE DEF Loads
<1> QED
  BY <1>1, <1>2, <1>3, <1>4, <1>5, <1>6, <1>7, <1>8, <1>9 DEF LogNext, DebugPrint, Save

\* What is written is a block of cells.
LEMMA BlockHeld == ASSUME LogTypeOK, Held PROVE Block \in Seq(Pieces) /\ Len(Block) = Need
<1>1. Need \in Nat
  BY NeedBounds
<1>2. logBuffer \in Seq(Pieces) /\ Junk \in Pieces
  BY DEF Held, Pieces
<1>3. ASSUME NEW k \in 1 .. Need PROVE (IF k <= Len(logBuffer) THEN logBuffer[k] ELSE Junk) \in Pieces
  BY <1>1, <1>2, <1>3, ElementOfSeq
<1>4. Block \in [1 .. Need -> Pieces]
  BY <1>3 DEF Block
<1> QED
  BY <1>1, <1>4, SeqDef DEF Block

LEMMA HeldNext ==
    ASSUME Holder, Printed, LogTypeOK, Held, [LogNext]_logVars PROVE Held'
<1>0. <<>> \in Seq(Pieces) /\ Junk \in Pieces
  BY DEF Pieces
<1>1. ASSUME NEW t \in Tasks, NEW len \in Texts, Record(t, len) PROVE Held'
  <2>1. UNCHANGED <<cells, logBuffer, accepted, file>> /\ texts' = Append(texts, len)
    BY <1>1 DEF Record, ring, thread, history
  <2> QED
    BY <1>1, <2>1, PiecesGrow, HeldGrow
<1>2. ASSUME UNCHANGED texts PROVE Pieces' = Pieces
  BY <1>2 DEF Pieces
<1>3. ASSUME UNCHANGED <<texts, cells, logBuffer, accepted, file>> PROVE Held'
  BY <1>2, <1>3 DEF Held
<1>4. ASSUME NEW t \in Tasks, Put(t) PROVE Held'
  <2>1. PICK n \in 0 .. RingSize : n = Least(Len(Cells(Len(texts))), RingSize - size)
                                   /\ n <= Len(Cells(Len(texts)))
    BY <1>4, PutFits
  <2> DEFINE record == Cells(Len(texts))
  <2>2. slock # "nobody"
    BY <1>4, LogSizes DEF Holder, Put
  <2>3. record \in Seq(Pieces)
    BY <2>2, CellsOf
  <2>4. /\ cells' = [k \in 0 .. RingSize - 1 |->
                       IF (k - tail) % RingSize < n THEN record[((k - tail) % RingSize) + 1] ELSE cells[k]]
        /\ accepted' = accepted \o SubSeq(record, 1, n)
        /\ UNCHANGED <<texts, logBuffer, file>>
    BY <1>4, <2>1 DEF Put, thread
  <2> HIDE DEF record
  <2>5. n <= Len(record)
    BY <2>1 DEF record
  <2>6. ASSUME NEW k \in 0 .. RingSize - 1
        PROVE  (IF (k - tail) % RingSize < n THEN record[((k - tail) % RingSize) + 1] ELSE cells[k]) \in Pieces
    <3>1. k - tail \in Int
      BY LogSizes DEF LogTypeOK
    <3>2. (k - tail) % RingSize \in 0 .. RingSize - 1
      BY <3>1, LogSizes, InRange
    <3>3. PICK d \in 0 .. RingSize - 1 : d = (k - tail) % RingSize
      BY <3>2
    <3>4. d < n => record[d + 1] \in Pieces
      <4>1. d < n => d + 1 \in 1 .. Len(record)
        BY <2>3, <2>5, <3>3
      <4> QED
        BY <2>3, <4>1, ElementOfSeq
    <3>5. cells[k] \in Pieces
      BY DEF Held
    <3> QED
      BY <3>3, <3>4, <3>5
  <2>7. cells' \in [0 .. RingSize - 1 -> Pieces]
    BY <2>4, <2>6
  <2>8. SubSeq(record, 1, n) \in Seq(Pieces)
    BY <2>3, <2>5
  <2>9. accepted' \in Seq(Pieces)
    BY <2>4, <2>8, ConcatProperties DEF Held
  <2> QED
    BY <1>2, <2>4, <2>7, <2>9 DEF Held
<1>5. ASSUME NEW t \in Tasks, Test(t) \/ Add(t) \/ Release(t) PROVE Held'
  BY <1>3, <1>5 DEF Test, Add, Release, ring, thread, history
<1>6. CASE On
  BY <1>0, <1>2, <1>6 DEF On, Held, printer, thread
<1>7. CASE Off \/ Command \/ OpenFails \/ Raise \/ Loop \/ Wait \/ More \/ Exit
  BY <1>3, <1>7 DEF Off, Command, Create, Wake, Slept, OpenFails, Raise, Loop, Wait, More,
     Exit, printer, ring, service, thread, history
<1>8. CASE OpenLog \/ Destroy
  BY <1>0, <1>2, <1>8 DEF OpenLog, Destroy, Held, printer, ring, service, history
<1>9. CASE Header \/ Text
  <2>1. UNCHANGED <<texts, cells, accepted, file>> /\ (UNCHANGED logBuffer \/ Get(1) \/ Get(Need))
    BY <1>9 DEF Header, Text, printer, history
  <2>2. logBuffer' \in Seq(Pieces)
    BY <2>1, GetGives, NeedBounds DEF Held
  <2> QED
    BY <1>2, <2>1, <2>2 DEF Held
<1>10. CASE Size \/ SubText \/ WriteFails
  BY <1>3, <1>10 DEF Size, SubText, WriteFails, printer, ring, history
<1>11. CASE Write
  <2>1. file' = file \o Block /\ logBuffer' = <<>> /\ UNCHANGED <<texts, cells, accepted>>
    BY <1>11 DEF Write, printer, ring, history
  <2>2. file' \in Seq(Pieces)
    BY <2>1, BlockHeld, ConcatProperties DEF Held
  <2> QED
    BY <1>0, <1>2, <2>1, <2>2 DEF Held
<1>12. CASE UNCHANGED logVars
  BY <1>3, <1>12 DEF logVars, printer, ring, thread, history
<1> QED
  BY <1>1, <1>4, <1>5, <1>6, <1>7, <1>8, <1>9, <1>10, <1>11, <1>12 DEF LogNext, DebugPrint, Save

LEMMA PlacesNext ==
    ASSUME LogTypeOK, Held, Loads, Places, [LogNext]_logVars PROVE Places'
<1> USE LogSizes DEF Places
<1>1. ASSUME NEW t \in Tasks, (\E len \in Texts : Record(t, len)) \/ Test(t) \/ Put(t) PROVE Places'
  BY <1>1 DEF Record, Test, Put, ring, service, thread
<1>2. ASSUME NEW t \in Tasks, Add(t) PROVE Places'
  BY <1>2 DEF Add, service, thread, Loads, Registers
<1>3. ASSUME NEW t \in Tasks, Release(t) PROVE Places'
  BY <1>3 DEF Release, ring, thread, Given, Least, LogTypeOK
<1>4. CASE On
  BY <1>4 DEF On, thread
<1>11. CASE Off \/ Slept
  BY <1>11 DEF Off, Slept, ring, thread
<1>12. CASE Create
  BY <1>12 DEF Create, ring
<1>5. CASE Wake
  BY <1>5 DEF Wake, Given, Least, LogTypeOK, ring, thread
<1>6. CASE OpenLog \/ OpenFails \/ Raise \/ Loop \/ Exit \/ Destroy \/ WriteFails \/ More \/ Write
  BY <1>6 DEF OpenLog, OpenFails, Raise, Loop, Exit, Destroy, WriteFails, More, Write, ring, service
<1>7. CASE Wait
  BY <1>7 DEF Wait, LogTypeOK
<1>8. CASE Header
  <2>1. Least(1, size) = 1
    BY <1>8 DEF Header, Least, LogTypeOK
  <2>2. Len(logBuffer') = 1
    BY <1>8, <2>1, GetGives DEF Header
  <2> QED
    BY <1>8, <2>2 DEF Header, service
<1>9. CASE Size \/ Text \/ SubText
  BY <1>9 DEF Size, Text, SubText, service
<1>10. CASE UNCHANGED logVars
  BY <1>10 DEF logVars, ring, service, thread
<1> HIDE DEF Places
<1> QED
  BY <1>1, <1>2, <1>3, <1>4, <1>5, <1>6, <1>7, <1>8, <1>9, <1>10, <1>11, <1>12
     DEF LogNext, DebugPrint, Command, Save

LEMMA GivenType == ASSUME LogTypeOK PROVE Given \in -1 .. SemTokens
BY LogSizes DEF LogTypeOK, Given, Least

LEMMA LogTypeNext ==
    ASSUME Holder', Holder, Printed, Held, Held', Loads, Places, LogTypeOK, [LogNext]_logVars
    PROVE  LogTypeOK'
<1>0. /\ pc' \in [Tasks -> {"idle", "test", "put", "add", "release"}]
      /\ slock' \in Tasks \cup {"nobody"}
  BY DEF Holder
<1> USE LogSizes DEF LogTypeOK
<1>1. ASSUME NEW t \in Tasks, (\E len \in Texts : Record(t, len)) \/ Test(t) PROVE LogTypeOK'
  <2>1. UNCHANGED <<ring, service, thread>>
    BY <1>1 DEF Record, Test
  <2> QED
    BY <1>0, <2>1 DEF ring, service, thread
<1>2. ASSUME NEW t \in Tasks, Put(t) PROVE LogTypeOK'
  <2>1. PICK n \in 0 .. RingSize : n = Least(Len(Cells(Len(texts))), RingSize - size)
    BY <1>2, PutFits
  <2>2. tail' = (tail + n) % RingSize
    BY <1>2, <2>1 DEF Put
  <2>3. tail + n \in Int
    OBVIOUS
  <2>4. tail' \in 0 .. RingSize - 1
    BY <2>2, <2>3, InRange
  <2> QED
    BY <1>0, <1>2, <2>4 DEF Put, service, thread
<1>3. ASSUME NEW t \in Tasks, Add(t) PROVE LogTypeOK'
  <2>1. size' \in 0 .. RingSize
    BY <1>3 DEF Add, Loads, Registers
  <2> QED
    BY <1>0, <1>3, <2>1 DEF Add, service, thread
<1>4. ASSUME NEW t \in Tasks, Release(t) PROVE LogTypeOK'
  BY <1>0, <1>4, GivenType DEF Release, ring, thread
<1>5. CASE On
  BY <1>0, <1>5 DEF On, thread
<1>15. CASE Off \/ Slept
  BY <1>0, <1>15 DEF Off, Slept, ring, thread
<1>17. CASE Create
  BY <1>0, <1>17 DEF Create, ring
<1>6. CASE Wake
  BY <1>0, <1>6, GivenType DEF Wake, ring, thread
<1>7. CASE OpenLog \/ OpenFails \/ Raise \/ Loop \/ More \/ Exit
  BY <1>0, <1>7 DEF OpenLog, OpenFails, Raise, Loop, More, Exit, ring, service
<1>18. CASE Wait
  <2>1. serviceSem' \in -1 .. SemTokens
    BY <1>18 DEF Wait
  <2> QED
    BY <1>0, <1>18, <2>1 DEF Wait, ring
<1>16. CASE Destroy
  <2>1. left' \in 0 .. BuffLen + 1 /\ Len(logBuffer') <= BuffLen
    BY <1>16 DEF Destroy
  <2> QED
    BY <1>0, <1>16, <2>1 DEF Destroy, ring
<1>8. ASSUME NEW n \in 0 .. BuffLen, Get(n) PROVE head' \in 0 .. RingSize - 1 /\ Len(logBuffer') <= BuffLen
  <2>1. Least(n, size) \in Nat /\ Len(logBuffer') = Least(n, size) /\ Least(n, size) <= n
    BY <1>8, GetGives
  <2>2. head + Least(n, size) \in Int
    BY <2>1
  <2>3. head' = (head + Least(n, size)) % RingSize
    BY <1>8 DEF Get
  <2>4. head' \in 0 .. RingSize - 1
    BY <2>2, <2>3, InRange
  <2> QED
    BY <2>1, <2>4
<1>9. CASE Header
  <2>1. head' \in 0 .. RingSize - 1 /\ Len(logBuffer') <= BuffLen
    BY <1>8, <1>9 DEF Header
  <2> QED
    BY <1>0, <1>9, <2>1 DEF Header, service
<1>10. CASE Size
  <2>1. size' \in 0 .. RingSize
    BY <1>10 DEF Size, Sub, Loads, Registers
  <2>2. left' \in 0 .. BuffLen + 1
    <3>1. logBuffer[1] \in Pieces
      <4>1. Len(logBuffer) = 1 /\ logBuffer \in Seq(Pieces)
        BY <1>10 DEF Size, Places, Held
      <4> QED
        BY <4>1, ElementOfSeq
    <3>2. left' \in LengthIn(logBuffer[1])
      BY <1>10 DEF Size
    <3>3. CASE logBuffer[1] # Junk /\ logBuffer[1][2] = 0
      <4>1. logBuffer[1] \in (1 .. Len(texts)) \X (0 .. BuffLen)
        BY <3>1, <3>3 DEF Pieces
      <4>2. logBuffer[1][1] \in 1 .. Len(texts)
        BY <4>1, Zenon
      <4>3. texts[logBuffer[1][1]] \in Texts
        BY <4>2, ElementOfSeq DEF Printed
      <4>4. texts[logBuffer[1][1]] \in 1 .. BuffLen
        BY <4>3
      <4>5. left' = texts[logBuffer[1][1]]
        BY <3>2, <3>3 DEF LengthIn
      <4> QED
        BY <4>4, <4>5
    <3>4. CASE ~(logBuffer[1] # Junk /\ logBuffer[1][2] = 0)
      BY <3>2, <3>4 DEF LengthIn
    <3> QED
      BY <3>3, <3>4
  <2> QED
    BY <1>0, <1>10, <2>1, <2>2 DEF Size, service
<1>11. CASE Text
  <2>1. head' \in 0 .. RingSize - 1 /\ Len(logBuffer') <= BuffLen
    <3>1. Need \in 0 .. BuffLen
      BY NeedBounds
    <3>2. UNCHANGED <<head, logBuffer>> \/ Get(Need)
      BY <1>11 DEF Text
    <3> QED
      BY <1>8, <3>1, <3>2
  <2> QED
    BY <1>0, <1>11, <2>1 DEF Text, service
<1>12. CASE SubText
  BY <1>0, <1>12, SMTT(30) DEF SubText, Sub, Loads, Registers, service
<1>13. CASE Write \/ WriteFails
  <2>1. left - Need \in 0 .. BuffLen + 1
    BY NeedBounds
  <2> QED
    BY <1>0, <1>13, <2>1, SMTT(30) DEF Write, WriteFails, ring, service
<1>14. CASE UNCHANGED logVars
  BY <1>0, <1>14 DEF logVars, ring, service, thread
<1> HIDE DEF LogTypeOK
<1> QED
  BY <1>1, <1>2, <1>3, <1>4, <1>5, <1>6, <1>7, <1>9, <1>10, <1>11, <1>12, <1>13, <1>14,
     <1>15, <1>16, <1>17, <1>18 DEF LogNext, DebugPrint, Command, Save

LEMMA FaultsNext == ASSUME faults \in Nat, [LogNext]_logVars PROVE faults' \in Nat
<1>1. \/ faults' = faults \/ faults' = faults + 1
  <2>1. ASSUME NEW t \in Tasks, (\E len \in Texts : Record(t, len)) \/ DebugPrint(t)
        PROVE  faults' = faults
    BY <2>1 DEF Record, DebugPrint, Test, Put, Add, Release, history
  <2>2. CASE On \/ Off \/ Command \/ OpenFails \/ WriteFails
    BY <2>2 DEF On, Off, Command, Create, Wake, Slept, OpenFails, WriteFails, history
  <2>3. CASE Save
    BY <2>3 DEF Save, OpenLog, Raise, Loop, Wait, More, Header, Size, Text, SubText, Write, Exit,
       Destroy, history
  <2>4. CASE UNCHANGED logVars
    BY <2>4 DEF logVars, history
  <2> QED
    BY <2>1, <2>2, <2>3, <2>4 DEF LogNext
<1> QED
  BY <1>1

LogTypes == LogTypeOK /\ Holder /\ Printed /\ Held /\ Loads /\ Places /\ faults \in Nat

LEMMA LogTypesAlways == LogSpec => []LogTypes
<1>1. LogInit => LogTypes
  <2>1. LogInit => faults \in Nat
    BY DEF LogInit
  <2> QED
    BY <2>1, HolderInit, LoadsInit, LogTypeInit DEF LogTypes
<1>2. LogTypes /\ [LogNext]_logVars => LogTypes'
  BY HolderNext, LoadsNext, HeldNext, PlacesNext, LogTypeNext, FaultsNext DEF LogTypes
<1> QED
  BY <1>1, <1>2, PTL DEF LogSpec

\* The variables keep their types: the ring's places lie in the buffer, its size
\* never exceeds it, the semaphore has no more tokens than the kernel allows and
\* what the thread reads fits into LOG_BUFFER, also when updates of size were lost.
THEOREM LogTypeCorrect == LogSpec => []LogTypeOK
BY LogTypesAlways, PTL DEF LogTypes

-----------------------------------------------------------------------------
(* The texts in a sequence of cells.                                        *)

Piece(c) == IF c[2] > 0 THEN <<c>> ELSE <<>>

LEMMA TextOfEmpty == TextOf(<<>>) = <<>>
<1>1. [k \in 1 .. Len(<<>>) |-> IF <<>>[k][2] > 0 THEN << <<>>[k] >> ELSE <<>>] = <<>>
  OBVIOUS
<1>2. FlattenSeq(<<>>) = <<>>
  BY FlattenType, EmptySeq
<1> QED
  BY <1>1, <1>2 DEF TextOf

LEMMA TextOfType == ASSUME NEW S, NEW s \in Seq(S) PROVE TextOf(s) \in Seq(S)
<1> DEFINE pieces == [k \in 1 .. Len(s) |-> Piece(s[k])]
<1>1. \A k \in 1 .. Len(s) : Piece(s[k]) \in Seq(S)
  BY ElementOfSeq DEF Piece
<1>2. pieces \in [1 .. Len(s) -> Seq(S)] /\ Len(s) \in Nat
  BY <1>1
<1>3. pieces \in Seq(Seq(S))
  BY <1>2, SeqDef
<1>4. TextOf(s) = FlattenSeq(pieces)
  BY Zenon DEF TextOf, Piece
<1> HIDE DEF pieces
<1> QED
  BY <1>3, <1>4, FlattenType

LEMMA TextOfAppend ==
    ASSUME NEW S, NEW s \in Seq(S), NEW c \in S
    PROVE  /\ TextOf(s) \in Seq(S)
           /\ TextOf(Append(s, c)) = TextOf(s) \o Piece(c)
<1> DEFINE pieces(u) == [k \in 1 .. Len(u) |-> Piece(u[k])]
           more == Append(s, c)
<1>1. /\ more \in Seq(S) /\ Len(more) = Len(s) + 1 /\ more[Len(s) + 1] = c
      /\ Len(s) \in Nat /\ \A k \in 1 .. Len(s) : more[k] = s[k]
  BY AppendProperties
<1>2. ASSUME NEW e \in S PROVE Piece(e) \in Seq(S)
  BY <1>2 DEF Piece
<1>3. ASSUME NEW u \in Seq(S) PROVE pieces(u) \in Seq(Seq(S)) /\ Len(pieces(u)) = Len(u)
  <2>1. \A k \in 1 .. Len(u) : Piece(u[k]) \in Seq(S)
    BY <1>2, ElementOfSeq
  <2>2. pieces(u) \in [1 .. Len(u) -> Seq(S)]
    BY <2>1
  <2>3. Len(u) \in Nat
    OBVIOUS
  <2>4. pieces(u) \in Seq(Seq(S))
    BY <2>2, <2>3, SeqDef
  <2> QED
    BY <2>3, <2>4
<1>4. pieces(s) \in Seq(Seq(S)) /\ Len(pieces(s)) = Len(s)
  BY <1>3
<1>5. pieces(more) \in Seq(Seq(S)) /\ Len(pieces(more)) = Len(s) + 1
  <2> HIDE DEF more, pieces
  <2> QED
    BY <1>1, <1>3
<1>6. Piece(c) \in Seq(S)
  BY <1>2
<1>7. pieces(more) = Append(pieces(s), Piece(c))
  <2> DEFINE all == Append(pieces(s), Piece(c))
  <2>1. /\ all \in Seq(Seq(S)) /\ Len(all) = Len(s) + 1 /\ all[Len(s) + 1] = Piece(c)
        /\ \A k \in 1 .. Len(s) : all[k] = pieces(s)[k]
    <3> HIDE DEF pieces
    <3> QED
      BY <1>4, <1>6, AppendProperties
  <2>2. ASSUME NEW k \in 1 .. Len(s) + 1 PROVE pieces(more)[k] = all[k]
    <3>1. pieces(more)[k] = Piece(more[k])
      BY <1>1, <2>2
    <3>2. CASE k \in 1 .. Len(s)
      <4>1. pieces(s)[k] = Piece(s[k])
        BY <3>2
      <4> HIDE DEF all, more, pieces
      <4> QED
        BY <1>1, <2>1, <3>1, <3>2, <4>1
    <3>3. CASE k = Len(s) + 1
      BY <1>1, <2>1, <3>1, <3>3
    <3> QED
      BY <1>1, <2>2, <3>2, <3>3
  <2> HIDE DEF all, more, pieces
  <2>3. pieces(more) = all
    BY <1>5, <2>1, <2>2, SeqEqual
  <2> QED
    BY <2>3 DEF all
<1>8. ASSUME NEW u PROVE TextOf(u) = FlattenSeq(pieces(u))
  BY Zenon DEF TextOf, Piece
<1>9. FlattenSeq(Append(pieces(s), Piece(c))) = FlattenSeq(pieces(s)) \o Piece(c)
  <2> HIDE DEF pieces
  <2> QED
    BY <1>4, <1>6, FlattenAppend
<1>10. TextOf(s) \in Seq(S)
  <2> HIDE DEF pieces
  <2> QED
    BY <1>4, <1>8, FlattenType
<1>11. TextOf(more) = FlattenSeq(pieces(more)) /\ TextOf(s) = FlattenSeq(pieces(s))
  BY <1>8
<1> HIDE DEF pieces
<1> QED
  BY <1>7, <1>9, <1>10, <1>11

\* The texts of the first m cells of s.
TextUpTo(s, m) == TextOf(SubSeq(s, 1, m))

LEMMA TextUpToNext ==
    ASSUME NEW S, NEW s \in Seq(S), NEW m \in Nat, m < Len(s)
    PROVE  /\ TextUpTo(s, m) \in Seq(S)
           /\ s[m + 1] \in S
           /\ TextUpTo(s, m + 1) = TextUpTo(s, m) \o Piece(s[m + 1])
<1> DEFINE a == SubSeq(s, 1, m)
           b == SubSeq(s, 1, m + 1)
<1>1. s[m + 1] \in S
  BY ElementOfSeq
<1>2. a \in Seq(S) /\ Len(a) = m /\ \A k \in 1 .. m : a[k] = s[k]
  BY SubSeqProperties
<1>3. b \in Seq(S) /\ Len(b) = m + 1 /\ \A k \in 1 .. m + 1 : b[k] = s[k]
  BY SubSeqProperties
<1> HIDE DEF a, b
<1>4. /\ Append(a, s[m + 1]) \in Seq(S) /\ Len(Append(a, s[m + 1])) = m + 1
      /\ Append(a, s[m + 1])[m + 1] = s[m + 1] /\ \A k \in 1 .. m : Append(a, s[m + 1])[k] = a[k]
  BY <1>1, <1>2, AppendProperties
<1>5. ASSUME NEW k \in 1 .. m + 1 PROVE b[k] = Append(a, s[m + 1])[k]
  BY <1>2, <1>3, <1>4
<1>6. b = Append(a, s[m + 1])
  BY <1>3, <1>4, <1>5, SeqEqual
<1> QED
  BY <1>1, <1>2, <1>6, TextOfAppend DEF TextUpTo, a, b

\* s starts with p.
StartsWith(s, p) == Len(p) <= Len(s) /\ p = SubSeq(s, 1, Len(p))

LEMMA StartsWithItself == ASSUME NEW S, NEW s \in Seq(S) PROVE StartsWith(s, s) /\ SubSeq(s, 1, Len(s)) = s
BY DEF StartsWith

LEMMA StartsWithMore ==
    ASSUME NEW S, NEW s \in Seq(S), NEW p \in Seq(S), NEW c \in Seq(S), StartsWith(s, p)
    PROVE  StartsWith(s \o c, p)
<1>1. /\ s \o c \in Seq(S) /\ Len(s \o c) = Len(s) + Len(c)
      /\ \A k \in 1 .. Len(s) : (s \o c)[k] = s[k]
  BY ConcatProperties
<1>2. Len(p) \in Nat /\ Len(s) \in Nat /\ Len(c) \in Nat /\ Len(p) <= Len(s)
  BY DEF StartsWith
<1> DEFINE whole == s \o c
<1>0. whole \in Seq(S) /\ Len(whole) >= Len(s) /\ \A k \in 1 .. Len(s) : whole[k] = s[k]
  BY <1>1, <1>2
<1> HIDE DEF whole
<1>3. ASSUME NEW k \in 1 .. Len(p) PROVE p[k] = s[k]
  <2>1. SubSeq(s, 1, Len(p))[k] = s[k]
    BY <1>2
  <2> QED
    BY <2>1 DEF StartsWith
<1>4. /\ SubSeq(whole, 1, Len(p)) \in Seq(S) /\ Len(SubSeq(whole, 1, Len(p))) = Len(p)
      /\ \A k \in 1 .. Len(p) : SubSeq(whole, 1, Len(p))[k] = whole[k]
  BY <1>0, <1>2, SubSeqProperties
<1>5. \A k \in 1 .. Len(p) : p[k] = SubSeq(whole, 1, Len(p))[k]
  BY <1>0, <1>2, <1>3, <1>4, SMTT(30)
<1>6. p = SubSeq(whole, 1, Len(p))
  BY <1>4, <1>5, SeqEqual
<1>7. Len(p) <= Len(whole)
  BY <1>0, <1>2
<1> QED
  BY <1>6, <1>7 DEF StartsWith, whole

\* The texts of more cells start with those of fewer.
LEMMA TextsStart ==
    ASSUME NEW S, NEW s \in Seq(S), NEW m \in Nat, m <= Len(s)
    PROVE  TextUpTo(s, m) \in Seq(S) /\ StartsWith(TextOf(s), TextUpTo(s, m))
<1>1. ASSUME NEW n \in Nat, n <= Len(s) PROVE TextUpTo(s, n) \in Seq(S)
  <2>1. SubSeq(s, 1, n) \in Seq(S)
    BY <1>1
  <2> QED
    BY <2>1, TextOfType DEF TextUpTo
<1> DEFINE T == {n \in m .. Len(s) : ~StartsWith(TextUpTo(s, n), TextUpTo(s, m))}
<1>2. T = {}
  <2> SUFFICES ASSUME T # {} PROVE FALSE
    OBVIOUS
  <2>1. T \subseteq Nat
    OBVIOUS
  <2>2. PICK n \in T : \A k \in T : n <= k
    <3> HIDE DEF T
    <3> QED
      BY <2>1, LeastIn
  <2>3. n \in m .. Len(s) /\ ~StartsWith(TextUpTo(s, n), TextUpTo(s, m)) /\ Len(s) \in Nat
    BY <2>2
  <2>4. n # m
    BY <1>1, <2>3, StartsWithItself
  <2>5. n - 1 \in m .. Len(s) /\ n - 1 \in Nat /\ n - 1 < Len(s) /\ (n - 1) + 1 = n /\ ~(n <= n - 1)
    BY <2>3, <2>4
  <2>6. StartsWith(TextUpTo(s, n - 1), TextUpTo(s, m))
    BY <2>2, <2>5
  <2> HIDE DEF T
  <2>7. TextUpTo(s, n) = TextUpTo(s, n - 1) \o Piece(s[n]) /\ s[n] \in S
    BY <2>5, TextUpToNext
  <2>8. Piece(s[n]) \in Seq(S)
    BY <2>7 DEF Piece
  <2>9. TextUpTo(s, n - 1) \in Seq(S) /\ TextUpTo(s, m) \in Seq(S)
    <3>1. n - 1 <= Len(s)
      BY <2>5
    <3> QED
      BY <1>1, <2>5, <3>1
  <2>10. StartsWith(TextUpTo(s, n - 1) \o Piece(s[n]), TextUpTo(s, m))
    BY <2>6, <2>8, <2>9, StartsWithMore
  <2> QED
    BY <2>3, <2>7, <2>10
<1>3. StartsWith(TextUpTo(s, Len(s)), TextUpTo(s, m))
  <2>1. Len(s) \in m .. Len(s)
    OBVIOUS
  <2> QED
    BY <1>2, <2>1
<1>4. TextUpTo(s, Len(s)) = TextOf(s)
  BY StartsWithItself DEF TextUpTo
<1> QED
  BY <1>1, <1>3, <1>4

\* Cells that are all pieces of texts.
LEMMA TextsAll ==
    ASSUME NEW S, NEW s \in Seq(S), NEW b \in Nat, NEW l \in Nat, b + l <= Len(s),
           \A k \in 1 .. l : s[b + k][2] > 0
    PROVE  TextUpTo(s, b + l) = TextUpTo(s, b) \o [k \in 1 .. l |-> s[b + k]]
<1> DEFINE part(n) == [k \in 1 .. n |-> s[b + k]]
           T == {n \in 0 .. l : TextUpTo(s, b + n) # TextUpTo(s, b) \o part(n)}
<1>1. b <= Len(s)
  OBVIOUS
<1>2. TextUpTo(s, b) \in Seq(S)
  BY <1>1, TextsStart
<1>3. ASSUME NEW n \in 0 .. l PROVE part(n) \in Seq(S) /\ Len(part(n)) = n
  <2>1. \A k \in 1 .. n : s[b + k] \in S
    BY ElementOfSeq
  <2>2. part(n) \in [1 .. n -> S]
    BY <2>1
  <2>3. part(n) \in Seq(S)
    BY <2>2, SeqDef
  <2> QED
    BY <2>3
<1>4. T = {}
  <2> SUFFICES ASSUME T # {} PROVE FALSE
    OBVIOUS
  <2>1. T \subseteq Nat
    OBVIOUS
  <2>2. PICK n \in T : \A k \in T : n <= k
    <3> HIDE DEF T
    <3> QED
      BY <2>1, LeastIn
  <2>3. n \in 0 .. l /\ TextUpTo(s, b + n) # TextUpTo(s, b) \o part(n)
    BY <2>2
  <2>4. n # 0
    <3> SUFFICES ASSUME n = 0 PROVE FALSE
      OBVIOUS
    <3>1. part(0) \in Seq(S) /\ Len(part(0)) = 0
      BY <1>3
    <3>2. part(0) = <<>>
      <4> HIDE DEF part
      <4> QED
        BY <3>1, EmptySeq
    <3>3. TextUpTo(s, b) \o <<>> = TextUpTo(s, b)
      BY <1>2, ConcatEmptySeq
    <3>4. b + 0 = b
      OBVIOUS
    <3> HIDE DEF part, T
    <3> QED
      BY <2>3, <3>2, <3>3, <3>4
  <2>5. n - 1 \in 0 .. l /\ n - 1 \notin T
    <3>1. n - 1 \in 0 .. l /\ ~(n <= n - 1)
      BY <2>3, <2>4
    <3> HIDE DEF T
    <3> QED
      BY <2>2, <3>1
  <2>6. TextUpTo(s, b + (n - 1)) = TextUpTo(s, b) \o part(n - 1)
    BY <2>5
  <2>7. b + (n - 1) \in Nat /\ b + (n - 1) < Len(s) /\ (b + (n - 1)) + 1 = b + n /\ n \in 1 .. l
    BY <2>3, <2>4
  <2> HIDE DEF T
  <2>8. TextUpTo(s, b + n) = TextUpTo(s, b + (n - 1)) \o Piece(s[b + n]) /\ s[b + n] \in S
    BY <2>7, TextUpToNext
  <2>9. Piece(s[b + n]) = <<s[b + n]>>
    BY <2>7 DEF Piece
  <2>10. part(n) = part(n - 1) \o <<s[b + n]>>
    <3> DEFINE c == <<s[b + n]>>
    <3>1. c \in Seq(S) /\ Len(c) = 1 /\ c[1] = s[b + n]
      BY <2>8
    <3>2. part(n - 1) \in Seq(S) /\ Len(part(n - 1)) = n - 1 /\ part(n) \in Seq(S) /\ Len(part(n)) = n
      BY <1>3, <2>3, <2>5
    <3>3. ASSUME NEW k \in 1 .. n PROVE part(n)[k] = IF k <= n - 1 THEN part(n - 1)[k] ELSE s[b + n]
      BY <2>3, SMTT(30)
    <3> HIDE DEF part, c
    <3>4. /\ part(n - 1) \o c \in Seq(S) /\ Len(part(n - 1) \o c) = (n - 1) + 1
          /\ \A k \in 1 .. (n - 1) + 1 : (part(n - 1) \o c)[k] =
                IF k <= n - 1 THEN part(n - 1)[k] ELSE c[k - (n - 1)]
      <4> DEFINE first == part(n - 1)
      <4>1. first \in Seq(S) /\ Len(first) = n - 1
        BY <3>2
      <4> HIDE DEF first
      <4>2. /\ first \o c \in Seq(S) /\ Len(first \o c) = (n - 1) + 1
            /\ \A k \in 1 .. (n - 1) + 1 : (first \o c)[k] =
                  IF k <= n - 1 THEN first[k] ELSE c[k - (n - 1)]
        <5>1. /\ first \o c \in Seq(S) /\ Len(first \o c) = Len(first) + Len(c)
              /\ \A k \in 1 .. Len(first) + Len(c) : (first \o c)[k] =
                    IF k <= Len(first) THEN first[k] ELSE c[k - Len(first)]
          BY <3>1, <4>1, ConcatProperties
        <5> QED
          BY <3>1, <4>1, <5>1
      <4> QED
        BY <4>2 DEF first
    <3>5. ASSUME NEW k \in 1 .. n PROVE part(n)[k] = (part(n - 1) \o c)[k]
      <4>1. k \in 1 .. (n - 1) + 1 /\ (k <= n - 1 \/ k - (n - 1) = 1)
        BY <2>7
      <4> QED
        BY <3>1, <3>3, <3>4, <4>1
    <3>6. Len(part(n - 1) \o c) = n
      BY <2>7, <3>4
    <3>7. part(n) = part(n - 1) \o c
      BY <3>2, <3>4, <3>5, <3>6, SeqEqual
    <3> QED
      BY <3>7 DEF c
  <2>11. <<s[b + n]>> \in Seq(S) /\ part(n - 1) \in Seq(S)
    <3>1. <<s[b + n]>> \in Seq(S)
      BY <2>8
    <3> HIDE DEF part
    <3> QED
      BY <1>3, <2>5, <3>1
  <2> HIDE DEF part
  <2>12. (TextUpTo(s, b) \o part(n - 1)) \o <<s[b + n]>>
         = TextUpTo(s, b) \o (part(n - 1) \o <<s[b + n]>>)
    <3>1. Associates(S)
      BY Associative
    <3> QED
      BY <1>2, <2>11, <3>1, Zenon DEF Associates
  <2> QED
    BY <2>3, <2>6, <2>8, <2>9, <2>10, <2>12
<1>5. l \in 0 .. l
  OBVIOUS
<1> QED
  BY <1>4, <1>5

-----------------------------------------------------------------------------
(* The debug log: what the ring holds of what was accepted.                 *)

\* Cells a debug_print has put but not counted; cells the thread has read but not
\* subtracted; the cells between the thread and the printers.
Added == IF slock # "nobody" /\ pc[slock] = "add" THEN reg[slock].n ELSE 0
Removed == IF tpc \in {"size", "sub"} THEN loaded.n ELSE 0
Filled == size + Added - Removed

\* How far the thread has read, how far size counts.
Taken == Len(accepted) - Filled
Counted == Len(accepted) - Added

\* The ring is that of a service that was created and has not been destroyed.
Started == tpc # "none" \/ cli = "create"

Fresh == cli = "create" \/ tpc \in {"open", "raise"} =>
    /\ accepted = <<>> /\ size = 0
    /\ \A t \in Tasks : pc[t] \notin {"put", "add", "release"}

\* The cells from head on are the last ones accepted.
InRing ==
    /\ Removed <= size /\ size + Added <= RingSize /\ Filled <= Len(accepted)
    /\ tail = (head + Filled) % RingSize
    /\ \A j \in 1 .. Filled : cells[(head + j - 1) % RingSize] = accepted[Taken + j]

\* The cells from b on are those of record n.
RecordAt(b, n) ==
    \A j \in 0 .. texts[n] : b + j <= Len(accepted) /\ accepted[b + j] = <<n, j>>

\* A record starts behind the first i cells, if there are more.
Boundary(i) == i < Len(accepted) => \E n \in 1 .. Len(texts) : RecordAt(i + 1, n)

\* Every cell belongs to a whole record, and size counts whole records.
Framed ==
    /\ \A i \in 1 .. Len(accepted) :
          \E n \in 1 .. Len(texts) : \E b \in 1 .. i : i <= b + texts[n] /\ RecordAt(b, n)
    /\ Boundary(Counted)

\* The thread between two records, behind a length, and before or behind a text.
InText(n, b) ==
    /\ tpc = "text"
    /\ \/ left = texts[n] /\ Taken = b
       \/ left = 0 /\ Taken = b + texts[n]
BehindText(n, b) ==
    /\ tpc \in {"sub", "write"} /\ left = texts[n] /\ Taken = b + left
    /\ logBuffer = [k \in 1 .. left |-> <<n, k>>]
BehindHeader(n, b) == tpc = "size" /\ Taken = b /\ logBuffer[1] = <<n, 0>>

InRecord ==
    \E n \in 1 .. Len(texts) : \E b \in 1 .. Len(accepted) :
        RecordAt(b, n) /\ (BehindHeader(n, b) \/ InText(n, b) \/ BehindText(n, b))

Position ==
    /\ tpc \in {"raise", "loop", "wait", "more", "header", "exit"} => Boundary(Taken)
    /\ tpc \in {"size", "text", "sub", "write"} => InRecord

\* The file holds the texts of what was read, but for a text still in LOG_BUFFER,
\* and ends with a whole one.
Written == IF tpc \in {"sub", "write"} THEN Taken - left ELSE Taken
Saved == tpc \notin {"none", "open"} =>
    /\ file = TextOf(SubSeq(accepted, 1, Written))
    /\ file # <<>> => \E n \in 1 .. Len(texts) : file[Len(file)] = <<n, texts[n]>>

\* The thread that is about to sleep without a token has emptied the ring.
Awake ==
    /\ tpc \in {"loop", "wait"} /\ saving /\ serviceSem = 0
    /\ \A t \in Tasks : pc[t] \notin {"add", "release"}
    => size = 0

LogData == Fresh /\ InRing /\ Framed /\ Position /\ Saved /\ Awake
DataOK == Clean /\ Started => LogData

LEMMA Amounts ==
    ASSUME LogTypes
    PROVE  /\ Added \in 0 .. RingSize /\ Removed \in 0 .. RingSize
           /\ size \in 0 .. RingSize /\ head \in 0 .. RingSize - 1 /\ tail \in 0 .. RingSize - 1
           /\ Len(accepted) \in Nat /\ Filled \in Int /\ Taken \in Int /\ Counted \in Int
           /\ RingSize \in Nat \ {0}
<1>1. Added \in 0 .. RingSize
  BY LogSizes DEF LogTypes, Holder, Loads, Registers, Added
<1>2. Removed \in 0 .. RingSize
  BY LogSizes DEF LogTypes, Loads, Registers, Removed
<1>3. Len(accepted) \in Nat
  BY DEF LogTypes, Held
<1> QED
  BY <1>1, <1>2, <1>3, LogSizes DEF LogTypes, LogTypeOK, Filled, Taken, Counted

\* The thread is behind the printers, and size counts the cells between them.
LEMMA RingAmounts ==
    ASSUME LogTypes, InRing
    PROVE  /\ Filled \in 0 .. RingSize /\ Taken \in 0 .. Len(accepted)
           /\ Counted \in Taken .. Len(accepted) /\ Counted - Taken = size - Removed
<1>1. Removed <= size /\ size + Added <= RingSize /\ Filled <= Len(accepted)
  BY DEF InRing
<1>2. Filled = size + Added - Removed /\ Taken = Len(accepted) - Filled /\ Counted = Len(accepted) - Added
  BY DEF Filled, Taken, Counted
<1>3. Filled \in 0 .. RingSize
  <2>1. Added \in Nat /\ Removed \in Nat /\ size \in Nat /\ RingSize \in Nat
    BY Amounts
  <2>2. Filled \in Nat
    BY <1>1, <1>2, <2>1
  <2>3. Filled <= RingSize
    BY <1>1, <1>2, <2>1
  <2> QED
    BY <2>1, <2>2, <2>3
<1>4. Taken \in 0 .. Len(accepted)
  <2>1. Len(accepted) \in Nat /\ Filled <= Len(accepted) /\ Taken = Len(accepted) - Filled
    BY <1>1, <1>2, Amounts
  <2> QED
    BY <1>3, <2>1
<1>5. Counted \in Taken .. Len(accepted) /\ Counted - Taken = size - Removed
  <2>1. /\ Len(accepted) \in Nat /\ Added \in Nat /\ Removed \in Nat /\ size \in Nat
        /\ Removed <= size
    BY <1>1, Amounts
  <2>2. Counted = Len(accepted) - Added /\ Taken = Len(accepted) - (size + Added - Removed)
    BY <1>2
  <2> QED
    BY <2>1, <2>2
<1> QED
  BY <1>3, <1>4, <1>5

LEMMA Lengths ==
    ASSUME LogTypes
    PROVE  /\ Len(texts) \in Nat /\ Len(accepted) \in Nat
           /\ \A n \in 1 .. Len(texts) : texts[n] \in 1 .. BuffLen
<1>1. texts \in Seq(Texts)
  BY DEF LogTypes, Printed
<1>2. ASSUME NEW n \in 1 .. Len(texts) PROVE texts[n] \in 1 .. BuffLen
  BY <1>1, LogSizes, ElementOfSeq
<1> QED
  BY <1>1, <1>2, Amounts

-----------------------------------------------------------------------------
(* Records.                                                                 *)

LEMMA RecordCells ==
    ASSUME LogTypes, NEW n \in 1 .. Len(texts), NEW b \in Int, RecordAt(b, n), NEW i \in Int,
           b <= i, i <= b + texts[n]
    PROVE  i <= Len(accepted) /\ accepted[i] = <<n, i - b>>
<1>1. texts[n] \in Int /\ Len(accepted) \in Nat
  BY Lengths
<1>2. PICK j \in 0 .. texts[n] : i = b + j /\ j = i - b
  BY <1>1
<1> QED
  BY <1>2 DEF RecordAt

LEMMA PairEqual ==
    ASSUME NEW n, NEW j, NEW m, NEW k, <<n, j>> = <<m, k>> PROVE n = m /\ j = k
OBVIOUS

\* Records do not overlap.
LEMMA SameRecord ==
    ASSUME LogTypes, NEW n \in 1 .. Len(texts), NEW b \in Int, RecordAt(b, n),
           NEW m \in 1 .. Len(texts), NEW c \in Int, RecordAt(c, m), NEW i \in Int,
           b <= i, i <= b + texts[n], c <= i, i <= c + texts[m]
    PROVE  n = m /\ b = c
<1>1. accepted[i] = <<n, i - b>> /\ accepted[i] = <<m, i - c>>
  BY RecordCells
<1>2. n = m /\ i - b = i - c
  BY <1>1, PairEqual
<1> QED
  BY <1>2

LEMMA AfterRecord ==
    ASSUME LogTypes, Framed, NEW n \in 1 .. Len(texts), NEW b \in Nat, RecordAt(b, n), 0 < b
    PROVE  Boundary(b + texts[n])
<1>0. texts[n] \in Nat /\ Len(accepted) \in Nat
  BY Lengths
<1> DEFINE i == b + texts[n] + 1
<1> SUFFICES ASSUME i <= Len(accepted) PROVE \E m \in 1 .. Len(texts) : RecordAt(i, m)
  BY <1>0 DEF Boundary
<1>1. i \in 1 .. Len(accepted) /\ i \in Nat
  BY <1>0
<1>2. PICK m \in 1 .. Len(texts), c \in 1 .. i : i <= c + texts[m] /\ RecordAt(c, m)
  BY <1>1 DEF Framed
<1>3. texts[m] \in Nat
  BY Lengths
<1>4. CASE c = i
  BY <1>2, <1>4
<1>5. CASE c # i
  <2>1. c \in Int /\ i - 1 \in Int /\ c <= i - 1 /\ i - 1 <= c + texts[m] /\ b <= i - 1 /\ i - 1 <= b + texts[n]
    BY <1>0, <1>1, <1>2, <1>3, <1>5, SMTT(30)
  <2> HIDE DEF i
  <2>2. n = m /\ b = c
    BY <1>2, <2>1, SameRecord
  <2>3. ~ (i <= c + texts[m])
    BY <1>0, <2>2 DEF i
  <2> QED
    BY <1>2, <2>3
<1> QED
  BY <1>4, <1>5

\* What size counts ends with a whole record, so a text whose length was read is there.
LEMMA TextIsThere ==
    ASSUME LogTypes, Framed, NEW n \in 1 .. Len(texts), NEW b \in Nat, RecordAt(b, n),
           b <= Counted, Counted \in Nat
    PROVE  b + texts[n] <= Counted
<1>0. texts[n] \in Nat /\ Len(accepted) \in Nat
  BY Lengths
<1> SUFFICES ASSUME Counted < b + texts[n] PROVE FALSE
  BY <1>0
<1>1. b + texts[n] <= Len(accepted)
  <2>1. b + texts[n] \in Int /\ b <= b + texts[n]
    BY <1>0
  <2> QED
    BY <2>1, RecordCells
<1>2. Counted < Len(accepted)
  BY <1>0, <1>1
<1>3. PICK m \in 1 .. Len(texts) : RecordAt(Counted + 1, m)
  BY <1>2 DEF Framed, Boundary
<1>4. texts[m] \in Nat
  BY Lengths
<1>5. /\ Counted + 1 \in Int /\ b <= Counted + 1 /\ Counted + 1 <= b + texts[n]
      /\ Counted + 1 <= Counted + 1 + texts[m]
  BY <1>0, <1>4
<1>6. b = Counted + 1
  BY <1>3, <1>5, SameRecord
<1> QED
  BY <1>6

-----------------------------------------------------------------------------
(* What a step leaves alone.                                                *)

\* Nothing is taken out of the two histories.
Extends ==
    /\ Len(texts) <= Len(texts') /\ \A n \in 1 .. Len(texts) : texts'[n] = texts[n]
    /\ Len(accepted) <= Len(accepted') /\ \A i \in 1 .. Len(accepted) : accepted'[i] = accepted[i]

LEMMA ExtendsTexts ==
    ASSUME LogTypes, LogTypes',
           \/ UNCHANGED texts
           \/ \E len \in Texts : texts' = Append(texts, len),
           UNCHANGED accepted
    PROVE  Extends
<1>1. CASE UNCHANGED texts
  BY <1>1, Lengths DEF Extends
<1>2. ASSUME NEW len \in Texts, texts' = Append(texts, len) PROVE Extends
  <2>1. texts \in Seq(Texts)
    BY DEF LogTypes, Printed
  <2>2. /\ Len(Append(texts, len)) = Len(texts) + 1
        /\ \A n \in 1 .. Len(texts) : Append(texts, len)[n] = texts[n]
    BY <2>1, AppendProperties
  <2> QED
    BY <1>2, <2>2, Lengths DEF Extends
<1> QED
  BY <1>1, <1>2

LEMMA RecordStays ==
    ASSUME LogTypes, LogTypes', Extends, NEW n \in 1 .. Len(texts), NEW b \in Nat, 0 < b, RecordAt(b, n)
    PROVE  n \in 1 .. Len(texts') /\ texts'[n] = texts[n] /\ RecordAt(b, n)'
<1>1. Len(texts) \in Nat /\ Len(texts') \in Nat /\ Len(accepted) \in Nat /\ Len(accepted') \in Nat
  <2>1. Len(texts') \in Nat /\ Len(accepted') \in Nat
    BY DEF LogTypes, Printed, Held
  <2> QED
    BY <2>1, Lengths
<1>2. n \in 1 .. Len(texts') /\ texts'[n] = texts[n]
  BY <1>1 DEF Extends
<1>3. ASSUME NEW j \in 0 .. texts[n]
      PROVE  b + j <= Len(accepted') /\ accepted'[b + j] = <<n, j>>
  <2>1. texts[n] \in Nat
    BY Lengths
  <2>2. b + j \in 1 .. Len(accepted) /\ accepted[b + j] = <<n, j>>
    BY <1>1, <2>1 DEF RecordAt
  <2> QED
    BY <1>1, <2>2 DEF Extends
<1> QED
  BY <1>2, <1>3 DEF RecordAt

LEMMA BoundaryStays ==
    ASSUME LogTypes, LogTypes', Extends, NEW i \in Nat, Boundary(i),
           Len(accepted') = Len(accepted) \/ i < Len(accepted)
    PROVE  Boundary(i)'
<1>1. CASE i < Len(accepted)
  <2>1. PICK n \in 1 .. Len(texts) : RecordAt(i + 1, n)
    BY <1>1 DEF Boundary
  <2>2. i + 1 \in Nat /\ 0 < i + 1
    OBVIOUS
  <2>3. n \in 1 .. Len(texts') /\ RecordAt(i + 1, n)'
    BY <2>1, <2>2, RecordStays
  <2> QED
    BY <2>3 DEF Boundary
<1>2. CASE ~ (i < Len(accepted))
  BY <1>2 DEF Boundary
<1> QED
  BY <1>1, <1>2

LEMMA FramedStays ==
    ASSUME LogTypes, LogTypes', Extends, UNCHANGED accepted, Framed, Counted \in Nat,
           Counted' = Counted \/ Counted' = Len(accepted)
    PROVE  Framed'
<1>1. ASSUME NEW i \in 1 .. Len(accepted')
      PROVE  \E n \in 1 .. Len(texts') : \E b \in 1 .. i : i <= b + texts'[n] /\ RecordAt(b, n)'
  <2>1. PICK n \in 1 .. Len(texts), b \in 1 .. i : i <= b + texts[n] /\ RecordAt(b, n)
    BY <1>1 DEF Framed
  <2>2. b \in Nat /\ 0 < b
    OBVIOUS
  <2>3. n \in 1 .. Len(texts') /\ texts'[n] = texts[n] /\ RecordAt(b, n)'
    BY <2>1, <2>2, RecordStays
  <2> QED
    BY <2>1, <2>3
<1>2. Boundary(Counted)'
  <2>1. CASE Counted' = Counted
    <3>1. Boundary(Counted)
      BY DEF Framed
    <3>2. \A i \in Nat : Boundary(i) => Boundary(i)'
      BY BoundaryStays
    <3>3. ASSUME NEW i, i = Counted', Boundary(i)' PROVE Boundary(Counted)'
      BY <3>3
    <3> QED
      BY <2>1, <3>1, <3>2, <3>3
  <2>2. CASE Counted' = Len(accepted)
    <3>1. ~ (Counted' < Len(accepted'))
      BY <2>2, Amounts
    <3> QED
      BY <3>1 DEF Boundary
  <2> QED
    BY <2>1, <2>2
<1> QED
  BY <1>1, <1>2 DEF Framed

LEMMA SameFilled ==
    ASSUME NEW s \in Int, NEW a \in Int, NEW r \in Int, NEW s2 \in Int, NEW a2 \in Int,
           s2 + a2 = s + a
    PROVE  s2 + (a2 - r) = s + (a - r)
OBVIOUS

LEMMA RingStays ==
    ASSUME LogTypes, LogTypes', InRing, UNCHANGED <<cells, head, tail, accepted>>,
           Filled' = Filled, Removed' <= size', size' + Added' <= RingSize
    PROVE  InRing' /\ Taken' = Taken
<1>1. Taken' = Taken
  BY DEF Taken
<1> QED
  BY <1>1 DEF InRing

\* What the thread has read and written as long as it does nothing.
LEMMA ReadingStays ==
    ASSUME LogTypes, LogTypes', InRing, Extends, UNCHANGED thread, Taken' = Taken,
           \A i \in 0 .. Len(accepted) : Boundary(i) => Boundary(i)', Position
    PROVE  Position'
<1>1. UNCHANGED <<tpc, left, logBuffer>>
  BY DEF thread
<1>2. tpc \in {"raise", "loop", "wait", "more", "header", "exit"} => Boundary(Taken)'
  <2>1. Taken \in 0 .. Len(accepted)
    BY RingAmounts
  <2>2. ASSUME NEW i, i = Taken', Boundary(i)' PROVE Boundary(Taken)'
    BY <2>2
  <2> QED
    BY <2>1, <2>2 DEF Position
<1>3. ASSUME InRecord PROVE InRecord'
  <2>1. PICK n \in 1 .. Len(texts), b \in 1 .. Len(accepted) :
            RecordAt(b, n) /\ (BehindHeader(n, b) \/ InText(n, b) \/ BehindText(n, b))
    BY <1>3 DEF InRecord
  <2>2. b \in Nat /\ 0 < b
    OBVIOUS
  <2>3. n \in 1 .. Len(texts') /\ texts'[n] = texts[n] /\ RecordAt(b, n)'
    BY <2>1, <2>2, RecordStays
  <2>4. b \in 1 .. Len(accepted')
    <3>1. Len(accepted) \in Nat /\ Len(accepted') \in Nat /\ Len(accepted) <= Len(accepted')
      BY DEF Extends, LogTypes, Held
    <3> QED
      BY <3>1
  <2>5. BehindHeader(n, b)' \/ InText(n, b)' \/ BehindText(n, b)'
    BY <1>1, <2>1, <2>3 DEF BehindHeader, InText, BehindText
  <2> QED
    BY <2>3, <2>4, <2>5 DEF InRecord
<1> QED
  BY <1>1, <1>2, <1>3 DEF Position

LEMMA WrittenBounds ==
    ASSUME LogTypes, InRing, Position
    PROVE  Written \in 0 .. Len(accepted)
<1>1. Taken \in 0 .. Len(accepted)
  BY RingAmounts
<1>2. CASE tpc \in {"sub", "write"}
  <2>1. PICK n \in 1 .. Len(texts), b \in 1 .. Len(accepted) :
            RecordAt(b, n) /\ (BehindHeader(n, b) \/ InText(n, b) \/ BehindText(n, b))
    BY <1>2 DEF Position, InRecord
  <2>2. BehindText(n, b)
    BY <1>2, <2>1 DEF BehindHeader, InText
  <2>3. left \in Int
    BY LogSizes DEF LogTypes, LogTypeOK
  <2>4. Taken - left = b
    BY <2>2, <2>3 DEF BehindText
  <2> QED
    BY <1>2, <2>4 DEF Written
<1> QED
  BY <1>1, <1>2 DEF Written

LEMMA SavedStays ==
    ASSUME LogTypes, LogTypes', InRing, Position, Extends, UNCHANGED thread, Taken' = Taken, Saved
    PROVE  Saved'
<1>1. UNCHANGED <<tpc, left, file>>
  BY DEF thread
<1>2. Written' = Written
  BY <1>1 DEF Written
<1>3. Written \in 0 .. Len(accepted)
  BY WrittenBounds
<1>4. SubSeq(accepted', 1, Written) = SubSeq(accepted, 1, Written)
  <2> DEFINE m == Written
             old == accepted
             more == accepted'
  <2>1. old \in Seq(Pieces) /\ more \in Seq(Pieces') /\ Len(old) <= Len(more)
        /\ \A i \in 1 .. Len(old) : more[i] = old[i]
    BY DEF LogTypes, Held, Extends
  <2>2. m \in 0 .. Len(old)
    BY <1>3
  <2> HIDE DEF m, old, more
  <2>3. \A i \in 1 .. m : more[i] = old[i]
    BY <2>1, <2>2
  <2>4. SubSeq(old, 1, m) = [i \in 1 .. m |-> old[i]] /\ SubSeq(more, 1, m) = [i \in 1 .. m |-> more[i]]
    BY <2>1, <2>2
  <2>5. SubSeq(old, 1, m) = SubSeq(more, 1, m)
    BY <2>3, <2>4
  <2> QED
    BY <2>5 DEF m, old, more
<1>5. ASSUME NEW n \in 1 .. Len(texts) PROVE n \in 1 .. Len(texts') /\ texts'[n] = texts[n]
  <2>1. Len(texts) \in Nat /\ Len(texts') \in Nat /\ Len(texts) <= Len(texts')
    BY Lengths DEF Extends, LogTypes, Printed
  <2> QED
    BY <2>1 DEF Extends
<1>6. tpc \notin {"none", "open"} =>
        /\ file' = TextOf(SubSeq(accepted', 1, Written'))
        /\ file' # <<>> => \E n \in 1 .. Len(texts') : file'[Len(file')] = <<n, texts'[n]>>
  <2>1. tpc \notin {"none", "open"} =>
          /\ file = TextOf(SubSeq(accepted, 1, Written))
          /\ file # <<>> => \E n \in 1 .. Len(texts) : file[Len(file)] = <<n, texts[n]>>
    BY DEF Saved
  <2>2. ASSUME NEW n \in 1 .. Len(texts), file[Len(file)] = <<n, texts[n]>>
        PROVE  \E k \in 1 .. Len(texts') : file'[Len(file')] = <<k, texts'[k]>>
    BY <1>1, <1>5, <2>2
  <2>3. file' = file
    BY <1>1
  <2> QED
    BY <1>2, <1>4, <2>1, <2>2, <2>3
<1> QED
  BY <1>1, <1>6 DEF Saved

-----------------------------------------------------------------------------
(* debug_print and the command.                                             *)

\* A step that does not touch the ring, the thread or the cells to be counted.
LEMMA RestStays ==
    ASSUME LogTypes, LogTypes', InRing, Framed, Position, Saved, Extends,
           UNCHANGED <<cells, head, tail, accepted, thread>>,
           size' + Added' = size + Added, size <= size',
           Added' = Added \/ Added' = 0
    PROVE  InRing' /\ Framed' /\ Position' /\ Saved'
<1>1. UNCHANGED <<tpc, loaded>>
  BY DEF thread
<1>2. Removed' = Removed
  BY <1>1 DEF Removed
<1>3. Removed <= size /\ size + Added <= RingSize
  BY DEF InRing
<1>4. size' \in Int /\ Added' \in Int
  <2>1. size' \in Int
    BY LogSizes DEF LogTypes, LogTypeOK
  <2> QED
    BY <2>1, Amounts, LogSizes
<1>5. Filled' = Filled
  <2>1. Filled' = size' + (Added' - Removed') /\ Filled = size + (Added - Removed)
    BY DEF Filled
  <2>2. Added \in Int /\ Removed \in Int /\ size \in Int
    BY Amounts
  <2>3. size' + (Added' - Removed) = size + (Added - Removed)
    <3>1. size' + Added' = size + Added
      OBVIOUS
    <3>2. ASSUME NEW s2 \in Int, NEW a2 \in Int, s2 = size', a2 = Added'
          PROVE  s2 + (a2 - Removed) = size + (Added - Removed)
      <4>1. s2 + a2 = size + Added
        BY <3>1, <3>2
      <4> QED
        BY <2>2, <4>1, SameFilled
    <3> QED
      BY <1>4, <3>2
  <2> QED
    BY <1>2, <2>1, <2>3, Zenon
<1>6. Removed' <= size' /\ size' + Added' <= RingSize
  <2>1. Removed <= size'
    BY <1>3, <1>4, Amounts, SMTT(30)
  <2>2. (size + Added)  = (size' + Added')
    OBVIOUS
  <2> QED
    BY <1>2, <1>3, <2>1, <2>2
<1>7. InRing' /\ Taken' = Taken
  BY <1>5, <1>6, RingStays
<1>8. Counted \in Nat /\ (Counted' = Counted \/ Counted' = Len(accepted))
  <2>1. Counted \in Nat
    BY RingAmounts, Amounts
  <2>2. Counted' = Len(accepted) - Added'
    BY DEF Counted
  <2>3. Counted = Len(accepted) - Added /\ Len(accepted) - 0 = Len(accepted)
    BY Amounts DEF Counted
  <2> QED
    BY <2>1, <2>2, <2>3
<1>9. Framed'
  BY <1>8, FramedStays
<1>10. \A i \in 0 .. Len(accepted) : Boundary(i) => Boundary(i)'
  BY BoundaryStays
<1> QED
  BY <1>7, <1>9, <1>10, ReadingStays, SavedStays

\* In every step but On, what goes wrong stays wrong and a service is there before.
LEMMA CalmBefore ==
    ASSUME LogTypes, [LogNext]_logVars, ~On, Clean', Started'
    PROVE  Clean /\ Started
<1> USE DEF Clean
<1>1. ASSUME NEW t \in Tasks, (\E len \in Texts : Record(t, len)) \/ DebugPrint(t)
      PROVE  Clean /\ Started
  <2>1. UNCHANGED <<tpc, cli, faults>>
    BY <1>1 DEF Record, DebugPrint, Test, Put, Add, Release, history, service, thread
  <2>2. (cut => cut') /\ (torn => torn')
    <3>1. CASE (\E len \in Texts : Record(t, len)) \/ Test(t) \/ Release(t)
      BY <3>1 DEF Record, Test, Release, history
    <3>2. CASE Put(t)
      <4>1. cut => cut'
        BY <3>2, Zenon DEF Put
      <4>2. UNCHANGED torn
        BY <3>2 DEF Put
      <4> QED
        BY <4>1, <4>2
    <3>3. CASE Add(t)
      <4>1. torn => torn'
        BY <3>3, Zenon DEF Add
      <4>2. UNCHANGED cut
        BY <3>3 DEF Add
      <4> QED
        BY <4>1, <4>2
    <3> QED
      BY <1>1, <3>1, <3>2, <3>3 DEF DebugPrint
  <2> QED
    BY <2>1, <2>2 DEF Started
<1>2. CASE Off \/ Command
  BY <1>2 DEF Off, Command, Create, Wake, Slept, history, thread, Started
<1>3. CASE OpenFails \/ WriteFails
  <2>1. faults' = faults + 1 /\ faults \in Nat
    BY <1>3 DEF OpenFails, WriteFails, LogTypes
  <2> QED
    BY <2>1
<1>4. CASE Save
  <2>1. tpc # "none"
    BY <1>4 DEF Save, OpenLog, Raise, Loop, Wait, More, Header, Size, Text, SubText, Write,
       Exit, Destroy
  <2>2. faults' = faults /\ (cut => cut') /\ (torn => torn')
    <3>1. CASE Size \/ SubText
      <4>1. torn => torn'
        BY <3>1, Zenon DEF Size, SubText, Sub
      <4>2. UNCHANGED <<cut, faults>>
        BY <3>1 DEF Size, SubText
      <4> QED
        BY <4>1, <4>2
    <3>2. CASE ~(Size \/ SubText)
      BY <1>4, <3>2 DEF Save, OpenLog, Raise, Loop, Wait, More, Header, Text, Write, Exit, Destroy,
         history
    <3> QED
      BY <3>1, <3>2
  <2> QED
    BY <2>1, <2>2 DEF Started
<1>5. CASE UNCHANGED logVars
  BY <1>5 DEF logVars, history, service, thread, Started
<1> QED
  BY <1>1, <1>2, <1>3, <1>4, <1>5 DEF LogNext

\* What a debug_print has put but not counted.
LEMMA AddedBy ==
    ASSUME LogTypes, NEW t \in Tasks, pc[t] # "idle"
    PROVE  slock = t /\ slock # "nobody" /\ Added = (IF pc[t] = "add" THEN reg[t].n ELSE 0)
BY LogSizes DEF LogTypes, Holder, Added

LEMMA NothingAdded == ASSUME slock = "nobody" PROVE Added = 0
BY DEF Added

LEMMA RecordData ==
    ASSUME LogTypes, LogTypes', LogData, NEW t \in Tasks, NEW len \in Texts, Record(t, len)
    PROVE  LogData'
<1> USE DEF LogData
<1>1. /\ UNCHANGED <<ring, service, thread, history>> /\ pc[t] = "idle" /\ slock = "nobody"
      /\ slock' = t /\ texts' = Append(texts, len) /\ pc' = [pc EXCEPT ![t] = "test"]
  BY DEF Record
<1>2. pc \in [Tasks -> {"idle", "test", "put", "add", "release"}]
  BY DEF LogTypes, Holder
<1>3. pc'[t] = "test"
  BY <1>1, <1>2
<1>4. Added = 0 /\ Added' = 0
  BY <1>1, <1>3, NothingAdded DEF Added
<1>5. InRing' /\ Framed' /\ Position' /\ Saved'
  <2>1. UNCHANGED <<cells, head, tail, accepted, thread, size>>
    BY <1>1 DEF ring, history
  <2>2. Extends
    BY <1>1, <2>1, ExtendsTexts
  <2>3. size \in Int
    BY Amounts
  <2> QED
    BY <1>4, <2>1, <2>2, <2>3, RestStays
<1>6. Fresh' /\ Awake'
  BY <1>1, <1>2 DEF Fresh, Awake, ring, service, thread, history
<1> QED
  BY <1>5, <1>6

LEMMA TestData ==
    ASSUME LogTypes, LogTypes', LogData, NEW t \in Tasks, Test(t)
    PROVE  LogData'
<1> USE DEF LogData
<1>1. /\ UNCHANGED <<reg, texts, ring, service, thread, history>> /\ pc[t] = "test"
      /\ \/ pc' = [pc EXCEPT ![t] = "put"] /\ UNCHANGED slock /\ saving
         \/ pc' = [pc EXCEPT ![t] = "idle"] /\ slock' = "nobody"
  BY DEF Test, Leave
<1>2. pc \in [Tasks -> {"idle", "test", "put", "add", "release"}]
  BY DEF LogTypes, Holder
<1>4. Added = 0 /\ Added' = 0
  <2>1. Added = 0 /\ slock = t
    BY <1>1, AddedBy
  <2>2. slock' = "nobody" \/ (slock' = t /\ pc'[t] = "put")
    BY <1>1, <1>2, <2>1
  <2> QED
    BY <2>1, <2>2 DEF Added
<1>5. InRing' /\ Framed' /\ Position' /\ Saved'
  <2>1. UNCHANGED <<cells, head, tail, accepted, thread, size, texts>>
    BY <1>1 DEF ring, history
  <2>2. Extends
    BY <1>1, <2>1, ExtendsTexts
  <2>3. size \in Int
    BY Amounts
  <2> QED
    BY <1>4, <2>1, <2>2, <2>3, RestStays
<1>6. Fresh'
  <2>1. CASE pc' = [pc EXCEPT ![t] = "put"] /\ saving
    <3>1. ~ (cli = "create" \/ tpc \in {"open", "raise"})
      BY <2>1 DEF LogTypes, Places
    <3> QED
      BY <1>1, <3>1 DEF Fresh, service, thread
  <2>2. CASE pc' = [pc EXCEPT ![t] = "idle"]
    BY <1>1, <1>2, <2>2 DEF Fresh, ring, service, thread, history
  <2> QED
    BY <1>1, <2>1, <2>2
<1>7. Awake'
  BY <1>1, <1>2 DEF Awake, ring, service, thread
<1> QED
  BY <1>5, <1>6, <1>7

LEMMA AddData ==
    ASSUME LogTypes, LogTypes', LogData, NEW t \in Tasks, Add(t), Clean'
    PROVE  LogData'
<1> USE DEF LogData
<1>1. /\ UNCHANGED <<slock, texts, cells, head, tail, service, thread, accepted>> /\ pc[t] = "add"
      /\ pc' = [pc EXCEPT ![t] = "release"] /\ size' = reg[t].size + reg[t].n
      /\ torn' = (torn \/ Overlapped(reg[t]))
  BY DEF Add
<1>2. pc \in [Tasks -> {"idle", "test", "put", "add", "release"}] /\ reg[t].n \in Nat
  BY LogSizes DEF LogTypes, Holder, Loads, Registers
<1>3. reg[t].size = size
  BY <1>1 DEF Clean, Overlapped
<1>4. Added = reg[t].n /\ Added' = 0
  <2>1. Added = reg[t].n /\ slock = t
    BY <1>1, AddedBy
  <2>2. slock' = t /\ pc'[t] = "release"
    BY <1>1, <1>2, <2>1
  <2> QED
    BY <2>1, <2>2 DEF Added
<1>5. InRing' /\ Framed' /\ Position' /\ Saved'
  <2>2. Extends
    BY <1>1, ExtendsTexts
  <2>3. size \in Int
    BY Amounts
  <2>4. size' + Added' = size + Added /\ size <= size'
    BY <1>1, <1>2, <1>3, <1>4, <2>3
  <2> QED
    BY <1>1, <1>4, <2>2, <2>4, RestStays
<1>6. Fresh'
  BY <1>1 DEF Fresh, service, thread
<1>7. Awake'
  <2>1. pc'[t] = "release"
    BY <1>1, <1>2
  <2> QED
    BY <2>1 DEF Awake
<1> QED
  BY <1>5, <1>6, <1>7

LEMMA TokenGiven ==
    ASSUME LogTypes, tpc # "none" PROVE Given > 0
<1>1. serviceSem \in -1 .. SemTokens /\ serviceSem # -1
  BY DEF LogTypes, LogTypeOK, Places
<1> QED
  BY <1>1, LogSizes DEF Given, Least

LEMMA ReleaseData ==
    ASSUME LogTypes, LogTypes', LogData, NEW t \in Tasks, Release(t)
    PROVE  LogData'
<1> USE DEF LogData
<1>1. /\ UNCHANGED <<texts, ring, saving, buffer, starts, cli, thread, history>>
      /\ pc[t] = "release" /\ slock' = "nobody" /\ pc' = [pc EXCEPT ![t] = "idle"]
      /\ serviceSem' = Given
  BY DEF Release, Leave
<1>2. pc \in [Tasks -> {"idle", "test", "put", "add", "release"}]
  BY DEF LogTypes, Holder
<1>4. Added = 0 /\ Added' = 0
  BY <1>1, AddedBy DEF Added
<1>5. InRing' /\ Framed' /\ Position' /\ Saved'
  <2>1. UNCHANGED <<cells, head, tail, accepted, thread, size>>
    BY <1>1 DEF ring, history
  <2>2. Extends
    BY <1>1, <2>1, ExtendsTexts
  <2>3. size \in Int
    BY Amounts
  <2> QED
    BY <1>4, <2>1, <2>2, <2>3, RestStays
<1>6. Fresh'
  BY <1>1 DEF Fresh, thread
<1>7. Awake'
  <2>1. CASE tpc = "none"
    BY <1>1, <2>1 DEF Awake, thread
  <2>2. CASE tpc # "none"
    <3>1. serviceSem' > 0
      BY <1>1, <2>2, TokenGiven
    <3>2. serviceSem' # 0
      BY <3>1
    <3> QED
      BY <3>2 DEF Awake
  <2> QED
    BY <2>1, <2>2
<1> QED
  BY <1>5, <1>6, <1>7

\* The printers' part is as it was.
LEMMA AddedSame == ASSUME UNCHANGED printer PROVE Added' = Added
BY DEF printer, Added

LEMMA IdleData ==
    ASSUME LogTypes, LogTypes', LogData, Off \/ Wake \/ Slept
    PROVE  LogData'
<1> USE DEF LogData
<1>1. UNCHANGED <<printer, ring, thread, history>>
  BY DEF Off, Wake, Slept
<1>2. UNCHANGED <<cells, head, tail, accepted, size, texts>>
  BY <1>1 DEF ring, history, printer
<1>3. Added' = Added
  BY <1>1, AddedSame
<1>5. InRing' /\ Framed' /\ Position' /\ Saved'
  <2>2. Extends
    BY <1>2, ExtendsTexts
  <2>3. size \in Int
    BY Amounts
  <2> QED
    BY <1>1, <1>2, <1>3, <2>2, <2>3, RestStays
<1>6. Fresh'
  BY <1>1 DEF Fresh, Off, Wake, Slept, printer, ring, thread, history
<1>7. Awake'
  <2>1. CASE Off \/ Slept
    BY <1>1, <2>1 DEF Awake, Off, Slept, printer, ring, thread
  <2>2. CASE Wake /\ tpc = "none"
    BY <1>1, <2>2 DEF Awake, thread
  <2>3. CASE Wake /\ tpc # "none"
    <3>1. serviceSem' > 0
      BY <2>3, TokenGiven DEF Wake
    <3>2. serviceSem' # 0
      BY <3>1
    <3> QED
      BY <3>2 DEF Awake
  <2> QED
    BY <2>1, <2>2, <2>3
<1> QED
  BY <1>5, <1>6, <1>7

\* A record that is put whole, as it is when nothing was cut off.
LEMMA PutGives ==
    ASSUME LogTypes, LogTypes', NEW t \in Tasks, Put(t), Clean'
    PROVE  /\ Len(texts) \in Nat \ {0} /\ texts[Len(texts)] \in Nat
           /\ Added = 0 /\ Added' = 1 + texts[Len(texts)] /\ size + Added' <= RingSize
           /\ Len(accepted') = Len(accepted) + Added'
           /\ \A i \in 1 .. Len(accepted) : accepted'[i] = accepted[i]
           /\ \A k \in 1 .. Added' : accepted'[Len(accepted) + k] = <<Len(texts), k - 1>>
           /\ tail' = (tail + Added') % RingSize
           /\ \A k \in 0 .. RingSize - 1 :
                 cells'[k] = IF (k - tail) % RingSize < Added'
                             THEN <<Len(texts), (k - tail) % RingSize>> ELSE cells[k]
<1> DEFINE N == Len(texts)
           record == Cells(N)
<1>1. slock = t /\ slock # "nobody" /\ Added = 0 /\ pc[t] = "put"
  BY AddedBy DEF Put
<1>2. N \in Nat \ {0} /\ texts[N] \in 1 .. BuffLen /\ record \in Seq(Pieces) /\ Len(record) = 1 + texts[N]
  BY <1>1, CellsOf DEF LogTypes
<1>3. PICK n \in 0 .. RingSize : /\ n = Least(Len(record), RingSize - size)
                                 /\ n <= Len(record) /\ n + size <= RingSize
  BY PutFits DEF LogTypes
<1>4. /\ cells' = [k \in 0 .. RingSize - 1 |->
                      IF (k - tail) % RingSize < n THEN record[((k - tail) % RingSize) + 1] ELSE cells[k]]
      /\ tail' = (tail + n) % RingSize
      /\ reg' = [reg EXCEPT ![t] = IF n = 0 THEN NoReg ELSE [size |-> size, n |-> n, start |-> starts]]
      /\ pc' = [pc EXCEPT ![t] = IF n = 0 THEN "release" ELSE "add"]
      /\ accepted' = accepted \o SubSeq(record, 1, n)
      /\ slock' = slock
  BY <1>3, Zenon DEF Put
<1>5. ~ (n < Len(record))
  <2>1. n < Len(record) => cut'
    BY <1>3, Zenon DEF Put
  <2> QED
    BY <2>1 DEF Clean
<1>6. \A k \in 1 .. 1 + texts[N] : record[k] = <<N, k - 1>>
  BY DEF Cells
<1> HIDE DEF record
<1>7. n = Len(record) /\ n \in Nat /\ n # 0 /\ n = 1 + texts[N]
  BY <1>2, <1>3, <1>5, LogSizes
<1>8. Added' = n
  <2>1. pc'[t] = "add" /\ reg'[t].n = n
    BY <1>4, <1>7 DEF LogTypes, Holder, Loads
  <2> QED
    BY <1>1, <1>4, <2>1 DEF Added
<1>9. SubSeq(record, 1, n) = record
  BY <1>2, <1>7, StartsWithItself
<1>10. /\ Len(accepted') = Len(accepted) + n
       /\ \A i \in 1 .. Len(accepted) : accepted'[i] = accepted[i]
       /\ \A k \in 1 .. n : accepted'[Len(accepted) + k] = <<N, k - 1>>
  <2>1. accepted \in Seq(Pieces) /\ Len(accepted) \in Nat
    BY DEF LogTypes, Held
  <2>2. /\ Len(accepted \o record) = Len(accepted) + Len(record)
        /\ \A i \in 1 .. Len(accepted) + Len(record) : (accepted \o record)[i] =
              IF i <= Len(accepted) THEN accepted[i] ELSE record[i - Len(accepted)]
    BY <1>2, <2>1, ConcatProperties
  <2>3. accepted' = accepted \o record
    BY <1>4, <1>9
  <2>4. ASSUME NEW k \in 1 .. n PROVE accepted'[Len(accepted) + k] = <<N, k - 1>>
    <3>1. /\ Len(accepted) + k \in 1 .. Len(accepted) + Len(record) /\ ~ (Len(accepted) + k <= Len(accepted))
          /\ Len(accepted) + k - Len(accepted) = k /\ k \in 1 .. 1 + texts[N]
      BY <1>7, <2>1
    <3> QED
      BY <1>6, <2>2, <2>3, <3>1, SMTT(30)
  <2>5. ASSUME NEW i \in 1 .. Len(accepted) PROVE accepted'[i] = accepted[i]
    <3>1. i \in 1 .. Len(accepted) + Len(record) /\ i <= Len(accepted)
      BY <1>7, <2>1
    <3> QED
      BY <2>2, <2>3, <3>1
  <2> QED
    BY <1>7, <2>2, <2>3, <2>4, <2>5
<1>11. ASSUME NEW k \in 0 .. RingSize - 1
       PROVE  cells'[k] = IF (k - tail) % RingSize < n THEN <<N, (k - tail) % RingSize>> ELSE cells[k]
  <2>1. k - tail \in Int
    BY Amounts
  <2>2. PICK d \in 0 .. RingSize - 1 : d = (k - tail) % RingSize
    BY <2>1, InRange, LogSizes
  <2>3. cells'[k] = IF d < n THEN record[d + 1] ELSE cells[k]
    BY <1>4, <2>2
  <2>4. d < n => d + 1 \in 1 .. 1 + texts[N] /\ d + 1 - 1 = d
    BY <1>7, LogSizes
  <2>5. cells'[k] = IF d < n THEN <<N, d>> ELSE cells[k]
    BY <1>6, <2>3, <2>4
  <2> QED
    BY <2>2, <2>5, Zenon
<1>12. size + n <= RingSize
  BY <1>3, Amounts
<1>13. texts[N] \in Nat /\ N \in Nat \ {0} /\ Added' = 1 + texts[N]
  BY <1>2, <1>7, <1>8
<1>14. tail' = (tail + Added') % RingSize /\ size + Added' <= RingSize
  BY <1>4, <1>8, <1>12
<1>15. \A k \in 0 .. RingSize - 1 :
          cells'[k] = IF (k - tail) % RingSize < Added' THEN <<N, (k - tail) % RingSize>> ELSE cells[k]
  BY <1>8, <1>11, Zenon
<1>16. /\ Len(accepted') = Len(accepted) + Added'
       /\ \A i \in 1 .. Len(accepted) : accepted'[i] = accepted[i]
       /\ \A k \in 1 .. Added' : accepted'[Len(accepted) + k] = <<N, k - 1>>
  BY <1>8, <1>10, Zenon
<1> QED
  BY <1>1, <1>13, <1>14, <1>15, <1>16, Zenon

\* The ring is still a piece of what was accepted.
LEMMA PutRing ==
    ASSUME LogTypes, LogTypes', InRing, NEW t \in Tasks, Put(t), Clean'
    PROVE  InRing' /\ Taken' = Taken /\ Counted' = Len(accepted)
<1> DEFINE n == Added'
           N == Len(texts)
<1>1. /\ texts[N] \in Nat /\ Added = 0 /\ n = 1 + texts[N] /\ size + n <= RingSize
      /\ Len(accepted') = Len(accepted) + n
      /\ \A i \in 1 .. Len(accepted) : accepted'[i] = accepted[i]
      /\ \A k \in 1 .. n : accepted'[Len(accepted) + k] = <<N, k - 1>>
      /\ tail' = (tail + n) % RingSize
  BY PutGives
<1>2. \A k \in 0 .. RingSize - 1 :
         cells'[k] = IF (k - tail) % RingSize < n THEN <<N, (k - tail) % RingSize>> ELSE cells[k]
  BY PutGives
<1>3. UNCHANGED <<head, size, tpc, loaded>>
  BY DEF Put, thread
<1>4. Removed' = Removed
  BY <1>3 DEF Removed
<1>5. /\ n \in Nat /\ n # 0 /\ size \in Nat /\ RingSize \in Nat \ {0} /\ Removed \in Nat
      /\ head \in 0 .. RingSize - 1 /\ Len(accepted) \in Nat
      /\ Filled \in 0 .. RingSize /\ Taken \in 0 .. Len(accepted) /\ Removed <= size
      /\ Filled = size - Removed /\ Taken = Len(accepted) - Filled
      /\ tail = (head + Filled) % RingSize
  <2>1. Filled = size + (0 - Removed) /\ Taken = Len(accepted) - Filled
    BY <1>1 DEF Filled, Taken
  <2>2. n \in Nat /\ n # 0
    BY <1>1
  <2> HIDE DEF n
  <2>3. /\ size \in Nat /\ RingSize \in Nat \ {0} /\ Removed \in Nat
        /\ head \in 0 .. RingSize - 1 /\ Len(accepted) \in Nat
    BY Amounts
  <2>4. Filled = size - Removed
    BY <2>1, <2>3
  <2>5. Filled \in 0 .. RingSize /\ Taken \in 0 .. Len(accepted)
    BY RingAmounts
  <2>6. Removed <= size /\ tail = (head + Filled) % RingSize
    BY DEF InRing
  <2> QED
    BY <2>1, <2>2, <2>3, <2>4, <2>5, <2>6
<1>6. Filled' = Filled + n
  <2>1. Filled' = size + (n - Removed)
    BY <1>3, <1>4 DEF Filled
  <2> HIDE DEF n
  <2> QED
    BY <1>5, <2>1
<1>7. Taken' = Taken /\ Counted' = Len(accepted)
  <2>1. Taken' = Len(accepted') - Filled' /\ Counted' = Len(accepted') - n
    BY DEF Taken, Counted
  <2>2. n \in Int /\ Filled \in Int /\ Len(accepted) \in Int /\ Taken = Len(accepted) - Filled
        /\ Len(accepted') = Len(accepted) + n
    BY <1>1, <1>5
  <2> HIDE DEF n
  <2> QED
    BY <1>6, <2>1, <2>2
<1>8. n \in 0 .. RingSize - Filled
  <2>1. /\ size + n <= RingSize /\ Filled = size - Removed /\ n \in Nat /\ size \in Nat
        /\ Removed \in Nat /\ RingSize \in Nat
    BY <1>1, <1>5
  <2> HIDE DEF n
  <2> QED
    BY <2>1
<1> HIDE DEF n
<1>9. tail' = (head + Filled') % RingSize
  <2>1. (((head + Filled) % RingSize) + n) % RingSize = (head + Filled + n) % RingSize
    BY <1>5, <1>8, WrapTwice
  <2>2. head + Filled + n = head + Filled'
    BY <1>5, <1>6
  <2> QED
    BY <1>1, <1>5, <2>1, <2>2, Zenon
<1>10. ASSUME NEW j \in 1 .. Filled'
       PROVE  cells'[(head + j - 1) % RingSize] = accepted'[Taken + j]
  <2>1. head + j - 1 \in Int
    BY <1>5
  <2>2. PICK p \in 0 .. RingSize - 1 : p = (head + j - 1) % RingSize
    BY <1>5, <2>1, InRange
  <2>3. p - tail \in Int
    BY Amounts
  <2>4. PICK d \in 0 .. RingSize - 1 : d = (p - tail) % RingSize
    BY <1>5, <2>3, InRange
  <2>5. d = (((head + j - 1) % RingSize) - ((head + Filled) % RingSize)) % RingSize
    BY <1>5, <2>2, <2>4
  <2>6. cells'[p] = IF d < n THEN <<N, d>> ELSE cells[p]
    BY <1>2, <2>4
  <2>7. CASE j <= Filled
    <3>1. j \in 1 .. Filled
      BY <1>5, <2>7
    <3>2. ~ (d < RingSize - Filled)
      BY <1>5, <2>5, <3>1, Behind
    <3>3. ~ (d < n)
      BY <1>5, <1>8, <3>2
    <3>4. cells[p] = accepted[Taken + j]
      BY <2>2, <3>1 DEF InRing
    <3>5. Taken + j \in 1 .. Len(accepted)
      BY <1>5, <3>1
    <3>6. accepted'[Taken + j] = accepted[Taken + j]
      BY <1>1, <3>5
    <3> QED
      BY <2>2, <2>6, <3>3, <3>4, <3>6
  <2>8. CASE ~ (j <= Filled)
    <3>1. PICK k \in 1 .. n : j = Filled + k
      <4>1. j - Filled \in 1 .. n /\ j = Filled + (j - Filled)
        BY <1>5, <1>6, <2>8
      <4> QED
        BY <4>1
    <3>2. k \in 1 .. RingSize - Filled
      BY <1>5, <1>8
    <3>3. (((head + Filled + k - 1) % RingSize) - ((head + Filled) % RingSize)) % RingSize = k - 1
      BY <1>5, <3>2, Around
    <3>4. head + j - 1 = head + Filled + k - 1
      BY <1>5, <3>1
    <3>5. d = k - 1
      BY <2>5, <3>3, <3>4, Zenon
    <3>6. d < n
      BY <1>5, <3>5
    <3>7. Taken + j = Len(accepted) + k
      BY <1>5, <3>1
    <3>8. accepted'[Len(accepted) + k] = <<N, k - 1>>
      BY <1>1
    <3>9. cells'[p] = <<N, d>>
      BY <2>6, <3>6
    <3> QED
      BY <2>2, <3>5, <3>7, <3>8, <3>9, Zenon
  <2> QED
    BY <2>7, <2>8
<1>11. Removed' <= size' /\ size' + n <= RingSize /\ Filled' <= Len(accepted')
  <2>1. Filled + n <= Len(accepted) + n
    BY <1>5
  <2> QED
    BY <1>1, <1>3, <1>4, <1>5, <1>6, <2>1
<1> QED
  BY <1>3, <1>7, <1>9, <1>10, <1>11 DEF InRing, n

LEMMA PutData ==
    ASSUME LogTypes, LogTypes', LogData, NEW t \in Tasks, Put(t), Clean'
    PROVE  LogData'
<1> USE DEF LogData
<1>0. Len(accepted) \in Nat /\ Len(texts) \in Nat
  BY Amounts, Lengths
<1> PICK N \in Nat : N = Len(texts)
  BY <1>0
<1> PICK b \in Nat : b = Len(accepted) + 1
  BY <1>0
<1>1. InRing' /\ Taken' = Taken /\ Counted' = Len(accepted)
  BY PutRing
<1>2. /\ N \in Nat \ {0} /\ texts[N] \in Nat /\ Len(accepted') = b + texts[N] /\ Len(accepted) \in Nat
      /\ \A i \in 1 .. Len(accepted) : accepted'[i] = accepted[i]
      /\ \A j \in 0 .. texts[N] : accepted'[b + j] = <<N, j>>
  <2>1. /\ N \in Nat \ {0} /\ texts[N] \in Nat /\ Added' = 1 + texts[N]
        /\ Len(accepted') = Len(accepted) + Added'
        /\ \A i \in 1 .. Len(accepted) : accepted'[i] = accepted[i]
        /\ \A k \in 1 .. Added' : accepted'[Len(accepted) + k] = <<N, k - 1>>
    BY PutGives
  <2>2. Len(accepted) \in Nat
    BY Amounts
  <2>3. ASSUME NEW j \in 0 .. texts[N] PROVE accepted'[b + j] = <<N, j>>
    <3>1. j + 1 \in 1 .. Added' /\ Len(accepted) + (j + 1) = b + j /\ (j + 1) - 1 = j
      BY <2>1, <2>2
    <3>2. accepted'[Len(accepted) + (j + 1)] = <<N, (j + 1) - 1>>
      BY <2>1, <3>1
    <3> QED
      BY <3>1, <3>2
  <2>4. Len(accepted') = b + texts[N]
    <3>1. texts[N] \in Nat /\ Len(accepted') = Len(accepted) + (1 + texts[N])
      BY <2>1
    <3> QED
      BY <2>2, <3>1
  <2> QED
    BY <2>1, <2>2, <2>3, <2>4, Zenon
<1>3. UNCHANGED <<texts, size, thread>> /\ Extends
  <2>1. UNCHANGED <<texts, size, thread>>
    BY DEF Put
  <2>2. Len(accepted) <= Len(accepted')
    BY <1>2
  <2>3. Len(texts) <= Len(texts)
    BY <1>2
  <2> QED
    BY <1>2, <2>1, <2>2, <2>3 DEF Extends
<1>4. b \in Nat /\ 0 < b
  BY <1>2
<1>5. RecordAt(b, N)'
  <2>1. ASSUME NEW j \in 0 .. texts[N] PROVE b + j <= Len(accepted') /\ accepted'[b + j] = <<N, j>>
    BY <1>2, <1>4
  <2> QED
    BY <1>3, <2>1 DEF RecordAt
<1>6. N \in 1 .. Len(texts')
  BY <1>2, <1>3
<1>7. Framed'
  <2>1. ASSUME NEW i \in 1 .. Len(accepted')
        PROVE  \E n \in 1 .. Len(texts') : \E c \in 1 .. i : i <= c + texts'[n] /\ RecordAt(c, n)'
    <3>1. CASE i <= Len(accepted)
      <4>1. i \in 1 .. Len(accepted)
        BY <1>2, <3>1
      <4>2. PICK n \in 1 .. Len(texts), c \in 1 .. i : i <= c + texts[n] /\ RecordAt(c, n)
        BY <4>1 DEF Framed
      <4>3. c \in Nat /\ 0 < c
        OBVIOUS
      <4>4. n \in 1 .. Len(texts') /\ texts'[n] = texts[n] /\ RecordAt(c, n)'
        BY <1>3, <4>2, <4>3, RecordStays
      <4> QED
        BY <4>2, <4>4
    <3>2. CASE ~ (i <= Len(accepted))
      <4>1. b \in 1 .. i /\ i <= b + texts'[N]
        BY <1>2, <1>3, <3>2
      <4> QED
        BY <1>5, <1>6, <4>1
    <3> QED
      BY <3>1, <3>2
  <2>2. Boundary(Counted)'
    <3>1. ASSUME NEW i, i = Counted', i + 1 = b PROVE Boundary(Counted)'
      BY <1>5, <1>6, <3>1 DEF Boundary
    <3> QED
      BY <1>1, <3>1
  <2> QED
    BY <2>1, <2>2 DEF Framed
<1>8. ASSUME NEW i \in 0 .. Len(accepted), Boundary(i) PROVE Boundary(i)'
  <2>1. CASE i < Len(accepted)
    BY <1>3, <1>8, <2>1, BoundaryStays
  <2>2. CASE i = Len(accepted)
    <3>1. i + 1 = b
      BY <2>2
    <3> QED
      BY <1>5, <1>6, <3>1 DEF Boundary
  <2> QED
    BY <1>2, <2>1, <2>2
<1>9. Position' /\ Saved'
  <2>1. Position'
    BY <1>1, <1>3, <1>8, ReadingStays
  <2>2. Saved'
    BY <1>1, <1>3, SavedStays
  <2> QED
    BY <2>1, <2>2
<1>10. pc[t] = "put" /\ pc' = [pc EXCEPT ![t] = pc'[t]] /\ pc'[t] \in {"add", "release"} /\ UNCHANGED service
  BY DEF Put, LogTypes, Holder
<1>11. Fresh'
  <2>1. ~ (cli = "create" \/ tpc \in {"open", "raise"})
    BY <1>10 DEF Fresh
  <2> QED
    BY <1>3, <1>10, <2>1 DEF Fresh, service, thread
<1>12. Awake'
  BY <1>10 DEF Awake
<1> QED
  BY <1>1, <1>7, <1>9, <1>11, <1>12

-----------------------------------------------------------------------------
(* The service and its thread.                                              *)

LEMMA EmptyRing ==
    ASSUME LogTypes', accepted' = <<>>, size' = 0, Added' = 0, Removed' = 0,
           tail' = (head' + 0) % RingSize
    PROVE  InRing' /\ Framed' /\ Taken' = 0
<1>1. Filled' = 0
  BY DEF Filled
<1>2. Len(accepted') = 0
  OBVIOUS
<1>3. Taken' = 0 /\ Counted' = 0
  BY <1>1, <1>2 DEF Taken, Counted
<1>4. InRing'
  BY <1>1, <1>2, LogSizes DEF InRing
<1>5. Boundary(Counted)'
  BY <1>2, <1>3 DEF Boundary
<1>6. \A i \in 1 .. Len(accepted') : \E n \in 1 .. Len(texts') : \E b \in 1 .. i :
         i <= b + texts'[n] /\ RecordAt(b, n)'
  BY <1>2
<1> QED
  BY <1>3, <1>4, <1>5, <1>6 DEF Framed

LEMMA OnData ==
    ASSUME LogTypes, LogTypes', On, Clean' PROVE LogData'
<1>1. /\ UNCHANGED <<pc, slock, tpc>> /\ size' = 0 /\ head' = 0 /\ tail' = 0 /\ accepted' = <<>>
      /\ tpc = "none" /\ cli' = "create"
  BY DEF On, printer, thread
<1>2. \A t \in Tasks : pc[t] \notin {"put", "add", "release"}
  <2>1. (\E t \in Tasks : pc[t] \in {"put", "add", "release"}) => torn'
    BY Zenon DEF On
  <2> QED
    BY <2>1 DEF Clean
<1>3. Added' = 0 /\ Removed' = 0
  BY <1>1, <1>2 DEF Added, Removed, LogTypes, Holder
<1>4. 0 = (0 + 0) % RingSize
  BY LogSizes
<1>5. InRing' /\ Framed'
  BY <1>1, <1>3, <1>4, EmptyRing
<1>6. Fresh' /\ Position' /\ Saved' /\ Awake'
  BY <1>1, <1>2 DEF Fresh, Position, Saved, Awake
<1> QED
  BY <1>5, <1>6 DEF LogData

\* A step of the thread that leaves the ring alone.
LEMMA ThreadStays ==
    ASSUME LogTypes, LogTypes', InRing, Framed, UNCHANGED <<printer, ring, accepted>>,
           Removed' = Removed
    PROVE  /\ InRing' /\ Framed' /\ Taken' = Taken /\ Extends
           /\ \A i \in 0 .. Len(accepted) : Boundary(i) => Boundary(i)'
<1>1. UNCHANGED <<cells, head, tail, size, accepted, texts>>
  BY DEF printer, ring
<1>2. Added' = Added
  BY AddedSame
<1>3. Filled' = Filled /\ Counted' = Counted
  BY <1>1, <1>2 DEF Filled, Counted
<1>4. Removed' <= size' /\ size' + Added' <= RingSize
  BY <1>1, <1>2 DEF InRing
<1>5. InRing' /\ Taken' = Taken
  BY <1>1, <1>3, <1>4, RingStays
<1>6. Extends
  BY <1>1, ExtendsTexts
<1>7. Counted \in Nat
  BY RingAmounts, Amounts
<1>8. Framed'
  BY <1>3, <1>6, <1>7, FramedStays
<1>9. \A i \in 0 .. Len(accepted) : Boundary(i) => Boundary(i)'
  BY <1>6, BoundaryStays
<1> QED
  BY <1>5, <1>6, <1>8, <1>9

LEMMA CreateData ==
    ASSUME LogTypes, LogTypes', LogData, Create PROVE LogData'
<1> USE DEF LogData
<1>1. /\ UNCHANGED <<printer, ring, history>> /\ cli = "create" /\ tpc = "none" /\ tpc' = "open"
      /\ cli' = "idle"
  BY DEF Create, LogTypes, Places
<1>2. Removed' = Removed
  BY <1>1 DEF Removed
<1>3. InRing' /\ Framed'
  <2>1. UNCHANGED <<printer, ring, accepted>>
    BY <1>1 DEF history
  <2> QED
    BY <1>2, <2>1, ThreadStays
<1>4. Fresh' /\ Position' /\ Saved' /\ Awake'
  BY <1>1 DEF Fresh, Position, Saved, Awake, printer, ring, history
<1> QED
  BY <1>3, <1>4

LEMMA OpenLogData ==
    ASSUME LogTypes, LogTypes', LogData, OpenLog PROVE LogData'
<1> USE DEF LogData
<1>1. /\ UNCHANGED <<printer, ring, service, accepted>> /\ tpc = "open" /\ tpc' = "raise" /\ file' = <<>>
  BY DEF OpenLog, history
<1>2. accepted = <<>> /\ size = 0 /\ \A t \in Tasks : pc[t] \notin {"put", "add", "release"}
  BY <1>1 DEF Fresh
<1>3. Removed' = Removed /\ Removed = 0
  BY <1>1 DEF Removed
<1>4. InRing' /\ Framed' /\ Taken' = Taken
  BY <1>1, <1>3, ThreadStays
<1>5. Taken = 0
  <2>1. Added = 0
    BY <1>2 DEF Added, LogTypes, Holder
  <2>2. Filled = 0 /\ Len(accepted) = 0
    BY <1>2, <1>3, <2>1 DEF Filled
  <2> QED
    BY <2>2 DEF Taken
<1>6. Fresh' /\ Awake'
  BY <1>1, <1>2 DEF Fresh, Awake, printer, ring
<1>7. Position'
  <2>1. ~ (Taken' < Len(accepted'))
    BY <1>1, <1>2, <1>4, <1>5
  <2>2. Boundary(Taken)'
    BY <2>1 DEF Boundary
  <2> QED
    BY <1>1, <2>2 DEF Position
<1>8. Saved'
  <2>1. Written' = 0
    BY <1>1, <1>4, <1>5 DEF Written
  <2>2. SubSeq(accepted', 1, Written') = <<>>
    BY <1>1, <1>2, <2>1
  <2>3. file' = TextOf(SubSeq(accepted', 1, Written'))
    BY <1>1, <2>2, TextOfEmpty, Zenon
  <2> QED
    BY <1>1, <2>3 DEF Saved
<1> QED
  BY <1>4, <1>6, <1>7, <1>8

\* What was read and written stays when the thread goes on between two records.
LEMMA BetweenStays ==
    ASSUME LogTypes, LogTypes', LogData, UNCHANGED <<printer, ring, accepted, file, left, cli>>,
           tpc \notin {"none", "open", "size", "sub", "write"},
           tpc' \in {"loop", "wait", "more", "header", "exit", "destroy"},
           Boundary(Taken)
    PROVE  Fresh' /\ InRing' /\ Framed' /\ Position' /\ Saved'
<1> USE DEF LogData
<1>1. Removed' = Removed
  BY DEF Removed
<1>2. /\ InRing' /\ Framed' /\ Taken' = Taken /\ Extends
      /\ \A i \in 0 .. Len(accepted) : Boundary(i) => Boundary(i)'
  BY <1>1, ThreadStays
<1>3. Position'
  <2>1. Taken \in 0 .. Len(accepted)
    BY RingAmounts
  <2>2. ASSUME NEW i, i = Taken', Boundary(i)' PROVE Boundary(Taken)'
    BY <2>2
  <2>3. Boundary(Taken)'
    BY <1>2, <2>1, <2>2
  <2> QED
    BY <2>3 DEF Position
<1>4. Saved'
  <2>1. Written' = Written
    BY <1>2 DEF Written
  <2> QED
    BY <2>1 DEF Saved, printer
<1>5. Fresh'
  BY DEF Fresh, LogTypes, Places
<1> QED
  BY <1>2, <1>3, <1>4, <1>5

LEMMA LoopData ==
    ASSUME LogTypes, LogTypes', LogData, Raise \/ Loop \/ Wait \/ More \/ Exit PROVE LogData'
<1> USE DEF LogData
<1>1. UNCHANGED <<printer, ring, accepted, file, left, cli>>
  BY DEF Raise, Loop, Wait, More, Exit, service, history
<1>2. tpc \in {"raise", "loop", "wait", "more", "exit"}
  BY DEF Raise, Loop, Wait, More, Exit
<1>3. tpc' \in {"loop", "wait", "more", "header", "exit", "destroy"}
  BY DEF Raise, Loop, Wait, More, Exit
<1>4. Fresh' /\ InRing' /\ Framed' /\ Position' /\ Saved'
  <2>1. Boundary(Taken)
    BY <1>2 DEF Position
  <2> QED
    BY <1>1, <1>2, <1>3, <2>1, BetweenStays
<1>5. Awake'
  <2>1. CASE Raise
    <3>1. size' = 0
      BY <2>1 DEF Raise, Fresh, ring
    <3> QED
      BY <3>1 DEF Awake
  <2>2. CASE Loop
    BY <2>2 DEF Awake, Loop, printer, ring, service
  <2>3. CASE Wait \/ Exit
    BY <2>3 DEF Awake, Wait, Exit
  <2>4. CASE More
    <3>1. size \in Nat
      BY Amounts
    <3>2. tpc' \in {"loop", "wait"} => ~saving \/ size = 0
      BY <2>4, <3>1 DEF More
    <3>3. UNCHANGED <<saving, size>>
      BY <2>4 DEF More, ring, service
    <3> QED
      BY <3>2, <3>3 DEF Awake
  <2> QED
    BY <2>1, <2>2, <2>3, <2>4
<1> QED
  BY <1>4, <1>5

LEMMA DestroyEnds == ASSUME LogTypes, Destroy PROVE ~Started'
BY DEF Destroy, Started, LogTypes, Places

-----------------------------------------------------------------------------
(* The thread takes cells out of the ring.                                  *)

\* What is taken is what was accepted next; nothing else of the ring changes.
LEMMA GetRing ==
    ASSUME LogTypes, LogTypes', InRing, Framed, NEW n \in Nat, Get(n),
           UNCHANGED <<printer, cells, tail, size, accepted>>,
           tpc \notin {"size", "sub"}, tpc' \in {"size", "sub"}
    PROVE  /\ InRing' /\ Framed' /\ Extends
           /\ Least(n, size) \in Nat /\ Least(n, size) <= size /\ size <= Filled
           /\ Taken' = Taken + Least(n, size) /\ Len(logBuffer') = Least(n, size)
           /\ \A k \in 1 .. Least(n, size) : logBuffer'[k] = accepted[Taken + k]
<1>1. PICK m \in Nat : m = Least(n, size) /\ m <= size
  BY GetGives DEF LogTypes
<1>2. /\ logBuffer' = [k \in 1 .. m |-> cells[(head + k - 1) % RingSize]]
      /\ head' = (head + m) % RingSize /\ loaded'.n = m
  BY <1>1 DEF Get
<1>3. Added' = Added
  BY AddedSame
<1>4. Removed = 0 /\ Removed' = m
  BY <1>2 DEF Removed
<1>5. /\ Added \in 0 .. RingSize /\ size \in 0 .. RingSize /\ head \in 0 .. RingSize - 1
      /\ Len(accepted) \in Nat /\ RingSize \in Nat \ {0}
      /\ Filled \in 0 .. RingSize /\ Taken \in 0 .. Len(accepted) /\ Counted \in Nat
  BY Amounts, RingAmounts
<1>6. Filled = size + Added /\ Filled' = size + (Added - m)
  BY <1>3, <1>4, <1>5 DEF Filled
<1>7. Taken = Len(accepted) - Filled /\ Taken' = Len(accepted) - Filled'
  BY DEF Taken
<1>8. Filled' = Filled - m /\ Taken' = Taken + m /\ m <= Filled /\ size <= Filled
  <2>1. Added \in Nat /\ size \in Nat /\ Len(accepted) \in Nat /\ m <= size
    BY <1>1, <1>5
  <2>2. Filled' = Filled - m
    BY <1>6, <2>1
  <2>3. Filled \in Int /\ m <= Filled /\ size <= Filled
    BY <1>6, <2>1
  <2>4. Taken' = Taken + m
    BY <1>7, <2>1, <2>2, <2>3
  <2> QED
    BY <2>2, <2>3, <2>4
<1>9. tail' = (head' + Filled') % RingSize
  <2>1. (((head + m) % RingSize) + Filled') % RingSize = (head + m + Filled') % RingSize
    <3>1. m \in 0 .. RingSize /\ Filled' \in 0 .. RingSize - m
      BY <1>1, <1>5, <1>8
    <3> QED
      BY <1>5, <3>1, WrapTwice
  <2>2. head + m + Filled' = head + Filled
    BY <1>1, <1>5, <1>8
  <2>3. tail' = (head + Filled) % RingSize
    BY DEF InRing
  <2> QED
    BY <1>2, <2>1, <2>2, <2>3, Zenon
<1>10. ASSUME NEW j \in 1 .. Filled'
       PROVE  cells'[(head' + j - 1) % RingSize] = accepted'[Taken' + j]
  <2>1. m \in 0 .. RingSize /\ j - 1 \in 0 .. RingSize - m /\ m + j \in 1 .. Filled
    BY <1>1, <1>5, <1>8, SMTT(30)
  <2>2. (((head + m) % RingSize) + (j - 1)) % RingSize = (head + m + (j - 1)) % RingSize
    BY <1>5, <2>1, WrapTwice
  <2>3. head + m + (j - 1) = head + (m + j) - 1 /\ Taken' + j = Taken + (m + j)
    <3>1. head \in Int /\ Taken \in Int /\ j \in Int /\ Taken' = Taken + m
      BY <1>5, <1>8, <2>1
    <3> QED
      BY <3>1
  <2>4. cells[(head + (m + j) - 1) % RingSize] = accepted[Taken + (m + j)]
    BY <2>1 DEF InRing
  <2>5. head' + j - 1 = head' + (j - 1)
    <3>1. head' \in Int
      BY DEF LogTypes, LogTypeOK
    <3> QED
      BY <3>1
  <2>6. UNCHANGED <<cells, accepted>>
    OBVIOUS
  <2> QED
    BY <1>2, <2>2, <2>3, <2>4, <2>5, <2>6, Zenon
<1>11. InRing'
  <2>1. Removed' <= size' /\ size' + Added' <= RingSize /\ Filled' <= Len(accepted')
    <3>1. Filled' <= Len(accepted) /\ m <= size
      BY <1>1, <1>5, <1>8 DEF InRing
    <3> QED
      BY <1>3, <1>4, <3>1 DEF InRing
  <2> QED
    BY <1>9, <1>10, <2>1 DEF InRing
<1>12. Extends
  BY ExtendsTexts DEF printer
<1>13. Framed'
  <2>1. Counted' = Counted
    BY <1>3 DEF Counted
  <2> QED
    BY <1>5, <1>12, <2>1, FramedStays
<1>14. ASSUME NEW k \in 1 .. m PROVE logBuffer'[k] = accepted[Taken + k]
  <2>1. k \in 1 .. Filled
    BY <1>1, <1>5, <1>8
  <2>2. cells[(head + k - 1) % RingSize] = accepted[Taken + k]
    BY <2>1 DEF InRing
  <2> QED
    BY <1>2, <2>2
<1>15. Len(logBuffer') = m
  BY <1>2
<1> QED
  BY <1>1, <1>8, <1>11, <1>12, <1>13, <1>14, <1>15

\* Then they are subtracted.
LEMMA SubRing ==
    ASSUME LogTypes, LogTypes', InRing, Framed, Sub, Clean',
           UNCHANGED <<printer, cells, head, tail, accepted>>,
           tpc \in {"size", "sub"}, tpc' \notin {"size", "sub"}
    PROVE  InRing' /\ Framed' /\ Extends /\ Taken' = Taken
<1>1. size' = loaded.size - loaded.n /\ loaded.size = size
  <2>1. Overlapped(loaded) => torn'
    BY Zenon DEF Sub
  <2> QED
    BY <2>1 DEF Sub, Overlapped, Clean
<1>2. Added' = Added
  BY AddedSame
<1>3. Removed = loaded.n /\ Removed' = 0
  BY DEF Removed
<1>4. Added \in Nat /\ size \in Nat /\ Removed \in Nat /\ RingSize \in Nat /\ Counted \in Nat
  BY Amounts, RingAmounts
<1>5. size' = size - Removed
  BY <1>1, <1>3
<1>6. Filled' = Filled
  <2>1. Filled = size + (Added - Removed) /\ Filled' = (size - Removed) + (Added - 0)
    BY <1>2, <1>3, <1>5 DEF Filled
  <2> QED
    BY <1>4, <2>1
<1>7. Removed' <= size' /\ size' + Added' <= RingSize
  <2>1. Removed <= size /\ size + Added <= RingSize
    BY DEF InRing
  <2>2. 0 <= size - Removed /\ (size - Removed) + Added <= RingSize
    BY <1>4, <2>1
  <2> QED
    BY <1>2, <1>3, <1>5, <2>2
<1>8. InRing' /\ Taken' = Taken
  BY <1>6, <1>7, RingStays
<1>9. Extends
  BY ExtendsTexts DEF printer
<1>10. Framed'
  <2>1. Counted' = Counted
    BY <1>2 DEF Counted
  <2> QED
    BY <1>4, <1>9, <2>1, FramedStays
<1> QED
  BY <1>8, <1>9, <1>10

\* The record the thread is in.
LEMMA InOneRecord ==
    ASSUME LogTypes, Position, tpc \in {"size", "text", "sub", "write"}
    PROVE  \E n \in 1 .. Len(texts), b \in 1 .. Len(accepted) :
              /\ RecordAt(b, n) /\ texts[n] \in 1 .. BuffLen
              /\ tpc = "size" => BehindHeader(n, b)
              /\ tpc = "text" => InText(n, b)
              /\ tpc \in {"sub", "write"} => BehindText(n, b)
<1>1. PICK n \in 1 .. Len(texts), b \in 1 .. Len(accepted) :
          RecordAt(b, n) /\ (BehindHeader(n, b) \/ InText(n, b) \/ BehindText(n, b))
  BY DEF Position, InRecord
<1>2. texts[n] \in 1 .. BuffLen
  BY Lengths
<1> QED
  BY <1>1, <1>2 DEF BehindHeader, InText, BehindText

\* The thread goes on in a record.
LEMMA ReadingIn ==
    ASSUME NEW n \in 1 .. Len(texts'), NEW b \in 1 .. Len(accepted'), RecordAt(b, n)',
           BehindHeader(n, b)' \/ InText(n, b)' \/ BehindText(n, b)'
    PROVE  Position'
<1>1. tpc' \in {"size", "text", "sub", "write"}
  BY DEF BehindHeader, InText, BehindText
<1>2. InRecord'
  BY DEF InRecord
<1> QED
  BY <1>1, <1>2 DEF Position

\* The thread reads on; nothing else that the invariant is about changes.
LEMMA AwayData ==
    ASSUME LogTypes', tpc' \in {"size", "text", "sub", "write"} PROVE Fresh' /\ Awake'
BY DEF Fresh, Awake, LogTypes, Places

LEMMA SavedSame ==
    ASSUME Saved, UNCHANGED <<texts, accepted, file>>, tpc \notin {"none", "open"},
           Written' = Written
    PROVE  Saved'
BY DEF Saved

LEMMA HeaderData ==
    ASSUME LogTypes, LogTypes', LogData, Header PROVE LogData'
<1> USE DEF LogData
<1>1. /\ Get(1) /\ UNCHANGED <<printer, cells, tail, size, left, file, accepted, texts>>
      /\ tpc = "header" /\ tpc' = "size"
  BY DEF Header, history, printer
<1>2. size \in Nat /\ size > 0
  BY <1>1, Amounts DEF LogTypes, Places
<1>3. Least(1, size) = 1
  BY <1>2 DEF Least
<1>4. /\ InRing' /\ Framed' /\ Extends /\ size <= Filled /\ Taken' = Taken + 1
      /\ logBuffer'[1] = accepted[Taken + 1]
  <2>1. 1 \in Nat /\ 1 \in 1 .. Least(1, size)
    BY <1>3
  <2>2. /\ InRing' /\ Framed' /\ Extends /\ size <= Filled /\ Taken' = Taken + Least(1, size)
        /\ \A k \in 1 .. Least(1, size) : logBuffer'[k] = accepted[Taken + k]
    BY <1>1, <2>1, GetRing
  <2> QED
    BY <1>3, <2>1, <2>2
<1>5. Taken \in 0 .. Len(accepted) /\ Taken < Len(accepted) /\ Len(accepted) \in Nat
  <2>1. Filled \in 0 .. RingSize /\ Taken \in 0 .. Len(accepted) /\ Len(accepted) \in Nat
    BY RingAmounts, Amounts
  <2>2. Taken = Len(accepted) - Filled
    BY DEF Taken
  <2> QED
    BY <1>2, <1>4, <2>1, <2>2
<1>6. PICK n \in 1 .. Len(texts) : RecordAt(Taken + 1, n)
  BY <1>1, <1>5 DEF Position, Boundary
<1>7. PICK b \in 1 .. Len(accepted) : b = Taken + 1
  BY <1>5
<1>8. accepted[b] = <<n, 0>>
  <2>1. texts[n] \in Nat
    BY Lengths
  <2>2. b <= b + texts[n] /\ b - b = 0 /\ b \in Int /\ b <= b
    BY <2>1
  <2>3. accepted[b] = <<n, b - b>>
    BY <1>6, <1>7, <2>2, RecordCells
  <2> QED
    BY <2>2, <2>3
<1>9. Position'
  <2>1. b \in Nat /\ 0 < b
    OBVIOUS
  <2>2. n \in 1 .. Len(texts') /\ RecordAt(b, n)'
    BY <1>4, <1>6, <1>7, <2>1, RecordStays
  <2>3. BehindHeader(n, b)'
    BY <1>1, <1>4, <1>7, <1>8 DEF BehindHeader
  <2>4. b \in 1 .. Len(accepted')
    BY <1>1
  <2> QED
    BY <2>2, <2>3, <2>4, ReadingIn
<1>10. Saved'
  <2>1. Written = Taken /\ Written' = Taken + 1
    BY <1>1, <1>4 DEF Written
  <2>2. file = TextUpTo(accepted, Taken)
    BY <1>1, <2>1 DEF Saved, TextUpTo
  <2>3. accepted \in Seq(Pieces) /\ Taken \in Nat
    BY <1>5 DEF LogTypes, Held
  <2>4. /\ TextUpTo(accepted, Taken) \in Seq(Pieces)
        /\ TextUpTo(accepted, Taken + 1) = TextUpTo(accepted, Taken) \o Piece(accepted[Taken + 1])
    BY <1>5, <2>3, TextUpToNext
  <2>5. Piece(accepted[Taken + 1]) = <<>>
    BY <1>7, <1>8 DEF Piece
  <2>6. TextUpTo(accepted, Taken) \o <<>> = TextUpTo(accepted, Taken)
    BY <2>4, ConcatEmptySeq
  <2>7. file' = TextUpTo(accepted, Taken + 1)
    BY <1>1, <2>2, <2>4, <2>5, <2>6
  <2>8. file' = TextOf(SubSeq(accepted', 1, Written'))
    BY <1>1, <2>1, <2>7 DEF TextUpTo
  <2>9. file' # <<>> => \E k \in 1 .. Len(texts') : file'[Len(file')] = <<k, texts'[k]>>
    BY <1>1 DEF Saved
  <2> QED
    BY <2>8, <2>9 DEF Saved
<1>11. Fresh' /\ Awake'
  BY <1>1, AwayData
<1> QED
  BY <1>4, <1>9, <1>10, <1>11

LEMMA SizeData ==
    ASSUME LogTypes, LogTypes', LogData, Size, Clean' PROVE LogData'
<1> USE DEF LogData
<1>1. /\ Sub /\ UNCHANGED <<printer, cells, head, tail, logBuffer, file, accepted, texts>>
      /\ tpc = "size" /\ tpc' = "text" /\ left' \in LengthIn(logBuffer[1])
  BY DEF Size, printer
<1>2. InRing' /\ Framed' /\ Extends /\ Taken' = Taken
  BY <1>1, SubRing
<1>3. PICK n \in 1 .. Len(texts), b \in 1 .. Len(accepted) :
          RecordAt(b, n) /\ BehindHeader(n, b)
  BY <1>1, InOneRecord
<1>4. left' = texts[n] /\ Taken = b
  <2>1. logBuffer[1] = <<n, 0>> /\ Taken = b
    BY <1>3 DEF BehindHeader
  <2>2. <<n, 0>> # Junk
    BY DEF Junk
  <2> QED
    BY <1>1, <2>1, <2>2 DEF LengthIn
<1>5. Position'
  <2>1. b \in Nat /\ 0 < b
    OBVIOUS
  <2>2. n \in 1 .. Len(texts') /\ RecordAt(b, n)'
    BY <1>2, <1>3, <2>1, RecordStays
  <2>3. InText(n, b)'
    BY <1>1, <1>2, <1>4 DEF InText
  <2>4. b \in 1 .. Len(accepted')
    BY <1>1
  <2> QED
    BY <2>2, <2>3, <2>4, ReadingIn
<1>6. Saved'
  <2>1. Written' = Written
    BY <1>1, <1>2 DEF Written
  <2> QED
    BY <1>1, <2>1, SavedSame
<1>7. Fresh' /\ Awake'
  BY <1>1, AwayData
<1> QED
  BY <1>2, <1>5, <1>6, <1>7

LEMMA TextData ==
    ASSUME LogTypes, LogTypes', LogData, Text PROVE LogData'
<1> USE DEF LogData
<1>1. /\ UNCHANGED <<printer, cells, tail, size, left, file, accepted, texts, cli>> /\ tpc = "text"
  BY DEF Text, history, printer, service
<1>2. PICK n \in 1 .. Len(texts), b \in 1 .. Len(accepted) :
          RecordAt(b, n) /\ InText(n, b) /\ texts[n] \in 1 .. BuffLen
  BY <1>1, InOneRecord
<1>3. b \in Nat /\ 0 < b
  OBVIOUS
<1>4. CASE left = 0
  <2>1. tpc' = "more" /\ UNCHANGED <<logBuffer, head, loaded>>
    BY <1>4 DEF Text
  <2>2. Taken = b + texts[n]
    BY <1>2, <1>4 DEF InText
  <2>3. Boundary(Taken)
    BY <1>2, <1>3, <2>2, AfterRecord
  <2>4. UNCHANGED ring
    BY <1>1, <2>1 DEF ring
  <2>5. Fresh' /\ InRing' /\ Framed' /\ Position' /\ Saved'
    BY <1>1, <2>1, <2>3, <2>4, BetweenStays
  <2>6. Awake'
    BY <2>1 DEF Awake
  <2> QED
    BY <2>5, <2>6
<1>5. CASE left # 0
  <2>1. Get(Need) /\ tpc' = "sub"
    BY <1>5 DEF Text
  <2>2. left = texts[n] /\ Taken = b /\ left \in 1 .. BuffLen
    BY <1>2, <1>5 DEF InText
  <2>3. Need = left
    BY <2>2, LogSizes DEF Need, Least
  <2>4. Removed = 0
    BY <1>1 DEF Removed
  <2>5. Counted \in Taken .. Len(accepted) /\ Counted - Taken = size /\ Counted \in Nat /\ size \in Nat
    BY <2>4, RingAmounts, Amounts
  <2>6. b + texts[n] <= Counted
    BY <1>2, <2>2, <2>5, TextIsThere
  <2>7. left <= size
    BY <2>2, <2>5, <2>6
  <2>8. Least(left, size) = left
    BY <2>2, <2>5, <2>7 DEF Least
  <2>9. /\ InRing' /\ Framed' /\ Extends /\ Taken' = Taken + left /\ Len(logBuffer') = left
        /\ \A k \in 1 .. left : logBuffer'[k] = accepted[Taken + k]
    <3>1. left \in Nat /\ Get(left)
      BY <2>1, <2>2, <2>3
    <3>2. tpc \notin {"size", "sub"} /\ tpc' \in {"size", "sub"}
      BY <1>1, <2>1
    <3> QED
      BY <1>1, <2>8, <3>1, <3>2, GetRing
  <2>10. ASSUME NEW k \in 1 .. left PROVE logBuffer'[k] = <<n, k>>
    <3>1. b <= b + k /\ b + k <= b + texts[n] /\ b + k \in Int /\ (b + k) - b = k
      BY <2>2
    <3>2. accepted[b + k] = <<n, (b + k) - b>>
      BY <1>2, <1>3, <3>1, RecordCells
    <3> QED
      BY <2>2, <2>9, <3>1, <3>2
  <2>11. logBuffer' = [k \in 1 .. left |-> <<n, k>>]
    <3>1. logBuffer' \in Seq(Pieces')
      BY DEF LogTypes, Held
    <3>2. logBuffer' = [k \in 1 .. left |-> logBuffer'[k]]
      BY <2>9, <3>1
    <3> QED
      BY <2>10, <3>2
  <2>12. Position'
    <3>1. n \in 1 .. Len(texts') /\ RecordAt(b, n)' /\ b \in 1 .. Len(accepted')
      BY <1>1, <1>2, <1>3, <2>9, RecordStays
    <3>2. BehindText(n, b)'
      BY <1>1, <2>1, <2>2, <2>9, <2>11 DEF BehindText
    <3> QED
      BY <3>1, <3>2, ReadingIn
  <2>13. Saved'
    <3>1. Written = b /\ Written' = Taken' - left
      BY <1>1, <2>1, <2>2 DEF Written
    <3>2. Written' = Written
      BY <2>2, <2>9, <3>1
    <3> QED
      BY <1>1, <3>2, SavedSame
  <2>14. Fresh' /\ Awake'
    BY <2>1, AwayData
  <2> QED
    BY <2>9, <2>12, <2>13, <2>14
<1> QED
  BY <1>4, <1>5

LEMMA SubTextData ==
    ASSUME LogTypes, LogTypes', LogData, SubText, Clean' PROVE LogData'
<1> USE DEF LogData
<1>1. /\ Sub /\ UNCHANGED <<printer, cells, head, tail, left, logBuffer, file, accepted, texts>>
      /\ tpc = "sub" /\ tpc' = "write"
  BY DEF SubText, printer
<1>2. InRing' /\ Framed' /\ Extends /\ Taken' = Taken
  BY <1>1, SubRing
<1>3. PICK n \in 1 .. Len(texts), b \in 1 .. Len(accepted) :
          RecordAt(b, n) /\ BehindText(n, b)
  BY <1>1, InOneRecord
<1>5. Position'
  <2>1. b \in Nat /\ 0 < b
    OBVIOUS
  <2>2. n \in 1 .. Len(texts') /\ RecordAt(b, n)'
    BY <1>2, <1>3, <2>1, RecordStays
  <2>3. BehindText(n, b)'
    BY <1>1, <1>2, <1>3 DEF BehindText
  <2>4. b \in 1 .. Len(accepted')
    BY <1>1
  <2> QED
    BY <2>2, <2>3, <2>4, ReadingIn
<1>6. Saved'
  <2>1. Written' = Written
    BY <1>1, <1>2 DEF Written
  <2> QED
    BY <1>1, <2>1, SavedSame
<1>7. Fresh' /\ Awake'
  BY <1>1, AwayData
<1> QED
  BY <1>2, <1>5, <1>6, <1>7

\* A whole text is written behind the texts before it.
LEMMA WriteData ==
    ASSUME LogTypes, LogTypes', LogData, Write PROVE LogData'
<1> USE DEF LogData
<1>1. /\ UNCHANGED <<printer, ring, accepted, texts>> /\ tpc = "write" /\ tpc' = "text"
      /\ file' = file \o Block /\ left' = left - Need
  BY DEF Write, history, printer
<1>2. PICK n \in 1 .. Len(texts), b \in 1 .. Len(accepted) :
          RecordAt(b, n) /\ BehindText(n, b) /\ texts[n] \in 1 .. BuffLen
  BY <1>1, InOneRecord
<1>3. b \in Nat /\ 0 < b
  OBVIOUS
<1>4. /\ left = texts[n] /\ left \in 1 .. BuffLen /\ Taken = b + left
      /\ logBuffer = [k \in 1 .. left |-> <<n, k>>]
  BY <1>2 DEF BehindText
<1>5. Need = left /\ left' = 0
  <2>1. Need = left
    BY <1>4, LogSizes DEF Need, Least
  <2> QED
    BY <1>1, <1>4, <2>1
<1>6. Block = [k \in 1 .. left |-> <<n, k>>]
  <2>1. Len(logBuffer) = left
    BY <1>4
  <2>2. ASSUME NEW k \in 1 .. left
        PROVE  (IF k <= Len(logBuffer) THEN logBuffer[k] ELSE Junk) = <<n, k>>
    BY <1>4, <2>1
  <2> QED
    BY <1>5, <2>2 DEF Block
<1>7. ASSUME NEW k \in 1 .. left PROVE b + k <= Len(accepted) /\ accepted[b + k] = <<n, k>>
  <2>1. b <= b + k /\ b + k <= b + texts[n] /\ b + k \in Int /\ (b + k) - b = k
    BY <1>4
  <2>2. b + k <= Len(accepted) /\ accepted[b + k] = <<n, (b + k) - b>>
    BY <1>2, <1>3, <2>1, RecordCells
  <2> QED
    BY <2>1, <2>2
<1>8. Removed' = Removed
  BY <1>1 DEF Removed
<1>9. InRing' /\ Framed' /\ Taken' = Taken /\ Extends
  BY <1>1, <1>8, ThreadStays
<1>10. Position'
  <2>1. n \in 1 .. Len(texts') /\ RecordAt(b, n)' /\ b \in 1 .. Len(accepted') /\ texts'[n] = texts[n]
    BY <1>1, <1>2, <1>3, <1>9, RecordStays
  <2>2. InText(n, b)'
    BY <1>1, <1>4, <1>5, <1>9, <2>1 DEF InText
  <2> QED
    BY <2>1, <2>2, ReadingIn
<1>11. file = TextUpTo(accepted, b) /\ Written' = b + left
  <2>1. Written = Taken - left
    BY <1>1 DEF Written
  <2>2. Written = b
    BY <1>4, <2>1
  <2>3. Written' = b + left
    BY <1>1, <1>4, <1>9 DEF Written
  <2> QED
    BY <1>1, <2>2, <2>3 DEF Saved, TextUpTo
<1>12. accepted \in Seq(Pieces) /\ file \in Seq(Pieces) /\ left \in Nat /\ left \in 1 .. left
  BY <1>4, SMTT(30) DEF LogTypes, Held
<1>13. file' = TextUpTo(accepted, b + left)
  <2>1. b + left <= Len(accepted)
    BY <1>7, <1>12
  <2>2. \A k \in 1 .. left : accepted[b + k][2] > 0
    BY <1>7
  <2>3. TextUpTo(accepted, b + left) = TextUpTo(accepted, b) \o [k \in 1 .. left |-> accepted[b + k]]
    BY <1>3, <1>12, <2>1, <2>2, TextsAll
  <2>4. [k \in 1 .. left |-> accepted[b + k]] = Block
    BY <1>6, <1>7
  <2> QED
    BY <1>1, <1>11, <2>3, <2>4
<1>14. file'[Len(file')] = <<n, texts[n]>>
  <2>1. Block \in Seq(Pieces) /\ Len(Block) = left
    BY <1>5, BlockHeld DEF LogTypes
  <2>2. Len(file) \in Nat
    BY <1>12
  <2>3. /\ Len(file \o Block) = Len(file) + Len(Block)
        /\ \A i \in 1 .. Len(file) + Len(Block) : (file \o Block)[i] =
              IF i <= Len(file) THEN file[i] ELSE Block[i - Len(file)]
    BY <1>12, <2>1, ConcatProperties
  <2>4. /\ Len(file) + left \in 1 .. Len(file) + left /\ ~ (Len(file) + left <= Len(file))
        /\ (Len(file) + left) - Len(file) = left
    BY <1>4, <2>2, SMTT(30)
  <2>5. (file \o Block)[Len(file) + left] = Block[left]
    BY <2>1, <2>3, <2>4
  <2>6. Block[left] = <<n, texts[n]>>
    BY <1>4, <1>6, <1>12
  <2> QED
    BY <1>1, <2>1, <2>3, <2>5, <2>6
<1>15. Saved'
  <2>1. file' = TextOf(SubSeq(accepted', 1, Written'))
    BY <1>1, <1>11, <1>13 DEF TextUpTo
  <2> QED
    BY <1>1, <1>14, <2>1 DEF Saved
<1>16. Fresh' /\ Awake'
  BY <1>1, AwayData
<1> QED
  BY <1>9, <1>10, <1>15, <1>16

-----------------------------------------------------------------------------
(* The debug log's promises.                                                *)

LEMMA DataNext ==
    ASSUME LogTypes, LogTypes', DataOK, [LogNext]_logVars PROVE DataOK'
<1> SUFFICES ASSUME Clean', Started' PROVE LogData'
  BY DEF DataOK
<1>1. CASE On
  BY <1>1, OnData
<1>2. CASE ~On
  <2>1. LogData
    BY <1>2, CalmBefore DEF DataOK
  <2>2. ASSUME NEW t \in Tasks, (\E len \in Texts : Record(t, len)) \/ DebugPrint(t) PROVE LogData'
    BY <2>1, <2>2, RecordData, TestData, PutData, AddData, ReleaseData DEF DebugPrint
  <2>3. CASE Off \/ Command
    BY <2>1, <2>3, IdleData, CreateData DEF Command
  <2>4. CASE Save
    BY <2>1, <2>4, OpenLogData, LoopData, HeaderData, SizeData, TextData, SubTextData, WriteData,
       DestroyEnds DEF Save
  <2>5. ~OpenFails /\ ~WriteFails
    <3>1. OpenFails \/ WriteFails => faults' = faults + 1
      BY DEF OpenFails, WriteFails
    <3> QED
      BY <3>1 DEF Clean, LogTypes
  <2>6. CASE UNCHANGED logVars
    <3>1. /\ UNCHANGED <<printer, ring, thread, saving, serviceSem, cli, accepted>>
          /\ UNCHANGED <<cells, head, tail, size, texts, pc>>
      BY <2>6 DEF logVars, service, history, ring, printer
    <3>2. Added' = Added /\ Extends /\ size \in Int
      BY <3>1, AddedSame, ExtendsTexts, Amounts
    <3>3. InRing' /\ Framed' /\ Position' /\ Saved'
      BY <2>1, <3>1, <3>2, RestStays DEF LogData
    <3>4. Fresh' /\ Awake'
      BY <2>1, <3>1 DEF LogData, Fresh, Awake, thread
    <3> QED
      BY <3>3, <3>4 DEF LogData
  <2> QED
    BY <1>2, <2>2, <2>3, <2>4, <2>5, <2>6 DEF LogNext
<1> QED
  BY <1>1, <1>2

LEMMA DataAlways == LogSpec => [](LogTypes /\ DataOK)
<1>1. LogInit => DataOK
  BY DEF LogInit, DataOK, Started
<1>2. LogTypes /\ LogTypes' /\ DataOK /\ [LogNext]_logVars => DataOK'
  BY DataNext
<1> QED
  BY <1>1, <1>2, LogTypesAlways, PTL DEF LogSpec

\* As long as every record fitted and no two updates of the ring's size overlapped,
\* what debug_service.c has written to quectel.log is a prefix of the texts put into
\* the ring, and between two records it ends with a whole text.
THEOREM LogCorrect == LogSpec => []LogMatches
<1>1. LogTypes /\ DataOK => LogMatches
  <2> SUFFICES ASSUME LogTypes, DataOK, Clean, tpc \notin {"none", "open"}
               PROVE  /\ Len(file) <= Len(TextOf(accepted))
                      /\ file = SubSeq(TextOf(accepted), 1, Len(file))
                      /\ tpc \in {"more", "wait"} /\ file # <<>> =>
                           LET end == file[Len(file)] IN end[2] = texts[end[1]]
    BY DEF LogMatches
  <2>1. InRing /\ Position /\ Saved
    BY DEF DataOK, Started, LogData
  <2>2. Written \in 0 .. Len(accepted) /\ accepted \in Seq(Pieces) /\ Len(accepted) \in Nat
    BY <2>1, WrittenBounds, Amounts DEF LogTypes, Held
  <2>3. file = TextUpTo(accepted, Written)
    BY <2>1 DEF Saved, TextUpTo
  <2>4. StartsWith(TextOf(accepted), TextUpTo(accepted, Written))
    <3>1. Written \in Nat /\ Written <= Len(accepted)
      BY <2>2
    <3> QED
      BY <2>2, <3>1, TextsStart
  <2>5. Len(file) <= Len(TextOf(accepted)) /\ file = SubSeq(TextOf(accepted), 1, Len(file))
    BY <2>3, <2>4, Zenon DEF StartsWith
  <2>6. file # <<>> => LET end == file[Len(file)] IN end[2] = texts[end[1]]
    BY <2>1 DEF Saved
  <2> QED
    BY <2>5, <2>6
<1> QED
  BY <1>1, DataAlways, PTL

\* Under the same condition the thread never sleeps on the service's semaphore with
\* a counted record in the ring: the log holds every text that was accepted.
THEOREM CaughtUpCorrect == LogSpec => []CaughtUp
<1>1. LogTypes /\ DataOK => CaughtUp
  <2> SUFFICES ASSUME LogTypes, DataOK, Clean, saving, tpc = "wait", serviceSem = 0,
                      \A t \in Tasks : pc[t] \notin {"add", "release"}
               PROVE  file = TextOf(accepted)
    BY DEF CaughtUp
  <2>1. Awake /\ Saved
    BY DEF DataOK, Started, LogData
  <2>2. size = 0
    BY <2>1 DEF Awake
  <2>3. Added = 0 /\ Removed = 0
    BY DEF Added, Removed, LogTypes, Holder
  <2>4. Filled = 0
    BY <2>2, <2>3 DEF Filled
  <2>5. Written = Len(accepted)
    BY <2>4, Amounts DEF Written, Taken
  <2>6. SubSeq(accepted, 1, Len(accepted)) = accepted
    BY StartsWithItself DEF LogTypes, Held
  <2> QED
    BY <2>1, <2>5, <2>6 DEF Saved
<1> QED
  BY <1>1, DataAlways, PTL

\* Under the same condition the thread never takes the ring's bytes for what they are
\* not: what it reads as a length is one, the text of that length is in the ring
\* already, and it fits into LOG_BUFFER in one piece.  debug_service.c ignores what
\* ringbuffer_get returns, and only logs a length that is too big.
THEOREM RecordsComplete ==
    LogSpec => [](Clean => /\ tpc = "size" => logBuffer[1] # Junk /\ logBuffer[1][2] = 0
                           /\ tpc = "text" => left <= size /\ left <= BuffLen)
<1> DEFINE Complete == Clean => /\ tpc = "size" => logBuffer[1] # Junk /\ logBuffer[1][2] = 0
                                /\ tpc = "text" => left <= size /\ left <= BuffLen
<1>1. LogTypes /\ DataOK => Complete
  <2> SUFFICES ASSUME LogTypes, DataOK, Clean, tpc \in {"size", "text"}
               PROVE  /\ tpc = "size" => logBuffer[1] # Junk /\ logBuffer[1][2] = 0
                      /\ tpc = "text" => left <= size /\ left <= BuffLen
    OBVIOUS
  <2>1. InRing /\ Framed /\ Position
    BY DEF DataOK, Started, LogData
  <2>2. PICK n \in 1 .. Len(texts), b \in 1 .. Len(accepted) :
            /\ RecordAt(b, n) /\ texts[n] \in 1 .. BuffLen
            /\ tpc = "size" => BehindHeader(n, b)
            /\ tpc = "text" => InText(n, b)
    BY <2>1, InOneRecord
  <2>3. tpc = "size" => logBuffer[1] # Junk /\ logBuffer[1][2] = 0
    <3>1. <<n, 0>> # Junk /\ <<n, 0>>[2] = 0
      BY DEF Junk
    <3> QED
      BY <2>2, <3>1 DEF BehindHeader
  <2>4. ASSUME tpc = "text" PROVE left <= size /\ left <= BuffLen
    <3>1. size \in Nat /\ BuffLen \in Nat
      BY Amounts, LogSizes
    <3>2. CASE left = 0
      BY <3>1, <3>2
    <3>3. CASE left # 0
      <4>1. left = texts[n] /\ Taken = b /\ b \in Nat
        BY <2>2, <2>4, <3>3 DEF InText
      <4>2. Removed = 0
        BY <2>4 DEF Removed
      <4>3. Counted \in Taken .. Len(accepted) /\ Counted - Taken = size /\ Counted \in Nat
        BY <2>1, <3>1, <4>2, RingAmounts, Amounts
      <4>4. b + texts[n] <= Counted
        BY <2>1, <2>2, <4>1, <4>3, TextIsThere
      <4> QED
        BY <2>2, <3>1, <4>1, <4>3, <4>4
    <3> QED
      BY <3>2, <3>3
  <2> QED
    BY <2>3, <2>4
<1> QED
  BY <1>1, DataAlways, PTL
=============================================================================
