--------------------------- MODULE AtClientProofs ---------------------------
(***************************************************************************)
(* Proofs about AtClient for any number of tasks, commands, chunks and     *)
(* tokens: type correctness; then that at_obj_exec_cmd is mutually         *)
(* exclusive (LockHeld), that client->resp (RespOwned) and                 *)
(* client->end_sign (EndSignOwned) never outlive the lock they were set    *)
(* under, with IInv, the inductive strengthening of these three; last that *)
(* a result is the answer to the caller's own command, with Exchange.      *)
(***************************************************************************)
EXTENDS AtClient, SequenceTheorems, TLAPS

LEMMA PostType ==
    ASSUME NEW n \in 0 .. MaxTokens
    PROVE  Post(n) \in 0 .. MaxTokens
BY BoundsAssumption DEF Post

LEMMA TaskTypesTask ==
    ASSUME TaskTypes, NEW t \in Tasks, Task(t)
    PROVE  TaskTypes'
<1> USE DEF TaskTypes, Goto, TaskLabels, Exec, Around, Cmds, callVars
<1>1. CASE UNCHANGED <<pc, cur, left>>
  BY <1>1
<1>2. CASE Begin(t)
  BY <1>2, BoundsAssumption DEF Begin
<1>3. CASE Outer(t)
  BY <1>3, BoundsAssumption DEF Outer
<1>4. CASE Sign(t)
  BY <1>4, BoundsAssumption DEF Sign
<1>5. CASE Chunk(t)
  BY <1>5, BoundsAssumption DEF Chunk
<1>6. CASE Lock(t)
  BY <1>6, BoundsAssumption DEF Lock
<1>7. CASE SetResp(t)
  BY <1>7, BoundsAssumption DEF SetResp
<1>8. CASE SetSelf(t)
  BY <1>8, BoundsAssumption DEF SetSelf
<1>9. CASE SetArg(t)
  BY <1>9, BoundsAssumption DEF SetArg
<1>10. CASE Drain(t)
  BY <1>10, BoundsAssumption DEF Drain
<1>11. CASE Send(t)
  BY <1>11, BoundsAssumption DEF Send
<1>12. CASE Notified(t)
  BY <1>12, BoundsAssumption DEF Notified
<1>13. CASE TimedOut(t)
  BY <1>13, BoundsAssumption DEF TimedOut
<1>14. CASE Check(t)
  BY <1>14, BoundsAssumption DEF Check
<1>15. CASE Clear(t)
  BY <1>15, BoundsAssumption DEF Clear, AfterClear
<1>16. CASE HandleNotified(t)
  BY <1>16, BoundsAssumption DEF HandleNotified
<1>17. CASE HandleTimedOut(t)
  BY <1>17, BoundsAssumption DEF HandleTimedOut
<1>18. CASE Free(t)
  BY <1>18, BoundsAssumption DEF Free
<1>19. CASE Body(t)
  BY <1>19, BoundsAssumption DEF Body
<1>20. CASE DataNotified(t)
  BY <1>20, BoundsAssumption DEF DataNotified
<1>21. CASE DataTimedOut(t)
  BY <1>21, BoundsAssumption DEF DataTimedOut
<1>22. CASE NextChunk(t)
  BY <1>22, BoundsAssumption DEF NextChunk
<1>23. CASE Stop(t)
  BY <1>23, BoundsAssumption DEF Stop
<1> QED
  BY <1>1, <1>2, <1>3, <1>4, <1>5, <1>6, <1>7, <1>8, <1>9, <1>10, <1>11,
     <1>12, <1>13, <1>14, <1>15, <1>16, <1>17, <1>18, <1>19, <1>20, <1>21,
     <1>22, <1>23
     DEF Task

LEMMA CommandTypesTask ==
    ASSUME TaskTypes, CommandTypes, NEW t \in Tasks, Task(t)
    PROVE  CommandTypes'
<1> USE DEF TaskTypes, CommandTypes, AllKinds, Cmds, callVars
<1>1. CASE UNCHANGED <<kind, alive, counts, res, handle>>
  BY <1>1
<1>2. CASE Begin(t)
  BY <1>2, KindsAssumption DEF Begin
<1>3. CASE Chunk(t)
  BY <1>3, BoundsAssumption DEF Chunk
<1>4. CASE SetArg(t)
  BY <1>4, BoundsAssumption DEF SetArg
<1>5. CASE TimedOut(t)
  BY <1>5, BoundsAssumption DEF TimedOut
<1>6. CASE Check(t)
  BY <1>6, BoundsAssumption DEF Check
<1>7. CASE HandleNotified(t)
  BY <1>7, BoundsAssumption, SMTT(30) DEF HandleNotified
<1>8. CASE Free(t)
  BY <1>8, BoundsAssumption DEF Free
<1>9. CASE NextChunk(t)
  BY <1>9, BoundsAssumption DEF NextChunk
<1> QED
  BY <1>1, <1>2, <1>3, <1>4, <1>5, <1>6, <1>7, <1>8, <1>9
     DEF Task, Outer, Sign, Lock, SetResp, SetSelf, Drain, Send, Notified,
         Clear, HandleTimedOut, Body, DataNotified, DataTimedOut, Stop

LEMMA ClientTypesTask ==
    ASSUME TaskTypes, ClientTypes, NEW t \in Tasks, Task(t)
    PROVE  ClientTypes'
<1> USE DEF TaskTypes, ClientTypes, clientVars, Cmds
<1>1. CASE UNCHANGED clientVars
  BY <1>1
<1>2. CASE Outer(t)
  BY <1>2, BoundsAssumption DEF Outer
<1>3. CASE Sign(t)
  BY <1>3, BoundsAssumption DEF Sign
<1>4. CASE Lock(t)
  BY <1>4, BoundsAssumption DEF Lock
<1>5. CASE SetResp(t)
  BY <1>5, BoundsAssumption DEF SetResp
<1>6. CASE SetSelf(t)
  BY <1>6, BoundsAssumption, ZenonT(60) DEF SetSelf
<1>7. CASE SetArg(t)
  BY <1>7, BoundsAssumption DEF SetArg
<1>8. CASE Drain(t)
  BY <1>8, BoundsAssumption DEF Drain
<1>9. CASE Notified(t)
  BY <1>9, BoundsAssumption DEF Notified
<1>10. CASE TimedOut(t)
  BY <1>10, BoundsAssumption DEF TimedOut
<1>11. CASE Clear(t)
  BY <1>11, BoundsAssumption DEF Clear, AfterClear
<1>12. CASE Free(t)
  BY <1>12, BoundsAssumption DEF Free
<1>13. CASE DataNotified(t)
  BY <1>13, BoundsAssumption DEF DataNotified
<1>14. CASE Stop(t)
  BY <1>14, BoundsAssumption DEF Stop
<1> QED
  BY <1>1, <1>2, <1>3, <1>4, <1>5, <1>6, <1>7, <1>8, <1>9, <1>10, <1>11,
     <1>12, <1>13, <1>14
     DEF Task, Begin, Chunk, Send, Check, HandleNotified, HandleTimedOut,
         Body, DataTimedOut, NextChunk

LEMMA WireTypesTask ==
    ASSUME TaskTypes, WireTypes, NEW t \in Tasks, Task(t)
    PROVE  WireTypes'
<1> USE DEF TaskTypes, WireTypes, wireVars, Item, Cmds
<1>1. CASE UNCHANGED wireVars
  BY <1>1
<1>2. CASE Send(t)
  BY <1>2 DEF Send
<1>3. CASE Body(t)
  BY <1>3 DEF Body
<1> QED
  BY <1>1, <1>2, <1>3
     DEF Task, Begin, Outer, Sign, Chunk, Lock, SetResp, SetSelf, SetArg,
         Drain, Notified, TimedOut, Check, Clear, HandleNotified,
         HandleTimedOut, Free, DataNotified, DataTimedOut, NextChunk, Stop

LEMMA GhostTypesTask ==
    ASSUME TaskTypes, GhostTypes, NEW t \in Tasks, Task(t)
    PROVE  GhostTypes'
<1> USE DEF TaskTypes, GhostTypes, ghostVars, Crashes, Cmds
<1>1. CASE UNCHANGED ghostVars
  BY <1>1
<1>2. CASE SetSelf(t)
  BY <1>2 DEF SetSelf
<1>3. CASE TimedOut(t)
  BY <1>3 DEF TimedOut
<1>4. CASE HandleTimedOut(t)
  BY <1>4, ZenonT(60) DEF HandleTimedOut
<1>5. CASE DataTimedOut(t)
  BY <1>5 DEF DataTimedOut
<1> QED
  BY <1>1, <1>2, <1>3, <1>4, <1>5
     DEF Task, Begin, Outer, Sign, Chunk, Lock, SetResp, SetArg, Drain, Send,
         Notified, Check, Clear, HandleNotified, Free, Body, DataNotified,
         NextChunk, Stop

LEMMA CommandTypesParser ==
    ASSUME CommandTypes, ParserTypes, Parser
    PROVE  CommandTypes'
<1> USE DEF CommandTypes, ParserTypes, Cmds, callVars
<1>1. CASE UNCHANGED <<kind, alive, counts, res, handle>>
  BY <1>1
<1>2. CASE HttpFunc
  BY <1>2, PostType DEF HttpFunc
<1>3. CASE CallbackDone
  BY <1>3, PostType DEF CallbackDone
<1>4. CASE Store
  <2> DEFINE lc == counts[presp] + (IF line[2] = "long" THEN 0 ELSE 1)
  <2>1. counts' \in [Cmds -> Nat]
    <3>1. presp \in Cmds /\ counts[presp] \in Nat
      BY <1>4 DEF Store
    <3>2. lc \in Nat
      BY <3>1
    <3>3. counts' = counts \/ counts' = [counts EXCEPT ![presp] = lc]
      BY <1>4 DEF Store
    <3> HIDE DEF lc
    <3> QED
      BY <3>2, <3>3
  <2> QED
    BY <1>4, <2>1 DEF Store
<1> QED
  BY <1>1, <1>2, <1>3, <1>4
     DEF Parser, ReadLine, SendFailed, SendDone, Urc, HttpUrc, Dispatch, Load,
         Branch, ReleaseForSelf, CallSelf, CallbackLine, CallbackTimedOut,
         ForgetResp, ForgetSelf, StoreNull, Complete, Notify

LEMMA ClientTypesParser ==
    ASSUME ClientTypes, ParserTypes, Parser
    PROVE  ClientTypes'
<1> USE DEF ClientTypes, ParserTypes, clientVars, Cmds
<1>1. CASE UNCHANGED clientVars
  BY <1>1
<1>2. CASE SendFailed
  BY <1>2, PostType DEF SendFailed
<1>3. CASE SendDone
  BY <1>3, PostType DEF SendDone
<1>4. CASE HttpUrc
  BY <1>4, PostType DEF HttpUrc
<1>5. CASE ReleaseForSelf
  BY <1>5, PostType DEF ReleaseForSelf
<1>6. CASE ForgetResp
  BY <1>6, PostType DEF ForgetResp
<1>7. CASE ForgetSelf
  BY <1>7, PostType DEF ForgetSelf
<1>8. CASE Store
  BY <1>8, PostType DEF Store, Verdict
<1>9. CASE Complete
  BY <1>9, PostType DEF Complete
<1>10. CASE Notify
  BY <1>10, PostType DEF Notify
<1> QED
  BY <1>1, <1>2, <1>3, <1>4, <1>5, <1>6, <1>7, <1>8, <1>9, <1>10
     DEF Parser, ReadLine, Urc, HttpFunc, Dispatch, Load, Branch, CallSelf,
         CallbackLine, CallbackTimedOut, CallbackDone, StoreNull

LEMMA ParserTypesStore ==
    ASSUME ParserTypes, Store
    PROVE  ParserTypes'
<1>1. ppc' \in {"read", "complete"}
  BY DEF Store, NextLine
<1>2. line' = line \/ line' = NoLine
  BY DEF Store, NextLine
<1>3. (presp' = presp \/ presp' = 0) /\ (parg' = parg \/ parg' = 0)
  BY DEF Store, NextLine
<1>4. line' \in LineType
  BY <1>2 DEF NoLine, LineType, LineKinds, ParserTypes
<1>5. {presp, parg}' \subseteq Cmds \cup {0}
  BY <1>3 DEF ParserTypes
<1> QED
  BY <1>1, <1>4, <1>5 DEF ParserTypes, ParserLabels

LEMMA ParserTypesParser ==
    ASSUME ClientTypes, ParserTypes, WireTypes, Parser
    PROVE  ParserTypes'
<1> USE DEF ClientTypes, ParserTypes, WireTypes, ParserLabels, parserVars, NextLine, NoLine, LineType, LineKinds, Cmds
<1>1. CASE UNCHANGED parserVars
  BY <1>1
<1>2. CASE ReadLine
  BY <1>2 DEF ReadLine
<1>3. CASE SendFailed
  BY <1>3 DEF SendFailed
<1>4. CASE SendDone
  BY <1>4 DEF SendDone
<1>5. CASE Urc
  BY <1>5 DEF Urc
<1>6. CASE HttpUrc
  BY <1>6 DEF HttpUrc
<1>7. CASE HttpFunc
  BY <1>7 DEF HttpFunc
<1>8. CASE Dispatch
  <2>1. CASE resp = 0
    BY <1>8, <2>1 DEF Dispatch
  <2>2. CASE resp # 0
    BY <1>8, <2>2 DEF Dispatch
  <2> QED
    BY <2>1, <2>2
<1>9. CASE Load
  BY <1>9 DEF Load
<1>10. CASE Branch
  BY <1>10 DEF Branch
<1>11. CASE ReleaseForSelf
  BY <1>11 DEF ReleaseForSelf
<1>12. CASE CallSelf
  BY <1>12 DEF CallSelf
<1>13. CASE CallbackLine
  BY <1>13 DEF CallbackLine
<1>14. CASE CallbackTimedOut
  BY <1>14 DEF CallbackTimedOut
<1>15. CASE CallbackDone
  BY <1>15 DEF CallbackDone
<1>16. CASE ForgetResp
  BY <1>16 DEF ForgetResp
<1>17. CASE ForgetSelf
  BY <1>17 DEF ForgetSelf
<1>18. CASE Store
  BY <1>18, ParserTypesStore
<1>19. CASE StoreNull
  BY <1>19 DEF StoreNull
<1>20. CASE Complete
  BY <1>20 DEF Complete
<1>21. CASE Notify
  BY <1>21 DEF Notify
<1> QED
  BY <1>1, <1>2, <1>3, <1>4, <1>5, <1>6, <1>7, <1>8, <1>9, <1>10, <1>11,
     <1>12, <1>13, <1>14, <1>15, <1>16, <1>17, <1>18, <1>19, <1>20, <1>21
     DEF Parser

LEMMA WireTypesParser ==
    ASSUME WireTypes, Parser
    PROVE  WireTypes'
<1> USE DEF WireTypes, wireVars
<1>1. CASE UNCHANGED wireVars
  BY <1>1
<1>2. CASE ReadLine
  BY <1>2 DEF ReadLine
<1>3. CASE CallbackLine
  BY <1>3 DEF CallbackLine
<1> QED
  BY <1>1, <1>2, <1>3
     DEF Parser, SendFailed, SendDone, Urc, HttpUrc, HttpFunc, Dispatch, Load,
         Branch, ReleaseForSelf, CallSelf, CallbackTimedOut, CallbackDone,
         ForgetResp, ForgetSelf, Store, StoreNull, Complete, Notify

LEMMA GhostTypesParser ==
    ASSUME GhostTypes, ParserTypes, Parser
    PROVE  GhostTypes'
<1> USE DEF GhostTypes, ParserTypes, ghostVars, Crashes, Cmds, Owner, LineType
<1>1. CASE UNCHANGED ghostVars
  BY <1>1
<1>2. CASE HttpFunc
  BY <1>2 DEF HttpFunc
<1>3. CASE CallSelf
  BY <1>3 DEF CallSelf
<1>4. CASE CallbackTimedOut
  BY <1>4 DEF CallbackTimedOut
<1>5. CASE Store
  BY <1>5 DEF Store
<1>6. CASE StoreNull
  BY <1>6 DEF StoreNull
<1> QED
  BY <1>1, <1>2, <1>3, <1>4, <1>5, <1>6
     DEF Parser, ReadLine, SendFailed, SendDone, Urc, HttpUrc, Dispatch, Load,
         Branch, ReleaseForSelf, CallbackLine, CallbackDone, ForgetResp,
         ForgetSelf, Complete, Notify

LEMMA ScriptType ==
    ASSUME NEW c
    PROVE  Script(c) \subseteq Seq(LineKinds)
<1>1. /\ <<>> \in Seq(LineKinds) /\ <<"error">> \in Seq(LineKinds)
      /\ <<"prompt">> \in Seq(LineKinds)
  BY DEF LineKinds
<1>2. <<"ok">> \in Seq(LineKinds) /\ <<"ok", "httpurc">> \in Seq(LineKinds)
  BY DEF LineKinds
<1>3. <<"info", "urc", "ok">> \in Seq(LineKinds) /\ <<"long", "ok">> \in Seq(LineKinds)
  BY DEF LineKinds
<1>4. <<"info">> \in Seq(LineKinds) /\ <<"info", "ok">> \in Seq(LineKinds)
  BY DEF LineKinds
<1> QED
  BY <1>1, <1>2, <1>3, <1>4 DEF Script

LEMMA DataScriptType == DataScript \subseteq Seq(LineKinds)
BY DEF DataScript, LineKinds

LEMMA LinesType ==
    ASSUME NEW c \in Cmds, NEW script \in Seq(LineKinds)
    PROVE  Lines(c, script) \in Seq(LineType)
BY DEF Lines, LineType

LEMMA WireTypesModule ==
    ASSUME WireTypes, Module
    PROVE  WireTypes'
<1>1. /\ tx \in Seq(Item) /\ tx # <<>>
      /\ rx \in Seq(LineType) /\ answer \in [Cmds -> {"none", "OK", "ERROR"}]
  BY DEF WireTypes, Module
<1>2. Head(tx) \in Item /\ Tail(tx) \in Seq(Item) /\ Head(tx)[1] \in Cmds
  BY <1>1 DEF Item
<1>3. PICK script \in IF Head(tx)[2] = "command" THEN Script(Head(tx)[1]) ELSE DataScript :
         /\ rx' = rx \o Lines(Head(tx)[1], script)
         /\ answer' = IF Head(tx)[2] = "command"
                      THEN [answer EXCEPT ![Head(tx)[1]] = Final(script)] ELSE answer
  BY DEF Module
<1>4. script \in Seq(LineKinds)
  BY <1>3, ScriptType, DataScriptType
<1>5. rx' \in Seq(LineType)
  BY <1>1, <1>2, <1>3, <1>4, LinesType
<1>6. answer' \in [Cmds -> {"none", "OK", "ERROR"}]
  BY <1>1, <1>3 DEF Final
<1> QED
  BY <1>2, <1>5, <1>6 DEF WireTypes, Module

LEMMA TypeInit == Init => TypeOK
<1> SUFFICES ASSUME Init PROVE TypeOK
  OBVIOUS
<1>1. TaskTypes
  BY BoundsAssumption DEF Init, TaskTypes, TaskLabels, Around
<1>2. CommandTypes
  BY BoundsAssumption DEF Init, CommandTypes
<1>3. ClientTypes
  <2>1. 0 \in 0 .. MaxTokens
    BY BoundsAssumption
  <2> QED
    BY <2>1 DEF Init, ClientTypes
<1>4. ParserTypes
  BY DEF Init, ParserTypes, ParserLabels, NoLine, LineType, LineKinds
<1>5. WireTypes
  BY DEF Init, WireTypes
<1>6. GhostTypes
  BY DEF Init, GhostTypes
<1> QED
  BY <1>1, <1>2, <1>3, <1>4, <1>5, <1>6 DEF TypeOK

LEMMA TypeNext == TypeOK /\ [Next]_vars => TypeOK'
<1> SUFFICES ASSUME TypeOK, [Next]_vars PROVE TypeOK'
  OBVIOUS
<1> USE DEF TypeOK
<1>1. CASE Parser
  <2>1. TaskTypes'
    BY <1>1 DEF TaskTypes, callVars, Parser, ReadLine, SendFailed, SendDone, Urc,
       HttpUrc, HttpFunc, Dispatch, Load, Branch, ReleaseForSelf, CallSelf,
       CallbackLine, CallbackTimedOut, CallbackDone, ForgetResp, ForgetSelf, Store,
       StoreNull, Complete, Notify
  <2> QED
    BY <1>1, <2>1, CommandTypesParser, ClientTypesParser, ParserTypesParser,
       WireTypesParser, GhostTypesParser
<1>2. CASE Module
  <2>1. /\ UNCHANGED <<pc, cur, left, kind, alive, counts, res, handle>>
        /\ UNCHANGED <<clientVars, parserVars, ghostVars>>
    BY <1>2 DEF Module, callVars
  <2>2. TaskTypes' /\ CommandTypes'
    BY <2>1 DEF TaskTypes, CommandTypes
  <2>3. ClientTypes' /\ ParserTypes' /\ GhostTypes'
    BY <2>1 DEF ClientTypes, ParserTypes, GhostTypes, clientVars, parserVars, ghostVars
  <2> QED
    BY <1>2, <2>2, <2>3, WireTypesModule
<1>3. ASSUME NEW t \in Tasks, Task(t)
      PROVE  TypeOK'
  <2>1. ParserTypes'
    BY <1>3 DEF ParserTypes, parserVars, Task, Begin, Outer, Sign, Chunk, Lock,
       SetResp, SetSelf, SetArg, Drain, Send, Notified, TimedOut, Check, Clear,
       HandleNotified, HandleTimedOut, Free, Body, DataNotified, DataTimedOut,
       NextChunk, Stop
  <2> QED
    BY <1>3, <2>1, TaskTypesTask, CommandTypesTask, ClientTypesTask, WireTypesTask,
       GhostTypesTask
<1>4. CASE UNCHANGED vars
  <2>1. TaskTypes' /\ CommandTypes'
    BY <1>4 DEF vars, callVars, TaskTypes, CommandTypes
  <2>2. ClientTypes' /\ ParserTypes'
    BY <1>4 DEF vars, clientVars, parserVars, ClientTypes, ParserTypes
  <2>3. WireTypes' /\ GhostTypes'
    BY <1>4 DEF vars, wireVars, ghostVars, WireTypes, GhostTypes
  <2> QED
    BY <2>1, <2>2, <2>3
<1> QED
  BY <1>1, <1>2, <1>3, <1>4 DEF Next

\* Every variable of the client always holds a value of its type; in particular
\* no semaphore ever exceeds the maximum its osSemaphoreNew was given.
THEOREM TypeCorrect == Spec => []TypeOK
BY TypeInit, TypeNext, PTL DEF Spec

-----------------------------------------------------------------------------
(* The lock                                                                 *)

\* A task in a call has a command that has been started.
Started == \A t \in Tasks : pc[t] # "idle" => cur[t] # 0 /\ kind[cur[t]] # "none"

\* The steps of at_obj_exec_cmd_with_data and those of the other callers.
DataSteps == {"sign", "chunk", "body", "dwait", "next", "stop"}
Phases ==
    \A t \in Tasks :
        /\ pc[t] \in DataSteps => kind[cur[t]] = "data"
        /\ pc[t] \in {"handle", "free"} => kind[cur[t]] # "data"

\* The owner of the lock is between Sign and Stop whenever the end sign is set.
SignOwned ==
    endSign => \E t \in Tasks :
                  /\ lock = t
                  /\ pc[t] \in Exec \cup {"lock", "chunk", "body", "dwait", "next", "stop"}
                  /\ kind[cur[t]] = "data"

IInv == TypeOK /\ Started /\ Phases /\ LockHeld /\ RespOwned /\ SignOwned

LEMMA SafeInit == Init => IInv
<1> SUFFICES ASSUME Init PROVE IInv
  OBVIOUS
<1>1. \A t \in Tasks : pc[t] = "idle"
  BY DEF Init
<1>2. Started /\ Phases
  BY <1>1 DEF Started, Phases, DataSteps
<1>3. LockHeld
  BY <1>1 DEF LockHeld, HoldsLock, Exec
<1>4. RespOwned /\ SignOwned
  BY DEF Init, RespOwned, SignOwned
<1> QED
  BY <1>2, <1>3, <1>4, TypeInit DEF IInv

\* A step of one task leaves the place and the command of every other alone.
LEMMA OthersStay ==
    ASSUME TypeOK, NEW t \in Tasks, Task(t), NEW u \in Tasks, u # t
    PROVE  pc'[u] = pc[u] /\ cur'[u] = cur[u]
<1> USE DEF TypeOK, TaskTypes, Goto, callVars
<1>1. CASE Begin(t)
  BY <1>1 DEF Begin
<1>2. CASE Outer(t)
  BY <1>2 DEF Outer
<1>3. CASE Sign(t)
  BY <1>3 DEF Sign
<1>4. CASE Chunk(t)
  BY <1>4 DEF Chunk
<1>5. CASE Lock(t)
  BY <1>5 DEF Lock
<1>6. CASE SetResp(t)
  BY <1>6 DEF SetResp
<1>7. CASE SetSelf(t)
  BY <1>7 DEF SetSelf
<1>8. CASE SetArg(t)
  BY <1>8 DEF SetArg
<1>9. CASE Drain(t)
  BY <1>9 DEF Drain
<1>10. CASE Send(t)
  BY <1>10 DEF Send
<1>11. CASE Notified(t)
  BY <1>11 DEF Notified
<1>12. CASE TimedOut(t)
  BY <1>12 DEF TimedOut
<1>13. CASE Check(t)
  BY <1>13 DEF Check
<1>14. CASE Clear(t)
  BY <1>14 DEF Clear, AfterClear
<1>15. CASE HandleNotified(t)
  BY <1>15 DEF HandleNotified
<1>16. CASE HandleTimedOut(t)
  BY <1>16 DEF HandleTimedOut
<1>17. CASE Free(t)
  BY <1>17 DEF Free
<1>18. CASE Body(t)
  BY <1>18 DEF Body
<1>19. CASE DataNotified(t)
  BY <1>19 DEF DataNotified
<1>20. CASE DataTimedOut(t)
  BY <1>20 DEF DataTimedOut
<1>21. CASE NextChunk(t)
  BY <1>21 DEF NextChunk
<1>22. CASE Stop(t)
  BY <1>22 DEF Stop
<1> QED
  BY <1>1, <1>2, <1>3, <1>4, <1>5, <1>6, <1>7, <1>8, <1>9, <1>10, <1>11,
     <1>12, <1>13, <1>14, <1>15, <1>16, <1>17, <1>18, <1>19, <1>20, <1>21,
     <1>22
     DEF Task

\* A command keeps its kind once it is started.
LEMMA KindsStay ==
    ASSUME TypeOK, NEW t \in Tasks, Task(t), NEW c \in Cmds, kind[c] # "none"
    PROVE  kind'[c] = kind[c]
<1> USE DEF TypeOK, CommandTypes, IsNext, callVars
<1>1. CASE Begin(t)
  BY <1>1 DEF Begin
<1>2. CASE NextChunk(t)
  BY <1>2 DEF NextChunk
<1>3. CASE UNCHANGED kind
  BY <1>3
<1> QED
  BY <1>1, <1>2, <1>3
     DEF Task, Outer, Sign, Chunk, Lock, SetResp, SetSelf, SetArg, Drain,
         Send, Notified, TimedOut, Check, Clear, HandleNotified,
         HandleTimedOut, Free, Body, DataNotified, DataTimedOut, Stop

\* Only the owner gives the lock away, and only a free lock is taken.
LEMMA LockStays ==
    ASSUME IInv, NEW t \in Tasks, Task(t), lock # 0, lock # t
    PROVE  lock' = lock
<1> USE DEF IInv, LockHeld, HoldsLock, Exec, Started, clientVars
<1>1. CASE Outer(t)
  BY <1>1 DEF Outer
<1>2. CASE Lock(t)
  BY <1>2 DEF Lock
<1>3. CASE Clear(t)
  BY <1>3 DEF Clear, AfterClear
<1>4. CASE Free(t)
  BY <1>4 DEF Free
<1>5. CASE Stop(t)
  BY <1>5 DEF Stop
<1>6. CASE UNCHANGED lock
  BY <1>6
<1> QED
  BY <1>1, <1>2, <1>3, <1>4, <1>5, <1>6
     DEF Task, Begin, Sign, Chunk, SetResp, SetSelf, SetArg, Drain, Send,
         Notified, TimedOut, Check, HandleNotified, HandleTimedOut, Body,
         DataNotified, DataTimedOut, NextChunk

\* What a new command is.
LEMMA BeginTakes ==
    ASSUME TypeOK, NEW t \in Tasks, Begin(t)
    PROVE  /\ cur'[t] # 0 /\ kind'[cur'[t]] # "none"
           /\ pc'[t] \in {"outer", "lock"}
           /\ pc'[t] = "lock" => kind'[cur'[t]] \notin OuterKinds
<1>1. PICK c \in Cmds, k \in Kinds :
         /\ kind' = [kind EXCEPT ![c] = k]
         /\ cur' = [cur EXCEPT ![t] = c]
         /\ pc' = [pc EXCEPT ![t] = IF k \in OuterKinds THEN "outer" ELSE "lock"]
  BY DEF Begin, Goto
<1>2. cur'[t] = c /\ kind'[c] = k /\ c # 0
  BY <1>1, BoundsAssumption DEF TypeOK, TaskTypes, CommandTypes, Cmds
<1>3. pc'[t] = IF k \in OuterKinds THEN "outer" ELSE "lock"
  BY <1>1 DEF TypeOK, TaskTypes
<1> QED
  BY <1>2, <1>3, KindsAssumption DEF AllKinds

\* The next chunk is another "data" command.
LEMMA ChunkTakes ==
    ASSUME TypeOK, NEW t \in Tasks, NextChunk(t), kind[cur[t]] = "data"
    PROVE  cur'[t] # 0 /\ kind'[cur'[t]] = "data" /\ pc'[t] \in {"chunk", "stop"}
<1>1. pc'[t] \in {"chunk", "stop"}
  BY DEF NextChunk, Goto, TypeOK, TaskTypes
<1>2. CASE UNCHANGED <<kind, cur>>
  BY <1>1, <1>2 DEF NextChunk, TypeOK, TaskTypes
<1>3. CASE \E c \in Cmds : /\ kind' = [kind EXCEPT ![c] = "data"]
                           /\ cur' = [cur EXCEPT ![t] = c]
  <2>1. PICK c \in Cmds : /\ kind' = [kind EXCEPT ![c] = "data"]
                          /\ cur' = [cur EXCEPT ![t] = c]
    BY <1>3
  <2>2. cur'[t] = c /\ kind'[c] = "data" /\ c # 0
    BY <2>1, BoundsAssumption DEF TypeOK, TaskTypes, CommandTypes, Cmds
  <2> QED
    BY <1>1, <2>2
<1> QED
  BY <1>2, <1>3 DEF NextChunk

LEMMA StartedTask ==
    ASSUME IInv, NEW t \in Tasks, Task(t)
    PROVE  Started'
<1> SUFFICES ASSUME NEW u \in Tasks, pc'[u] # "idle"
             PROVE  cur'[u] # 0 /\ kind'[cur'[u]] # "none"
  BY DEF Started
<1>0. CASE u # t
  BY <1>0, OthersStay, KindsStay DEF IInv, Started, TypeOK, TaskTypes
<1> SUFFICES ASSUME u = t, pc'[t] # "idle"
             PROVE  cur'[t] # 0 /\ kind'[cur'[t]] # "none"
  BY <1>0
<1> USE DEF IInv, Started, Goto, callVars, TypeOK, TaskTypes, CommandTypes
<1>1. CASE Begin(t)
  BY <1>1, BeginTakes
<1>2. CASE Outer(t)
  BY <1>2 DEF Outer
<1>3. CASE Sign(t)
  BY <1>3 DEF Sign
<1>4. CASE Chunk(t)
  BY <1>4 DEF Chunk
<1>5. CASE Lock(t)
  BY <1>5 DEF Lock
<1>6. CASE SetResp(t)
  BY <1>6 DEF SetResp
<1>7. CASE SetSelf(t)
  BY <1>7 DEF SetSelf
<1>8. CASE SetArg(t)
  BY <1>8 DEF SetArg
<1>9. CASE Drain(t)
  BY <1>9 DEF Drain
<1>10. CASE Send(t)
  BY <1>10 DEF Send
<1>11. CASE Notified(t)
  BY <1>11 DEF Notified
<1>12. CASE TimedOut(t)
  BY <1>12 DEF TimedOut
<1>13. CASE Check(t)
  BY <1>13 DEF Check
<1>14. CASE Clear(t)
  BY <1>14 DEF Clear, AfterClear
<1>15. CASE HandleNotified(t)
  BY <1>15 DEF HandleNotified
<1>16. CASE HandleTimedOut(t)
  BY <1>16 DEF HandleTimedOut
<1>17. CASE Free(t)
  BY <1>17 DEF Free
<1>18. CASE Body(t)
  BY <1>18 DEF Body
<1>19. CASE DataNotified(t)
  BY <1>19 DEF DataNotified
<1>20. CASE DataTimedOut(t)
  BY <1>20 DEF DataTimedOut
<1>21. CASE NextChunk(t)
  BY <1>21, ChunkTakes DEF NextChunk, Phases, DataSteps
<1>22. CASE Stop(t)
  BY <1>22 DEF Stop
<1> QED
  BY <1>0, <1>1, <1>2, <1>3, <1>4, <1>5, <1>6, <1>7, <1>8, <1>9, <1>10, <1>11,
     <1>12, <1>13, <1>14, <1>15, <1>16, <1>17, <1>18, <1>19, <1>20, <1>21,
     <1>22
     DEF Task

LEMMA PhasesTask ==
    ASSUME IInv, NEW t \in Tasks, Task(t)
    PROVE  Phases'
<1> SUFFICES ASSUME NEW u \in Tasks
             PROVE  /\ pc'[u] \in DataSteps => kind'[cur'[u]] = "data"
                    /\ pc'[u] \in {"handle", "free"} => kind'[cur'[u]] # "data"
  BY DEF Phases
<1>0. CASE u # t
  BY <1>0, OthersStay, KindsStay
     DEF IInv, Started, Phases, DataSteps, TypeOK, TaskTypes
<1> SUFFICES ASSUME u = t
             PROVE  /\ pc'[t] \in DataSteps => kind'[cur'[t]] = "data"
                    /\ pc'[t] \in {"handle", "free"} => kind'[cur'[t]] # "data"
  BY <1>0
<1> USE DEF IInv, Phases, DataSteps, Goto, callVars, TypeOK, TaskTypes, CommandTypes
<1>1. CASE Begin(t)
  BY <1>1, BeginTakes
<1>2. CASE Outer(t)
  BY <1>2 DEF Outer
<1>3. CASE Sign(t)
  BY <1>3 DEF Sign
<1>4. CASE Chunk(t)
  BY <1>4 DEF Chunk
<1>5. CASE Lock(t)
  BY <1>5 DEF Lock
<1>6. CASE SetResp(t)
  BY <1>6 DEF SetResp
<1>7. CASE SetSelf(t)
  BY <1>7 DEF SetSelf
<1>8. CASE SetArg(t)
  BY <1>8 DEF SetArg
<1>9. CASE Drain(t)
  BY <1>9 DEF Drain
<1>10. CASE Send(t)
  BY <1>10 DEF Send
<1>11. CASE Notified(t)
  BY <1>11 DEF Notified
<1>12. CASE TimedOut(t)
  BY <1>12 DEF TimedOut
<1>13. CASE Check(t)
  BY <1>13 DEF Check
<1>14. CASE Clear(t)
  BY <1>14 DEF Clear, AfterClear, SelfKinds
<1>15. CASE HandleNotified(t)
  BY <1>15 DEF HandleNotified
<1>16. CASE HandleTimedOut(t)
  BY <1>16 DEF HandleTimedOut
<1>17. CASE Free(t)
  BY <1>17 DEF Free
<1>18. CASE Body(t)
  BY <1>18 DEF Body
<1>19. CASE DataNotified(t)
  BY <1>19 DEF DataNotified
<1>20. CASE DataTimedOut(t)
  BY <1>20 DEF DataTimedOut
<1>21. CASE NextChunk(t)
  BY <1>21, ChunkTakes DEF NextChunk
<1>22. CASE Stop(t)
  BY <1>22 DEF Stop
<1> QED
  BY <1>0, <1>1, <1>2, <1>3, <1>4, <1>5, <1>6, <1>7, <1>8, <1>9, <1>10, <1>11,
     <1>12, <1>13, <1>14, <1>15, <1>16, <1>17, <1>18, <1>19, <1>20, <1>21,
     <1>22
     DEF Task

LEMMA LockHeldTask ==
    ASSUME IInv, NEW t \in Tasks, Task(t)
    PROVE  LockHeld'
<1> SUFFICES ASSUME NEW u \in Tasks, HoldsLock(u)'
             PROVE  lock' = u
  BY DEF LockHeld
<1>0. CASE u # t
  <2>1. HoldsLock(u)
    BY <1>0, OthersStay, KindsStay DEF HoldsLock, IInv, Started, TypeOK, TaskTypes
  <2> QED
    BY <1>0, <2>1, LockStays, TasksAssumption DEF IInv, LockHeld
<1> SUFFICES ASSUME u = t
             PROVE  lock' = t
  BY <1>0
<1> USE DEF IInv, LockHeld, HoldsLock, Exec, OuterKinds, SelfKinds, Goto, callVars,
            clientVars, TypeOK, TaskTypes, CommandTypes
<1>1. CASE Begin(t)
  BY <1>1, BeginTakes
<1>2. CASE Outer(t)
  BY <1>2 DEF Outer
<1>3. CASE Sign(t)
  BY <1>3 DEF Sign
<1>4. CASE Chunk(t)
  BY <1>4 DEF Chunk
<1>5. CASE Lock(t)
  BY <1>5 DEF Lock
<1>6. CASE SetResp(t)
  BY <1>6 DEF SetResp
<1>7. CASE SetSelf(t)
  BY <1>7 DEF SetSelf
<1>8. CASE SetArg(t)
  BY <1>8 DEF SetArg
<1>9. CASE Drain(t)
  BY <1>9 DEF Drain
<1>10. CASE Send(t)
  BY <1>10 DEF Send
<1>11. CASE Notified(t)
  BY <1>11 DEF Notified
<1>12. CASE TimedOut(t)
  BY <1>12 DEF TimedOut
<1>13. CASE Check(t)
  BY <1>13 DEF Check
<1>14. CASE Clear(t)
  BY <1>14 DEF Clear, AfterClear
<1>15. CASE HandleNotified(t)
  BY <1>15 DEF HandleNotified
<1>16. CASE HandleTimedOut(t)
  BY <1>16 DEF HandleTimedOut
<1>17. CASE Free(t)
  BY <1>17 DEF Free
<1>18. CASE Body(t)
  BY <1>18 DEF Body
<1>19. CASE DataNotified(t)
  BY <1>19 DEF DataNotified
<1>20. CASE DataTimedOut(t)
  BY <1>20 DEF DataTimedOut
<1>21. CASE NextChunk(t)
  BY <1>21, ChunkTakes DEF NextChunk, Phases, DataSteps
<1>22. CASE Stop(t)
  BY <1>22 DEF Stop
<1> QED
  BY <1>0, <1>1, <1>2, <1>3, <1>4, <1>5, <1>6, <1>7, <1>8, <1>9, <1>10, <1>11,
     <1>12, <1>13, <1>14, <1>15, <1>16, <1>17, <1>18, <1>19, <1>20, <1>21,
     <1>22
     DEF Task

LEMMA RespOwnedTask ==
    ASSUME IInv, NEW t \in Tasks, Task(t)
    PROVE  RespOwned'
<1> USE DEF IInv
<1>1. CASE SetResp(t)
  BY <1>1 DEF SetResp, Goto, RespOwned, Window, LockHeld, HoldsLock, Exec, TypeOK, TaskTypes,
     callVars
<1>2. CASE Clear(t)
  BY <1>2 DEF Clear, AfterClear, RespOwned
<1>3. CASE resp' = resp
  <2>1. SUFFICES ASSUME resp # 0
                 PROVE  \E v \in Tasks : lock' = v /\ pc'[v] \in Window /\ cur'[v] = resp
    BY <1>3 DEF RespOwned
  <2>2. PICK w \in Tasks : lock = w /\ pc[w] \in Window /\ cur[w] = resp
    BY <2>1 DEF RespOwned
  <2>3. CASE w # t
    BY <2>2, <2>3, OthersStay, LockStays, TasksAssumption
  <2>4. CASE w = t /\ pc[t] # "clear"
    BY <2>2, <2>4 DEF Task, Begin, Outer, Sign, Chunk, Lock, SetResp, SetSelf, SetArg,
       Drain, Send, Notified, TimedOut, Check, Clear, HandleNotified, HandleTimedOut,
       Free, Body, DataNotified, DataTimedOut, NextChunk, Stop, Window, Exec, Goto,
       callVars, clientVars, TypeOK, TaskTypes
  <2>5. CASE w = t /\ pc[t] = "clear"
    BY <1>3, <2>1, <2>5 DEF Task, Begin, Outer, Sign, Chunk, Lock, SetResp, SetSelf,
       SetArg, Drain, Send, Notified, TimedOut, Check, Clear, HandleNotified,
       HandleTimedOut, Free, Body, DataNotified, DataTimedOut, NextChunk, Stop
  <2> QED
    BY <2>3, <2>4, <2>5
<1> QED
  BY <1>1, <1>2, <1>3 DEF Task, Begin, Outer, Sign, Chunk, Lock, SetSelf, SetArg,
     Drain, Send, Notified, TimedOut, Check, HandleNotified, HandleTimedOut, Free,
     Body, DataNotified, DataTimedOut, NextChunk, Stop, clientVars


LEMMA SignOwnedTask ==
    ASSUME IInv, NEW t \in Tasks, Task(t)
    PROVE  SignOwned'
<1> USE DEF IInv
<1> DEFINE Inside == Exec \cup {"lock", "chunk", "body", "dwait", "next", "stop"}
<1>1. CASE Sign(t)
  BY <1>1 DEF Sign, Goto, SignOwned, Phases, DataSteps, LockHeld, HoldsLock, TypeOK,
     TaskTypes, callVars
<1>2. CASE Stop(t)
  BY <1>2 DEF Stop, SignOwned
<1>3. CASE endSign' = endSign /\ ~Stop(t)
  <2>1. SUFFICES ASSUME endSign
                 PROVE  \E v \in Tasks : /\ lock' = v
                                         /\ pc'[v] \in Inside
                                         /\ kind'[cur'[v]] = "data"
    BY <1>3 DEF SignOwned
  <2>2. PICK w \in Tasks : lock = w /\ pc[w] \in Inside /\ kind[cur[w]] = "data"
    BY <2>1 DEF SignOwned
  <2>3. CASE w # t
    <3>1. lock' = w
      BY <2>2, <2>3, LockStays, TasksAssumption
    <3>2. pc'[w] = pc[w] /\ cur'[w] = cur[w]
      BY <2>3, OthersStay
    <3>3. kind'[cur[w]] = "data"
      BY <2>2, KindsStay DEF Started, Exec, TypeOK, TaskTypes
    <3> QED
      BY <2>2, <3>1, <3>2, <3>3
  <2>4. CASE w = t /\ NextChunk(t)
    BY <2>2, <2>4, ChunkTakes DEF NextChunk, clientVars
  <2>5. CASE w = t /\ ~NextChunk(t)
    <3>1. UNCHANGED <<kind, cur>> /\ lock' = lock
      BY <1>3, <2>2, <2>5 DEF Task, Begin, Outer, Sign, Chunk, Lock, SetResp, SetSelf,
         SetArg, Drain, Send, Notified, TimedOut, Check, Clear, HandleNotified,
         HandleTimedOut, Free, Body, DataNotified, DataTimedOut, Exec, OuterKinds,
         callVars, clientVars
    <3>2. pc'[t] \in Inside
      BY <1>3, <2>2, <2>5 DEF Task, Begin, Outer, Sign, Chunk, Lock, SetResp, SetSelf,
         SetArg, Drain, Send, Notified, TimedOut, Check, Clear, HandleNotified,
         HandleTimedOut, Free, Body, DataNotified, DataTimedOut, AfterClear, Exec,
         Goto, TypeOK, TaskTypes
    <3> QED
      BY <2>2, <2>5, <3>1, <3>2
  <2> QED
    BY <2>3, <2>4, <2>5
<1> QED
  BY <1>1, <1>2, <1>3 DEF Task, Begin, Outer, Chunk, Lock, SetResp, SetSelf, SetArg,
     Drain, Send, Notified, TimedOut, Check, Clear, HandleNotified, HandleTimedOut,
     Free, Body, DataNotified, DataTimedOut, NextChunk, clientVars

\* The parser and the module may only clear client->resp.
LEMMA ParserSafe ==
    ASSUME IInv, Parser \/ Module
    PROVE  Started' /\ Phases' /\ LockHeld' /\ RespOwned' /\ SignOwned'
<1>1. UNCHANGED <<pc, cur, kind, lock, endSign>>
  BY DEF Parser, Module, ReadLine, SendFailed, SendDone, Urc, HttpUrc, HttpFunc,
     Dispatch, Load, Branch, ReleaseForSelf, CallSelf, CallbackLine, CallbackTimedOut,
     CallbackDone, ForgetResp, ForgetSelf, Store, StoreNull, Complete, Notify,
     callVars, clientVars
<1>2. resp' = resp \/ resp' = 0
  BY DEF Parser, Module, ReadLine, SendFailed, SendDone, Urc, HttpUrc, HttpFunc,
     Dispatch, Load, Branch, ReleaseForSelf, CallSelf, CallbackLine, CallbackTimedOut,
     CallbackDone, ForgetResp, ForgetSelf, Store, StoreNull, Complete, Notify, clientVars
<1>3. Started' /\ Phases'
  BY <1>1 DEF IInv, Started, Phases
<1>4. LockHeld'
  BY <1>1 DEF IInv, LockHeld, HoldsLock
<1>5. RespOwned'
  BY <1>1, <1>2 DEF IInv, RespOwned
<1>6. SignOwned'
  BY <1>1 DEF IInv, SignOwned
<1> QED
  BY <1>3, <1>4, <1>5, <1>6

LEMMA SafeNext == IInv /\ [Next]_vars => IInv'
<1> SUFFICES ASSUME IInv, [Next]_vars PROVE IInv'
  OBVIOUS
<1>1. TypeOK'
  BY TypeNext DEF IInv
<1>2. CASE Parser \/ Module
  BY <1>1, <1>2, ParserSafe DEF IInv
<1>3. ASSUME NEW t \in Tasks, Task(t)
      PROVE  IInv'
  BY <1>1, <1>3, StartedTask, PhasesTask, LockHeldTask, RespOwnedTask, SignOwnedTask
     DEF IInv
<1>4. CASE UNCHANGED vars
  <2>1. UNCHANGED <<pc, cur, kind, lock, resp, endSign>>
    BY <1>4 DEF vars, callVars, clientVars
  <2>2. Started' /\ Phases' /\ LockHeld'
    BY <2>1 DEF IInv, Started, Phases, LockHeld, HoldsLock
  <2>3. RespOwned' /\ SignOwned'
    BY <2>1 DEF IInv, RespOwned, SignOwned
  <2> QED
    BY <1>1, <2>2, <2>3 DEF IInv
<1> QED
  BY <1>2, <1>3, <1>4 DEF Next

LEMMA Invariant == Spec => []IInv
BY SafeInit, SafeNext, PTL DEF Spec

\* Two tasks are never inside at_obj_exec_cmd together, nor between the lock and
\* the unlock of a caller that nests it.
THEOREM LockCorrect == Spec => []LockHeld
<1>1. IInv => LockHeld
  BY DEF IInv
<1> QED
  BY <1>1, Invariant, PTL

\* client->resp never outlives the call that set it, whatever the parser does
\* with late answers: at_delete_resp never frees the response it points to.
THEOREM RespCorrect == Spec => []RespOwned
<1>1. IInv => RespOwned
  BY DEF IInv
<1> QED
  BY <1>1, Invariant, PTL

\* The end sign '>' is only set while at_obj_exec_cmd_with_data owns the lock.
THEOREM EndSignCorrect == Spec => []EndSignOwned
<1>1. IInv => EndSignOwned
  BY DEF IInv, SignOwned, EndSignOwned, Started, Exec
<1> QED
  BY <1>1, Invariant, PTL
-----------------------------------------------------------------------------
(* The answers of AtClient: while every answer comes in time and no command *)
(* has a self_func, the result of at_obj_exec_cmd is the answer to that very*)
(* command, resp_notice wakes a caller only when the parser is done with its*)
(* response, no line is left on the wire for the next command, and no       *)
(* pointer is followed that is NULL or dangling.  Exchange says, for every  *)
(* place of the owner of client->lock, where its command, its answer and    *)
(* the parser can be.                                                       *)

\* What can be on the wire of an answer, and what is left of it line by line.
Texts ==
    {<<>>, <<"error">>, <<"ok">>, <<"prompt">>, <<"ok", "httpurc">>, <<"httpurc">>,
     <<"info", "urc", "ok">>, <<"urc", "ok">>, <<"long", "ok">>, <<"info", "ok">>,
     <<"sendok">>, <<"sendfail">>}

\* s may be what is still to be read of the answer to c after n of its lines.
Open(c, n, s) ==
    \/ s = <<>>
    \/ answer[c] = "ERROR" /\ s = <<"error">>
    \/ /\ answer[c] = "OK"
       /\ \/ kind[c] = "data" /\ s = <<"prompt">>
          \/ kind[c] = "http" /\ s \in {<<"ok">>, <<"ok", "httpurc">>}
          \/ /\ kind[c] = "plain"
             /\ s \in {<<"ok">>, <<"info", "urc", "ok">>, <<"urc", "ok">>, <<"long", "ok">>}
          \/ kind[c] = "lined" /\ n = 0 /\ s = <<"info", "ok">>
          \/ kind[c] = "lined" /\ n = 1 /\ s = <<"ok">>

\* After the final line only the URC of an HTTP request can follow.
HttpAnswered(c) == kind[c] = "http" /\ answer[c] = "OK"
Trail(c) == rx = <<>> \/ (rx = Lines(c, <<"httpurc">>) /\ HttpAnswered(c))

Silent == tx = <<>> /\ rx = <<>> /\ ppc = "read"
Rest == Silent /\ resp = 0

InHand(c, s) ==
    /\ s # <<>> /\ line = <<c, Head(s)>> /\ rx = Lines(c, Tail(s))
    /\ \/ ppc = "dispatch"
       \/ ppc = "load" /\ Head(s) # "urc"
       \/ ppc \in {"branch", "store"} /\ Head(s) # "urc" /\ presp = c

\* The command is on its way; its answer is read; it is complete; and the
\* caller has been notified.
Asked(c) ==
    /\ tx = <<<<c, "command">>>> /\ rx = <<>> /\ ppc = "read"
    /\ resp = c /\ respNotice = 0 /\ counts[c] = 0 /\ handle[c] = 0
Answering(c) ==
    /\ tx = <<>> /\ resp = c /\ respNotice = 0 /\ handle[c] = 0
    /\ \E s \in Texts :
         /\ Open(c, counts[c], s)
         /\ InHand(c, s) \/ (ppc = "read" /\ rx = Lines(c, s))
Judged(c) ==
    /\ tx = <<>> /\ Trail(c) /\ respNotice = 0 /\ handle[c] = 0
    /\ respStatus = answer[c]
    /\ \/ ppc = "complete" /\ resp = c
       \/ ppc = "notify" /\ resp = 0
Trailing(c) ==
    /\ tx = <<>> /\ resp = 0
    /\ \/ ppc = "read" /\ Trail(c) /\ (rx # <<>> => handle[c] = 0)
       \/ /\ ppc \in {"dispatch", "httpfunc"} /\ line = <<c, "httpurc">>
          /\ rx = <<>> /\ handle[c] = 0 /\ HttpAnswered(c)

\* The same of the data of a chunk.
Sending(c) ==
    /\ resp = 0
    /\ \/ dataNotice = 1 /\ Silent
       \/ /\ dataNotice = 0
          /\ \/ tx = <<<<c, "data">>>> /\ rx = <<>> /\ ppc = "read"
             \/ /\ tx = <<>> /\ ppc = "read"
                /\ rx \in {<<>>, Lines(c, <<"sendok">>), Lines(c, <<"sendfail">>)}
             \/ /\ tx = <<>> /\ rx = <<>> /\ ppc \in {"dispatch", "sent"}
                /\ line \in {<<c, "sendok">>, <<c, "sendfail">>}

\* What holds while the owner of the lock is at p with command c.
Stage(p, c) ==
    /\ p \in Exec \cup Around
    /\ p \in {"lock", "handle", "free"} => kind[c] \in OuterKinds
    /\ p \in {"arg", "drain", "send", "wait", "check", "clear", "handle"} => kind[c] # "null"
    /\ p \in {"drain", "send", "wait", "check", "clear", "handle"} => arg = c
    /\ p \in {"drain", "send"} => counts[c] = 0
    /\ p = "send" => respNotice = 0
    /\ p # "dwait" => dataNotice = 0
    /\ kind[c] = "data" /\ p # "sign" => endSign
    /\ p \in {"sign", "chunk", "lock", "resp", "body", "next", "stop", "free"} => Rest
    /\ p \in {"self", "arg", "drain", "send"} =>
         Silent /\ resp = IF kind[c] = "null" THEN 0 ELSE c
    /\ p = "wait" =>
         \/ Asked(c) \/ Answering(c) \/ Judged(c)
         \/ respNotice > 0 /\ respStatus = answer[c] /\ Trailing(c)
    /\ p = "check" => respStatus = answer[c] /\ Trailing(c)
    /\ p = "clear" => res[c] = answer[c] /\ Trailing(c)
    /\ p = "handle" => kind[c] = "http" /\ Trailing(c)
    /\ p = "dwait" => Sending(c)

Talk ==
    /\ lock = 0 => Rest /\ dataNotice = 0
    /\ lock # 0 => Stage(pc[lock], cur[lock])

\* Before its command is sent a call has no result, and no token in its handle.
Early == {"outer", "sign", "chunk", "lock", "resp", "self", "arg", "drain", "send"}
Unasked ==
    \A t \in Tasks :
        /\ pc[t] \in Early \cup {"wait", "check"} => res[cur[t]] = "none"
        /\ pc[t] \in Early => handle[cur[t]] = 0

\* No two calls share a response, and what a command uses is not deleted.
Distinct ==
    \A t, u \in Tasks : t # u /\ pc[t] # "idle" /\ pc[u] # "idle" => cur[t] # cur[u]
Kept ==
    \A t \in Tasks :
        /\ pc[t] \in Exec \cup {"lock"} /\ kind[cur[t]] # "null" => cur[t] \in alive
        /\ pc[t] = "outer" /\ kind[cur[t]] # "data" => cur[t] \in alive

Nested == \A t \in Tasks : pc[t] = "outer" => kind[cur[t]] \in OuterKinds
Fresh == \A c \in Cmds : kind[c] = "none" => res[c] = "none" /\ handle[c] = 0
Results == \A c \in Cmds : res[c] # "none" => res[c] = answer[c]
Sound ==
    /\ selfFunc = 0
    /\ faults \subseteq {"null response"}
    /\ faults # {} => \E c \in Cmds : kind[c] = "null"

Books == Fresh /\ Distinct /\ Unasked /\ Kept /\ Nested /\ Results /\ Sound
Exchange == InTime /\ NoSelf => Books /\ Talk

-----------------------------------------------------------------------------
(* Lines and texts                                                          *)

LEMMA LinesTail ==
    ASSUME NEW c \in Cmds, NEW s \in Seq(LineKinds), s # <<>>
    PROVE  /\ Lines(c, s) # <<>>
           /\ Head(Lines(c, s)) = <<c, Head(s)>>
           /\ Tail(Lines(c, s)) = Lines(c, Tail(s))
<1>1. Len(s) \in Nat /\ Len(s) >= 1 /\ Head(s) = s[1]
  OBVIOUS
<1>2. Tail(s) \in Seq(LineKinds) /\ Len(Tail(s)) = Len(s) - 1
  OBVIOUS
<1>3. \A n \in 1 .. Len(s) - 1 : Tail(s)[n] = s[n + 1]
  BY <1>1
<1>4. Lines(c, s) \in Seq(LineType) /\ Len(Lines(c, s)) = Len(s)
  BY LinesType DEF Lines
<1>5. Lines(c, s) # <<>> /\ Head(Lines(c, s)) = Lines(c, s)[1]
  BY <1>1, <1>4
<1>6. Lines(c, s)[1] = <<c, s[1]>>
  BY <1>1 DEF Lines
<1>7. /\ Tail(Lines(c, s)) \in Seq(LineType)
      /\ Len(Tail(Lines(c, s))) = Len(s) - 1
      /\ \A n \in 1 .. Len(s) - 1 : Tail(Lines(c, s))[n] = Lines(c, s)[n + 1]
  BY <1>1, <1>4, <1>5
<1>8. /\ Lines(c, Tail(s)) \in Seq(LineType) /\ Len(Lines(c, Tail(s))) = Len(s) - 1
  BY <1>1, <1>2, LinesType DEF Lines
<1>9. \A n \in 1 .. Len(s) - 1 : Tail(Lines(c, s))[n] = Lines(c, Tail(s))[n]
  BY <1>1, <1>2, <1>3, <1>7 DEF Lines
<1>10. Tail(Lines(c, s)) = Lines(c, Tail(s))
  BY <1>7, <1>8, <1>9, SeqEqual
<1> QED
  BY <1>1, <1>5, <1>6, <1>10

LEMMA NoLines == ASSUME NEW c PROVE Lines(c, <<>>) = <<>>
<1>1. Lines(c, <<>>) \in Seq({}) /\ Len(Lines(c, <<>>)) = 0
  BY DEF Lines
<1> QED
  BY <1>1

LEMMA TextsAreSeqs == Texts \subseteq Seq(LineKinds)
BY DEF Texts, LineKinds

LEMMA Heads ==
    /\ Head(<<"error">>) = "error" /\ Head(<<"ok">>) = "ok" /\ Head(<<"prompt">>) = "prompt"
    /\ Head(<<"ok", "httpurc">>) = "ok" /\ Head(<<"httpurc">>) = "httpurc"
    /\ Head(<<"info", "urc", "ok">>) = "info" /\ Head(<<"urc", "ok">>) = "urc"
    /\ Head(<<"long", "ok">>) = "long" /\ Head(<<"info", "ok">>) = "info"
    /\ Head(<<"sendok">>) = "sendok" /\ Head(<<"sendfail">>) = "sendfail"
OBVIOUS

LEMMA Tails ==
    /\ Tail(<<"error">>) = <<>> /\ Tail(<<"ok">>) = <<>> /\ Tail(<<"prompt">>) = <<>>
    /\ Tail(<<"ok", "httpurc">>) = <<"httpurc">> /\ Tail(<<"httpurc">>) = <<>>
    /\ Tail(<<"info", "urc", "ok">>) = <<"urc", "ok">> /\ Tail(<<"urc", "ok">>) = <<"ok">>
    /\ Tail(<<"long", "ok">>) = <<"ok">> /\ Tail(<<"info", "ok">>) = <<"ok">>
    /\ Tail(<<"sendok">>) = <<>> /\ Tail(<<"sendfail">>) = <<>>
OBVIOUS

-----------------------------------------------------------------------------
(* The books: which command is whose, and what is known of it               *)

\* A wait that ran out of time ends the claim.
LEMMA NobodyGivesUp ==
    ASSUME TypeOK, Started, InTime, InTime', NEW t \in Tasks, Task(t)
    PROVE  ~TimedOut(t) /\ ~HandleTimedOut(t) /\ ~DataTimedOut(t)
<1> USE DEF InTime, TypeOK, TaskTypes, Started
<1>1. TimedOut(t) => FALSE
  BY DEF TimedOut
<1>2. HandleTimedOut(t) => FALSE
  BY DEF HandleTimedOut
<1>3. DataTimedOut(t) => FALSE
  BY DEF DataTimedOut
<1> QED
  BY <1>1, <1>2, <1>3

LEMMA FreshTask ==
    ASSUME IInv, Fresh, NEW t \in Tasks, Task(t), ~TimedOut(t)
    PROVE  Fresh'
<1> USE DEF Fresh, IInv, TypeOK, TaskTypes, CommandTypes, Started, callVars
<1>1. CASE Begin(t)
  <2>1. PICK c \in Cmds : /\ kind[c] = "none" /\ UNCHANGED <<res, handle>>
                          /\ \E k \in Kinds : kind' = [kind EXCEPT ![c] = k]
    BY <1>1 DEF Begin, IsNext
  <2> QED
    BY <2>1
<1>2. CASE Check(t)
  BY <1>2 DEF Check
<1>3. CASE HandleNotified(t)
  BY <1>3 DEF HandleNotified
<1>4. CASE NextChunk(t)
  BY <1>4 DEF NextChunk
<1>5. CASE UNCHANGED <<kind, res, handle>>
  BY <1>5
<1> QED
  BY <1>1, <1>2, <1>3, <1>4, <1>5
     DEF Task, Outer, Sign, Chunk, Lock, SetResp, SetSelf, SetArg, Drain, Send, Notified,
         Clear, HandleTimedOut, Free, Body, DataNotified, DataTimedOut, Stop

\* A new command is nobody else's.
LEMMA DistinctTask ==
    ASSUME IInv, Distinct, NEW t \in Tasks, Task(t)
    PROVE  Distinct'
<1> SUFFICES ASSUME NEW u \in Tasks, u # t, pc'[t] # "idle", pc[u] # "idle"
             PROVE  cur'[t] # cur[u]
  BY OthersStay DEF IInv, Distinct
<1> USE DEF Distinct, IInv, TypeOK, TaskTypes, CommandTypes, Started, Goto, callVars, IsNext
<1>1. CASE Begin(t)
  <2>1. PICK c \in Cmds : kind[c] = "none" /\ cur' = [cur EXCEPT ![t] = c]
    BY <1>1 DEF Begin
  <2> QED
    BY <2>1
<1>2. CASE NextChunk(t)
  BY <1>2 DEF NextChunk
<1>3. CASE Free(t)
  BY <1>3 DEF Free
<1>4. CASE Stop(t)
  BY <1>4 DEF Stop
<1>5. CASE UNCHANGED cur /\ pc[t] # "idle"
  BY <1>5
<1> QED
  BY <1>1, <1>2, <1>3, <1>4, <1>5
     DEF Task, Outer, Sign, Chunk, Lock, SetResp, SetSelf, SetArg, Drain, Send, Notified,
         TimedOut, Check, Clear, HandleNotified, HandleTimedOut, Body, DataNotified,
         DataTimedOut

LEMMA UnaskedTask ==
    ASSUME IInv, Fresh, Distinct, Unasked, NEW t \in Tasks, Task(t), ~TimedOut(t)
    PROVE  Unasked'
<1> USE DEF IInv, TypeOK, TaskTypes, CommandTypes, Started, Goto, callVars
<1>1. ASSUME NEW u \in Tasks, u # t
      PROVE  /\ pc'[u] \in Early \cup {"wait", "check"} => res'[cur'[u]] = "none"
             /\ pc'[u] \in Early => handle'[cur'[u]] = 0
  <2>1. pc'[u] = pc[u] /\ cur'[u] = cur[u]
    BY <1>1, OthersStay
  <2>2. \A c \in Cmds : c # cur[t] => res'[c] = res[c] /\ handle'[c] = handle[c]
    BY DEF Task, Begin, Check, HandleNotified, NextChunk, Outer, Sign, Chunk, Lock, SetResp,
       SetSelf, SetArg, Drain, Send, Notified, Clear, HandleTimedOut, Free, Body,
       DataNotified, DataTimedOut, Stop
  <2>3. CASE pc[t] = "idle"
    <3>1. UNCHANGED <<res, handle>>
      BY <2>3 DEF Task, Begin, Check, HandleNotified, NextChunk, Outer, Sign, Chunk, Lock,
         SetResp, SetSelf, SetArg, Drain, Send, Notified, Clear, HandleTimedOut, Free, Body,
         DataNotified, DataTimedOut, Stop
    <3> QED
      BY <2>1, <3>1 DEF Unasked
  <2>4. CASE pc[t] # "idle" /\ pc[u] \in Early \cup {"wait", "check"}
    <3>1. cur[u] # cur[t] /\ cur[u] \in Cmds
      BY <1>1, <2>4 DEF Distinct, Early
    <3> QED
      BY <2>1, <2>2, <3>1 DEF Unasked
  <2> QED
    BY <2>1, <2>3, <2>4
<1>2. /\ pc'[t] \in Early \cup {"wait", "check"} => res'[cur'[t]] = "none"
      /\ pc'[t] \in Early => handle'[cur'[t]] = 0
  <2> USE DEF Early, Unasked
  <2>1. CASE Begin(t)
    <3>1. PICK c \in Cmds : /\ kind[c] = "none" /\ cur' = [cur EXCEPT ![t] = c]
                            /\ UNCHANGED <<res, handle>>
      BY <2>1 DEF Begin, IsNext
    <3> QED
      BY <3>1 DEF Fresh
  <2>2. CASE NextChunk(t)
    <3>1. PICK c \in Cmds : /\ \/ pc'[t] = "stop"
                               \/ kind[c] = "none" /\ cur' = [cur EXCEPT ![t] = c]
                            /\ UNCHANGED <<res, handle>>
      BY <2>2 DEF NextChunk, IsNext
    <3> QED
      BY <3>1 DEF Fresh
  <2>3. CASE Outer(t) \/ Sign(t) \/ Chunk(t) \/ Lock(t) \/ SetResp(t) \/ SetSelf(t)
    BY <2>3 DEF Outer, Sign, Chunk, Lock, SetResp, SetSelf
  <2>4. CASE SetArg(t) \/ Drain(t) \/ Send(t) \/ Notified(t)
    BY <2>4 DEF SetArg, Drain, Send, Notified
  <2>5. CASE Check(t) \/ Clear(t) \/ HandleNotified(t) \/ HandleTimedOut(t) \/ Free(t)
    BY <2>5 DEF Check, Clear, AfterClear, HandleNotified, HandleTimedOut, Free
  <2>6. CASE Body(t) \/ DataNotified(t) \/ DataTimedOut(t) \/ Stop(t)
    BY <2>6 DEF Body, DataNotified, DataTimedOut, Stop
  <2> QED
    BY <2>1, <2>2, <2>3, <2>4, <2>5, <2>6 DEF Task
<1> QED
  BY <1>1, <1>2 DEF Unasked

LEMMA KeptTask ==
    ASSUME IInv, Distinct, Kept, NEW t \in Tasks, Task(t)
    PROVE  Kept'
<1> USE DEF IInv, TypeOK, TaskTypes, CommandTypes, Started, Goto, callVars
<1>1. ASSUME NEW u \in Tasks, u # t
      PROVE  /\ pc'[u] \in Exec \cup {"lock"} /\ kind'[cur'[u]] # "null" => cur'[u] \in alive'
             /\ pc'[u] = "outer" /\ kind'[cur'[u]] # "data" => cur'[u] \in alive'
  <2>1. pc'[u] = pc[u] /\ cur'[u] = cur[u]
    BY <1>1, OthersStay
  <2>2. pc[u] # "idle" => kind'[cur[u]] = kind[cur[u]]
    BY KindsStay
  <2>3. pc[u] # "idle" /\ cur[u] \in alive => cur[u] \in alive'
    <3>1. CASE Free(t) \/ NextChunk(t)
      BY <1>1, <3>1 DEF Free, NextChunk, Distinct
    <3>2. CASE alive \subseteq alive'
      BY <3>2
    <3> QED
      BY <3>1, <3>2
         DEF Task, Begin, Check, HandleNotified, Outer, Sign, Chunk, Lock, SetResp, SetSelf,
             SetArg, Drain, Send, Notified, TimedOut, Clear, HandleTimedOut, Body,
             DataNotified, DataTimedOut, Stop
  <2> QED
    BY <2>1, <2>2, <2>3 DEF Kept, Exec
<1>2. /\ pc'[t] \in Exec \cup {"lock"} /\ kind'[cur'[t]] # "null" => cur'[t] \in alive'
      /\ pc'[t] = "outer" /\ kind'[cur'[t]] # "data" => cur'[t] \in alive'
  <2> USE DEF Exec, Kept
  <2>1. CASE Begin(t)
    <3>1. PICK c \in Cmds, k \in Kinds :
             /\ cur' = [cur EXCEPT ![t] = c] /\ kind' = [kind EXCEPT ![c] = k]
             /\ alive' = IF k \in {"data", "null"} THEN alive ELSE alive \cup {c}
             /\ pc' = [pc EXCEPT ![t] = IF k \in OuterKinds THEN "outer" ELSE "lock"]
      BY <2>1 DEF Begin
    <3>2. cur'[t] = c /\ kind'[c] = k
          /\ pc'[t] = IF k \in OuterKinds THEN "outer" ELSE "lock"
      BY <3>1
    <3> QED
      BY <3>1, <3>2 DEF OuterKinds
  <2>2. CASE NextChunk(t)
    BY <2>2 DEF NextChunk
  <2>3. CASE Outer(t) \/ Sign(t) \/ Chunk(t) \/ Lock(t) \/ SetResp(t) \/ SetSelf(t)
    BY <2>3 DEF Outer, Sign, Chunk, Lock, SetResp, SetSelf
  <2>4. CASE SetArg(t) \/ Drain(t) \/ Send(t) \/ Notified(t) \/ TimedOut(t)
    BY <2>4 DEF SetArg, Drain, Send, Notified, TimedOut
  <2>5. CASE Check(t) \/ Clear(t) \/ HandleNotified(t) \/ HandleTimedOut(t) \/ Free(t)
    BY <2>5 DEF Check, Clear, AfterClear, HandleNotified, HandleTimedOut, Free
  <2>6. CASE Body(t) \/ DataNotified(t) \/ DataTimedOut(t) \/ Stop(t)
    BY <2>6 DEF Body, DataNotified, DataTimedOut, Stop
  <2> QED
    BY <2>1, <2>2, <2>3, <2>4, <2>5, <2>6 DEF Task
<1> QED
  BY <1>1, <1>2 DEF Kept

LEMMA NestedTask ==
    ASSUME IInv, Nested, NEW t \in Tasks, Task(t)
    PROVE  Nested'
<1> USE DEF IInv, TypeOK, TaskTypes, CommandTypes, Started, Goto, callVars, Nested
<1>1. ASSUME NEW u \in Tasks, u # t, pc'[u] = "outer"
      PROVE  kind'[cur'[u]] \in OuterKinds
  BY <1>1, OthersStay, KindsStay
<1>2. ASSUME pc'[t] = "outer"
      PROVE  kind'[cur'[t]] \in OuterKinds
  <2>1. CASE Begin(t)
    <3>1. PICK c \in Cmds, k \in Kinds :
             /\ cur' = [cur EXCEPT ![t] = c] /\ kind' = [kind EXCEPT ![c] = k]
             /\ pc' = [pc EXCEPT ![t] = IF k \in OuterKinds THEN "outer" ELSE "lock"]
      BY <2>1 DEF Begin
    <3>2. cur'[t] = c /\ kind'[c] = k
          /\ pc'[t] = IF k \in OuterKinds THEN "outer" ELSE "lock"
      BY <3>1
    <3> QED
      BY <1>2, <3>1, <3>2
  <2>2. CASE ~Begin(t)
    BY <1>2, <2>2
       DEF Task, Check, HandleNotified, Outer, Sign, Chunk, Lock, SetResp, SetSelf,
           SetArg, Drain, Send, Notified, TimedOut, Clear, AfterClear, HandleTimedOut, Free,
           Body, DataNotified, DataTimedOut, NextChunk, Stop
  <2> QED
    BY <2>1, <2>2
<1> QED
  BY <1>1, <1>2

\* The owner of the lock is the task at "check".
LEMMA ResultsTask ==
    ASSUME IInv, Results, Talk, NEW t \in Tasks, Task(t), ~TimedOut(t)
    PROVE  Results'
<1> USE DEF Results, IInv, TypeOK, TaskTypes, CommandTypes, Started, callVars, wireVars
<1>1. CASE Check(t)
  <2>1. lock = t /\ t # 0
    BY <1>1, TasksAssumption DEF Check, LockHeld, HoldsLock, Exec
  <2>2. respStatus = answer[cur[t]]
    BY <1>1, <2>1 DEF Talk, Stage, Check
  <2>3. answer \in [Cmds -> {"none", "OK", "ERROR"}] /\ respStatus # "none"
    BY DEF WireTypes, ClientTypes
  <2> QED
    BY <1>1, <2>2, <2>3, ZenonT(60) DEF Check
<1>2. CASE UNCHANGED <<res, answer>>
  BY <1>2
<1> QED
  BY <1>1, <1>2
     DEF Task, Begin, Outer, Sign, Chunk, Lock, SetResp, SetSelf, SetArg, Drain, Send,
         Notified, Clear, HandleNotified, HandleTimedOut, Free, Body, DataNotified,
         DataTimedOut, NextChunk, Stop

LEMMA SoundTask ==
    ASSUME IInv, NoSelf, Sound, NEW t \in Tasks, Task(t)
    PROVE  Sound'
<1> USE DEF Sound, IInv, TypeOK, TaskTypes, CommandTypes, Started, callVars, clientVars, ghostVars
<1>1. CASE SetSelf(t)
  <2>1. cur[t] \in Cmds /\ kind[cur[t]] \notin SelfKinds
    BY <1>1 DEF SetSelf, NoSelf
  <2> QED
    BY <1>1, <2>1 DEF SetSelf
<1>2. CASE UNCHANGED <<selfFunc, faults>>
  <2>1. \A c \in Cmds : kind[c] = "null" => kind'[c] = "null"
    BY KindsStay
  <2> QED
    BY <1>2, <2>1
<1> QED
  BY <1>1, <1>2
     DEF Task, Begin, Outer, Sign, Chunk, Lock, SetResp, SetArg, Drain, Send, Notified,
         TimedOut, Check, Clear, HandleNotified, HandleTimedOut, Free, Body, DataNotified,
         DataTimedOut, NextChunk, Stop

-----------------------------------------------------------------------------
(* The talk: steps of tasks                                                 *)

\* What Stage(p, c) says is untouched by what leaves this alone.
Same(c) ==
    /\ UNCHANGED <<tx, rx, ppc, line, presp, resp, arg, respStatus, respNotice, dataNotice,
                   endSign, answer, counts, res>>
    /\ kind'[c] = kind[c] /\ handle'[c] = handle[c]

LEMMA StageStays == ASSUME NEW p, NEW c, Stage(p, c), Same(c) PROVE Stage(p, c)'
<1> USE DEF Same
<1>1. \A s : Open(c, counts[c], s) => Open(c, counts[c], s)'
  BY DEF Open
<1>2. \A s : InHand(c, s) => InHand(c, s)'
  BY DEF InHand
<1>3. (Trail(c) => Trail(c)') /\ (HttpAnswered(c) => HttpAnswered(c)')
  BY DEF Trail, HttpAnswered
<1>4. (Rest => Rest') /\ (Silent => Silent')
  BY DEF Rest, Silent
<1>5. Asked(c) => Asked(c)'
  BY DEF Asked
<1>6. Answering(c) => Answering(c)'
  BY <1>1, <1>2 DEF Answering
<1>7. (Judged(c) => Judged(c)') /\ (Trailing(c) => Trailing(c)')
  BY <1>3 DEF Judged, Trailing
<1>8. Sending(c) => Sending(c)'
  BY <1>4 DEF Sending
<1> QED
  BY <1>4, <1>5, <1>6, <1>7, <1>8 DEF Stage

\* While a task owns the lock another one can only begin or end a call.
LEMMA Bystander ==
    ASSUME IInv, Distinct, NEW t \in Tasks, Task(t), lock # 0, lock # t
    PROVE  /\ lock' = lock /\ pc'[lock] = pc[lock] /\ cur'[lock] = cur[lock]
           /\ pc[lock] # "idle" => Same(cur[lock])
<1> DEFINE c == cur[lock]
<1>1. lock \in Tasks
  BY DEF IInv, TypeOK, ClientTypes
<1>2. lock' = lock /\ pc'[lock] = pc[lock] /\ cur'[lock] = cur[lock]
  BY <1>1, LockStays, OthersStay DEF IInv
<1> SUFFICES ASSUME pc[lock] # "idle" PROVE Same(c)
  BY <1>2
<1>3. c \in Cmds /\ kind[c] # "none" /\ kind'[c] = kind[c]
  BY <1>1, KindsStay DEF IInv, TypeOK, TaskTypes, Started
<1>4. CASE Begin(t)
  BY <1>3, <1>4 DEF Begin, Same, callVars, clientVars, parserVars, wireVars
<1>5. CASE Free(t)
  BY <1>3, <1>5 DEF Free, Same, callVars, clientVars, parserVars, wireVars
<1>6. CASE HandleNotified(t)
  <2>1. cur[t] # c
    BY <1>1, <1>6 DEF Distinct, HandleNotified
  <2>2. handle'[c] = handle[c]
    BY <1>3, <1>6, <2>1 DEF HandleNotified, IInv, TypeOK, CommandTypes
  <2> QED
    BY <1>3, <1>6, <2>2 DEF HandleNotified, Same, callVars, clientVars, parserVars, wireVars
<1>7. CASE HandleTimedOut(t)
  BY <1>3, <1>7 DEF HandleTimedOut, Same, callVars, clientVars, parserVars, wireVars
<1>8. CASE ~Begin(t) /\ ~Free(t) /\ ~HandleNotified(t) /\ ~HandleTimedOut(t)
  <2>1. pc[t] \in Exec \cup {"sign", "chunk", "body", "dwait", "next", "stop"} => lock = t
    BY DEF IInv, LockHeld, HoldsLock
  <2> QED
    BY <1>8, <2>1
       DEF Task, Outer, Sign, Chunk, Lock, SetResp, SetSelf, SetArg, Drain, Send, Notified,
           TimedOut, Check, Clear, Body, DataNotified, DataTimedOut, NextChunk, Stop, Exec
<1> QED
  BY <1>4, <1>5, <1>6, <1>7, <1>8

\* A task takes the lock when nothing of an earlier command is left.
LEMMA TalkTaken ==
    ASSUME IInv, Nested, Talk, NEW t \in Tasks, Task(t), lock = 0
    PROVE  Talk'
<1> USE DEF IInv, TypeOK, TaskTypes, Goto, callVars, clientVars, parserVars, wireVars
<1>1. Rest /\ dataNotice = 0
  BY DEF Talk
<1>2. CASE Outer(t)
  <2>1. /\ lock' = t /\ t # 0 /\ pc'[t] \in {"sign", "lock"} /\ cur'[t] = cur[t]
        /\ UNCHANGED kind
        /\ pc'[t] = IF kind[cur[t]] = "data" THEN "sign" ELSE "lock"
        /\ kind[cur[t]] \in OuterKinds
    BY <1>2, TasksAssumption DEF Outer, Nested
  <2>2. Rest' /\ dataNotice' = 0
    BY <1>1, <1>2 DEF Outer, Rest, Silent
  <2> QED
    BY <2>1, <2>2 DEF Talk, Stage, Around, OuterKinds
<1>3. CASE Lock(t)
  <2>1. lock' = t /\ t # 0 /\ pc'[t] = "resp" /\ UNCHANGED <<cur, kind>>
    BY <1>3, TasksAssumption DEF Lock
  <2>3. kind[cur[t]] # "data"
    BY <1>3, TasksAssumption DEF Lock, LockHeld, HoldsLock, Started, OuterKinds
  <2>2. Rest' /\ dataNotice' = 0
    BY <1>1, <1>3 DEF Lock, Rest, Silent
  <2> QED
    BY <2>1, <2>2, <2>3 DEF Talk, Stage, Exec
<1>4. CASE Begin(t) \/ Free(t) \/ HandleNotified(t) \/ HandleTimedOut(t)
  <2>1. lock' = 0
    BY <1>4 DEF Begin, Free, HandleNotified, HandleTimedOut
  <2>2. Rest' /\ dataNotice' = 0
    BY <1>1, <1>4 DEF Begin, Free, HandleNotified, HandleTimedOut, Rest, Silent
  <2> QED
    BY <2>1, <2>2 DEF Talk
<1>5. CASE ~Begin(t) /\ ~Free(t) /\ ~HandleNotified(t) /\ ~HandleTimedOut(t)
             /\ ~Outer(t) /\ ~Lock(t)
  <2>1. pc[t] \in Exec \cup {"sign", "chunk", "body", "dwait", "next", "stop"} => lock = t
    BY DEF LockHeld, HoldsLock
  <2> QED
    BY <1>5, <2>1, TasksAssumption
       DEF Task, Sign, Chunk, SetResp, SetSelf, SetArg, Drain, Send, Notified,
           TimedOut, Check, Clear, Body, DataNotified, DataTimedOut, NextChunk, Stop, Exec
<1> QED
  BY <1>2, <1>3, <1>4, <1>5

LEMMA TalkKept ==
    ASSUME IInv, NEW t \in Tasks, NEW q, lock' = t, pc' = [pc EXCEPT ![t] = q],
           UNCHANGED cur, Stage(q, cur[t])'
    PROVE  Talk'
BY TasksAssumption DEF IInv, TypeOK, TaskTypes, Talk

\* Up to Send nothing is on the wire and the parser reads.
LEMMA TalkBefore ==
    ASSUME IInv, NoSelf, Talk, NEW t \in Tasks, lock = t,
           Sign(t) \/ Chunk(t) \/ Lock(t) \/ SetResp(t) \/ SetSelf(t) \/ SetArg(t) \/ Drain(t)
    PROVE  Talk'
<1> DEFINE c == cur[t]
<1> USE DEF Goto, callVars, clientVars, parserVars, wireVars
<1>1. Stage(pc[t], c) /\ c \in Cmds \cup {0} /\ (pc[t] # "idle" => c \in Cmds)
  BY TasksAssumption DEF Talk, IInv, TypeOK, TaskTypes
<1>2. CASE Sign(t)
  <2>1. Stage("chunk", c)'
    BY <1>1, <1>2 DEF Sign, Stage, Rest, Silent, Around
  <2> QED
    BY <1>2, <2>1, TalkKept DEF Sign
<1>3. CASE Chunk(t)
  <2>1. Stage("lock", c)'
    BY <1>1, <1>3 DEF Chunk, Stage, Rest, Silent, Around, OuterKinds, IInv, Phases, DataSteps
  <2> QED
    BY <1>3, <2>1, TalkKept DEF Chunk
<1>4. CASE Lock(t)
  <2>1. Stage("resp", c)'
    BY <1>1, <1>4 DEF Lock, Stage, Rest, Silent, Exec
  <2> QED
    BY <1>4, <2>1, TalkKept DEF Lock
<1>5. CASE SetResp(t)
  <2>1. Stage("self", c)'
    BY <1>1, <1>5 DEF SetResp, Stage, Rest, Silent, Exec
  <2> QED
    BY <1>5, <2>1, TalkKept DEF SetResp
<1>6. CASE SetSelf(t)
  <2>1. CASE kind[c] = "null"
    <3>1. Same(c) /\ UNCHANGED <<pc, cur, lock>>
      BY <1>6, <2>1 DEF SetSelf, Same
    <3>2. Stage(pc[t], c)'
      BY <1>1, <1>6, <3>1, StageStays DEF SetSelf
    <3> QED
      BY <3>1, <3>2, TasksAssumption DEF Talk
  <2>2. CASE kind[c] # "null"
    <3>1. Stage("arg", c)'
      BY <1>1, <1>6, <2>2 DEF SetSelf, Stage, Silent, Exec
    <3> QED
      BY <1>6, <2>2, <3>1, TalkKept DEF SetSelf
  <2> QED
    BY <2>1, <2>2
<1>7. CASE SetArg(t)
  <2>1. Stage("drain", c)'
    BY <1>1, <1>7 DEF SetArg, Stage, Silent, Exec, IInv, TypeOK, CommandTypes
  <2> QED
    BY <1>7, <2>1, TalkKept DEF SetArg
<1>8. CASE Drain(t)
  <2>1. Stage("send", c)'
    BY <1>1, <1>8 DEF Drain, Stage, Silent, Exec
  <2> QED
    BY <1>8, <2>1, TalkKept DEF Drain
<1> QED
  BY <1>2, <1>3, <1>4, <1>5, <1>6, <1>7, <1>8

LEMMA TalkCommand ==
    ASSUME IInv, NoSelf, Unasked, Results, Talk, NEW t \in Tasks, lock = t,
           Send(t) \/ Notified(t) \/ Check(t) \/ Clear(t) \/ HandleNotified(t) \/ Free(t)
    PROVE  Talk'
<1> DEFINE c == cur[t]
<1> USE DEF Goto, callVars, clientVars, parserVars, wireVars
<1>1. Stage(pc[t], c) /\ c \in Cmds \cup {0} /\ (pc[t] # "idle" => c \in Cmds)
  BY TasksAssumption DEF Talk, IInv, TypeOK, TaskTypes
<1>2. CASE Send(t)
  <2>1. Silent /\ resp = c /\ respNotice = 0 /\ counts[c] = 0 /\ handle[c] = 0
    BY <1>1, <1>2 DEF Send, Stage, Unasked, Early
  <2>2. tx' = <<<<c, "command">>>>
    BY <1>2, <2>1 DEF Send, Silent
  <2>3. Asked(c)'
    BY <1>2, <2>1, <2>2 DEF Send, Asked, Silent
  <2>4. Stage("wait", c)'
    BY <1>1, <1>2, <2>3 DEF Send, Stage, Exec
  <2> QED
    BY <1>2, <2>4, TalkKept DEF Send
<1>3. CASE Notified(t)
  <2>1. respStatus = answer[c] /\ Trailing(c)
    BY <1>1, <1>3 DEF Notified, Stage, Asked, Answering, Judged
  <2>2. Trailing(c)'
    BY <1>3, <2>1 DEF Notified, Trailing, Trail, HttpAnswered
  <2>3. Stage("check", c)'
    BY <1>1, <1>3, <2>1, <2>2 DEF Notified, Stage, Exec
  <2> QED
    BY <1>3, <2>3, TalkKept DEF Notified
<1>4. CASE Check(t)
  <2>1. respStatus = answer[c] /\ Trailing(c)
    BY <1>1, <1>4 DEF Check, Stage
  <2>2. Trailing(c)' /\ res'[c] = answer'[c]
    <3>1. Trailing(c)'
      BY <1>4, <2>1 DEF Check, Trailing, Trail, HttpAnswered
    <3>2. answer[c] \in {"OK", "ERROR"}
      BY <1>1, <1>4, <2>1 DEF IInv, TypeOK, WireTypes, ClientTypes, Check
    <3>3. res'[c] = IF respStatus = "OK" THEN "OK" ELSE "ERROR"
      BY <1>1, <1>4 DEF IInv, TypeOK, CommandTypes, Check
    <3> QED
      BY <1>4, <2>1, <3>1, <3>2, <3>3 DEF Check
  <2>3. Stage("clear", c)'
    BY <1>1, <1>4, <2>2 DEF Check, Stage, Exec
  <2> QED
    BY <1>4, <2>3, TalkKept DEF Check
<1>5. CASE Clear(t)
  <2>1. /\ c \in Cmds /\ kind[c] # "none" /\ kind[c] \notin SelfKinds /\ kind[c] # "null"
        /\ res[c] = answer[c] /\ Trailing(c) /\ dataNotice = 0
    BY <1>1, <1>5 DEF Clear, Stage, NoSelf, IInv, Started
  <2>2. Trailing(c)'
    BY <1>5, <2>1 DEF Clear, Trailing, Trail, HttpAnswered
  <2>3. ~HttpAnswered(c) => Rest'
    BY <1>5, <2>1, <2>2 DEF Clear, Trailing, Trail, HttpAnswered, Rest, Silent
  <2>4. CASE kind[c] \in OuterKinds
    <3>1. lock' = t /\ pc' = [pc EXCEPT ![t] = AfterClear(t)]
      BY <1>5, <2>4 DEF Clear
    <3>2. CASE kind[c] = "data"
      <4>1. ~HttpAnswered(c) /\ AfterClear(t) = IF res[c] = "OK" THEN "body" ELSE "stop"
        BY <3>2 DEF AfterClear, HttpAnswered
      <4>2. Stage("body", c)' /\ Stage("stop", c)'
        BY <1>1, <1>5, <2>1, <2>3, <3>2, <4>1 DEF Clear, Stage, Around
      <4> QED
        BY <1>5, <3>1, <4>1, <4>2, TalkKept DEF Clear
    <3>3. CASE kind[c] = "http" /\ res[c] = "OK"
      <4>1. AfterClear(t) = "handle"
        BY <3>3 DEF AfterClear
      <4>2. Stage("handle", c)'
        BY <1>1, <1>5, <2>1, <2>2, <3>3 DEF Clear, Stage, Around, OuterKinds
      <4> QED
        BY <1>5, <3>1, <4>1, <4>2, TalkKept DEF Clear
    <3>4. CASE kind[c] = "http" /\ res[c] # "OK"
      <4>1. AfterClear(t) = "free" /\ ~HttpAnswered(c)
        BY <2>1, <3>4 DEF AfterClear, HttpAnswered
      <4>2. Stage("free", c)'
        BY <1>1, <1>5, <2>1, <2>3, <3>4, <4>1 DEF Clear, Stage, Around, OuterKinds
      <4> QED
        BY <1>5, <3>1, <4>1, <4>2, TalkKept DEF Clear
    <3> QED
      BY <2>1, <2>4, <3>2, <3>3, <3>4 DEF OuterKinds, SelfKinds
  <2>5. CASE kind[c] \notin OuterKinds
    BY <1>5, <2>1, <2>3, <2>5, TasksAssumption DEF Clear, Talk, HttpAnswered, OuterKinds
  <2> QED
    BY <2>4, <2>5
<1>6. CASE HandleNotified(t)
  <2>1. Rest /\ dataNotice = 0 /\ kind[c] = "http"
    BY <1>1, <1>6 DEF HandleNotified, Stage, Trailing, Rest, Silent, IInv, TypeOK, CommandTypes
  <2>2. Rest'
    BY <1>6, <2>1 DEF HandleNotified, Rest, Silent
  <2>3. Stage("free", c)'
    BY <1>6, <2>1, <2>2 DEF HandleNotified, Stage, Around, OuterKinds
  <2> QED
    BY <1>6, <2>3, TalkKept DEF HandleNotified
<1>7. CASE Free(t)
  <2>1. Rest /\ dataNotice = 0 /\ kind[c] \in OuterKinds
    BY <1>1, <1>7 DEF Free, Stage
  <2>2. Rest' /\ dataNotice' = 0 /\ lock' = 0
    BY <1>7, <2>1 DEF Free, Rest, Silent
  <2> QED
    BY <2>2 DEF Talk
<1> QED
  BY <1>2, <1>3, <1>4, <1>5, <1>6, <1>7

\* A chunk's data is sent when its prompt was read, and its notice is taken.
LEMMA TalkData ==
    ASSUME IInv, Talk, NEW t \in Tasks, lock = t,
           Body(t) \/ DataNotified(t) \/ NextChunk(t) \/ Stop(t)
    PROVE  Talk'
<1> DEFINE c == cur[t]
<1> USE DEF Goto, callVars, clientVars, parserVars, wireVars
<1>1. Stage(pc[t], c) /\ c \in Cmds \cup {0} /\ (pc[t] # "idle" => c \in Cmds)
  BY TasksAssumption DEF Talk, IInv, TypeOK, TaskTypes
<1>2. CASE Body(t)
  <2>1. Rest /\ dataNotice = 0
    BY <1>1, <1>2 DEF Body, Stage
  <2>2. tx' = <<<<c, "data">>>>
    BY <1>2, <2>1 DEF Body, Rest, Silent
  <2>3. Sending(c)'
    BY <1>2, <2>1, <2>2 DEF Body, Sending, Rest, Silent
  <2>4. Stage("dwait", c)'
    BY <1>1, <1>2, <2>3 DEF Body, Stage, Around
  <2> QED
    BY <1>2, <2>4, TalkKept DEF Body
<1>3. CASE DataNotified(t)
  <2>1. resp = 0 /\ dataNotice = 1 /\ Silent
    BY <1>1, <1>3 DEF DataNotified, Stage, Sending
  <2>2. Rest' /\ dataNotice' = 0
    BY <1>3, <2>1 DEF DataNotified, Rest, Silent
  <2>3. Stage("next", c)'
    BY <1>1, <1>3, <2>2 DEF DataNotified, Stage, Around
  <2> QED
    BY <1>3, <2>3, TalkKept DEF DataNotified
<1>4. CASE NextChunk(t)
  <2>1. Rest /\ dataNotice = 0 /\ kind[c] = "data" /\ endSign
    BY <1>1, <1>4 DEF NextChunk, Stage, IInv, Phases, DataSteps
  <2>2. Rest' /\ dataNotice' = 0 /\ endSign' = endSign /\ lock' = t
    BY <1>4, <2>1 DEF NextChunk, Rest, Silent
  <2>3. pc'[t] \in {"chunk", "stop"}
    BY <1>4, ChunkTakes, <2>1 DEF IInv
  <2>4. PICK p, d : p = pc'[t] /\ d = cur'[t]
    OBVIOUS
  <2>5. Stage(p, d)'
    BY <2>1, <2>2, <2>3, <2>4 DEF Stage, Around
  <2> QED
    BY <2>2, <2>4, <2>5, TasksAssumption DEF Talk
<1>5. CASE Stop(t)
  <2>1. Rest /\ dataNotice = 0
    BY <1>1, <1>5 DEF Stop, Stage
  <2>2. Rest' /\ dataNotice' = 0 /\ lock' = 0
    BY <1>5, <2>1 DEF Stop, Rest, Silent
  <2> QED
    BY <2>2 DEF Talk
<1> QED
  BY <1>2, <1>3, <1>4, <1>5

-----------------------------------------------------------------------------
(* The talk: steps of the parser and the module                             *)

\* What the parser and the module leave alone while no command has a self_func.
Untouched ==
    UNCHANGED <<pc, cur, left, kind, alive, res, lock, selfFunc, arg, endSign, expired, faults>>

LEMMA Busy ==
    ASSUME IInv, Talk, ~Silent
    PROVE  /\ lock \in Tasks /\ lock # 0 /\ cur[lock] \in Cmds /\ kind[cur[lock]] # "none"
           /\ pc[lock] \in {"wait", "check", "clear", "handle", "dwait"}
           /\ Stage(pc[lock], cur[lock])
<1>1. lock # 0 /\ lock \in Tasks
  BY DEF Talk, Rest, IInv, TypeOK, ClientTypes
<1>2. Stage(pc[lock], cur[lock])
  BY <1>1 DEF Talk
<1>3. pc[lock] \in {"wait", "check", "clear", "handle", "dwait"}
  BY <1>2 DEF Stage, Rest, Exec, Around
<1> QED
  BY <1>1, <1>2, <1>3 DEF IInv, Started, TypeOK, TaskTypes

LEMMA CommandsAreNotZero == 0 \notin Cmds
BY BoundsAssumption DEF Cmds

LEMMA Finals ==
    /\ Final(<<>>) = "none" /\ Final(<<"error">>) = "ERROR" /\ Final(<<"prompt">>) = "OK"
    /\ Final(<<"ok">>) = "OK" /\ Final(<<"ok", "httpurc">>) = "OK"
    /\ Final(<<"info", "urc", "ok">>) = "OK" /\ Final(<<"long", "ok">>) = "OK"
    /\ Final(<<"info", "ok">>) = "OK"
<1>1. Final(<<>>) = "none"
  BY DEF Final
<1>2. Final(<<"error">>) = "ERROR"
  <2>1. <<"error">>[1] = "error" /\ 1 \in DOMAIN <<"error">>
    OBVIOUS
  <2>2. <<"error">> # <<>> /\ <<"error">> # <<"info">>
    OBVIOUS
  <2> QED
    BY <2>1, <2>2 DEF Final
<1>3. Final(<<"prompt">>) = "OK" /\ Final(<<"ok">>) = "OK"
  BY DEF Final
<1>4. Final(<<"ok", "httpurc">>) = "OK" /\ Final(<<"long", "ok">>) = "OK"
  BY DEF Final
<1>5. Final(<<"info", "ok">>) = "OK"
  BY DEF Final
<1>6. Final(<<"info", "urc", "ok">>) = "OK"
  BY DEF Final
<1> QED
  BY <1>1, <1>2, <1>3, <1>4, <1>5, <1>6

\* The module answers the command that waits for an answer.
LEMMA ModuleAnswers ==
    ASSUME IInv, NEW c \in Cmds, Asked(c), Module,
           kind[c] \in {"plain", "lined", "data", "http"}
    PROVE  Answering(c)' /\ \A d \in Cmds : d # c => answer'[d] = answer[d]
<1>1. Head(tx) = <<c, "command">> /\ Tail(tx) = <<>> /\ rx = <<>>
  BY DEF Asked
<1>2. PICK script \in Script(c) :
         rx' = rx \o Lines(c, script) /\ answer' = [answer EXCEPT ![c] = Final(script)]
  BY <1>1 DEF Module
<1>3. script \in Seq(LineKinds)
  BY <1>2, ScriptType
<1>4. rx' = Lines(c, script)
  BY <1>1, <1>2, <1>3, LinesType
<1>5. answer'[c] = Final(script) /\ \A d \in Cmds : d # c => answer'[d] = answer[d]
  BY <1>2 DEF IInv, TypeOK, WireTypes
<1>6. counts'[c] = 0 /\ UNCHANGED kind
  BY DEF Module, Asked, callVars
<1>7. script \in Texts /\ Open(c, 0, script)'
  BY <1>2, <1>5, <1>6, Finals DEF Script, Texts, Open
<1> QED
  BY <1>1, <1>4, <1>5, <1>6, <1>7
     DEF Module, Asked, Answering, callVars, clientVars, parserVars

\* The answer to a chunk's data and the line that releases its caller.
LEMMA DataAnswered ==
    ASSUME IInv, NEW c \in Cmds, Sending(c), Parser \/ Module
    PROVE  Sending(c)' /\ Untouched /\ UNCHANGED <<handle, answer>>
<1> USE DEF Untouched, callVars, clientVars, parserVars, wireVars, ghostVars
<1>1. CASE Module
  <2>0. tx = <<<<c, "data">>>> /\ rx = <<>> /\ dataNotice = 0 /\ ppc = "read" /\ resp = 0
    BY <1>1 DEF Sending, Silent, Module
  <2>1. Head(tx) = <<c, "data">> /\ Tail(tx) = <<>> /\ rx = <<>> /\ dataNotice = 0 /\ ppc = "read"
    BY <2>0
  <2>2. PICK script \in DataScript : rx' = rx \o Lines(c, script) /\ answer' = answer
    BY <1>1, <2>1 DEF Module
  <2>3. rx' = Lines(c, script)
    BY <2>1, <2>2, DataScriptType, LinesType
  <2>4. rx' \in {<<>>, Lines(c, <<"sendok">>), Lines(c, <<"sendfail">>)}
    BY <2>2, <2>3, NoLines DEF DataScript
  <2> QED
    BY <1>1, <2>1, <2>2, <2>4 DEF Module, Sending
<1>2. CASE ReadLine
  <2>1. PICK k \in {"sendok", "sendfail"} : rx = Lines(c, <<k>>)
    BY <1>2 DEF ReadLine, Sending, Silent
  <2>2. <<k>> \in Seq(LineKinds) /\ <<k>> # <<>> /\ Head(<<k>>) = k /\ Tail(<<k>>) = <<>>
    BY <2>1 DEF LineKinds
  <2>3. Head(rx) = <<c, k>> /\ Tail(rx) = <<>>
    BY <2>1, <2>2, LinesTail, NoLines
  <2>4. line' = <<c, k>> /\ rx' = <<>> /\ ppc' = "dispatch"
    BY <1>2, <2>1, <2>3 DEF ReadLine
  <2> QED
    BY <1>2, <2>1, <2>3, <2>4 DEF ReadLine, Sending, Silent
<1>3. CASE SendFailed
  BY <1>3 DEF SendFailed, Sending, Silent
<1>4. CASE SendDone
  <2>1. dataNotice = 0 /\ tx = <<>> /\ rx = <<>> /\ resp = 0
    BY <1>4 DEF SendDone, Sending, Silent
  <2>2. dataNotice' = 1
    BY <1>4, <2>1, BoundsAssumption DEF SendDone, Post
  <2> QED
    BY <1>4, <2>1, <2>2 DEF SendDone, Sending, Silent, NextLine
<1>5. CASE ~ReadLine /\ ~SendFailed /\ ~SendDone /\ Parser
  <2>1. ppc \in {"read", "dispatch", "sent"}
    BY DEF Sending, Silent
  <2>2. ppc \in {"dispatch", "sent"} => line[2] \in {"sendok", "sendfail"}
    BY DEF Sending, Silent
  <2> QED
    BY <1>5, <2>1, <2>2
       DEF Parser, Urc, HttpUrc, HttpFunc, Dispatch, IsResponse, Load, Branch, ReleaseForSelf,
           CallSelf, CallbackLine, CallbackTimedOut, CallbackDone, ForgetResp, ForgetSelf,
           Store, StoreNull, Complete, Notify
<1> QED
  BY <1>1, <1>2, <1>3, <1>4, <1>5 DEF Parser

\* After the final line: the parser clears client->resp and notifies the caller.
LEMMA CompleteNotifies ==
    ASSUME NEW c, Judged(c), Parser
    PROVE  /\ Untouched /\ UNCHANGED <<answer, handle, dataNotice>>
           /\ \/ Judged(c)'
              \/ (respNotice > 0 /\ respStatus = answer[c] /\ Trailing(c))'
<1> USE DEF Untouched, callVars, clientVars, parserVars, wireVars, ghostVars
<1>1. ppc \in {"complete", "notify"}
  BY DEF Judged
<1>2. CASE Complete
  BY <1>2 DEF Complete, Judged, Trail, HttpAnswered
<1>3. CASE Notify
  <2>1. respNotice' > 0
    BY <1>3, BoundsAssumption DEF Notify, Judged, Post
  <2>2. Trailing(c)'
    BY <1>3 DEF Notify, NextLine, Judged, Trailing, Trail, HttpAnswered
  <2> QED
    BY <1>3, <2>1, <2>2 DEF Notify, Judged
<1> QED
  BY <1>1, <1>2, <1>3
     DEF Parser, ReadLine, SendFailed, SendDone, Urc, HttpUrc, HttpFunc, Dispatch, Load, Branch,
         ReleaseForSelf, CallSelf, CallbackLine, CallbackTimedOut, CallbackDone, ForgetResp,
         ForgetSelf, Store, StoreNull

\* The URC of an HTTP request releases resp_notice, then the caller's handle.
LEMMA HttpUrcFollows ==
    ASSUME IInv, NEW c \in Cmds, Trailing(c), arg = c, Parser
    PROVE  /\ Untouched /\ UNCHANGED <<answer, dataNotice, respStatus>>
           /\ Trailing(c)' /\ (respNotice > 0 => respNotice' > 0)
           /\ \A d \in Cmds : d # c => handle'[d] = handle[d]
<1> USE DEF Untouched, callVars, clientVars, parserVars, wireVars, ghostVars
<1>1. ppc \in {"read", "dispatch", "httpfunc"}
      /\ (ppc \in {"dispatch", "httpfunc"} => line = <<c, "httpurc">>)
  BY DEF Trailing
<1>2. CASE ReadLine
  <2>1. rx = Lines(c, <<"httpurc">>) /\ HttpAnswered(c) /\ handle[c] = 0 /\ tx = <<>> /\ resp = 0
    BY <1>2 DEF ReadLine, Trailing, Trail
  <2>2. <<"httpurc">> \in Seq(LineKinds) /\ <<"httpurc">> # <<>>
    BY DEF LineKinds
  <2>3. Head(rx) = <<c, "httpurc">> /\ Tail(rx) = <<>>
    BY <2>1, <2>2, LinesTail, NoLines, Heads, Tails, ZenonT(60)
  <2>4. line' = <<c, "httpurc">> /\ rx' = <<>> /\ ppc' = "dispatch"
    BY <1>2, <2>3 DEF ReadLine
  <2> QED
    BY <1>2, <2>1, <2>4 DEF ReadLine, Trailing, HttpAnswered
<1>3. CASE HttpUrc
  <2>1. respNotice > 0 => respNotice' > 0
    BY <1>3, BoundsAssumption DEF HttpUrc, Post, IInv, TypeOK, ClientTypes
  <2> QED
    BY <1>3, <2>1 DEF HttpUrc, Trailing, HttpAnswered
<1>4. CASE HttpFunc
  <2>0. line = <<c, "httpurc">>
    BY <1>1, <1>4 DEF HttpFunc
  <2>1. arg = Owner
    BY <2>0 DEF Owner
  <2>2. faults' = faults
    BY <1>4, <2>1 DEF HttpFunc
  <2>3. \A d \in Cmds : d # c => handle'[d] = handle[d]
    BY <1>4 DEF HttpFunc, IInv, TypeOK, CommandTypes
  <2>4. Trailing(c)'
    BY <1>4 DEF HttpFunc, NextLine, Trailing, Trail
  <2> QED
    BY <1>4, <2>2, <2>3, <2>4 DEF HttpFunc
<1>5. CASE ~ReadLine /\ ~HttpUrc /\ ~HttpFunc
  <2>1. ppc = "dispatch" => line[2] = "httpurc"
    BY <1>1
  <2> QED
    BY <1>1, <1>5, <2>1
       DEF Parser, SendFailed, SendDone, Urc, Dispatch, IsResponse, Load, Branch, ReleaseForSelf,
           CallSelf, CallbackLine, CallbackTimedOut, CallbackDone, ForgetResp, ForgetSelf,
           Store, StoreNull, Complete, Notify
<1> QED
  BY <1>2, <1>3, <1>4, <1>5

\* What a line stored in its response decides, and what it leaves to read.
LEMMA StoreDecides ==
    ASSUME NEW c, NEW n \in Nat, NEW s \in Texts, s # <<>>, Open(c, n, s), Head(s) # "urc",
           ByLines # 1
    PROVE  LET lc == n + (IF Head(s) = "long" THEN 0 ELSE 1)
               v == Verdict(c, Head(s), lc)
           IN  \/ /\ v = answer[c] /\ v # "more"
                  /\ Tail(s) = <<>> \/ (Tail(s) = <<"httpurc">> /\ HttpAnswered(c))
               \/ v = "more" /\ Tail(s) \in Texts /\ Open(c, lc, Tail(s))
<1> DEFINE lc == n + (IF Head(s) = "long" THEN 0 ELSE 1)
           v == Verdict(c, Head(s), lc)
<1>1. CASE answer[c] = "ERROR" /\ s = <<"error">>
  BY <1>1, Heads, Tails DEF Verdict
<1>2. CASE answer[c] = "OK" /\ kind[c] = "data" /\ s = <<"prompt">>
  BY <1>2, Heads, Tails DEF Verdict, LineNum
<1>3. CASE answer[c] = "OK" /\ kind[c] = "http" /\ s \in {<<"ok">>, <<"ok", "httpurc">>}
  BY <1>3, Heads, Tails DEF Verdict, LineNum, HttpAnswered
<1>4. CASE answer[c] = "OK" /\ kind[c] = "plain" /\ s = <<"ok">>
  BY <1>4, Heads, Tails DEF Verdict, LineNum
<1>5. CASE /\ answer[c] = "OK" /\ kind[c] = "plain"
           /\ s \in {<<"info", "urc", "ok">>, <<"long", "ok">>}
  <2>1. v = "more"
    BY <1>5, Heads DEF Verdict, LineNum
  <2>2. Tail(s) \in {<<"urc", "ok">>, <<"ok">>}
    BY <1>5, Tails
  <2>3. Tail(s) \in Texts /\ Open(c, lc, Tail(s))
    BY <1>5, <2>2 DEF Texts, Open
  <2> QED
    BY <2>1, <2>3
<1>6. CASE answer[c] = "OK" /\ kind[c] = "lined" /\ n = 0 /\ s = <<"info", "ok">>
  <2>1. v = "more" /\ lc = 1
    BY <1>6, Heads, BoundsAssumption DEF Verdict, LineNum
  <2>2. Tail(s) = <<"ok">>
    BY <1>6, Tails
  <2>3. Tail(s) \in Texts /\ Open(c, lc, Tail(s))
    BY <1>6, <2>1, <2>2 DEF Texts, Open
  <2> QED
    BY <2>1, <2>3
<1>7. CASE answer[c] = "OK" /\ kind[c] = "lined" /\ n = 1 /\ s = <<"ok">>
  <2>1. v \in {"OK", "more"}
    BY <1>7, Heads, BoundsAssumption DEF Verdict, LineNum
  <2>2. Tail(s) = <<>> /\ Tail(s) \in Texts
    BY <1>7, Tails DEF Texts
  <2> QED
    BY <1>7, <2>1, <2>2 DEF Open
<1>8. CASE answer[c] = "OK" /\ kind[c] = "plain" /\ s = <<"urc", "ok">>
  BY <1>8, Heads
<1>9. CASE answer[c] = "OK" /\ kind[c] = "plain"
  <2>1. s \in {<<"ok">>, <<"info", "urc", "ok">>, <<"urc", "ok">>, <<"long", "ok">>}
    BY <1>9 DEF Open
  <2> QED
    BY <1>4, <1>5, <1>8, <1>9, <2>1
<1>10. CASE answer[c] = "OK" /\ kind[c] = "http"
  BY <1>3, <1>10 DEF Open
<1>11. CASE answer[c] = "OK" /\ kind[c] = "data"
  BY <1>2, <1>11 DEF Open
<1>12. CASE answer[c] = "OK" /\ kind[c] = "lined"
  BY <1>6, <1>7, <1>12 DEF Open
<1>13. \/ answer[c] = "ERROR" /\ s = <<"error">>
       \/ answer[c] = "OK" /\ kind[c] \in {"plain", "http", "data", "lined"}
  BY DEF Open
<1> QED
  BY <1>1, <1>9, <1>10, <1>11, <1>12, <1>13

\* The first line of what is to be read.
LEMMA OpenHeads ==
    ASSUME NEW c, NEW n, NEW s, s # <<>>, Open(c, n, s)
    PROVE  /\ Head(s) \in {"error", "prompt", "ok", "info", "urc", "long"}
           /\ Head(s) = "prompt" => kind[c] = "data"
           /\ Head(s) = "urc" => Tail(s) = <<"ok">> /\ Open(c, n, Tail(s))
<1>1. CASE answer[c] = "ERROR" /\ s = <<"error">>
  BY <1>1, Heads
<1>2. CASE answer[c] = "OK" /\ kind[c] = "data"
  BY <1>2, Heads DEF Open
<1>3. CASE answer[c] = "OK" /\ kind[c] = "http"
  BY <1>3, Heads DEF Open
<1>4. CASE answer[c] = "OK" /\ kind[c] = "plain"
  <2>1. s \in {<<"ok">>, <<"info", "urc", "ok">>, <<"urc", "ok">>, <<"long", "ok">>}
    BY <1>4 DEF Open
  <2>2. CASE s = <<"urc", "ok">>
    <3>1. Tail(s) = <<"ok">> /\ Head(s) = "urc"
      BY <2>2, Heads, Tails
    <3> QED
      BY <1>4, <3>1 DEF Open
  <2>3. CASE s # <<"urc", "ok">>
    BY <2>1, <2>3, Heads
  <2> QED
    BY <2>2, <2>3
<1>5. CASE answer[c] = "OK" /\ kind[c] = "lined"
  BY <1>5, Heads DEF Open
<1> QED
  BY <1>1, <1>2, <1>3, <1>4, <1>5 DEF Open

\* The parser reads on in the answer, or reaches its end.
LEMMA AnswerIsRead ==
    ASSUME IInv, NEW c \in Cmds, Answering(c), Parser, ByLines # 1, selfFunc = 0,
           c \in alive, kind[c] = "data" => endSign
    PROVE  /\ Untouched /\ UNCHANGED <<answer, handle, dataNotice>>
           /\ Answering(c)' \/ Judged(c)'
<1> USE DEF Untouched, callVars, clientVars, parserVars, wireVars, ghostVars
<1>1. PICK s \in Texts :
         /\ Open(c, counts[c], s)
         /\ InHand(c, s) \/ (ppc = "read" /\ rx = Lines(c, s))
  BY DEF Answering
<1>2. tx = <<>> /\ resp = c /\ respNotice = 0 /\ handle[c] = 0 /\ c # 0
  BY CommandsAreNotZero DEF Answering
<1>3. s \in Seq(LineKinds)
  BY <1>1, TextsAreSeqs
<1>4. CASE ppc = "read" /\ rx = Lines(c, s)
  <2>1. ReadLine
    BY <1>4
       DEF Parser, ReadLine, SendFailed, SendDone, Urc, HttpUrc, HttpFunc, Dispatch, Load, Branch,
           ReleaseForSelf, CallSelf, CallbackLine, CallbackTimedOut, CallbackDone, ForgetResp,
           ForgetSelf, Store, StoreNull, Complete, Notify
  <2>2. s # <<>>
    BY <1>4, <2>1, NoLines DEF ReadLine
  <2>3. Head(rx) = <<c, Head(s)>> /\ Tail(rx) = Lines(c, Tail(s))
    BY <1>3, <1>4, <2>2, LinesTail
  <2>4. Head(s) = "prompt" => endSign
    BY <1>1, <2>2, OpenHeads
  <2>5. line' = <<c, Head(s)>> /\ rx' = Lines(c, Tail(s)) /\ ppc' = "dispatch"
    BY <2>1, <2>3, <2>4 DEF ReadLine
  <2>6. InHand(c, s)'
    BY <2>2, <2>5 DEF InHand
  <2>7. Open(c, counts[c], s)'
    BY <1>1, <2>1 DEF ReadLine, Open
  <2>8. Answering(c)'
    BY <1>1, <1>2, <2>1, <2>6, <2>7 DEF ReadLine, Answering
  <2> QED
    BY <2>1, <2>8 DEF ReadLine
<1>5. CASE InHand(c, s)
  <2>1. s # <<>> /\ line = <<c, Head(s)>> /\ rx = Lines(c, Tail(s))
        /\ line[1] = c /\ line[2] = Head(s)
    BY <1>5 DEF InHand
  <2>2. /\ Head(s) \in {"error", "prompt", "ok", "info", "urc", "long"}
        /\ Head(s) = "urc" => Tail(s) = <<"ok">> /\ Open(c, counts[c], Tail(s))
    BY <1>1, <2>1, OpenHeads
  <2>3. CASE Urc
    <3>1. <<"ok">> \in Texts
      BY DEF Texts
    <3>2. Open(c, counts[c], <<"ok">>)' /\ rx' = Lines(c, <<"ok">>) /\ ppc' = "read"
      BY <2>1, <2>2, <2>3 DEF Urc, NextLine, Open
    <3>3. Answering(c)'
      BY <1>2, <2>3, <3>1, <3>2 DEF Urc, Answering
    <3> QED
      BY <2>3, <3>3 DEF Urc
  <2>4. CASE Dispatch
    <3>1. Head(s) # "urc" /\ ppc' = "load" /\ line' = line
      BY <1>2, <2>1, <2>4 DEF Dispatch, IsResponse
    <3>2. InHand(c, s)' /\ Open(c, counts[c], s)'
      BY <1>1, <2>1, <2>4, <3>1 DEF Dispatch, InHand, Open
    <3>3. Answering(c)'
      BY <1>1, <1>2, <2>4, <3>2 DEF Dispatch, Answering
    <3> QED
      BY <2>4, <3>3 DEF Dispatch
  <2>5. CASE Load
    <3>1. Head(s) # "urc"
      BY <1>5, <2>5 DEF Load, InHand
    <3>2. InHand(c, s)' /\ Open(c, counts[c], s)'
      BY <1>1, <1>2, <2>1, <2>5, <3>1 DEF Load, InHand, Open
    <3>3. Answering(c)'
      BY <1>1, <1>2, <2>5, <3>2 DEF Load, Answering
    <3> QED
      BY <2>5, <3>3 DEF Load
  <2>6. CASE Branch
    <3>1. Head(s) # "urc" /\ presp = c
      BY <1>5, <2>6 DEF Branch, InHand
    <3>2. InHand(c, s)' /\ Open(c, counts[c], s)'
      BY <1>1, <2>1, <2>6, <3>1 DEF Branch, InHand, Open
    <3>3. Answering(c)'
      BY <1>1, <1>2, <2>6, <3>2 DEF Branch, Answering
    <3> QED
      BY <2>6, <3>3 DEF Branch
  <2>7. CASE Store
    <3> DEFINE lc == counts[c] + (IF Head(s) = "long" THEN 0 ELSE 1)
               v == Verdict(c, Head(s), lc)
    <3>1. Head(s) # "urc" /\ presp = c
      BY <1>5, <2>7 DEF Store, InHand
    <3>2. /\ counts' = [counts EXCEPT ![c] = lc]
          /\ respStatus' = IF v # "more" THEN v
                           ELSE IF Head(s) = "long" THEN "BUFF_FULL" ELSE respStatus
          /\ IF v = "more" THEN NextLine
             ELSE ppc' = "complete" /\ UNCHANGED <<line, presp, parg>>
          /\ Untouched /\ UNCHANGED <<answer, handle, dataNotice, tx, rx, resp, respNotice>>
      BY <2>1, <2>7, <3>1 DEF Store
    <3>3. counts[c] \in Nat /\ counts'[c] = lc
      BY <3>2 DEF IInv, TypeOK, CommandTypes
    <3>4. \/ /\ v = answer[c] /\ v # "more"
             /\ Tail(s) = <<>> \/ (Tail(s) = <<"httpurc">> /\ HttpAnswered(c))
          \/ v = "more" /\ Tail(s) \in Texts /\ Open(c, lc, Tail(s))
      BY <1>1, <2>1, <3>1, <3>3, StoreDecides
    <3> HIDE DEF v, lc
    <3>5. CASE v # "more"
      <4>1. Trail(c)'
        BY <2>1, <3>2, <3>4, <3>5, NoLines DEF Trail, HttpAnswered
      <4>2. Judged(c)'
        BY <1>2, <3>2, <3>4, <3>5, <4>1 DEF Judged
      <4> QED
        BY <3>2, <4>2
    <3>6. CASE v = "more"
      <4>1. Open(c, counts[c], Tail(s))'
        BY <3>2, <3>3, <3>4, <3>6 DEF Open
      <4>2. Answering(c)'
        BY <1>2, <2>1, <3>2, <3>4, <3>6, <4>1 DEF Answering, NextLine
      <4> QED
        BY <3>2, <4>2
    <3> QED
      BY <3>5, <3>6
  <2>8. CASE ~Urc /\ ~Dispatch /\ ~Load /\ ~Branch /\ ~Store
    <3>1. ppc \in {"dispatch", "load", "branch", "store"}
          /\ (ppc \in {"branch", "store"} => presp = c)
      BY <1>5 DEF InHand
    <3> QED
      BY <1>2, <2>1, <2>2, <2>8, <3>1
         DEF Parser, ReadLine, SendFailed, SendDone, HttpUrc, HttpFunc,
             ReleaseForSelf, CallSelf, CallbackLine, CallbackTimedOut, CallbackDone, ForgetResp,
             ForgetSelf, StoreNull, Complete, Notify
  <2> QED
    BY <2>3, <2>4, <2>5, <2>6, <2>7, <2>8
<1> QED
  BY <1>1, <1>4, <1>5

\* Whatever the parser and the module do is about the command of the lock's owner.
LEMMA TalkGoesOn ==
    ASSUME IInv, NoSelf, Books, Talk, Parser \/ Module, ByLines # 1
    PROVE  /\ Untouched /\ Talk'
           /\ pc[lock] \in {"wait", "check", "clear", "handle", "dwait"}
           /\ lock \in Tasks /\ kind[cur[lock]] # "none"
           /\ \A d \in Cmds : d # cur[lock] => handle'[d] = handle[d] /\ answer'[d] = answer[d]
           /\ answer' = answer \/ pc[lock] = "wait"
<1>0. PICK c : c = cur[lock]
  OBVIOUS
<1>1. ~Silent
  BY DEF Silent, Module, Parser, ReadLine, SendFailed, SendDone, Urc, HttpUrc, HttpFunc, Dispatch,
     Load, Branch, ReleaseForSelf, CallSelf, CallbackLine, CallbackTimedOut, CallbackDone,
     ForgetResp, ForgetSelf, Store, StoreNull, Complete, Notify
<1>2. /\ lock \in Tasks /\ lock # 0 /\ c \in Cmds /\ kind[c] # "none"
      /\ pc[lock] \in {"wait", "check", "clear", "handle", "dwait"} /\ Stage(pc[lock], c)
  BY <1>0, <1>1, Busy
<1>3. tx = <<>> => Parser
  BY DEF Module
<1>4. ASSUME NEW p, p = pc[lock], Untouched, Stage(p, c)' PROVE Talk'
  BY <1>0, <1>2, <1>4 DEF Untouched, Talk
<1>5. CASE pc[lock] = "wait"
  <2>1. /\ kind[c] # "null" /\ arg = c /\ dataNotice = 0 /\ (kind[c] = "data" => endSign)
        /\ \/ Asked(c) \/ Answering(c) \/ Judged(c)
           \/ respNotice > 0 /\ respStatus = answer[c] /\ Trailing(c)
    BY <1>2, <1>5 DEF Stage
  <2>2. kind[c] \in {"plain", "lined", "data", "http"}
    BY <1>2, <2>1 DEF NoSelf, SelfKinds, IInv, TypeOK, CommandTypes, AllKinds
  <2>3. c \in alive
    BY <1>0, <1>2, <1>5, <2>1 DEF Books, Kept, Exec
  <2>4. ASSUME Untouched, UNCHANGED dataNotice,
               \/ Answering(c)' \/ Judged(c)'
               \/ (respNotice > 0 /\ respStatus = answer[c] /\ Trailing(c))'
        PROVE  Stage("wait", c)'
    BY <2>1, <2>4 DEF Stage, Untouched, Exec
  <2>5. CASE Asked(c)
    <3>1. Module
      BY <2>5
         DEF Asked, Parser, ReadLine, SendFailed, SendDone, Urc, HttpUrc, HttpFunc, Dispatch,
             Load, Branch, ReleaseForSelf, CallSelf, CallbackLine, CallbackTimedOut,
             CallbackDone, ForgetResp, ForgetSelf, Store, StoreNull, Complete, Notify
    <3>2. Answering(c)' /\ \A d \in Cmds : d # c => answer'[d] = answer[d]
      BY <1>2, <2>2, <2>5, <3>1, ModuleAnswers
    <3>3. Untouched /\ UNCHANGED <<dataNotice, handle>>
      BY <3>1 DEF Module, Untouched, callVars, clientVars, ghostVars
    <3> QED
      BY <1>0, <1>2, <1>4, <1>5, <2>4, <3>2, <3>3
  <2>6. CASE Answering(c)
    <3>1. Parser
      BY <1>3, <2>6 DEF Answering
    <3>2. /\ Untouched /\ UNCHANGED <<answer, handle, dataNotice>>
          /\ Answering(c)' \/ Judged(c)'
      BY <1>2, <2>1, <2>3, <2>6, <3>1, AnswerIsRead DEF Books, Sound
    <3> QED
      BY <1>0, <1>2, <1>4, <1>5, <2>4, <3>2
  <2>7. CASE Judged(c)
    <3>1. Parser
      BY <1>3, <2>7 DEF Judged
    <3>2. /\ Untouched /\ UNCHANGED <<answer, handle, dataNotice>>
          /\ \/ Judged(c)'
             \/ (respNotice > 0 /\ respStatus = answer[c] /\ Trailing(c))'
      BY <2>7, <3>1, CompleteNotifies
    <3> QED
      BY <1>0, <1>2, <1>4, <1>5, <2>4, <3>2
  <2>8. CASE respNotice > 0 /\ respStatus = answer[c] /\ Trailing(c)
    <3>1. Parser
      BY <1>3, <2>8 DEF Trailing
    <3>2. /\ Untouched /\ UNCHANGED <<answer, dataNotice, respStatus>>
          /\ Trailing(c)' /\ respNotice' > 0
          /\ \A d \in Cmds : d # c => handle'[d] = handle[d]
      BY <1>2, <2>1, <2>8, <3>1, HttpUrcFollows
    <3> QED
      BY <1>0, <1>2, <1>4, <1>5, <2>4, <2>8, <3>2
  <2> QED
    BY <2>1, <2>5, <2>6, <2>7, <2>8
<1>6. CASE pc[lock] \in {"check", "clear", "handle"}
  <2>1. Trailing(c) /\ arg = c
    BY <1>2, <1>6 DEF Stage
  <2>2. Parser
    BY <1>3, <2>1 DEF Trailing
  <2>3. /\ Untouched /\ UNCHANGED <<answer, dataNotice, respStatus>> /\ Trailing(c)'
        /\ \A d \in Cmds : d # c => handle'[d] = handle[d]
    BY <1>2, <2>1, <2>2, HttpUrcFollows
  <2>4. PICK p : p = pc[lock]
    OBVIOUS
  <2>5. Stage(p, c)'
    BY <1>2, <1>6, <2>3, <2>4 DEF Stage, Untouched
  <2> QED
    BY <1>0, <1>2, <1>4, <2>3, <2>4, <2>5
<1>7. CASE pc[lock] = "dwait"
  <2>1. Sending(c)
    BY <1>2, <1>7 DEF Stage
  <2>2. Sending(c)' /\ Untouched /\ UNCHANGED <<handle, answer>>
    BY <1>2, <2>1, DataAnswered
  <2>3. Stage("dwait", c)'
    BY <1>2, <1>7, <2>2 DEF Stage, Untouched
  <2> QED
    BY <1>0, <1>2, <1>4, <1>7, <2>2, <2>3
<1> QED
  BY <1>0, <1>2, <1>5, <1>6, <1>7

-----------------------------------------------------------------------------
(* The invariant                                                            *)

LEMMA ExchangeInit == Init => Books /\ Talk
<1> SUFFICES ASSUME Init PROVE Books /\ Talk
  OBVIOUS
<1>1. \A t \in Tasks : pc[t] = "idle"
  BY DEF Init
<1>2. Fresh /\ Results /\ Sound
  BY DEF Init, Fresh, Results, Sound
<1>3. Distinct /\ Unasked /\ Kept /\ Nested
  BY <1>1 DEF Distinct, Unasked, Early, Kept, Exec, Nested
<1>4. Talk
  BY DEF Init, Talk, Rest, Silent
<1> QED
  BY <1>2, <1>3, <1>4 DEF Books

LEMMA ExchangeTask ==
    ASSUME IInv, NoSelf, InTime, InTime', Books, Talk, NEW t \in Tasks, Task(t)
    PROVE  Books' /\ Talk'
<1>1. ~TimedOut(t) /\ ~HandleTimedOut(t) /\ ~DataTimedOut(t)
  BY NobodyGivesUp DEF IInv
<1>2. Books'
  BY <1>1, FreshTask, DistinctTask, UnaskedTask, KeptTask, NestedTask, ResultsTask, SoundTask
     DEF Books
<1>3. CASE lock # 0 /\ lock # t
  <2>1. /\ lock' = lock /\ pc'[lock] = pc[lock] /\ cur'[lock] = cur[lock]
        /\ pc[lock] # "idle" => Same(cur[lock])
    BY <1>3, Bystander DEF Books
  <2>2. Stage(pc[lock], cur[lock]) /\ pc[lock] # "idle"
    BY <1>3 DEF Talk, Stage, Exec, Around
  <2>3. PICK p, c : p = pc[lock] /\ c = cur[lock]
    OBVIOUS
  <2>4. Stage(p, c)'
    BY <2>1, <2>2, <2>3, StageStays
  <2> QED
    BY <1>2, <1>3, <2>1, <2>3, <2>4 DEF Talk
<1>4. CASE lock = 0
  BY <1>2, <1>4, TalkTaken DEF Books
<1>5. CASE lock = t
  <2>1. pc[t] \notin {"idle", "outer"}
    BY <1>5, TasksAssumption DEF Talk, Stage, Exec, Around
  <2>2. ~Begin(t) /\ ~Outer(t)
    BY <2>1 DEF Begin, Outer
  <2> QED
    BY <1>1, <1>2, <1>5, <2>2, TalkBefore, TalkCommand, TalkData DEF Task, Books
<1> QED
  BY <1>2, <1>3, <1>4, <1>5

LEMMA ExchangeOther ==
    ASSUME IInv, NoSelf, Books, Talk, Parser \/ Module, ByLines # 1
    PROVE  Books' /\ Talk'
<1> DEFINE c == cur[lock]
<1>1. /\ Untouched /\ Talk'
      /\ pc[lock] \in {"wait", "check", "clear", "handle", "dwait"}
      /\ lock \in Tasks /\ kind[c] # "none"
      /\ \A d \in Cmds : d # c => handle'[d] = handle[d] /\ answer'[d] = answer[d]
      /\ answer' = answer \/ pc[lock] = "wait"
  BY TalkGoesOn
<1>2. Distinct' /\ Kept' /\ Nested' /\ Sound'
  BY <1>1 DEF Books, Untouched, Distinct, Kept, Nested, Sound
<1>3. Fresh'
  BY <1>1 DEF Books, Untouched, Fresh
<1>4. Results'
  <2>1. answer' = answer \/ res[c] = "none"
    BY <1>1 DEF Books, Unasked
  <2> QED
    BY <1>1, <2>1 DEF Books, Untouched, Results
<1>5. Unasked'
  <2>1. ASSUME NEW t \in Tasks, pc[t] \in Early PROVE handle'[cur[t]] = handle[cur[t]]
    <3>1. pc[t] # "idle" /\ t # lock /\ pc[lock] # "idle"
      BY <1>1, <2>1 DEF Early
    <3>2. cur[t] # c /\ cur[t] \in Cmds
      BY <1>1, <3>1 DEF Books, Distinct, IInv, TypeOK, TaskTypes
    <3> QED
      BY <1>1, <3>2
  <2> QED
    BY <1>1, <2>1 DEF Books, Untouched, Unasked
<1> QED
  BY <1>1, <1>2, <1>3, <1>4, <1>5 DEF Books

\* Once a wait has run out of time or a command has a self_func, it stays so.
LEMMA ClaimIsMonotone ==
    ASSUME IInv, [Next]_vars, InTime', NoSelf'
    PROVE  InTime /\ NoSelf
<1>1. CASE UNCHANGED vars
  BY <1>1 DEF vars, callVars, ghostVars, InTime, NoSelf
<1>2. CASE Parser \/ Module
  <2>1. kind' = kind /\ expired \subseteq expired'
    BY <1>2
       DEF Parser, Module, ReadLine, SendFailed, SendDone, Urc, HttpUrc, HttpFunc, Dispatch, Load,
           Branch, ReleaseForSelf, CallSelf, CallbackLine, CallbackTimedOut, CallbackDone,
           ForgetResp, ForgetSelf, Store, StoreNull, Complete, Notify, callVars, ghostVars
  <2> QED
    BY <2>1 DEF InTime, NoSelf
<1>3. ASSUME NEW t \in Tasks, Task(t) PROVE InTime /\ NoSelf
  <2>1. expired \subseteq expired'
    BY <1>3
       DEF Task, Begin, Outer, Sign, Chunk, Lock, SetResp, SetSelf, SetArg, Drain, Send, Notified,
           TimedOut, Check, Clear, HandleNotified, HandleTimedOut, Free, Body, DataNotified,
           DataTimedOut, NextChunk, Stop, ghostVars
  <2>2. \A c \in Cmds : kind[c] # "none" => kind'[c] = kind[c]
    BY <1>3, KindsStay DEF IInv
  <2> QED
    BY <2>1, <2>2 DEF InTime, NoSelf, SelfKinds
<1> QED
  BY <1>1, <1>2, <1>3 DEF Next

LEMMA ExchangeNext ==
    ASSUME ByLines # 1
    PROVE  IInv /\ Exchange /\ [Next]_vars => Exchange'
<1> SUFFICES ASSUME IInv, Exchange, [Next]_vars, InTime', NoSelf'
             PROVE  (Books /\ Talk)'
  BY DEF Exchange
<1>1. InTime /\ NoSelf
  BY ClaimIsMonotone
<1>2. Books /\ Talk
  BY <1>1 DEF Exchange
<1>3. CASE UNCHANGED vars
  <2> USE <1>3 DEF vars, callVars, clientVars, parserVars, wireVars, ghostVars
  <2>1. Books'
    BY <1>2 DEF Books, Fresh, Distinct, Unasked, Kept, Nested, Results, Sound
  <2>2. CASE lock = 0
    BY <1>2, <2>1, <2>2 DEF Talk, Rest, Silent
  <2>3. CASE lock # 0
    <3>1. PICK p, c : p = pc[lock] /\ c = cur[lock]
      OBVIOUS
    <3>2. Stage(p, c) /\ Same(c)
      BY <1>2, <2>3, <3>1 DEF Talk, Same
    <3>3. Stage(p, c)'
      BY <3>2, StageStays
    <3> QED
      BY <2>1, <2>3, <3>1, <3>3 DEF Talk
  <2> QED
    BY <2>1, <2>2, <2>3
<1>4. CASE Parser \/ Module
  BY <1>1, <1>2, <1>4, ExchangeOther
<1>5. ASSUME NEW t \in Tasks, Task(t) PROVE (Books /\ Talk)'
  BY <1>1, <1>2, <1>5, ExchangeTask
<1> QED
  BY <1>3, <1>4, <1>5 DEF Next

LEMMA ExchangeHolds ==
    ASSUME ByLines # 1
    PROVE  Spec => []Exchange
<1>1. Init => Exchange
  BY ExchangeInit DEF Exchange
<1>2. IInv /\ Exchange /\ [Next]_vars => Exchange'
  BY ExchangeNext
<1> QED
  BY <1>1, <1>2, Invariant, PTL DEF Spec

-----------------------------------------------------------------------------
(* What it gives.  A response counted in one line (ByLines = 1) is complete *)
(* before the OK that follows its line, which is left for the next command. *)

\* While every answer comes in time and no command has a self_func,
\* at_obj_exec_cmd returns what the module answered to that very command.
THEOREM ResultCorrect ==
    ASSUME ByLines # 1
    PROVE  Spec => []ResultIsOwnAnswer
<1>1. Exchange => ResultIsOwnAnswer
  BY DEF Exchange, Books, Results, ResultIsOwnAnswer
<1> QED
  BY <1>1, ExchangeHolds, PTL

\* Then too a token of resp_notice that a waiting caller sees means that the
\* parser has cleared client->resp: no notice of an HTTP URC or of an earlier
\* command wakes it.
THEOREM NoticeCorrect ==
    ASSUME ByLines # 1
    PROVE  Spec => []NoticeMeansComplete
<1>1. IInv /\ Exchange => NoticeMeansComplete
  <2> SUFFICES ASSUME IInv, Exchange, InTime, NoSelf, NEW t \in Tasks,
                      pc[t] = "wait", respNotice > 0
               PROVE  resp = 0
    BY DEF NoticeMeansComplete
  <2>1. lock = t /\ t # 0
    BY TasksAssumption DEF IInv, LockHeld, HoldsLock, Exec
  <2>2. Stage("wait", cur[t])
    BY <2>1 DEF Exchange, Talk
  <2> QED
    BY <2>2 DEF Stage, Asked, Answering, Judged, Trailing
<1> QED
  BY <1>1, ExchangeHolds, Invariant, PTL

\* The kinds of the commands are those the application issues.
KindsGiven == \A c \in Cmds : kind[c] \in Kinds \cup {"none"}

LEMMA KindsGivenHolds == Spec => [](IInv /\ KindsGiven)
<1>1. Init => KindsGiven
  BY DEF Init, KindsGiven
<1>2. ASSUME IInv, KindsGiven, [Next]_vars PROVE KindsGiven'
  <2> USE DEF KindsGiven, IInv, TypeOK, CommandTypes, TaskTypes, callVars
  <2>1. CASE UNCHANGED kind
    BY <1>2, <2>1
  <2>2. ASSUME NEW t \in Tasks, Begin(t) PROVE KindsGiven'
    <3>1. PICK c \in Cmds, k \in Kinds : kind' = [kind EXCEPT ![c] = k]
      BY <2>2 DEF Begin
    <3> QED
      BY <1>2, <3>1
  <2>3. ASSUME NEW t \in Tasks, NextChunk(t) PROVE KindsGiven'
    <3>1. "data" \in Kinds
      BY <1>2, <2>3, BoundsAssumption DEF NextChunk, Phases, DataSteps, Started
    <3> QED
      BY <1>2, <2>3, <3>1 DEF NextChunk
  <2>4. CASE Parser \/ Module
    BY <2>1, <2>4
       DEF Parser, Module, ReadLine, SendFailed, SendDone, Urc, HttpUrc, HttpFunc, Dispatch, Load,
           Branch, ReleaseForSelf, CallSelf, CallbackLine, CallbackTimedOut, CallbackDone,
           ForgetResp, ForgetSelf, Store, StoreNull, Complete, Notify
  <2>5. ASSUME NEW t \in Tasks, Task(t) PROVE KindsGiven'
    BY <2>1, <2>2, <2>3, <2>5
       DEF Task, Outer, Sign, Chunk, Lock, SetResp, SetSelf, SetArg, Drain, Send, Notified,
           TimedOut, Check, Clear, HandleNotified, HandleTimedOut, Free, Body, DataNotified,
           DataTimedOut, Stop
  <2> QED
    BY <1>2, <2>1, <2>4, <2>5 DEF Next, vars
<1> QED
  BY <1>1, <1>2, Invariant, PTL DEF Spec

\* While every answer comes in time and the application uses no self_func, every
\* line on the wire that is not a URC belongs to the command of the lock's owner.
THEOREM WireCorrect ==
    ASSUME ByLines # 1, Kinds \cap SelfKinds = {}
    PROVE  Spec => []WireIsCurrent
<1>1. IInv /\ KindsGiven /\ Exchange => WireIsCurrent
  <2> SUFFICES ASSUME IInv, KindsGiven, Exchange, InTime, NEW i \in DOMAIN rx, ~IsUrc(rx[i])
               PROVE  lock # 0 /\ cur[lock] = rx[i][1]
    BY DEF WireIsCurrent
  <2>1. Talk
    BY DEF Exchange, KindsGiven, NoSelf, SelfKinds
  <2>2. ~Silent
    BY DEF Silent
  <2>3. /\ lock # 0 /\ cur[lock] \in Cmds /\ Stage(pc[lock], cur[lock])
        /\ pc[lock] \in {"wait", "check", "clear", "handle", "dwait"}
    BY <2>1, <2>2, Busy
  <2>4. rx # <<>>
    OBVIOUS
  <2>5. \E s \in Seq(LineKinds) : rx = Lines(cur[lock], s)
    <3>1. \A s \in Texts : s \in Seq(LineKinds) /\ Tail(s) \in Seq(LineKinds) \cup {Tail(<<>>)}
      BY TextsAreSeqs
    <3>2. /\ <<"sendok">> \in Seq(LineKinds) /\ <<"sendfail">> \in Seq(LineKinds)
          /\ <<"httpurc">> \in Seq(LineKinds)
      BY DEF LineKinds
    <3>3. Answering(cur[lock]) => \E s \in Seq(LineKinds) : rx = Lines(cur[lock], s)
      <4>1. ASSUME NEW s \in Texts, InHand(cur[lock], s) PROVE Tail(s) \in Seq(LineKinds)
        BY <4>1, TextsAreSeqs DEF InHand
      <4> QED
        BY <3>1, <4>1 DEF Answering, InHand
    <3> QED
      BY <2>3, <2>4, <3>2, <3>3 DEF Stage, Asked, Judged, Trail, Trailing, Sending, Silent
  <2> QED
    BY <2>3, <2>5 DEF Lines
<1> QED
  BY <1>1, ExchangeHolds, KindsGivenHolds, PTL

\* While every answer comes in time, an application of plain, data and HTTP
\* commands never makes the parser touch a deleted response, follow a NULL
\* pointer or hand a URC's handler another module's argument.
THEOREM FaultFree ==
    ASSUME ByLines # 1, Kinds \subseteq {"plain", "lined", "data", "http"}
    PROVE  Spec => []NoFaults
<1>1. KindsGiven /\ Exchange => NoFaults
  BY DEF KindsGiven, NoFaults, Exchange, NoSelf, SelfKinds, Books, Sound
<1> QED
  BY <1>1, ExchangeHolds, KindsGivenHolds, PTL

\* While every answer comes in time and the application uses no self_func, nothing
\* rewrites resp_status between the parser's verdict and the caller's check of it.
THEOREM VerdictCorrect ==
    ASSUME ByLines # 1, Kinds \cap SelfKinds = {}
    PROVE  Spec => VerdictReachesCaller
<1>1. ASSUME IInv, IInv', KindsGiven, KindsGiven', Exchange, [Next]_vars, InTime',
             (\E t \in Tasks : pc[t] = "check") \/ ppc \in {"complete", "notify"}
      PROVE  respStatus' = respStatus
  <2>1. InTime /\ NoSelf /\ Books /\ Talk
    BY <1>1, ClaimIsMonotone DEF Exchange, KindsGiven, NoSelf, SelfKinds
  <2>2. /\ lock # 0 /\ lock \in Tasks /\ cur[lock] \in Cmds /\ Stage(pc[lock], cur[lock])
        /\ \/ pc[lock] = "check" /\ Trailing(cur[lock]) /\ arg = cur[lock]
           \/ pc[lock] = "wait" /\ Judged(cur[lock])
    <3>1. CASE \E t \in Tasks : pc[t] = "check"
      <4>1. PICK t \in Tasks : pc[t] = "check"
        BY <3>1
      <4>2. lock = t /\ t # 0 /\ cur[t] \in Cmds
        BY <1>1, <4>1, TasksAssumption
           DEF IInv, LockHeld, HoldsLock, Exec, Started, TypeOK, TaskTypes
      <4> QED
        BY <2>1, <4>1, <4>2 DEF Talk, Stage
    <3>2. CASE ppc \in {"complete", "notify"}
      <4>1. /\ lock \in Tasks /\ lock # 0 /\ cur[lock] \in Cmds /\ Stage(pc[lock], cur[lock])
            /\ pc[lock] \in {"wait", "check", "clear", "handle", "dwait"}
        BY <1>1, <2>1, <3>2, Busy DEF Silent
      <4>2. ~Trailing(cur[lock]) /\ ~Sending(cur[lock]) /\ ~Asked(cur[lock])
            /\ ~Answering(cur[lock])
        BY <3>2 DEF Trailing, Sending, Silent, Asked, Answering, InHand
      <4> QED
        BY <4>1, <4>2 DEF Stage
    <3> QED
      BY <1>1, <3>1, <3>2
  <2>3. PICK c \in Cmds : c = cur[lock]
    BY <2>2
  <2>4. CASE Parser
    <3>1. CASE Trailing(c) /\ arg = c
      BY <1>1, <2>4, <3>1, HttpUrcFollows
    <3>2. CASE Judged(c)
      <4>1. \/ Judged(c)'
            \/ (respNotice > 0 /\ respStatus = answer[c] /\ Trailing(c))'
        BY <2>4, <3>2, CompleteNotifies
      <4>2. answer' = answer
        BY <2>4, <3>2, CompleteNotifies
      <4> QED
        BY <3>2, <4>1, <4>2 DEF Judged
    <3> QED
      BY <2>2, <2>3, <3>1, <3>2
  <2>5. CASE Module
    BY <2>5 DEF Module, clientVars
  <2>6. ASSUME NEW t \in Tasks, Task(t) PROVE respStatus' = respStatus
    <3>1. ~TimedOut(t)
      BY <1>1, <2>1, <2>6, NobodyGivesUp DEF IInv
    <3>2. ~Lock(t)
      BY <2>2, TasksAssumption DEF Lock
    <3> QED
      BY <2>6, <3>1, <3>2
         DEF Task, Begin, Outer, Sign, Chunk, SetResp, SetSelf, SetArg, Drain, Send, Notified,
             Check, Clear, HandleNotified, HandleTimedOut, Free, Body, DataNotified,
             DataTimedOut, NextChunk, Stop, clientVars
  <2>7. CASE UNCHANGED vars
    BY <2>7 DEF vars, clientVars
  <2> QED
    BY <1>1, <2>4, <2>5, <2>6, <2>7 DEF Next
<1> DEFINE Preserved ==
      InTime' /\ ((\E t \in Tasks : pc[t] = "check") \/ ppc \in {"complete", "notify"})
        => respStatus' = respStatus
<1>2. IInv /\ IInv' /\ KindsGiven /\ KindsGiven' /\ Exchange /\ [Next]_vars => [Preserved]_vars
  BY <1>1
<1>3. VerdictReachesCaller <=> [][Preserved]_vars
  BY DEF VerdictReachesCaller
<1> HIDE DEF Preserved
<1> QED
  BY <1>2, <1>3, ExchangeHolds, KindsGivenHolds, PTL DEF Spec
=============================================================================
