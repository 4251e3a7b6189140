------------------------------ MODULE AtClient ------------------------------
(***************************************************************************)
(* The AT client of src/quectel/third_party/at_client: tasks that issue AT *)
(* commands through at_obj_exec_cmd, the single parser task that reads the *)
(* lines coming back from the cellular module, and the shared at_client    *)
(* object the two sides race on (lock, resp, self_func, arg, resp_status,  *)
(* resp_notice, data_send_notice, end_sign).                               *)
(*                                                                         *)
(* A response object (at_response_t) is created anew for every command, so *)
(* it is named by the serial number of its command; 0 is NULL.  Bytes and  *)
(* text are abstracted to lines <<command, kind>>.                         *)
(***************************************************************************)
EXTENDS Integers, Sequences

CONSTANTS
    Tasks,      \* application tasks that issue commands
    MaxCmds,    \* bound: response objects created in one behaviour
    Kinds,      \* which kinds of command the application issues
    Chunks,     \* bound: 1460-byte chunks of one at_obj_exec_cmd_with_data
    MaxTokens,  \* tokens a semaphore can hold (osSemaphoreNew(5, 0, NULL))
    ByLines     \* line_num of a "lined" response object

\* "plain"  at_obj_exec_cmd, line_num = 0
\* "lined"  at_obj_exec_cmd, line_num = ByLines
\* "data"   at_obj_exec_cmd_with_data (ql_socket.c)
\* "http"   ql_http_request: client->lock held while waiting for the URC
\* "locked" a response with self_func, client->lock held (ql_fwrite)
\* "unlocked" a response with self_func, client->lock not held (ql_file_list)
\* "null"   at_obj_exec_cmd(client, NULL, ...) (ql_sms.c)
AllKinds == {"plain", "lined", "data", "http", "locked", "unlocked", "null"}

ASSUME TasksAssumption == 0 \notin Tasks
ASSUME BoundsAssumption ==
    /\ MaxCmds \in Nat /\ Chunks \in Nat \ {0} /\ MaxTokens \in Nat \ {0}
    /\ ByLines \in Nat \ {0}
ASSUME KindsAssumption == Kinds \subseteq AllKinds

VARIABLES
    pc,           \* where each task is in its call
    cur,          \* the command (response object) of each task's call
    left,         \* chunks a "data" call has still to send
    kind,         \* kind of each command
    alive,        \* response objects not yet passed to at_delete_resp
    counts,       \* resp->line_counts
    res,          \* what at_obj_exec_cmd returned for each command
    handle,       \* tokens of the semaphore of the caller's own handle
    lock,         \* owner of the recursive mutex client->lock, 0 if free
    resp,         \* client->resp
    selfFunc,     \* client->self_func, as the command it belongs to
    arg,          \* client->arg, as the command it belongs to
    respStatus,   \* client->resp_status
    respNotice,   \* tokens of client->resp_notice
    dataNotice,   \* tokens of client->data_send_notice
    endSign,      \* client->end_sign # 0
    ppc,          \* where the parser is
    line,         \* client->recv_line_buf
    presp,        \* the parser's local copy of client->resp
    parg,         \* the arg the parser passed to a self_func
    tx,           \* commands and data on their way to the module
    rx,           \* lines on their way back
    answer,       \* history: the final answer the module gave
    expired,      \* history: commands one of whose waits ran out of time
    cut,          \* history: commands a line of whose answer did not fit
    faults        \* history: undefined behaviour reached

callVars   == <<cur, left, kind, alive, res, handle>>
clientVars == <<lock, resp, selfFunc, arg, respStatus, respNotice, dataNotice, endSign>>
parserVars == <<ppc, line, presp, parg>>
wireVars   == <<tx, rx, answer>>
ghostVars  == <<expired, cut, faults>>
vars == <<pc, callVars, counts, clientVars, parserVars, wireVars, ghostVars>>

Cmds == 1 .. MaxCmds
SelfKinds == {"locked", "unlocked"}
\* callers that already own client->lock when they call at_obj_exec_cmd
OuterKinds == {"data", "http", "locked"}
LineKinds == {"info", "long", "ok", "error", "prompt", "sendok", "sendfail", "urc", "httpurc"}
NoLine == <<0, "info">>

Post(n) == IF n < MaxTokens THEN n + 1 ELSE n

\* A NULL data or function pointer was followed: the MCU stops in HardFault.
Crashes == {"null response", "null callback"}
Halted == faults \cap Crashes # {}

\* What the module sends back for a command of each kind.  <<>> is a module
\* that does not answer; unsolicited lines may come between the others.
Script(c) ==
    {<<>>, <<"error">>} \cup
    CASE kind[c] = "data" -> {<<"prompt">>}
      [] kind[c] = "http" -> {<<"ok">>, <<"ok", "httpurc">>}
      [] kind[c] \in {"plain", "null"} -> {<<"ok">>, <<"info", "urc", "ok">>, <<"long", "ok">>}
      [] kind[c] = "lined" -> {<<"info", "ok">>}
      [] OTHER -> {<<"info">>, <<"info", "ok">>}

DataScript == {<<>>, <<"sendok">>, <<"sendfail">>}

Lines(c, script) == [i \in 1 .. Len(script) |-> <<c, script[i]>>]

Init ==
    /\ pc = [t \in Tasks |-> "idle"]
    /\ cur = [t \in Tasks |-> 0]
    /\ left = [t \in Tasks |-> 0]
    /\ kind = [c \in Cmds |-> "none"]
    /\ alive = {}
    /\ counts = [c \in Cmds |-> 0]
    /\ res = [c \in Cmds |-> "none"]
    /\ handle = [c \in Cmds |-> 0]
    /\ lock = 0
    /\ resp = 0 /\ selfFunc = 0 /\ arg = 0
    /\ respStatus = "OK"
    /\ respNotice = 0 /\ dataNotice = 0
    /\ endSign = FALSE
    /\ ppc = "read" /\ line = NoLine /\ presp = 0 /\ parg = 0
    /\ tx = <<>> /\ rx = <<>>
    /\ answer = [c \in Cmds |-> "none"]
    /\ expired = {} /\ cut = {} /\ faults = {}

-----------------------------------------------------------------------------
(* at_obj_exec_cmd and its callers, one step per access to shared state     *)

\* Response objects are taken in order; MaxCmds bounds how many there are.
IsNext(c) == kind[c] = "none" /\ \A d \in 1 .. (c - 1) : kind[d] # "none"

Goto(t, l) == pc' = [pc EXCEPT ![t] = l]

\* A call creates its response object; "data" creates one per chunk, later.
Begin(t) ==
    /\ pc[t] = "idle"
    /\ \E c \in Cmds, k \in Kinds :
         /\ IsNext(c)
         /\ kind' = [kind EXCEPT ![c] = k]
         /\ cur' = [cur EXCEPT ![t] = c]
         /\ left' = [left EXCEPT ![t] = IF k = "data" THEN Chunks ELSE 0]
         /\ alive' = IF k \in {"data", "null"} THEN alive ELSE alive \cup {c}
         /\ Goto(t, IF k \in OuterKinds THEN "outer" ELSE "lock")
    /\ UNCHANGED <<res, handle, counts, clientVars, parserVars, wireVars, ghostVars>>

\* The caller takes client->lock around everything that follows.
Outer(t) ==
    /\ pc[t] = "outer"
    /\ lock = 0
    /\ lock' = t
    /\ Goto(t, IF kind[cur[t]] = "data" THEN "sign" ELSE "lock")
    /\ UNCHANGED <<callVars, counts, resp, selfFunc, arg, respStatus, respNotice,
                   dataNotice, endSign, parserVars, wireVars, ghostVars>>

\* at_obj_exec_cmd_with_data clears the last notice and sets the end sign '>'.
Sign(t) ==
    /\ pc[t] = "sign"
    /\ respNotice' = 0
    /\ endSign' = TRUE
    /\ Goto(t, "chunk")
    /\ UNCHANGED <<callVars, counts, lock, resp, selfFunc, arg, respStatus,
                   dataNotice, parserVars, wireVars, ghostVars>>

Chunk(t) ==
    /\ pc[t] = "chunk"
    /\ alive' = alive \cup {cur[t]}
    /\ Goto(t, "lock")
    /\ UNCHANGED <<cur, left, kind, res, handle, counts, clientVars, parserVars,
                   wireVars, ghostVars>>

\* Mistake: set up the command without waiting for client->lock.
LockUnguarded(t) ==
    /\ pc[t] = "lock"
    /\ lock' = t
    /\ respStatus' = "OK"
    /\ Goto(t, "resp")
    /\ UNCHANGED <<callVars, counts, resp, selfFunc, arg, respNotice, dataNotice,
                   endSign, parserVars, wireVars, ghostVars>>

Lock(t) ==
    /\ pc[t] = "lock"
    /\ lock \in {0, t}
    /\ lock' = t
    /\ respStatus' = "OK"
    /\ Goto(t, "resp")
    /\ UNCHANGED <<callVars, counts, resp, selfFunc, arg, respNotice, dataNotice,
                   endSign, parserVars, wireVars, ghostVars>>

SetResp(t) ==
    /\ pc[t] = "resp"
    /\ resp' = IF kind[cur[t]] = "null" THEN 0 ELSE cur[t]
    /\ Goto(t, "self")
    /\ UNCHANGED <<callVars, counts, lock, selfFunc, arg, respStatus, respNotice,
                   dataNotice, endSign, parserVars, wireVars, ghostVars>>

\* client->self_func = resp->self_func is read before resp is compared to NULL.
SetSelf(t) ==
    /\ pc[t] = "self"
    /\ IF kind[cur[t]] = "null"
       THEN /\ faults' = faults \cup {"null response"}
            /\ UNCHANGED <<pc, selfFunc>>
       ELSE /\ selfFunc' = IF kind[cur[t]] \in SelfKinds THEN cur[t] ELSE 0
            /\ Goto(t, "arg")
            /\ UNCHANGED faults
    /\ UNCHANGED <<callVars, counts, lock, resp, arg, respStatus, respNotice,
                   dataNotice, endSign, parserVars, wireVars, expired, cut>>

SetArg(t) ==
    /\ pc[t] = "arg"
    /\ arg' = cur[t]
    /\ counts' = [counts EXCEPT ![cur[t]] = 0]
    /\ Goto(t, "drain")
    /\ UNCHANGED <<callVars, lock, resp, selfFunc, respStatus, respNotice,
                   dataNotice, endSign, parserVars, wireVars, ghostVars>>

\* Mistake: the last notice is not cleared.
DrainNothing(t) ==
    /\ pc[t] = "drain"
    /\ Goto(t, "send")
    /\ UNCHANGED <<callVars, counts, clientVars, parserVars, wireVars, ghostVars>>

Drain(t) ==
    /\ pc[t] = "drain"
    /\ respNotice' = 0
    /\ Goto(t, "send")
    /\ UNCHANGED <<callVars, counts, lock, resp, selfFunc, arg, respStatus,
                   dataNotice, endSign, parserVars, wireVars, ghostVars>>

Send(t) ==
    /\ pc[t] = "send"
    /\ tx' = Append(tx, <<cur[t], "command">>)
    /\ Goto(t, "wait")
    /\ UNCHANGED <<callVars, counts, clientVars, parserVars, rx, answer, ghostVars>>

Notified(t) ==
    /\ pc[t] = "wait"
    /\ respNotice > 0
    /\ respNotice' = respNotice - 1
    /\ Goto(t, "check")
    /\ UNCHANGED <<callVars, counts, lock, resp, selfFunc, arg, respStatus,
                   dataNotice, endSign, parserVars, wireVars, ghostVars>>

\* Mistake: a wait that runs out of time is started again.
TimedOutRetries(t) ==
    /\ pc[t] = "wait"
    /\ respNotice = 0
    /\ expired' = expired \cup {cur[t]}
    /\ UNCHANGED <<pc, callVars, counts, clientVars, parserVars, wireVars, cut, faults>>

TimedOut(t) ==
    /\ pc[t] = "wait"
    /\ respNotice = 0
    /\ respStatus' = "TIMEOUT"
    /\ res' = [res EXCEPT ![cur[t]] = "TIMEOUT"]
    /\ expired' = expired \cup {cur[t]}
    /\ Goto(t, "clear")
    /\ UNCHANGED <<cur, left, kind, alive, handle, counts, lock, resp, selfFunc, arg,
                   respNotice, dataNotice, endSign, parserVars, wireVars, cut, faults>>

Check(t) ==
    /\ pc[t] = "check"
    /\ res' = [res EXCEPT ![cur[t]] = IF respStatus = "OK" THEN "OK" ELSE "ERROR"]
    /\ Goto(t, "clear")
    /\ UNCHANGED <<cur, left, kind, alive, handle, counts, clientVars, parserVars,
                   wireVars, ghostVars>>

AfterClear(t) ==
    LET c == cur[t] IN
    IF kind[c] = "data" THEN IF res[c] = "OK" THEN "body" ELSE "stop"
    ELSE IF kind[c] \in SelfKinds \cup {"http"} /\ res[c] = "OK" THEN "handle"
    ELSE "free"

\* Mistakes at __exit: keep client->resp; release every level of the mutex.
ClearKeepsResp(t) ==
    /\ pc[t] = "clear"
    /\ lock' = IF kind[cur[t]] \in OuterKinds THEN t ELSE 0
    /\ Goto(t, AfterClear(t))
    /\ UNCHANGED <<callVars, counts, resp, selfFunc, arg, respStatus, respNotice,
                   dataNotice, endSign, parserVars, wireVars, ghostVars>>
ClearUnlocks(t) ==
    /\ pc[t] = "clear"
    /\ resp' = 0
    /\ lock' = 0
    /\ Goto(t, AfterClear(t))
    /\ UNCHANGED <<callVars, counts, selfFunc, arg, respStatus, respNotice,
                   dataNotice, endSign, parserVars, wireVars, ghostVars>>

Clear(t) ==
    /\ pc[t] = "clear"
    /\ resp' = 0
    /\ lock' = IF kind[cur[t]] \in OuterKinds THEN t ELSE 0
    /\ Goto(t, AfterClear(t))
    /\ UNCHANGED <<callVars, counts, selfFunc, arg, respStatus, respNotice,
                   dataNotice, endSign, parserVars, wireVars, ghostVars>>

\* The caller waits on the semaphore of its own handle: ql_http_request with a
\* timeout, ql_fwrite and ql_file_list for ever.
HandleNotified(t) ==
    /\ pc[t] = "handle"
    /\ handle[cur[t]] > 0
    /\ handle' = [handle EXCEPT ![cur[t]] = @ - 1]
    /\ Goto(t, "free")
    /\ UNCHANGED <<cur, left, kind, alive, res, counts, clientVars, parserVars,
                   wireVars, ghostVars>>

HandleTimedOut(t) ==
    /\ pc[t] = "handle"
    /\ kind[cur[t]] = "http"
    /\ handle[cur[t]] = 0
    /\ expired' = expired \cup {cur[t]}
    /\ Goto(t, "free")
    /\ UNCHANGED <<callVars, counts, clientVars, parserVars, wireVars, cut, faults>>

Free(t) ==
    /\ pc[t] = "free"
    /\ alive' = alive \ {cur[t]}
    /\ lock' = IF kind[cur[t]] \in OuterKinds THEN 0 ELSE lock
    /\ cur' = [cur EXCEPT ![t] = 0]
    /\ Goto(t, "idle")
    /\ UNCHANGED <<left, kind, res, handle, counts, resp, selfFunc, arg, respStatus,
                   respNotice, dataNotice, endSign, parserVars, wireVars, ghostVars>>

\* After the prompt: send the chunk and wait for SEND OK or SEND FAIL, whose
\* wait result is ignored.
Body(t) ==
    /\ pc[t] = "body"
    /\ tx' = Append(tx, <<cur[t], "data">>)
    /\ Goto(t, "dwait")
    /\ UNCHANGED <<callVars, counts, clientVars, parserVars, rx, answer, ghostVars>>

DataNotified(t) ==
    /\ pc[t] = "dwait"
    /\ dataNotice > 0
    /\ dataNotice' = dataNotice - 1
    /\ Goto(t, "next")
    /\ UNCHANGED <<callVars, counts, lock, resp, selfFunc, arg, respStatus,
                   respNotice, endSign, parserVars, wireVars, ghostVars>>

DataTimedOut(t) ==
    /\ pc[t] = "dwait"
    /\ dataNotice = 0
    /\ expired' = expired \cup {cur[t]}
    /\ Goto(t, "next")
    /\ UNCHANGED <<callVars, counts, clientVars, parserVars, wireVars, cut, faults>>

\* Delete the response and take the next chunk, while MaxCmds allows one.
NextChunk(t) ==
    /\ pc[t] = "next"
    /\ alive' = alive \ {cur[t]}
    /\ \/ /\ left[t] = 1 \/ \A c \in Cmds : ~IsNext(c)
          /\ left' = [left EXCEPT ![t] = 0]
          /\ Goto(t, "stop")
          /\ UNCHANGED <<kind, cur>>
       \/ /\ left[t] > 1
          /\ left' = [left EXCEPT ![t] = @ - 1]
          /\ \E c \in Cmds :
               /\ IsNext(c)
               /\ kind' = [kind EXCEPT ![c] = "data"]
               /\ cur' = [cur EXCEPT ![t] = c]
          /\ Goto(t, "chunk")
    /\ UNCHANGED <<res, handle, counts, clientVars, parserVars, wireVars, ghostVars>>

\* Mistake: the end sign stays set.
StopKeepsSign(t) ==
    /\ pc[t] = "stop"
    /\ lock' = 0
    /\ cur' = [cur EXCEPT ![t] = 0]
    /\ Goto(t, "idle")
    /\ UNCHANGED <<left, kind, alive, res, handle, counts, resp, selfFunc, arg, endSign,
                   respStatus, respNotice, dataNotice, parserVars, wireVars, ghostVars>>

Stop(t) ==
    /\ pc[t] = "stop"
    /\ endSign' = FALSE
    /\ lock' = 0
    /\ cur' = [cur EXCEPT ![t] = 0]
    /\ Goto(t, "idle")
    /\ UNCHANGED <<left, kind, alive, res, handle, counts, resp, selfFunc, arg,
                   respStatus, respNotice, dataNotice, parserVars, wireVars, ghostVars>>

Task(t) ==
    \/ Begin(t) \/ Outer(t) \/ Sign(t) \/ Chunk(t) \/ Lock(t) \/ SetResp(t)
    \/ SetSelf(t) \/ SetArg(t) \/ Drain(t) \/ Send(t) \/ Notified(t) \/ TimedOut(t)
    \/ Check(t) \/ Clear(t) \/ HandleNotified(t) \/ HandleTimedOut(t) \/ Free(t)
    \/ Body(t) \/ DataNotified(t) \/ DataTimedOut(t) \/ NextChunk(t) \/ Stop(t)

-----------------------------------------------------------------------------
(* client_parser                                                            *)

Owner == line[1]

\* Back to at_recv_readline, which clears the line buffer.
NextLine == ppc' = "read" /\ line' = NoLine /\ presp' = 0 /\ parg' = 0

\* at_recv_readline: a '>' ends a line only while end_sign is set.
ReadLine ==
    /\ ppc = "read"
    /\ rx # <<>>
    /\ line' = IF Head(rx)[2] = "prompt" /\ ~endSign
               THEN <<Head(rx)[1], "info">> ELSE Head(rx)
    /\ rx' = Tail(rx)
    /\ ppc' = "dispatch"
    /\ UNCHANGED <<pc, callVars, counts, clientVars, presp, parg, tx, answer, ghostVars>>

\* SEND FAIL writes resp_status before the release; both are "sent" lines.
SendFailed ==
    /\ ppc = "dispatch"
    /\ line[2] = "sendfail"
    /\ respStatus' = "ERROR"
    /\ ppc' = "sent"
    /\ UNCHANGED <<pc, callVars, counts, lock, resp, selfFunc, arg, respNotice,
                   dataNotice, endSign, line, presp, parg, wireVars, ghostVars>>

SendDone ==
    /\ \/ ppc = "sent"
       \/ ppc = "dispatch" /\ line[2] = "sendok"
    /\ dataNotice' = Post(dataNotice)
    /\ NextLine
    /\ UNCHANGED <<pc, callVars, counts, lock, resp, selfFunc, arg, respStatus,
                   respNotice, endSign, wireVars, ghostVars>>

\* A URC of another component: its handler is that component's.
Urc ==
    /\ ppc = "dispatch"
    /\ line[2] = "urc"
    /\ NextLine
    /\ UNCHANGED <<pc, callVars, counts, clientVars, wireVars, ghostVars>>

\* QHTTPGET, QHTTPPOST and QHTTPPUT release resp_notice before their handler.
HttpUrc ==
    /\ ppc = "dispatch"
    /\ line[2] = "httpurc"
    /\ respNotice' = Post(respNotice)
    /\ ppc' = "httpfunc"
    /\ UNCHANGED <<pc, callVars, counts, lock, resp, selfFunc, arg, respStatus,
                   dataNotice, endSign, line, presp, parg, wireVars, ghostVars>>

\* urc->func(client, line, len, client->arg) releases the semaphore of arg.
HttpFunc ==
    /\ ppc = "httpfunc"
    /\ handle' = [handle EXCEPT ![arg] = Post(@)]
    /\ faults' = faults \cup (IF arg = Owner THEN {} ELSE {"wrong argument"})
    /\ NextLine
    /\ UNCHANGED <<pc, cur, left, kind, alive, res, counts, clientVars, wireVars,
                   expired, cut>>

IsResponse == line[2] \in {"info", "long", "ok", "error", "prompt"}

\* client->resp is tested ...
Dispatch ==
    /\ ppc = "dispatch"
    /\ IsResponse
    /\ IF resp = 0 THEN NextLine
       ELSE ppc' = "load" /\ UNCHANGED <<line, presp, parg>>
    /\ UNCHANGED <<pc, callVars, counts, clientVars, wireVars, ghostVars>>

\* ... and then read again into the local variable.
Load ==
    /\ ppc = "load"
    /\ presp' = resp
    /\ ppc' = "branch"
    /\ UNCHANGED <<pc, callVars, counts, clientVars, line, parg, wireVars, ghostVars>>

Branch ==
    /\ ppc = "branch"
    /\ ppc' = IF selfFunc = 0 THEN "store" ELSE "release"
    /\ UNCHANGED <<pc, callVars, counts, clientVars, line, presp, parg, wireVars,
                   ghostVars>>

\* With a self_func the caller is released before the callback runs.
ReleaseForSelf ==
    /\ ppc = "release"
    /\ respNotice' = Post(respNotice)
    /\ ppc' = "call"
    /\ UNCHANGED <<pc, callVars, counts, lock, resp, selfFunc, arg, respStatus,
                   dataNotice, endSign, line, presp, parg, wireVars, ghostVars>>

CallSelf ==
    /\ ppc = "call"
    /\ parg' = arg
    /\ faults' = faults \cup (IF selfFunc = 0 THEN {"null callback"}
                              ELSE IF selfFunc # arg THEN {"wrong argument"} ELSE {})
    /\ ppc' = IF line[2] \in {"ok", "error"} THEN "called" ELSE "callback"
    /\ UNCHANGED <<pc, callVars, counts, clientVars, line, presp, wireVars, expired, cut>>

\* The callback reads the lines itself, up to the final one or a timeout.
CallbackLine ==
    /\ ppc = "callback"
    /\ rx # <<>>
    /\ rx' = Tail(rx)
    /\ line' = Head(rx)
    /\ ppc' = IF Head(rx)[2] \in {"ok", "error"} THEN "called" ELSE "callback"
    /\ UNCHANGED <<pc, callVars, counts, clientVars, presp, parg, tx, answer, ghostVars>>

CallbackTimedOut ==
    /\ ppc = "callback"
    /\ rx = <<>>
    /\ expired' = expired \cup {Owner}
    /\ ppc' = "called"
    /\ UNCHANGED <<pc, callVars, counts, clientVars, line, presp, parg, wireVars,
                   cut, faults>>

\* The last act of the callback releases the semaphore of its handle.
CallbackDone ==
    /\ ppc = "called"
    /\ handle' = [handle EXCEPT ![parg] = Post(@)]
    /\ ppc' = "forget resp"
    /\ UNCHANGED <<pc, cur, left, kind, alive, res, counts, clientVars, line, presp,
                   parg, wireVars, ghostVars>>

ForgetResp ==
    /\ ppc = "forget resp"
    /\ resp' = 0
    /\ ppc' = "forget self"
    /\ UNCHANGED <<pc, callVars, counts, lock, selfFunc, arg, respStatus, respNotice,
                   dataNotice, endSign, line, presp, parg, wireVars, ghostVars>>

ForgetSelf ==
    /\ ppc = "forget self"
    /\ selfFunc' = 0
    /\ NextLine
    /\ UNCHANGED <<pc, callVars, counts, lock, resp, arg, respStatus, respNotice,
                   dataNotice, endSign, wireVars, ghostVars>>

LineNum(c) == IF kind[c] = "lined" THEN ByLines ELSE 0

\* Mistake: a response counted in lines is complete one line early.
VerdictEarly(c, k, lc) ==
    IF LineNum(c) = 0 /\ k \in {"prompt", "ok"} THEN "OK"
    ELSE IF k = "error" THEN "ERROR"
    ELSE IF LineNum(c) # 0 /\ lc >= LineNum(c) - 1 THEN "OK"
    ELSE "more"

\* The status a line gives the response it is stored in, "more" if it ends
\* nothing; lc is line_counts after the line.
Verdict(c, k, lc) ==
    IF LineNum(c) = 0 /\ k \in {"prompt", "ok"} THEN "OK"
    ELSE IF k = "error" THEN "ERROR"
    ELSE IF LineNum(c) # 0 /\ lc = LineNum(c) THEN "OK"
    ELSE "more"

\* Copy the line into the response and decide whether the response is complete.
\* A freed response still holds some line_num: either decision is possible.
Store ==
    LET lc == counts[presp] + (IF line[2] = "long" THEN 0 ELSE 1) IN
    /\ ppc = "store"
    /\ presp # 0
    /\ counts' = IF presp \in alive THEN [counts EXCEPT ![presp] = lc] ELSE counts
    /\ cut' = IF line[2] = "long" THEN cut \cup {presp} ELSE cut
    /\ \E v \in IF presp \in alive THEN {Verdict(presp, line[2], lc)}
                ELSE {"OK", "ERROR", "more"} :
         /\ respStatus' = IF v # "more" THEN v
                          ELSE IF line[2] = "long" THEN "BUFF_FULL" ELSE respStatus
         /\ IF v = "more" THEN NextLine
            ELSE ppc' = "complete" /\ UNCHANGED <<line, presp, parg>>
    /\ faults' = IF presp \in alive THEN faults ELSE faults \cup {"use after free"}
    /\ UNCHANGED <<pc, callVars, lock, resp, selfFunc, arg, respNotice, dataNotice,
                   endSign, wireVars, expired>>

StoreNull ==
    /\ ppc = "store"
    /\ presp = 0
    /\ faults' = faults \cup {"null response"}
    /\ UNCHANGED <<pc, callVars, counts, clientVars, parserVars, wireVars, expired, cut>>

\* Mistake: the caller is notified while client->resp is still set.
CompleteKeepsResp ==
    /\ ppc = "complete"
    /\ ppc' = "notify"
    /\ UNCHANGED <<pc, callVars, counts, clientVars, line, presp, parg, wireVars,
                   ghostVars>>

Complete ==
    /\ ppc = "complete"
    /\ resp' = 0
    /\ ppc' = "notify"
    /\ UNCHANGED <<pc, callVars, counts, lock, selfFunc, arg, respStatus, respNotice,
                   dataNotice, endSign, line, presp, parg, wireVars, ghostVars>>

Notify ==
    /\ ppc = "notify"
    /\ respNotice' = Post(respNotice)
    /\ NextLine
    /\ UNCHANGED <<pc, callVars, counts, lock, resp, selfFunc, arg, respStatus,
                   dataNotice, endSign, wireVars, ghostVars>>

Parser ==
    \/ ReadLine \/ SendFailed \/ SendDone \/ Urc \/ HttpUrc \/ HttpFunc
    \/ Dispatch \/ Load \/ Branch \/ ReleaseForSelf \/ CallSelf \/ CallbackLine
    \/ CallbackTimedOut \/ CallbackDone \/ ForgetResp \/ ForgetSelf \/ Store
    \/ StoreNull \/ Complete \/ Notify

-----------------------------------------------------------------------------
(* The cellular module, as the code uses it: it takes commands one at a     *)
(* time and answers each with one of the scripts, or not at all.            *)

Final(script) ==
    IF script \in {<<>>, <<"info">>} THEN "none"
    ELSE IF \E i \in DOMAIN script : script[i] = "error" THEN "ERROR" ELSE "OK"

Module ==
    /\ tx # <<>>
    /\ \E script \in IF Head(tx)[2] = "command" THEN Script(Head(tx)[1]) ELSE DataScript :
         /\ rx' = rx \o Lines(Head(tx)[1], script)
         /\ answer' = IF Head(tx)[2] = "command"
                      THEN [answer EXCEPT ![Head(tx)[1]] = Final(script)] ELSE answer
    /\ tx' = Tail(tx)
    /\ UNCHANGED <<pc, callVars, counts, clientVars, parserVars, ghostVars>>

Done == (\A t \in Tasks : pc[t] = "idle") /\ \A c \in Cmds : ~IsNext(c)

Next ==
    \/ ~Halted /\ (Parser \/ Module \/ \E t \in Tasks : Task(t))
    \/ (Halted \/ Done) /\ UNCHANGED vars

Spec == Init /\ [][Next]_vars

\* The scheduler is preemptive with equal priorities time-sliced, every wait
\* with a timeout ends, and the UART delivers what the module sent.
Fairness ==
    /\ WF_vars(~Halted /\ Parser)
    /\ WF_vars(~Halted /\ Module)
    /\ \A t \in Tasks : WF_vars(~Halted /\ Task(t) /\ pc[t] # "idle")

FairSpec == Spec /\ Fairness

-----------------------------------------------------------------------------
(* Properties                                                               *)

ParserLabels == {"read", "dispatch", "sent", "httpfunc", "load", "branch", "release",
                 "call", "callback", "called", "forget resp", "forget self", "store",
                 "complete", "notify"}
\* Between at_obj_exec_cmd's lock and its unlock.
Exec == {"resp", "self", "arg", "drain", "send", "wait", "check", "clear"}
\* client->resp may be the caller's response from SetResp to Clear.
Window == Exec \ {"resp"}
\* Inside the lock the caller itself took around at_obj_exec_cmd.
Around == {"sign", "chunk", "lock", "handle", "free", "body", "dwait", "next", "stop"}
TaskLabels == Exec \cup Around \cup {"idle", "outer"}

Item == Cmds \X {"command", "data"}
LineType == (Cmds \cup {0}) \X LineKinds

TaskTypes ==
    /\ pc \in [Tasks -> TaskLabels]
    /\ cur \in [Tasks -> Cmds \cup {0}]
    /\ left \in [Tasks -> 0 .. Chunks]
    /\ \A t \in Tasks : pc[t] # "idle" => cur[t] # 0

CommandTypes ==
    /\ kind \in [Cmds -> AllKinds \cup {"none"}]
    /\ alive \subseteq Cmds
    /\ counts \in [Cmds -> Nat]
    /\ res \in [Cmds -> {"none", "OK", "ERROR", "TIMEOUT"}]
    /\ handle \in [Cmds -> 0 .. MaxTokens]

ClientTypes ==
    /\ lock \in Tasks \cup {0}
    /\ {resp, selfFunc, arg} \subseteq Cmds \cup {0}
    /\ respStatus \in {"OK", "ERROR", "TIMEOUT", "BUFF_FULL"}
    /\ {respNotice, dataNotice} \subseteq 0 .. MaxTokens
    /\ endSign \in BOOLEAN

ParserTypes ==
    /\ ppc \in ParserLabels
    /\ line \in LineType
    /\ {presp, parg} \subseteq Cmds \cup {0}

WireTypes ==
    /\ tx \in Seq(Item)
    /\ rx \in Seq(LineType)
    /\ answer \in [Cmds -> {"none", "OK", "ERROR"}]

GhostTypes ==
    /\ expired \subseteq Cmds \cup {0}
    /\ cut \subseteq Cmds
    /\ faults \subseteq Crashes \cup {"wrong argument", "use after free"}

\* Every variable holds a value of its C type; tokens respect the semaphore's maximum.
TypeOK ==
    TaskTypes /\ CommandTypes /\ ClientTypes /\ ParserTypes /\ WireTypes /\ GhostTypes

HoldsLock(t) ==
    \/ pc[t] \in Exec \cup {"sign", "chunk", "body", "dwait", "next", "stop"}
    \/ pc[t] \in {"lock", "handle", "free"} /\ cur[t] # 0 /\ kind[cur[t]] \in OuterKinds

\* A task is inside at_obj_exec_cmd, or between the lock and unlock of the
\* callers that nest it, only while it owns client->lock: two commands are
\* never set up in the shared client object together.
LockHeld == \A t \in Tasks : HoldsLock(t) => lock = t

\* client->resp is NULL, or the response of the command whose owner holds the
\* lock and has not reached __exit: whatever the parser and late answers do,
\* the client object never keeps a response past the call that set it.
RespOwned ==
    resp # 0 => \E t \in Tasks : lock = t /\ pc[t] \in Window /\ cur[t] = resp

\* The module answered every command before its caller gave up.
InTime == expired = {}

IsUrc(l) == l[2] \in {"urc", "httpurc"}

\* No command so far came with a self_func from a caller that does not own
\* client->lock (ql_fread, ql_file_list), nor with a NULL response.  The parser's
\* release at line 871 lets such a caller unlock, and the next command change
\* self_func and arg, before the parser has used them: CallbackGiven.
Guarded == \A c \in Cmds : kind[c] \notin {"unlocked", "null"}

\* While every answer came in time and every caller with a self_func owned the
\* lock, the lines on the wire belong to the command of the task that owns the
\* lock: no line is left over for the next command.
WireIsCurrent ==
    InTime /\ Guarded => \A i \in DOMAIN rx :
                 IsUrc(rx[i]) \/ (lock # 0 /\ cur[lock] = rx[i][1])

\* No command had a self_func, after which the parser may forget the response
\* of the next command (AnswerNotDropped).
NoSelf == \A c \in Cmds : kind[c] \notin SelfKinds

\* While every answer came in time, at_obj_exec_cmd returns what the module
\* answered to that very command (0 for OK, -1 for ERROR).
ResultIsOwnAnswer ==
    InTime /\ NoSelf => \A c \in Cmds : res[c] # "none" => res[c] = answer[c]

\* While every answer came in time, a token of resp_notice seen by a waiting
\* caller means the parser has finished with its response: the notice left by
\* an HTTP URC or by an earlier command never wakes it (line 393's drain).
NoticeMeansComplete ==
    InTime /\ NoSelf => \A t \in Tasks : pc[t] = "wait" /\ respNotice > 0 => resp = 0

\* While every answer came in time and every caller with a self_func owned the
\* lock, the parser never touches a deleted response, follows a NULL pointer or
\* hands a handler another module's arg.
NoFaults == InTime /\ Guarded => faults = {}

\* While every answer came in time, nothing rewrites resp_status between the
\* parser's verdict and the caller's check of it (a SEND FAIL line could).
VerdictReachesCaller ==
    [][InTime' /\ ((\E t \in Tasks : pc[t] = "check") \/ ppc \in {"complete", "notify"})
        => respStatus' = respStatus]_vars

\* client->end_sign is '>' only inside at_obj_exec_cmd_with_data's lock, so no
\* other command's answer is cut at a '>'.
EndSignOwned ==
    endSign => \E t \in Tasks : lock = t /\ cur[t] # 0 /\ kind[cur[t]] = "data"

\* Every call returns: each wait ends by an answer or by its timeout, and the
\* lock is handed on, unless a late answer has stopped the MCU (NoFaults says
\* when that cannot happen).
EveryCallReturns == \A t \in Tasks : pc[t] # "idle" ~> (pc[t] = "idle" \/ Halted)

\* While every answer came in time, the final line of a command whose caller is
\* still waiting completes it (at.h: "== 0: the response data will auto return when received 'OK' or 'ERROR'").
AnswerNotDropped ==
    InTime /\ ppc = "dispatch" /\ line[2] \in {"ok", "error"}
        => \A t \in Tasks : pc[t] = "wait" /\ cur[t] = Owner => resp = Owner

\* "0 : success": a command reported successful was answered by the module.
SuccessIsAnswered == \A c \in Cmds : res[c] = "OK" => answer[c] = "OK"

\* "AT response buffer is full": a command whose answer did not fit in its
\* buffer is not reported as a success.
TruncationReported == \A c \in Cmds : res[c] = "OK" => c \notin cut

\* "using NULL when you don't care response": a NULL response is accepted.
NullResponseAccepted == "null response" \notin faults

\* While every answer came in time, the self_func tested at line 869 is still set
\* when it is called at line 872.
CallbackGiven == InTime => "null callback" \notin faults
=============================================================================
