------------------------------ MODULE MqttClient ------------------------------
(***************************************************************************)
(* A client of ql_mqtt.c: tasks that connect, publish, subscribe,          *)
(* unsubscribe, disconnect and destroy; the parser task, whose URC handlers*)
(* set handle->status and release handle->sem; and the module.  All calls  *)
(* of a handle, and all URCs, share the one semaphore.                     *)
(*                                                                         *)
(* The lines of the module reach the parser in order: a command returns    *)
(* when the parser has read an OK or ERROR, and with it every URC that was *)
(* sent before, or after a time-out.  The lines of a command that timed out*)
(* still come: its OK then ends the next command (see AtClient), its URC   *)
(* releases the semaphore.  A command's number stays with its URC and the  *)
(* token, for the properties to look at.                                   *)
(***************************************************************************)
EXTENDS Integers, Sequences, FiniteSets

CONSTANTS
    Tasks,
    Tokens,         \* most tokens of a semaphore: 5 in qosa_sem.c
    MaxCalls,       \* bound: calls made
    MaxHandles,     \* bound: handles created
    MaxTroubles     \* bound: kinds of trouble in one behaviour

ASSUME ConstantsAssumption ==
    /\ Tokens \in Nat \ {0} /\ MaxCalls \in Nat
    /\ MaxHandles \in Nat \ {0} /\ MaxTroubles \in Nat

VARIABLES
    closes,         \* ql_use_mqtt_close(): this module wants +QMTSTAT waited for and AT+QMTCLOSE
    sess, wire,     \* the module: its session and the lines not yet parsed
    lock, reply,    \* client->lock: the set of its owner; the result of its command
    gen, used,      \* the handle, counted from 1, and s_mqtt_client_indices[0].used
    status, sem,    \* its status, and the tokens of its semaphore, oldest first
    ppc, ph, urc,   \* the parser: place, handle and URC
    pc, op, mine,   \* the tasks: place, call, the number of the command it waits for
    took,           \* history: the number of the token its wait took
    result,         \* what the call returns
    why,            \* history: the last thing that gave the call a reason to fail
    calls, commands,    \* calls and commands so far
    trouble         \* history: the kinds of trouble so far

module == <<closes, sess, wire>>
client == <<lock, reply>>
parser == <<ppc, ph, urc>>
task == <<pc, op, mine, took, result, why>>
counts == <<calls, commands>>
others == <<module, client, gen, used, parser, counts>>    \* what a step of a task leaves alone
vars == <<module, client, gen, used, status, sem, parser, task, counts, trouble>>

Nothing == [urc |-> "none", err |-> FALSE, of |-> 0]

Init ==
    /\ closes \in BOOLEAN /\ sess = "closed" /\ wire = <<>>
    /\ lock = {} /\ reply = "none"
    /\ gen = 1 /\ used = TRUE /\ status = "closed" /\ sem = <<>>
    /\ ppc = "idle" /\ ph = 0 /\ urc = Nothing
    /\ pc = [t \in Tasks |-> "idle"] /\ op = [t \in Tasks |-> "none"]
    /\ mine = [t \in Tasks |-> 0] /\ took = [t \in Tasks |-> 0]
    /\ result = [t \in Tasks |-> "none"] /\ why = [t \in Tasks |-> "none"]
    /\ calls = 0 /\ commands = 0 /\ trouble = {}

-----------------------------------------------------------------------------
(* The module.                                                              *)

Line(u, e) == [urc |-> u, err |-> e, of |-> commands + 1]
Replies == {"ok", "error"}

\* What the module may do with a command: its next session, and the URCs after the
\* OK; or <<>>, an ERROR.
Answers(command) ==
    CASE command = "QMTOPEN" /\ sess = "closed" ->
            {<<"open", <<Line("open", FALSE)>>>>, <<"closed", <<Line("open", TRUE)>>>>}
      [] command = "QMTOPEN" /\ sess # "closed" -> {<<sess, <<Line("open", TRUE)>>>>}
      [] command = "QMTCONN" /\ sess = "open" ->
            {<<"connected", <<Line("conn", FALSE)>>>>, <<"open", <<Line("conn", TRUE)>>>>}
      [] command = "QMTDISC" /\ sess = "connected" ->
            {<<"closed", IF closes THEN <<Line("disc", FALSE), Line("stat", TRUE)>>
                                      ELSE <<Line("disc", FALSE)>>>>,
             <<sess, <<Line("disc", TRUE)>>>>}
      [] command = "QMTCLOSE" /\ sess # "closed" ->
            {<<"closed", <<Line("close", FALSE)>>>>, <<sess, <<Line("close", TRUE)>>>>}
      [] command \in {"QMTPUB", "QMTSUB"} /\ sess = "connected" ->
            {<<sess, <<Line("ack", e)>>>> : e \in BOOLEAN}
      [] command = "QMTUNS" -> {<<sess, <<Line("unsub", FALSE)>>>>}
      [] OTHER -> {<<sess, <<>>>>}

\* The session has ended: for every call on its way.
Ended == [t \in Tasks |-> IF pc[t] = "idle" THEN "none" ELSE "closed"]

Happens(what) ==
    /\ trouble' = trouble \cup {what}
    /\ Cardinality(trouble') <= MaxTroubles

\* The network or the broker closes the session; err is TRUE for the reasons 1 and 5.
PeerCloses ==
    /\ sess # "closed" /\ sess' = "closed"
    /\ Happens("stat")
    /\ \E e \in BOOLEAN : wire' = Append(wire, [urc |-> "stat", err |-> e, of |-> 0])
    /\ why' = Ended
    /\ UNCHANGED <<closes, client, gen, used, status, sem, parser, pc, op, mine, took, result,
                   counts>>

\* It reports a packet sent again: a +QMTPUB or +QMTSUB with the result 1, and another
\* one at the end.  Bound: once.
Retransmits ==
    /\ sess = "connected" /\ "resent" \notin trouble
    /\ Happens("resent")
    /\ wire' = Append(wire, [urc |-> "ack", err |-> TRUE, of |-> 0])
    /\ UNCHANGED <<closes, sess, client, gen, used, status, sem, parser, task, counts>>

-----------------------------------------------------------------------------
(* The parser: client_parser reads a result; it is that of the command on   *)
(* its way, or dropped.                                                     *)

ReadReply ==
    /\ ppc = "idle" /\ wire # <<>> /\ Head(wire).urc \in Replies
    /\ wire' = Tail(wire)
    /\ reply' = IF lock # {} /\ reply = "none" THEN Head(wire).urc ELSE reply
    /\ UNCHANGED <<closes, sess, lock, gen, used, status, sem, parser, task, counts, trouble>>

\* The URC handlers.  There is none for +QMTUNS.

Find ==
    /\ ppc = "idle" /\ wire # <<>> /\ Head(wire).urc \notin Replies
    /\ wire' = Tail(wire)
    /\ IF used /\ Head(wire).urc # "unsub"
       THEN ppc' = "status" /\ ph' = gen /\ urc' = Head(wire)
       ELSE UNCHANGED parser
    /\ UNCHANGED <<closes, sess, client, gen, used, status, sem, task, counts, trouble>>

\* The handle found is still the client's; the writes to one destroyed since go to
\* freed memory and are not followed.
Mine == used /\ ph = gen

\* Mistake: an error of +QMTCONN is taken for a success.
StatusConnected ==
    CASE urc.urc = "open" -> IF urc.err THEN "closed" ELSE "open"
      [] urc.urc = "conn" -> "connected"
      [] urc.urc = "disc" /\ ~urc.err -> "disconnected"
      [] urc.urc = "close" \/ (urc.urc = "stat" /\ urc.err) -> "closed"
      [] OTHER -> status

StatusAfter ==
    CASE urc.urc = "open" -> IF urc.err THEN "closed" ELSE "open"
      [] urc.urc = "conn" /\ ~urc.err -> "connected"
      [] urc.urc = "disc" /\ ~urc.err -> "disconnected"
      [] urc.urc = "close" \/ (urc.urc = "stat" /\ urc.err) -> "closed"
      [] OTHER -> status

SetStatus ==
    /\ ppc = "status" /\ ppc' = "post"
    /\ status' = IF Mine THEN StatusAfter ELSE status
    /\ UNCHANGED <<module, client, gen, used, sem, ph, urc, task, counts, trouble>>

\* +QMTCLOSE does not release the semaphore.
PostsToken == urc.urc # "close"

\* Mistake: the semaphore counts without a limit.
GivenUnbounded(token) == Append(sem, token)

\* qosa_sem_release
Given(token) == IF Len(sem) < Tokens THEN Append(sem, token) ELSE sem

Post ==
    /\ ppc = "post" /\ ppc' = "idle"
    /\ sem' = IF Mine /\ PostsToken THEN Given(urc.of) ELSE sem
    /\ ph' = 0 /\ urc' = Nothing
    /\ UNCHANGED <<module, client, gen, used, status, task, counts, trouble>>

-----------------------------------------------------------------------------
(* The calls.                                                               *)

Idle == \A t \in Tasks : pc[t] = "idle"

Call(t, o, place) ==
    /\ used /\ pc[t] = "idle" /\ calls < MaxCalls
    /\ calls' = calls + 1
    /\ pc' = [pc EXCEPT ![t] = place]
    /\ op' = [op EXCEPT ![t] = o]
    /\ IF Idle THEN UNCHANGED trouble
       ELSE Happens(IF o = "connect" /\ \E u \in Tasks : op[u] = "connect"
                    THEN "connects" ELSE "overlap")
    /\ UNCHANGED <<module, client, gen, used, status, sem, parser, mine, took, result, why,
                   commands>>

Return(t, r) ==
    /\ pc' = [pc EXCEPT ![t] = "done"]
    /\ result' = [result EXCEPT ![t] = r]

Done(t) ==
    /\ pc[t] = "done"
    /\ pc' = [pc EXCEPT ![t] = "idle"] /\ op' = [op EXCEPT ![t] = "none"]
    /\ mine' = [mine EXCEPT ![t] = 0] /\ took' = [took EXCEPT ![t] = 0]
    /\ result' = [result EXCEPT ![t] = "none"] /\ why' = [why EXCEPT ![t] = "none"]
    /\ UNCHANGED <<others, status, sem, trouble>>

\* The commands, at the places that send them, and the places after them.
Command == [open |-> "QMTOPEN", conn |-> "QMTCONN", pub |-> "QMTPUB", sub |-> "QMTSUB",
            unsub |-> "QMTUNS", disc |-> "QMTDISC", quit |-> "QMTCLOSE"]
Good == [open |-> "opening", conn |-> "connecting", pub |-> "acking", sub |-> "acking",
         unsub |-> "acking", disc |-> "disconnecting", quit |-> "closed"]

\* Only ql_mqtt_connect and ql_mqtt_pub look at the result.
Bad(p) == IF p \in {"open", "conn", "pub"} THEN "refused" ELSE Good[p]

\* at_obj_exec_cmd
Send(t) ==
    /\ pc[t] \in DOMAIN Command /\ lock = {}
    /\ lock' = {t}
    /\ commands' = commands + 1
    /\ mine' = [mine EXCEPT ![t] = commands + 1]
    /\ took' = [took EXCEPT ![t] = 0]
    /\ UNCHANGED <<closes, gen, used, status, sem, parser, pc, op, result, calls>>

\* The module executes the command, or refuses it.
Executed(t) ==
    /\ Send(t)
    /\ reply' = "none"
    /\ \E a \in Answers(Command[pc[t]]) :
        /\ sess' = a[1]
        /\ wire' = IF a[2] = <<>> THEN Append(wire, Line("error", TRUE))
                   ELSE Append(wire, Line("ok", FALSE)) \o a[2]
        /\ why' = IF a[1] = "closed" /\ sess # "closed" THEN Ended
                  ELSE IF a[2] = <<>> \/ a[2][1].err THEN [why EXCEPT ![t] = "error"] ELSE why
    /\ UNCHANGED trouble

\* The module does not hear the command.
Unheard(t) ==
    /\ Send(t)
    /\ reply' = "none"
    /\ Happens("unheard")
    /\ UNCHANGED <<sess, wire, why>>

\* The time-out of at_obj_exec_cmd.  An answer that is still on its way will be late.
GiveUp(t) ==
    /\ t \in lock /\ reply = "none"
    /\ reply' = "error"
    /\ why' = [why EXCEPT ![t] = "error"]
    /\ IF \E i \in 1 .. Len(wire) : wire[i].urc \in Replies THEN Happens("slow")
       ELSE UNCHANGED trouble
    /\ UNCHANGED <<module, lock, gen, used, status, sem, parser, pc, op, mine, took, result, counts>>

Answered(t) ==
    /\ t \in lock /\ reply # "none"
    /\ lock' = {} /\ reply' = "none"
    /\ pc' = [pc EXCEPT ![t] = IF reply = "ok" THEN Good[pc[t]] ELSE Bad(pc[t])]
    /\ UNCHANGED <<module, gen, used, status, sem, parser, op, mine, took, result, why, counts,
                   trouble>>

\* The waits on handle->sem and the places after them.
After == [opening |-> "opened", connecting |-> "connected", acking |-> "acked",
          disconnecting |-> "left", closing |-> "close"]

Woken(t) ==
    /\ pc[t] \in DOMAIN After /\ sem # <<>>
    /\ sem' = Tail(sem)
    /\ took' = [took EXCEPT ![t] = Head(sem)]
    /\ pc' = [pc EXCEPT ![t] = After[pc[t]]]
    /\ UNCHANGED <<others, status, op, mine, result, why, trouble>>

\* The result of the wait is not looked at.  That of ql_mqtt_unsub always times out.
TimesOut(t) ==
    /\ pc[t] \in DOMAIN After /\ sem = <<>>
    /\ IF op[t] = "unsubscribe" THEN UNCHANGED trouble ELSE Happens("late")
    /\ pc' = [pc EXCEPT ![t] = After[pc[t]]]
    /\ UNCHANGED <<others, status, sem, op, mine, took, result, why>>

Connect(t) == Call(t, "connect", "open")

\* The command failed.
Refused(t) ==
    /\ pc[t] = "refused"
    /\ Return(t, "error")
    /\ UNCHANGED <<others, status, sem, op, mine, took, why, trouble>>

Opened(t) ==
    /\ pc[t] = "opened"
    /\ IF status = "open"
       THEN pc' = [pc EXCEPT ![t] = "conn"] /\ UNCHANGED result
       ELSE Return(t, "error")
    /\ UNCHANGED <<others, status, sem, op, mine, took, why, trouble>>

Connected(t) ==
    /\ pc[t] = "connected"
    /\ Return(t, IF status = "connected" THEN "ok" ELSE "error")
    /\ UNCHANGED <<others, status, sem, op, mine, took, why, trouble>>

\* ql_mqtt_pub, ql_mqtt_sub; ql_mqtt_unsub does not look at the status.
Publish(t) == status # "closed" /\ Call(t, "publish", "pub")
Subscribe(t) == status # "closed" /\ Call(t, "publish", "sub")
Unsubscribe(t) == Call(t, "unsubscribe", "unsub")

\* QL_MQTT_OK, whatever the URC said.
Acked(t) ==
    /\ pc[t] = "acked"
    /\ Return(t, "ok")
    /\ UNCHANGED <<others, status, sem, op, mine, took, why, trouble>>

Disconnect(t) == status # "closed" /\ Call(t, "disconnect", "leaving")

Leave(t) ==
    /\ pc[t] = "leaving"
    /\ status' = "disconnecting"
    /\ pc' = [pc EXCEPT ![t] = "disc"]
    /\ UNCHANGED <<others, sem, op, mine, took, result, why, trouble>>

\* Mistake: +QMTSTAT is not waited for.
LeftEarly(t) ==
    /\ pc[t] = "left"
    /\ IF closes
       THEN pc' = [pc EXCEPT ![t] = "close"] /\ UNCHANGED <<result, status>>
       ELSE Return(t, "ok") /\ status' = "closed"
    /\ UNCHANGED <<others, sem, op, mine, took, why, trouble>>

\* Wait for +QMTSTAT, unless it has been seen already; its token then stays.
Left(t) ==
    /\ pc[t] = "left"
    /\ IF closes
       THEN /\ pc' = [pc EXCEPT ![t] = IF status = "disconnected" THEN "closing" ELSE "close"]
            /\ UNCHANGED <<result, status>>
       ELSE Return(t, "ok") /\ status' = "closed"
    /\ trouble' = IF closes /\ status = "closed" THEN trouble \cup {"skip"} ELSE trouble
    /\ UNCHANGED <<others, sem, op, mine, took, why>>

Close(t) ==
    /\ pc[t] = "close"
    /\ pc' = [pc EXCEPT ![t] = IF status # "closed" THEN "quit" ELSE "closed"]
    /\ UNCHANGED <<others, status, sem, op, mine, took, result, why, trouble>>

Closed(t) ==
    /\ pc[t] = "closed"
    /\ Return(t, "ok")
    /\ UNCHANGED <<others, status, sem, op, mine, took, why, trouble>>

\* ql_mqtt_destroy, by a program whose calls have all returned.
Destroy ==
    /\ used /\ Idle
    /\ used' = FALSE
    /\ status' = "closed" /\ sem' = <<>>
    /\ UNCHANGED <<module, client, gen, parser, task, counts, trouble>>

\* ql_mqtt_create takes the same index.
Create ==
    /\ ~used /\ gen < MaxHandles
    /\ used' = TRUE /\ gen' = gen + 1
    /\ UNCHANGED <<module, client, status, sem, parser, task, counts, trouble>>

-----------------------------------------------------------------------------
Parse == ReadReply \/ Find \/ SetStatus \/ Post
Starts(t) == Connect(t) \/ Publish(t) \/ Subscribe(t) \/ Unsubscribe(t) \/ Disconnect(t)
Step(t) == \/ Executed(t) \/ Unheard(t) \/ GiveUp(t) \/ Answered(t) \/ Woken(t) \/ TimesOut(t)
           \/ Refused(t) \/ Opened(t) \/ Connected(t) \/ Acked(t) \/ Leave(t) \/ Left(t)
           \/ Close(t) \/ Closed(t) \/ Done(t)

Next ==
    \/ PeerCloses \/ Retransmits \/ Parse \/ Destroy \/ Create
    \/ \E t \in Tasks : Starts(t) \/ Step(t)

Spec == Init /\ [][Next]_vars

-----------------------------------------------------------------------------
\* The state has its types; no semaphore holds more tokens than it was created for.
TypeOK ==
    /\ sess \in {"closed", "open", "connected"}
    /\ status \in {"closed", "open", "connected", "disconnecting", "disconnected"}
    /\ Len(sem) <= Tokens /\ used \in BOOLEAN /\ gen \in 1 .. MaxHandles
    /\ ppc \in {"idle", "status", "post"}
    /\ closes \in BOOLEAN
    /\ \A t \in Tasks : result[t] \in {"none", "ok", "error"} /\ mine[t] \in 0 .. commands

\* What leaves a token behind.
Stray == {"late", "slow", "resent", "stat", "skip", "overlap", "connects"}

\* Every wait is ended by a URC of its own command (ql_mqtt.c shares one semaphore among
\* them all) as long as none ended without its token, no command was answered after its
\* time-out, no packet was reported sent again, no +QMTSTAT came unasked or before it was
\* waited for, and no two calls overlapped.
AckIsOwn == trouble \cap Stray = {} => \A t \in Tasks : took[t] \in {0, mine[t]}

\* Whatever tokens were left behind, whatever other calls came in between and whatever
\* commands were lost, ql_mqtt_connect returns QL_MQTT_OK only with a session, unless that
\* has been closed during the call; as long as no answer came after its time-out.
ConnectIsReal ==
    "slow" \notin trouble =>
        \A t \in Tasks :
            op[t] = "connect" /\ result[t] = "ok" => sess = "connected" \/ why[t] = "closed"

\* As long as no wait has timed out and no answer came after its time-out,
\* ql_mqtt_connect returns an error for a reason: a command failed, a URC reported an
\* error, or the session was closed during the call.
ErrorIsReal ==
    trouble \cap {"late", "slow"} = {} =>
        \A t \in Tasks : op[t] = "connect" /\ result[t] = "error" => why[t] # "none"
===============================================================================
