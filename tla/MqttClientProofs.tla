-------------------------- MODULE MqttClientProofs --------------------------
(***************************************************************************)
(* Proofs about MqttClient for any number of tasks, calls, handles and     *)
(* tokens: the types; that ql_mqtt_connect succeeds only with a session,   *)
(* whatever tokens were left on the handle's semaphore (Connecting); and   *)
(* that a wait is ended by its own command's URC as long as nothing left a *)
(* token behind (Calm).                                                    *)
(***************************************************************************)
EXTENDS MqttClient, SequenceTheorems, TLAPS

Kinds == {"none", "ok", "error", "open", "conn", "disc", "stat", "close", "ack", "unsub"}
Lines == [urc : Kinds, err : BOOLEAN, of : Nat]
Sessions == {"closed", "open", "connected"}
Places == {"idle", "open", "opening", "opened", "conn", "connecting", "connected", "refused",
           "pub", "sub", "unsub", "acking", "acked", "leaving", "disc", "disconnecting", "left",
           "closing", "close", "quit", "closed", "done"}

HandleTypes ==
    /\ sess \in Sessions /\ closes \in BOOLEAN
    /\ status \in {"closed", "open", "connected", "disconnecting", "disconnected"}
    /\ used \in BOOLEAN /\ gen \in 1 .. MaxHandles /\ ph \in 0 .. gen
    /\ ppc \in {"idle", "status", "post"}

QueueTypes ==
    /\ wire \in Seq(Lines) /\ urc \in Lines
    /\ sem \in Seq(Nat) /\ Len(sem) <= Tokens

TaskTypes ==
    /\ pc \in [Tasks -> Places]
    /\ op \in [Tasks -> {"none", "connect", "publish", "unsubscribe", "disconnect"}]
    /\ mine \in [Tasks -> Nat] /\ took \in [Tasks -> Nat]
    /\ result \in [Tasks -> {"none", "ok", "error"}]
    /\ why \in [Tasks -> {"none", "error", "closed"}]
    /\ lock \in SUBSET Tasks /\ reply \in {"none", "ok", "error"}
    /\ commands \in Nat /\ calls \in Nat
    /\ \A t \in Tasks : mine[t] <= commands
    /\ \A t \in lock : pc[t] \in DOMAIN Command

Types == HandleTypes /\ QueueTypes /\ TaskTypes

-----------------------------------------------------------------------------
(* What the module does with a command: the lines M it sends.               *)

Refuses(t, M) ==
    /\ M = <<Line("error", TRUE)>>
    /\ sess' = sess /\ why' = [why EXCEPT ![t] = "error"]

Opens(t, M) ==
    /\ pc[t] = "open"
    /\ \E e \in BOOLEAN :
        /\ M = <<Line("ok", FALSE), Line("open", e)>>
        /\ sess' = IF sess = "closed" /\ ~e THEN "open" ELSE sess
        /\ why' = IF e THEN [why EXCEPT ![t] = "error"] ELSE why

Connects(t, M) ==
    /\ pc[t] = "conn" /\ sess = "open"
    /\ \E e \in BOOLEAN :
        /\ M = <<Line("ok", FALSE), Line("conn", e)>>
        /\ sess' = IF e THEN "open" ELSE "connected"
        /\ why' = IF e THEN [why EXCEPT ![t] = "error"] ELSE why

Disconnects(t, M) ==
    /\ pc[t] = "disc" /\ sess = "connected"
    /\ M = IF closes THEN <<Line("ok", FALSE), Line("disc", FALSE), Line("stat", TRUE)>>
           ELSE <<Line("ok", FALSE), Line("disc", FALSE)>>
    /\ sess' = "closed" /\ why' = Ended

Closes(t, M) ==
    /\ pc[t] = "quit" /\ sess # "closed"
    /\ M = <<Line("ok", FALSE), Line("close", FALSE)>>
    /\ sess' = "closed" /\ why' = Ended

Remains(t, M) ==
    /\ \/ pc[t] = "disc" /\ M = <<Line("ok", FALSE), Line("disc", TRUE)>>
       \/ pc[t] = "quit" /\ M = <<Line("ok", FALSE), Line("close", TRUE)>>
    /\ sess' = sess /\ why' = [why EXCEPT ![t] = "error"]

Acknowledges(t, M) ==
    /\ pc[t] \in {"pub", "sub"}
    /\ \E e \in BOOLEAN :
        /\ M = <<Line("ok", FALSE), Line("ack", e)>>
        /\ why' = IF e THEN [why EXCEPT ![t] = "error"] ELSE why
    /\ sess' = sess

Unsubscribes(t, M) ==
    /\ pc[t] = "unsub"
    /\ M = <<Line("ok", FALSE), Line("unsub", FALSE)>>
    /\ sess' = sess /\ why' = why

Effect(t, M) ==
    \/ Refuses(t, M) \/ Opens(t, M) \/ Connects(t, M) \/ Disconnects(t, M) \/ Closes(t, M)
    \/ Remains(t, M) \/ Acknowledges(t, M) \/ Unsubscribes(t, M)

LEMMA AppendThem ==
    ASSUME NEW S, NEW w \in Seq(S), NEW a \in S, NEW b \in S, NEW c \in S
    PROVE  /\ Append(w, a) = w \o <<a>>
           /\ Append(w, a) \o <<b>> = w \o <<a, b>>
           /\ Append(w, a) \o <<b, c>> = w \o <<a, b, c>>
           /\ <<a>> \in Seq(S) /\ <<a, b>> \in Seq(S) /\ <<a, b, c>> \in Seq(S)
<1>1. <<a>> \in Seq(S) /\ <<b>> \in Seq(S) /\ <<b, c>> \in Seq(S) /\ <<a, b>> \in Seq(S)
      /\ <<a, b, c>> \in Seq(S)
  OBVIOUS
<1>2. Append(w, a) = w \o <<a>>
  BY AppendIsConcat
<1>3. (w \o <<a>>) \o <<b>> = w \o (<<a>> \o <<b>>)
  BY <1>1, ConcatAssociative
<1>4. (w \o <<a>>) \o <<b, c>> = w \o (<<a>> \o <<b, c>>)
  BY <1>1, ConcatAssociative
<1>5. <<a>> \o <<b>> = <<a, b>>
  <2>1. /\ <<a>> \o <<b>> \in Seq(S) /\ Len(<<a>> \o <<b>>) = 2
        /\ (<<a>> \o <<b>>)[1] = a /\ (<<a>> \o <<b>>)[2] = b
    BY <1>1
  <2>2. Len(<<a, b>>) = 2 /\ <<a, b>>[1] = a /\ <<a, b>>[2] = b
    OBVIOUS
  <2>3. \A i \in 1 .. 2 : (<<a>> \o <<b>>)[i] = <<a, b>>[i]
    BY <2>1, <2>2
  <2> QED
    BY <1>1, <2>1, <2>2, <2>3, SeqEqual
<1>6. <<a>> \o <<b, c>> = <<a, b, c>>
  <2>1. /\ <<a>> \o <<b, c>> \in Seq(S) /\ Len(<<a>> \o <<b, c>>) = 3
        /\ (<<a>> \o <<b, c>>)[1] = a /\ (<<a>> \o <<b, c>>)[2] = b /\ (<<a>> \o <<b, c>>)[3] = c
    BY <1>1
  <2>2. Len(<<a, b, c>>) = 3 /\ <<a, b, c>>[1] = a /\ <<a, b, c>>[2] = b /\ <<a, b, c>>[3] = c
    OBVIOUS
  <2>3. \A i \in 1 .. 3 : (<<a>> \o <<b, c>>)[i] = <<a, b, c>>[i]
    BY <2>1, <2>2
  <2> QED
    BY <1>1, <2>1, <2>2, <2>3, SeqEqual
<1> QED
  BY <1>1, <1>2, <1>3, <1>4, <1>5, <1>6

LEMMA LineTypes ==
    ASSUME TaskTypes, NEW u \in Kinds, NEW e \in BOOLEAN
    PROVE  Line(u, e) \in Lines
BY DEF TaskTypes, Line, Lines

LEMMA Forms ==
    ASSUME sess \in Sessions, NEW t \in Tasks, pc[t] \in DOMAIN Command,
           NEW a \in Answers(Command[pc[t]])
    PROVE  \/ a = <<sess, <<>>>>
           \/ /\ pc[t] = "open"
              /\ \E e \in BOOLEAN :
                    a = <<IF sess = "closed" /\ ~e THEN "open" ELSE sess, <<Line("open", e)>>>>
           \/ /\ pc[t] = "conn" /\ sess = "open"
              /\ \E e \in BOOLEAN :
                    a = <<IF e THEN "open" ELSE "connected", <<Line("conn", e)>>>>
           \/ /\ pc[t] = "disc" /\ sess = "connected"
              /\ \/ closes /\ a = <<"closed", <<Line("disc", FALSE), Line("stat", TRUE)>>>>
                 \/ ~closes /\ a = <<"closed", <<Line("disc", FALSE)>>>>
           \/ /\ pc[t] = "quit" /\ sess # "closed"
              /\ a = <<"closed", <<Line("close", FALSE)>>>>
           \/ pc[t] = "disc" /\ a = <<sess, <<Line("disc", TRUE)>>>>
           \/ pc[t] = "quit" /\ a = <<sess, <<Line("close", TRUE)>>>>
           \/ /\ pc[t] \in {"pub", "sub"}
              /\ \E e \in BOOLEAN : a = <<sess, <<Line("ack", e)>>>>
           \/ pc[t] = "unsub" /\ a = <<sess, <<Line("unsub", FALSE)>>>>
<1>1. pc[t] \in {"open", "conn", "pub", "sub", "unsub", "disc", "quit"}
  BY DEF Command
<1>2. CASE pc[t] = "open"
  <2>1. Command[pc[t]] = "QMTOPEN"
    BY <1>2 DEF Command
  <2>2. CASE sess = "closed"
    BY <2>1, <2>2, <1>2 DEF Answers
  <2>3. CASE sess # "closed"
    BY <2>1, <2>3, <1>2 DEF Answers
  <2> QED
    BY <2>2, <2>3
<1>3. CASE pc[t] = "conn"
  <2>1. Command[pc[t]] = "QMTCONN"
    BY <1>3 DEF Command
  <2> QED
    BY <1>3, <2>1 DEF Answers
<1>4. CASE pc[t] \in {"pub", "sub"}
  <2>1. Command[pc[t]] \in {"QMTPUB", "QMTSUB"}
    BY <1>4 DEF Command
  <2> QED
    BY <1>4, <2>1 DEF Answers
<1>5. CASE pc[t] = "unsub"
  <2>1. Command[pc[t]] = "QMTUNS"
    BY <1>5 DEF Command
  <2> QED
    BY <1>5, <2>1 DEF Answers
<1>6. CASE pc[t] = "disc"
  <2>1. Command[pc[t]] = "QMTDISC"
    BY <1>6 DEF Command
  <2> QED
    BY <1>6, <2>1 DEF Answers
<1>7. CASE pc[t] = "quit"
  <2>1. Command[pc[t]] = "QMTCLOSE"
    BY <1>7 DEF Command
  <2> QED
    BY <1>7, <2>1 DEF Answers
<1> QED
  BY <1>1, <1>2, <1>3, <1>4, <1>5, <1>6, <1>7

LEMMA Effects ==
    ASSUME Types, NEW t \in Tasks, Executed(t)
    PROVE  \E M \in Seq(Lines) : wire' = wire \o M /\ Effect(t, M)
<1> DEFINE K == Line("ok", FALSE)
           O(M, s) == IF s = "closed" /\ sess # "closed" THEN Ended
                      ELSE IF M = <<>> \/ M[1].err THEN [why EXCEPT ![t] = "error"] ELSE why
           W(M) == IF M = <<>> THEN Append(wire, Line("error", TRUE)) ELSE Append(wire, K) \o M
<1>1. PICK a \in Answers(Command[pc[t]]) :
        sess' = a[1] /\ wire' = W(a[2]) /\ why' = O(a[2], a[1])
  BY DEF Executed
<1>2. pc[t] \in DOMAIN Command /\ wire \in Seq(Lines) /\ sess \in Sessions /\ closes \in BOOLEAN
  BY DEF Executed, Send, Types, QueueTypes, HandleTypes
<1>3. /\ K \in Lines /\ Line("error", TRUE) \in Lines
      /\ \A e \in BOOLEAN : /\ Line("open", e) \in Lines /\ Line("open", e).err = e
                            /\ Line("conn", e) \in Lines /\ Line("conn", e).err = e
                            /\ Line("ack", e) \in Lines /\ Line("ack", e).err = e
      /\ \A e \in BOOLEAN : /\ Line("disc", e) \in Lines /\ Line("disc", e).err = e
                            /\ Line("close", e) \in Lines /\ Line("close", e).err = e
      /\ Line("unsub", FALSE) \in Lines /\ Line("unsub", FALSE).err = FALSE
      /\ Line("stat", TRUE) \in Lines
  BY DEF Types, TaskTypes, Line, Lines, Kinds
<1> DEFINE Forms1(x, s) == /\ W(<<x>>) = wire \o <<K, x>> /\ <<K, x>> \in Seq(Lines)
                           /\ O(<<x>>, s) = IF s = "closed" /\ sess # "closed" THEN Ended
                                            ELSE IF x.err THEN [why EXCEPT ![t] = "error"] ELSE why
<1>4. \A x \in Lines : \A s : Forms1(x, s)
  <2>1. TAKE x \in Lines
  <2>2. TAKE s
  <2>3. <<x>> # <<>> /\ <<x>>[1] = x
    OBVIOUS
  <2>4. Append(wire, K) \o <<x>> = wire \o <<K, x>> /\ <<K, x>> \in Seq(Lines)
    <3> HIDE DEF K
    <3> QED
      BY <1>2, <1>3, AppendThem
  <2> HIDE DEF K
  <2> QED
    BY <2>3, <2>4
<1>5. \A x \in Lines : /\ W(<<Line("disc", FALSE), x>>) = wire \o <<K, Line("disc", FALSE), x>>
                      /\ <<K, Line("disc", FALSE), x>> \in Seq(Lines)
  <2> DEFINE d == Line("disc", FALSE)
  <2>1. d \in Lines
    BY <1>3
  <2> HIDE DEF d, K
  <2>2. \A x \in Lines : <<d, x>> # <<>>
    OBVIOUS
  <2>3. \A x \in Lines : Append(wire, K) \o <<d, x>> = wire \o <<K, d, x>> /\ <<K, d, x>> \in Seq(Lines)
    BY <1>2, <1>3, <2>1, AppendThem
  <2>4. \A x \in Lines : W(<<d, x>>) = wire \o <<K, d, x>> /\ <<K, d, x>> \in Seq(Lines)
    BY <2>2, <2>3
  <2> QED
    BY <2>4 DEF d
<1>6. /\ W(<<>>) = wire \o <<Line("error", TRUE)>> /\ <<Line("error", TRUE)>> \in Seq(Lines)
      /\ \A s : ~(s = "closed" /\ sess # "closed") => O(<<>>, s) = [why EXCEPT ![t] = "error"]
  <2>1. \A x \in Lines : Append(wire, x) = wire \o <<x>> /\ <<x>> \in Seq(Lines)
    BY <1>2, AppendIsConcat
  <2>2. Append(wire, Line("error", TRUE)) = wire \o <<Line("error", TRUE)>>
        /\ <<Line("error", TRUE)>> \in Seq(Lines)
    BY <1>3, <2>1
  <2> QED
    BY <2>2
<1>7. \A s, L : a = <<s, L>> => sess' = s /\ wire' = W(L) /\ why' = O(L, s)
  <2>1. \A s, L : a = <<s, L>> => a[1] = s /\ a[2] = L
    OBVIOUS
  <2> QED
    BY <1>1, <2>1
<1> HIDE DEF W, O
<1>8. CASE a = <<sess, <<>>>>
  <2>1. sess' = sess /\ wire' = W(<<>>) /\ why' = O(<<>>, sess)
    BY <1>7, <1>8
  <2>2. Refuses(t, <<Line("error", TRUE)>>)
    BY <1>6, <2>1 DEF Refuses
  <2> QED
    BY <1>6, <2>1, <2>2 DEF Effect
<1>9. CASE /\ pc[t] = "open"
           /\ \E e \in BOOLEAN :
                a = <<IF sess = "closed" /\ ~e THEN "open" ELSE sess, <<Line("open", e)>>>>
  <2>1. PICK e \in BOOLEAN :
          a = <<IF sess = "closed" /\ ~e THEN "open" ELSE sess, <<Line("open", e)>>>>
    BY <1>9
  <2> DEFINE s == IF sess = "closed" /\ ~e THEN "open" ELSE sess
             x == Line("open", e)
  <2>2. sess' = s /\ wire' = W(<<x>>) /\ why' = O(<<x>>, s)
    BY <1>7, <2>1
  <2>3. Forms1(x, s) /\ x.err = e /\ ~(s = "closed" /\ sess # "closed")
    BY <1>3, <1>4
  <2>4. /\ wire' = wire \o <<K, x>> /\ <<K, x>> \in Seq(Lines)
        /\ why' = IF e THEN [why EXCEPT ![t] = "error"] ELSE why
    BY <2>2, <2>3
  <2>5. Opens(t, <<K, x>>)
    BY <1>9, <2>2, <2>4 DEF Opens
  <2> QED
    BY <2>4, <2>5 DEF Effect
<1>10. CASE /\ pc[t] = "conn" /\ sess = "open"
            /\ \E e \in BOOLEAN : a = <<IF e THEN "open" ELSE "connected", <<Line("conn", e)>>>>
  <2>1. PICK e \in BOOLEAN : a = <<IF e THEN "open" ELSE "connected", <<Line("conn", e)>>>>
    BY <1>10
  <2> DEFINE s == IF e THEN "open" ELSE "connected"
             x == Line("conn", e)
  <2>2. sess' = s /\ wire' = W(<<x>>) /\ why' = O(<<x>>, s)
    BY <1>7, <2>1
  <2>3. Forms1(x, s) /\ x.err = e /\ s # "closed"
    BY <1>3, <1>4
  <2>4. /\ wire' = wire \o <<K, x>> /\ <<K, x>> \in Seq(Lines)
        /\ why' = IF e THEN [why EXCEPT ![t] = "error"] ELSE why
    BY <2>2, <2>3
  <2>5. Connects(t, <<K, x>>)
    BY <1>10, <2>2, <2>4 DEF Connects
  <2> QED
    BY <2>4, <2>5 DEF Effect
<1>11. CASE /\ pc[t] = "disc" /\ sess = "connected"
            /\ \/ closes /\ a = <<"closed", <<Line("disc", FALSE), Line("stat", TRUE)>>>>
               \/ ~closes /\ a = <<"closed", <<Line("disc", FALSE)>>>>
  <2> DEFINE d == Line("disc", FALSE)
             x == Line("stat", TRUE)
  <2>1. CASE closes /\ a = <<"closed", <<d, x>>>>
    <3>1. sess' = "closed" /\ wire' = W(<<d, x>>) /\ why' = O(<<d, x>>, "closed")
      BY <1>7, <2>1
    <3>2. why' = Ended
      BY <1>11, <3>1 DEF O
    <3>3. wire' = wire \o <<K, d, x>> /\ <<K, d, x>> \in Seq(Lines)
      BY <1>3, <1>5, <3>1
    <3>4. Disconnects(t, <<K, d, x>>)
      BY <1>11, <2>1, <3>1, <3>2 DEF Disconnects
    <3> QED
      BY <3>3, <3>4 DEF Effect
  <2>2. CASE ~closes /\ a = <<"closed", <<d>>>>
    <3>1. sess' = "closed" /\ wire' = W(<<d>>) /\ why' = O(<<d>>, "closed")
      BY <1>7, <2>2
    <3>2. why' = Ended
      BY <1>11, <3>1 DEF O
    <3>3. Forms1(d, "closed")
      BY <1>3, <1>4
    <3>4. wire' = wire \o <<K, d>> /\ <<K, d>> \in Seq(Lines)
      BY <3>1, <3>3
    <3>5. Disconnects(t, <<K, d>>)
      BY <1>11, <2>2, <3>1, <3>2 DEF Disconnects
    <3> QED
      BY <3>4, <3>5 DEF Effect
  <2> QED
    BY <1>11, <2>1, <2>2
<1>12. CASE pc[t] = "quit" /\ sess # "closed" /\ a = <<"closed", <<Line("close", FALSE)>>>>
  <2> DEFINE x == Line("close", FALSE)
  <2>1. sess' = "closed" /\ wire' = W(<<x>>) /\ why' = O(<<x>>, "closed")
    BY <1>7, <1>12
  <2>2. why' = Ended
    BY <1>12, <2>1 DEF O
  <2>3. Forms1(x, "closed")
    BY <1>3, <1>4
  <2>4. /\ wire' = wire \o <<K, x>> /\ <<K, x>> \in Seq(Lines)
    BY <2>1, <2>3
  <2>5. Closes(t, <<K, x>>)
    BY <1>12, <2>1, <2>2 DEF Closes
  <2> QED
    BY <2>4, <2>5 DEF Effect
<1>13. CASE pc[t] \in {"pub", "sub"} /\ \E e \in BOOLEAN : a = <<sess, <<Line("ack", e)>>>>
  <2>1. PICK e \in BOOLEAN : a = <<sess, <<Line("ack", e)>>>>
    BY <1>13
  <2> DEFINE x == Line("ack", e)
  <2>2. sess' = sess /\ wire' = W(<<x>>) /\ why' = O(<<x>>, sess)
    BY <1>7, <2>1
  <2>3. Forms1(x, sess) /\ x.err = e
    BY <1>3, <1>4
  <2>4. /\ wire' = wire \o <<K, x>> /\ <<K, x>> \in Seq(Lines)
        /\ why' = IF e THEN [why EXCEPT ![t] = "error"] ELSE why
    BY <2>2, <2>3
  <2>5. Acknowledges(t, <<K, x>>)
    BY <1>13, <2>2, <2>4 DEF Acknowledges
  <2> QED
    BY <2>4, <2>5 DEF Effect
<1>14. CASE pc[t] = "unsub" /\ a = <<sess, <<Line("unsub", FALSE)>>>>
  <2> DEFINE x == Line("unsub", FALSE)
  <2>1. sess' = sess /\ wire' = W(<<x>>) /\ why' = O(<<x>>, sess)
    BY <1>7, <1>14
  <2>2. Forms1(x, sess) /\ x.err = FALSE
    BY <1>3, <1>4
  <2>3. wire' = wire \o <<K, x>> /\ <<K, x>> \in Seq(Lines) /\ why' = why
    BY <2>1, <2>2
  <2>4. Unsubscribes(t, <<K, x>>)
    BY <1>14, <2>1, <2>3 DEF Unsubscribes
  <2> QED
    BY <2>3, <2>4 DEF Effect
<1>15. ASSUME NEW u \in {"disc", "close"}, a = <<sess, <<Line(u, TRUE)>>>>,
              \/ pc[t] = "disc" /\ u = "disc"
              \/ pc[t] = "quit" /\ u = "close"
       PROVE  \E M \in Seq(Lines) : wire' = wire \o M /\ Effect(t, M)
  <2> DEFINE x == Line(u, TRUE)
  <2>1. sess' = sess /\ wire' = W(<<x>>) /\ why' = O(<<x>>, sess)
    BY <1>7, <1>15
  <2>2. x \in Lines /\ x.err = TRUE
    BY <1>3, <1>15
  <2>3. Forms1(x, sess)
    BY <1>4, <2>2
  <2>4. wire' = wire \o <<K, x>> /\ <<K, x>> \in Seq(Lines) /\ why' = [why EXCEPT ![t] = "error"]
    BY <2>1, <2>2, <2>3
  <2>5. Remains(t, <<K, x>>)
    BY <1>15, <2>1, <2>4 DEF Remains
  <2> QED
    BY <2>4, <2>5 DEF Effect
<1> QED
  BY <1>1, <1>2, <1>8, <1>9, <1>10, <1>11, <1>12, <1>13, <1>14, <1>15, Forms
-----------------------------------------------------------------------------
(* The types.                                                               *)

LEMMA HandleTypesKept ==
    ASSUME Types, [Next]_vars
    PROVE  HandleTypes'
<1> USE DEF Types, HandleTypes
<1>1. CASE PeerCloses \/ Retransmits
  BY <1>1 DEF PeerCloses, Retransmits, parser, Sessions
<1>2. CASE ReadReply
  BY <1>2 DEF ReadReply, parser
<1>3. CASE Find
  BY <1>3, ConstantsAssumption DEF Find, parser, module, client
<1>4. CASE SetStatus
  BY <1>4 DEF SetStatus, module, StatusAfter
<1>5. CASE Post
  BY <1>5, ConstantsAssumption DEF Post, module
<1>6. CASE Destroy
  BY <1>6 DEF Destroy, module, parser
<1>7. CASE Create
  BY <1>7, ConstantsAssumption DEF Create, module, parser
<1>8. ASSUME NEW t \in Tasks, Starts(t)
      PROVE  HandleTypes'
  BY <1>8 DEF Starts, Connect, Publish, Subscribe, Unsubscribe, Disconnect, Call, module, parser
<1>9. ASSUME NEW t \in Tasks, Executed(t)
      PROVE  HandleTypes'
  <2>1. PICK M \in Seq(Lines) : Effect(t, M)
    BY <1>9, Effects
  <2>2. sess' \in Sessions
    BY <2>1 DEF Effect, Refuses, Opens, Connects, Disconnects, Closes, Remains, Acknowledges,
                Unsubscribes, Sessions
  <2> QED
    BY <1>9, <2>2 DEF Executed, Send, parser
<1>10. ASSUME NEW t \in Tasks, Step(t), ~Executed(t)
       PROVE  HandleTypes'
  BY <1>10 DEF Step, Unheard, Send, GiveUp, Answered, Woken, TimesOut, Refused, Opened, Connected, Acked,
               Leave, Left, Close, Closed, Done, others, module, parser, counts, Return
<1>11. CASE UNCHANGED vars
  BY <1>11 DEF vars, module, parser
<1> QED
  BY <1>1, <1>2, <1>3, <1>4, <1>5, <1>6, <1>7, <1>8, <1>9, <1>10, <1>11 DEF Next, Parse

LEMMA QueueTypesKept ==
    ASSUME Types, [Next]_vars
    PROVE  QueueTypes'
<1> USE DEF QueueTypes
<1>0. QueueTypes /\ commands \in Nat /\ Tokens \in Nat \ {0}
  BY ConstantsAssumption DEF Types, TaskTypes
<1>1. CASE PeerCloses \/ Retransmits
  <2>1. \A u \in {"stat", "ack"}, e \in BOOLEAN : [urc |-> u, err |-> e, of |-> 0] \in Lines
    BY DEF Lines, Kinds
  <2>2. wire' \in Seq(Lines)
    <3>1. CASE PeerCloses
      BY <1>0, <2>1, <3>1 DEF PeerCloses
    <3>2. CASE Retransmits
      <4>1. [urc |-> "ack", err |-> TRUE, of |-> 0] \in Lines
        BY DEF Lines, Kinds
      <4> QED
        BY <1>0, <3>2, <4>1 DEF Retransmits
    <3> QED
      BY <1>1, <3>1, <3>2
  <2> QED
    BY <1>0, <1>1, <2>2 DEF PeerCloses, Retransmits, parser
<1>2. CASE ReadReply
  BY <1>0, <1>2 DEF ReadReply, parser
<1>3. CASE Find
  BY <1>0, <1>3 DEF Find, parser
<1>4. CASE SetStatus
  BY <1>0, <1>4 DEF SetStatus, module
<1>5. CASE Post
  <2>1. urc' \in Lines
    BY <1>5 DEF Post, Nothing, Lines, Kinds
  <2>2. urc.of \in Nat
    BY <1>0 DEF Lines
  <2>3. sem' \in Seq(Nat) /\ Len(sem') <= Tokens
    BY <1>0, <1>5, <2>2 DEF Post, Given
  <2> QED
    BY <1>0, <1>5, <2>1, <2>3 DEF Post, module
<1>6. CASE Destroy
  BY <1>0, <1>6 DEF Destroy, module, parser
<1>7. CASE Create
  BY <1>0, <1>7 DEF Create, module, parser
<1>8. ASSUME NEW t \in Tasks, Starts(t)
      PROVE  QueueTypes'
  BY <1>0, <1>8 DEF Starts, Connect, Publish, Subscribe, Unsubscribe, Disconnect, Call, module, parser
<1>9. ASSUME NEW t \in Tasks, Executed(t)
      PROVE  QueueTypes'
  <2>1. PICK M \in Seq(Lines) : wire' = wire \o M
    BY <1>9, Effects
  <2>2. wire' \in Seq(Lines)
    BY <1>0, <2>1
  <2> QED
    BY <1>0, <1>9, <2>2 DEF Executed, Send, parser
<1>10. ASSUME NEW t \in Tasks, Woken(t)
       PROVE  QueueTypes'
  BY <1>0, <1>10 DEF Woken, others, module, parser
<1>11. ASSUME NEW t \in Tasks, Step(t), ~Executed(t), ~Woken(t)
       PROVE  QueueTypes'
  BY <1>0, <1>11 DEF Step, Unheard, Send, GiveUp, Answered, TimesOut, Refused, Opened, Connected, Acked,
               Leave, Left, Close, Closed, Done, others, module, parser, counts, Return
<1>12. CASE UNCHANGED vars
  BY <1>0, <1>12 DEF vars, module, parser
<1> QED
  BY <1>1, <1>2, <1>3, <1>4, <1>5, <1>6, <1>7, <1>8, <1>9, <1>10, <1>11, <1>12 DEF Next, Parse

LEMMA EndedType == TaskTypes => Ended \in [Tasks -> {"none", "error", "closed"}]
BY DEF Ended

LEMMA TaskTypesKept ==
    ASSUME Types, [Next]_vars
    PROVE  TaskTypes'
<1>0. TaskTypes /\ QueueTypes /\ Ended \in [Tasks -> {"none", "error", "closed"}]
  BY EndedType DEF Types
<1> USE DEF TaskTypes
<1>1. CASE PeerCloses \/ Retransmits
  BY <1>0, <1>1 DEF PeerCloses, Retransmits, client, task, counts
<1>2. CASE ReadReply
  BY <1>0, <1>2 DEF ReadReply, task, counts, Replies
<1>3. CASE Find \/ SetStatus \/ Post \/ Destroy \/ Create
  BY <1>0, <1>3 DEF Find, SetStatus, Post, Destroy, Create, client, task, counts
<1>4. ASSUME NEW t \in Tasks, Starts(t)
      PROVE  TaskTypes'
  BY <1>0, <1>4 DEF Starts, Connect, Publish, Subscribe, Unsubscribe, Disconnect, Call, client, Places,
                    Command
<1>5. ASSUME NEW t \in Tasks, Executed(t)
      PROVE  TaskTypes'
  <2>1. PICK M \in Seq(Lines) : Effect(t, M)
    BY <1>5, Effects
  <2>2. why' \in [Tasks -> {"none", "error", "closed"}]
    BY <1>0, <2>1 DEF Effect, Refuses, Opens, Connects, Disconnects, Closes, Remains, Acknowledges,
                      Unsubscribes
  <2> QED
    BY <1>0, <1>5, <2>2 DEF Executed, Send
<1>6. ASSUME NEW t \in Tasks, Unheard(t) \/ GiveUp(t)
      PROVE  TaskTypes'
  <2>1. CASE Unheard(t)
    BY <1>0, <2>1 DEF Unheard, Send
  <2>2. CASE GiveUp(t)
    BY <1>0, <2>2 DEF GiveUp, counts
  <2> QED
    BY <1>6, <2>1, <2>2
<1>7. ASSUME NEW t \in Tasks, Answered(t)
      PROVE  TaskTypes'
  <2>1. pc[t] \in DOMAIN Command
    BY <1>0, <1>7 DEF Answered
  <2>2. Good[pc[t]] \in Places /\ Bad(pc[t]) \in Places
    BY <2>1 DEF Good, Bad, Command, Places
  <2> QED
    BY <1>0, <1>7, <2>2 DEF Answered, counts
<1>8. ASSUME NEW t \in Tasks, Woken(t)
      PROVE  TaskTypes'
  <2>1. Head(sem) \in Nat
    BY <1>0, <1>8 DEF QueueTypes, Woken
  <2>2. After[pc[t]] \in Places
    BY <1>8 DEF Woken, After, Places
  <2> QED
    BY <1>0, <1>8, <2>1, <2>2 DEF Woken, others, client, counts, After, Command
<1>9. ASSUME NEW t \in Tasks, TimesOut(t)
      PROVE  TaskTypes'
  <2>1. After[pc[t]] \in Places
    BY <1>9 DEF TimesOut, After, Places
  <2> QED
    BY <1>0, <1>9, <2>1 DEF TimesOut, others, client, counts, After, Command
<1>10. ASSUME NEW t \in Tasks, Step(t), ~Executed(t), ~Unheard(t), ~GiveUp(t), ~Answered(t),
              ~Woken(t), ~TimesOut(t)
       PROVE  TaskTypes'
  BY <1>0, <1>10 DEF Step, Refused, Opened, Connected, Acked,
               Leave, Left, Close, Closed, Done, others, client, counts, Return, Places, Command
<1>11. CASE UNCHANGED vars
  BY <1>0, <1>11 DEF vars, client, task, counts
<1> QED
  BY <1>1, <1>2, <1>3, <1>4, <1>5, <1>6, <1>7, <1>8, <1>9, <1>10, <1>11 DEF Next, Parse

LEMMA InitTypes == Init => Types
BY ConstantsAssumption
   DEF Init, Types, HandleTypes, QueueTypes, TaskTypes, Sessions, Places, Nothing, Lines, Kinds

LEMMA TypesKept == Types /\ [Next]_vars => Types'
BY HandleTypesKept, QueueTypesKept, TaskTypesKept DEF Types

(* The types of the state, and no semaphore with more tokens than it was    *)
(* created for, whatever the module, the network and the program do.        *)
THEOREM TypeCorrect == Spec => []TypeOK
<1>1. Types => TypeOK
  BY DEF Types, HandleTypes, QueueTypes, TaskTypes, TypeOK, Sessions
<1> QED
  BY <1>1, InitTypes, TypesKept, PTL DEF Spec

-----------------------------------------------------------------------------
(* The lines on their way.                                                  *)

NoReply(w) == \A i \in 1 .. Len(w) : w[i].urc \notin Replies
AtMostOneReply(w) ==
    \A i, j \in 1 .. Len(w) : w[i].urc \in Replies /\ w[j].urc \in Replies => i = j

\* A command has one owner, and only it waits for an OK or ERROR.
Exchange ==
    /\ \A t \in lock : lock = {t}
    /\ lock = {} => reply = "none"
    /\ AtMostOneReply(wire)
    /\ lock = {} \/ reply # "none" => NoReply(wire)

-----------------------------------------------------------------------------
(* ql_mqtt_connect succeeds only with a session.                            *)

Raises(x) == x.urc = "conn" /\ ~x.err
Lowers(x) ==
    x.urc \in {"open", "close"} \/ (x.urc = "disc" /\ ~x.err) \/ (x.urc = "stat" /\ x.err)

NoRaise(w) == \A i \in 1 .. Len(w) : ~Raises(w[i])
LowersLast(w) ==
    \E i \in 1 .. Len(w) : Lowers(w[i]) /\ \A j \in (i + 1) .. Len(w) : ~Raises(w[j])

\* A handle destroyed, or created while a URC was handled, is not connected.
Fresh == ~used \/ (ppc = "status" /\ ph # gen) => status # "connected"

\* The handle of a session that is only open is not connected, or no longer will be.
Settled ==
    sess = "open" =>
        \/ LowersLast(wire)
        \/ /\ NoRaise(wire)
           /\ IF ppc = "status" THEN Lowers(urc) \/ (~Raises(urc) /\ status # "connected")
              ELSE status # "connected"

\* Nothing will make the handle connected, but another command.
Low == status # "connected" /\ NoRaise(wire) /\ ~(ppc = "status" /\ Raises(urc))

Kept(t) == why[t] = "closed" \/ sess = "connected"

\* The wire ends with the module's ERROR, or its OK and the URC of an error.
Refusal(w) ==
    /\ w # <<>> /\ w[Len(w)].urc = "error"
    /\ \A i \in 1 .. Len(w) - 1 : w[i].urc \notin Replies
Denial(w) ==
    /\ Len(w) > 1 /\ w[Len(w) - 1].urc = "ok" /\ w[Len(w)].urc = "conn" /\ w[Len(w)].err
    /\ \A i \in 1 .. Len(w) - 2 : w[i].urc \notin Replies

\* The places of ql_mqtt_connect, and what is known of the session there.
ConnectPlaces == {"open", "opening", "opened", "conn", "connecting", "connected", "refused", "done"}
Place(t) ==
    /\ op[t] = "connect" => pc[t] \in ConnectPlaces
    /\ pc[t] \in ConnectPlaces \ {"refused", "done"} => op[t] = "connect"
    /\ op[t] = "none" <=> pc[t] = "idle"
    /\ result[t] # "none" => pc[t] = "done"
Trying(t) ==
    /\ pc[t] \in {"connecting", "connected"} => Kept(t) \/ Low
    /\ pc[t] = "conn" /\ t \in lock /\ reply = "ok" => Kept(t) \/ Low
    /\ pc[t] = "conn" /\ t \in lock /\ reply = "none" =>
          Kept(t) \/ NoReply(wire) \/ Refusal(wire) \/ (sess = "open" /\ Denial(wire))
    /\ op[t] = "connect" /\ result[t] = "ok" => Kept(t)

InTime == "slow" \notin trouble

Connecting ==
    /\ Fresh /\ Settled
    /\ \A t \in Tasks : Place(t)
    /\ InTime => Exchange /\ \A t \in Tasks : Trying(t)


LEMMA TailOfLines ==
    ASSUME NEW w \in Seq(Lines), w # <<>>
    PROVE  /\ Tail(w) \in Seq(Lines) /\ Len(Tail(w)) = Len(w) - 1 /\ Len(w) \in Nat \ {0}
           /\ Head(w) = w[1] /\ Head(w) \in Lines
           /\ \A i \in 1 .. Len(Tail(w)) : Tail(w)[i] = w[i + 1]
  OBVIOUS

LEMMA TailReplies ==
    ASSUME NEW w \in Seq(Lines), w # <<>>
    PROVE  /\ NoReply(w) => NoReply(Tail(w)) /\ Head(w).urc \notin Replies
           /\ AtMostOneReply(w) => AtMostOneReply(Tail(w))
           /\ AtMostOneReply(w) /\ Head(w).urc \in Replies => NoReply(Tail(w))
<1> DEFINE v == Tail(w)
<1>1. /\ v \in Seq(Lines) /\ Len(v) = Len(w) - 1 /\ Len(w) \in Nat \ {0} /\ Head(w) = w[1]
      /\ \A i \in 1 .. Len(v) : v[i] = w[i + 1]
  BY TailOfLines
<1> HIDE DEF v
<1>2. NoReply(w) => NoReply(v) /\ Head(w).urc \notin Replies
  BY <1>1 DEF NoReply
<1>3. AtMostOneReply(w) => AtMostOneReply(v)
  <2>1. ASSUME AtMostOneReply(w),
               NEW i \in 1 .. Len(v), NEW j \in 1 .. Len(v), v[i].urc \in Replies, v[j].urc \in Replies
        PROVE  i = j
    <3>1. /\ i + 1 \in 1 .. Len(w) /\ w[i + 1].urc \in Replies
          /\ j + 1 \in 1 .. Len(w) /\ w[j + 1].urc \in Replies
      BY <1>1, <2>1
    <3>2. i + 1 = j + 1
      BY <2>1, <3>1 DEF AtMostOneReply
    <3> QED
      BY <3>2
  <2> QED
    BY <2>1 DEF AtMostOneReply
<1>4. AtMostOneReply(w) /\ Head(w).urc \in Replies => NoReply(v)
  BY <1>1 DEF AtMostOneReply, NoReply
<1> QED
  BY <1>2, <1>3, <1>4 DEF v

LEMMA TailStatus ==
    ASSUME NEW w \in Seq(Lines), w # <<>>
    PROVE  /\ NoRaise(w) => NoRaise(Tail(w)) /\ ~Raises(Head(w))
           /\ LowersLast(w) => LowersLast(Tail(w)) \/ (Lowers(Head(w)) /\ NoRaise(Tail(w)))
           /\ Refusal(w) => Refusal(Tail(w)) \/ Head(w).urc = "error"
           /\ Denial(w) => \/ Head(w).urc \notin Replies /\ Denial(Tail(w))
                           \/ Head(w).urc = "ok" /\ NoRaise(w) /\ ~LowersLast(w)
<1> DEFINE v == Tail(w)
<1>1. /\ v \in Seq(Lines) /\ Len(v) = Len(w) - 1 /\ Len(w) \in Nat \ {0} /\ Head(w) = w[1]
      /\ \A i \in 1 .. Len(v) : v[i] = w[i + 1]
  BY TailOfLines
<1> HIDE DEF v
<1>2. v # <<>> <=> Len(v) # 0
  BY <1>1
<1>3. NoRaise(w) => NoRaise(v) /\ ~Raises(Head(w))
  BY <1>1 DEF NoRaise
<1>4. ASSUME LowersLast(w) PROVE LowersLast(v) \/ (Lowers(Head(w)) /\ NoRaise(v))
  <2>1. PICK i \in 1 .. Len(w) : Lowers(w[i]) /\ \A j \in (i + 1) .. Len(w) : ~Raises(w[j])
    BY <1>4 DEF LowersLast
  <2>2. CASE i = 1
    BY <1>1, <2>1, <2>2 DEF NoRaise
  <2>3. CASE i # 1
    <3>1. i - 1 \in 1 .. Len(v) /\ v[i - 1] = w[i]
      BY <1>1, <2>1, <2>3
    <3>2. \A j \in ((i - 1) + 1) .. Len(v) : ~Raises(v[j])
      BY <1>1, <2>1, <2>3
    <3> QED
      BY <2>1, <3>1, <3>2 DEF LowersLast
  <2> QED
    BY <2>2, <2>3
<1>5. Refusal(w) => Refusal(v) \/ Head(w).urc = "error"
  BY <1>1, <1>2, SMTT(30) DEF Refusal
<1>6. ASSUME Denial(w), Len(w) = 2
      PROVE  Head(w).urc = "ok" /\ NoRaise(w) /\ ~LowersLast(w)
  BY <1>1, <1>6 DEF Denial, NoRaise, LowersLast, Raises, Lowers
<1>7. ASSUME Denial(w), Len(w) # 2
      PROVE  Head(w).urc \notin Replies /\ Denial(v)
  <2>1. Len(w) > 2 /\ w[Len(w) - 1].urc = "ok" /\ w[Len(w)].urc = "conn" /\ w[Len(w)].err
        /\ \A i \in 1 .. Len(w) - 2 : w[i].urc \notin Replies
    BY <1>1, <1>7 DEF Denial
  <2>2. v[Len(v) - 1] = w[Len(w) - 1] /\ v[Len(v)] = w[Len(w)]
    BY <1>1, <2>1
  <2>3. \A i \in 1 .. Len(v) - 2 : v[i].urc \notin Replies
    BY <1>1, <2>1, SMTT(30)
  <2>4. Head(w).urc \notin Replies
    BY <1>1, <2>1
  <2> QED
    BY <1>1, <2>1, <2>2, <2>3, <2>4 DEF Denial
<1>8. Denial(w) => \/ Head(w).urc \notin Replies /\ Denial(v)
                   \/ Head(w).urc = "ok" /\ NoRaise(w) /\ ~LowersLast(w)
  <2>1. CASE Len(w) = 2
    BY <1>6, <2>1
  <2>2. CASE Len(w) # 2
    BY <1>7, <2>2
  <2> QED
    BY <2>1, <2>2
<1> QED
  BY <1>3, <1>4, <1>5, <1>8 DEF v

LEMMA ConcatLines ==
    ASSUME NEW w \in Seq(Lines), NEW M \in Seq(Lines)
    PROVE  /\ NoReply(w) /\ NoReply(M) => NoReply(w \o M)
           /\ NoReply(w) /\ AtMostOneReply(M) => AtMostOneReply(w \o M)
           /\ AtMostOneReply(w) /\ NoReply(M) => AtMostOneReply(w \o M)
           /\ NoRaise(w) /\ NoRaise(M) => NoRaise(w \o M)
           /\ LowersLast(w) /\ NoRaise(M) => LowersLast(w \o M)
           /\ LowersLast(M) => LowersLast(w \o M)
           /\ NoReply(w) /\ Refusal(M) => Refusal(w \o M)
           /\ NoReply(w) /\ Denial(M) => Denial(w \o M)
<1> DEFINE v == w \o M
           m == Len(w)
           n == Len(M)
<1>1. /\ v \in Seq(Lines) /\ Len(v) = m + n /\ m \in Nat /\ n \in Nat
      /\ \A i \in 1 .. m : v[i] = w[i]
      /\ \A i \in (m + 1) .. (m + n) : v[i] = M[i - m]
  BY ConcatProperties
<1> HIDE DEF v
<1>2. /\ v # <<>> <=> Len(v) # 0
      /\ M # <<>> <=> n # 0
  BY <1>1
<1> HIDE DEF m, n
<1>0. \A i \in 1 .. Len(v) : \/ i \in 1 .. m /\ v[i] = w[i]
                             \/ i - m \in 1 .. n /\ v[i] = M[i - m]
  BY <1>1
<1>3. NoReply(w) /\ NoReply(M) => NoReply(v)
  BY <1>0 DEF NoReply, m, n
<1>11. \A i \in 1 .. n : m + i \in 1 .. Len(v) /\ v[m + i] = M[i]
  <2> TAKE i \in 1 .. n
  <2>1. m + i \in (m + 1) .. (m + n) /\ (m + i) - m = i
    BY <1>1
  <2>2. v[m + i] = M[(m + i) - m]
    BY <1>1, <2>1
  <2> QED
    BY <1>1, <2>1, <2>2
<1>4. NoReply(w) /\ AtMostOneReply(M) => AtMostOneReply(v)
  <2>1. ASSUME NoReply(w), AtMostOneReply(M),
               NEW i \in 1 .. Len(v), NEW j \in 1 .. Len(v), v[i].urc \in Replies, v[j].urc \in Replies
        PROVE  i = j
    <3>1. i - m \in 1 .. n /\ v[i] = M[i - m] /\ j - m \in 1 .. n /\ v[j] = M[j - m]
      BY <1>0, <2>1 DEF NoReply, m
    <3>2. i - m = j - m
      BY <2>1, <3>1 DEF AtMostOneReply, n
    <3> QED
      BY <1>1, <3>2
  <2> QED
    BY <2>1 DEF AtMostOneReply
<1>5. AtMostOneReply(w) /\ NoReply(M) => AtMostOneReply(v)
  <2>1. ASSUME AtMostOneReply(w), NoReply(M),
               NEW i \in 1 .. Len(v), NEW j \in 1 .. Len(v), v[i].urc \in Replies, v[j].urc \in Replies
        PROVE  i = j
    <3>1. i \in 1 .. m /\ v[i] = w[i] /\ j \in 1 .. m /\ v[j] = w[j]
      BY <1>0, <2>1 DEF NoReply, n
    <3> QED
      BY <2>1, <3>1 DEF AtMostOneReply, m
  <2> QED
    BY <2>1 DEF AtMostOneReply
<1>6. NoRaise(w) /\ NoRaise(M) => NoRaise(v)
  BY <1>0 DEF NoRaise, m, n
<1>7. ASSUME LowersLast(w), NoRaise(M) PROVE LowersLast(v)
  <2>1. PICK i \in 1 .. m : Lowers(w[i]) /\ \A j \in (i + 1) .. m : ~Raises(w[j])
    BY <1>7 DEF LowersLast, m
  <2>2. i \in 1 .. Len(v) /\ Lowers(v[i])
    BY <1>1, <2>1
  <2>3. \A j \in (i + 1) .. Len(v) : ~Raises(v[j])
    <3> TAKE j \in (i + 1) .. Len(v)
    <3>1. j \in 1 .. Len(v)
      BY <1>1, <2>1
    <3>2. CASE j \in 1 .. m /\ v[j] = w[j]
      BY <2>1, <3>2
    <3>3. CASE j - m \in 1 .. n /\ v[j] = M[j - m]
      BY <1>7, <3>3 DEF NoRaise, n
    <3> QED
      BY <1>0, <3>1, <3>2, <3>3
  <2> QED
    BY <2>2, <2>3 DEF LowersLast
<1>8. ASSUME LowersLast(M) PROVE LowersLast(v)
  <2>1. PICK i \in 1 .. n : Lowers(M[i]) /\ \A j \in (i + 1) .. n : ~Raises(M[j])
    BY <1>8 DEF LowersLast, n
  <2>2. m + i \in 1 .. Len(v) /\ Lowers(v[m + i])
    BY <1>11, <2>1
  <2>3. \A j \in ((m + i) + 1) .. Len(v) : ~Raises(v[j])
    <3> TAKE j \in ((m + i) + 1) .. Len(v)
    <3>1. j \in (m + 1) .. (m + n) /\ j - m \in (i + 1) .. n
      BY <1>1, <2>1
    <3>2. v[j] = M[j - m]
      BY <1>1, <3>1
    <3> QED
      BY <2>1, <3>1, <3>2
  <2> QED
    BY <2>2, <2>3 DEF LowersLast
<1>9. ASSUME NoReply(w), Refusal(M) PROVE Refusal(v)
  <2>1. n > 0 /\ M[n].urc = "error" /\ \A i \in 1 .. n - 1 : M[i].urc \notin Replies
    BY <1>1, <1>2, <1>9 DEF Refusal, n
  <2>2. v # <<>> /\ v[Len(v)] = M[n]
    BY <1>1, <1>2, <2>1
  <2>3. \A i \in 1 .. Len(v) - 1 : v[i].urc \notin Replies
    <3> TAKE i \in 1 .. Len(v) - 1
    <3>1. i \in 1 .. Len(v)
      BY <1>1, <2>1
    <3>2. CASE i \in 1 .. m /\ v[i] = w[i]
      BY <1>9, <3>2 DEF NoReply, m
    <3>3. CASE i - m \in 1 .. n /\ v[i] = M[i - m]
      <4>1. i - m \in 1 .. n - 1
        BY <1>1, <3>3
      <4> QED
        BY <2>1, <3>3, <4>1
    <3> QED
      BY <1>0, <3>1, <3>2, <3>3
  <2> QED
    BY <2>1, <2>2, <2>3 DEF Refusal
<1>10. ASSUME NoReply(w), Denial(M) PROVE Denial(v)
  <2>1. n > 1 /\ M[n - 1].urc = "ok" /\ M[n].urc = "conn" /\ M[n].err
        /\ \A i \in 1 .. n - 2 : M[i].urc \notin Replies
    BY <1>10 DEF Denial, n
  <2>2. v[Len(v)] = M[n] /\ v[Len(v) - 1] = M[n - 1] /\ Len(v) > 1
    BY <1>1, <2>1
  <2>3. \A i \in 1 .. Len(v) - 2 : v[i].urc \notin Replies
    <3> TAKE i \in 1 .. Len(v) - 2
    <3>1. i \in 1 .. Len(v)
      BY <1>1, <2>1
    <3>2. CASE i \in 1 .. m /\ v[i] = w[i]
      BY <1>10, <3>2 DEF NoReply, m
    <3>3. CASE i - m \in 1 .. n /\ v[i] = M[i - m]
      <4>1. i - m \in 1 .. n - 2
        BY <1>1, <3>3
      <4> QED
        BY <2>1, <3>3, <4>1
    <3> QED
      BY <1>0, <3>1, <3>2, <3>3
  <2> QED
    BY <2>1, <2>2, <2>3 DEF Denial
<1> QED
  BY <1>3, <1>4, <1>5, <1>6, <1>7, <1>8, <1>9, <1>10 DEF v

(* What of the answer to a command matters to these invariants.             *)
Answer(t, M) ==
    /\ AtMostOneReply(M)
    /\ NoRaise(M) \/ sess' = "connected"
    /\ sess' = "open" => sess = "open" \/ LowersLast(M)
    /\ pc[t] = "conn" => Refusal(M) \/ (sess' = "open" /\ Denial(M)) \/ sess' = "connected"
    /\ sess' = "connected" \/ sess # "connected" \/ why' = Ended
    /\ \A u \in Tasks : u # t /\ pc[u] # "idle" => why'[u] = why[u] \/ why'[u] = "closed"

LEMMA AnswerLines ==
    ASSUME Types, NEW t \in Tasks, Executed(t)
    PROVE  \E M \in Seq(Lines) : wire' = wire \o M /\ Answer(t, M)
<1>1. PICK M \in Seq(Lines) : wire' = wire \o M /\ Effect(t, M)
  BY Effects
<1>2. TaskTypes /\ sess \in Sessions
  BY DEF Types, HandleTypes
<1>3. \A u, e : Line(u, e).urc = u /\ Line(u, e).err = e
  BY DEF Line
<1>4. \A x, y, z : /\ Len(<<x>>) = 1 /\ <<x>>[1] = x /\ <<x>> # <<>>
                  /\ Len(<<x, y>>) = 2 /\ <<x, y>>[1] = x /\ <<x, y>>[2] = y
                  /\ Len(<<x, y, z>>) = 3 /\ <<x, y, z>>[1] = x /\ <<x, y, z>>[2] = y
                  /\ <<x, y, z>>[3] = z
  OBVIOUS
<1> DEFINE ok == Line("ok", FALSE)
<1>5. ASSUME NEW u \in {"open", "conn", "disc", "close", "ack", "unsub"}, NEW e \in BOOLEAN,
             M = <<ok, Line(u, e)>>
      PROVE  /\ AtMostOneReply(M)
             /\ u # "conn" \/ e => NoRaise(M)
             /\ u = "open" => LowersLast(M)
             /\ u = "conn" /\ e => Denial(M)
  <2>1. Len(M) = 2 /\ M[1].urc = "ok" /\ M[2].urc = u /\ M[2].err = e
    BY <1>3, <1>4, <1>5, ZenonT(60)
  <2>2. AtMostOneReply(M)
    BY <2>1 DEF AtMostOneReply, Replies
  <2>3. u # "conn" \/ e => NoRaise(M)
    BY <2>1 DEF NoRaise, Raises
  <2>4. u = "open" => LowersLast(M)
    BY <2>1 DEF LowersLast, Lowers
  <2>5. u = "conn" /\ e => Denial(M)
    BY <2>1 DEF Denial
  <2> QED
    BY <2>2, <2>3, <2>4, <2>5
<1>6. ASSUME M = <<ok, Line("disc", FALSE), Line("stat", TRUE)>>
      PROVE  AtMostOneReply(M) /\ NoRaise(M)
  <2>1. Len(M) = 3 /\ M[1].urc = "ok" /\ M[2].urc = "disc" /\ M[3].urc = "stat"
    BY <1>3, <1>4, <1>6
  <2> QED
    BY <2>1 DEF AtMostOneReply, Replies, NoRaise, Raises
<1>7. ASSUME M = <<Line("error", TRUE)>>
      PROVE  AtMostOneReply(M) /\ NoRaise(M) /\ Refusal(M)
  <2>1. Len(M) = 1 /\ M[1].urc = "error" /\ M # <<>>
    BY <1>3, <1>4, <1>7
  <2> QED
    BY <2>1 DEF AtMostOneReply, NoRaise, Raises, Refusal
<1>8. \A u \in Tasks : pc[u] # "idle" => Ended[u] = "closed"
  BY DEF Ended
<1>9. \A u \in Tasks : u # t => [why EXCEPT ![t] = "error"][u] = why[u]
  BY <1>2 DEF TaskTypes
<1> SUFFICES Answer(t, M)
  BY <1>1
<1>10. CASE Refuses(t, M)
  BY <1>2, <1>7, <1>9, <1>10 DEF Refuses, Answer, Sessions
<1>11. CASE Opens(t, M)
  <2>1. PICK e \in BOOLEAN : /\ M = <<ok, Line("open", e)>>
                             /\ sess' = IF sess = "closed" /\ ~e THEN "open" ELSE sess
                             /\ why' = IF e THEN [why EXCEPT ![t] = "error"] ELSE why
    BY <1>11 DEF Opens
  <2>2. AtMostOneReply(M) /\ NoRaise(M) /\ LowersLast(M)
    BY <1>5, <2>1
  <2>3. pc[t] # "conn"
    BY <1>11 DEF Opens
  <2> QED
    BY <1>9, <2>1, <2>2, <2>3 DEF Answer
<1>12. CASE Connects(t, M)
  <2>1. PICK e \in BOOLEAN : /\ M = <<ok, Line("conn", e)>>
                             /\ sess' = IF e THEN "open" ELSE "connected"
                             /\ why' = IF e THEN [why EXCEPT ![t] = "error"] ELSE why
    BY <1>12 DEF Connects
  <2>2. AtMostOneReply(M) /\ (e => NoRaise(M) /\ Denial(M)) /\ sess = "open"
    BY <1>5, <1>12, <2>1 DEF Connects
  <2> QED
    BY <1>9, <2>1, <2>2 DEF Answer
<1>13. CASE Disconnects(t, M)
  <2>1. AtMostOneReply(M) /\ NoRaise(M) /\ sess' = "closed" /\ why' = Ended /\ pc[t] # "conn"
    BY <1>5, <1>6, <1>13 DEF Disconnects
  <2> QED
    BY <1>8, <2>1 DEF Answer
<1>17. CASE Remains(t, M)
  <2>1. AtMostOneReply(M) /\ NoRaise(M) /\ sess' = sess /\ pc[t] # "conn"
        /\ why' = [why EXCEPT ![t] = "error"]
    BY <1>5, <1>17 DEF Remains
  <2> QED
    BY <1>9, <2>1 DEF Answer
<1>14. CASE Closes(t, M)
  <2>1. AtMostOneReply(M) /\ NoRaise(M) /\ sess' = "closed" /\ why' = Ended /\ pc[t] # "conn"
    BY <1>5, <1>14 DEF Closes
  <2> QED
    BY <1>8, <2>1 DEF Answer
<1>15. CASE Acknowledges(t, M)
  <2>1. PICK e \in BOOLEAN : /\ M = <<ok, Line("ack", e)>>
                             /\ why' = IF e THEN [why EXCEPT ![t] = "error"] ELSE why
    BY <1>15 DEF Acknowledges
  <2>2. AtMostOneReply(M) /\ NoRaise(M) /\ sess' = sess /\ pc[t] # "conn"
    BY <1>5, <1>15, <2>1 DEF Acknowledges
  <2> QED
    BY <1>9, <2>1, <2>2 DEF Answer
<1>16. CASE Unsubscribes(t, M)
  <2>1. AtMostOneReply(M) /\ NoRaise(M) /\ sess' = sess /\ why' = why /\ pc[t] # "conn"
    BY <1>5, <1>16 DEF Unsubscribes
  <2> QED
    BY <2>1 DEF Answer
<1> QED
  BY <1>1, <1>10, <1>11, <1>12, <1>13, <1>14, <1>15, <1>16, <1>17 DEF Effect

(* The lines of the network, and of a packet sent again.                    *)
LEMMA PeerLine ==
    ASSUME Types, PeerCloses \/ Retransmits
    PROVE  \E M \in Seq(Lines) : wire' = wire \o M /\ NoReply(M) /\ NoRaise(M)
<1>1. PICK u \in {"stat", "ack"}, e \in BOOLEAN :
        wire' = Append(wire, [urc |-> u, err |-> e, of |-> 0])
  BY DEF PeerCloses, Retransmits
<1> DEFINE x == [urc |-> u, err |-> e, of |-> 0]
<1>2. x \in Lines /\ x.urc \in {"stat", "ack"}
  BY DEF Lines, Kinds
<1>3. wire \in Seq(Lines)
  BY DEF Types, QueueTypes
<1>4. wire' = Append(wire, x)
  BY <1>1
<1> HIDE DEF x
<1>5. wire' = wire \o <<x>> /\ <<x>> \in Seq(Lines) /\ Len(<<x>>) = 1 /\ <<x>>[1] = x
  BY <1>2, <1>3, <1>4, AppendIsConcat
<1>6. NoReply(<<x>>) /\ NoRaise(<<x>>)
  BY <1>2, <1>5 DEF NoReply, NoRaise, Replies, Raises
<1> QED
  BY <1>5, <1>6 DEF x

(* A step that leaves the lines, the client's lock and the session alone.   *)
Aloof == UNCHANGED <<wire, sess, lock, reply>>

LEMMA WhoTouches ==
    ASSUME [Next]_vars
    PROVE  \/ Aloof \/ PeerCloses \/ Retransmits \/ ReadReply \/ Find
           \/ \E t \in Tasks : Executed(t) \/ Unheard(t) \/ GiveUp(t) \/ Answered(t)
<1>1. CASE SetStatus \/ Post \/ Destroy \/ Create
  BY <1>1 DEF SetStatus, Post, Destroy, Create, Aloof, module, client
<1>2. ASSUME NEW t \in Tasks, Starts(t)
      PROVE  Aloof
  BY <1>2 DEF Starts, Connect, Publish, Subscribe, Unsubscribe, Disconnect, Call, Aloof, module, client
<1>3. ASSUME NEW t \in Tasks, Step(t)
      PROVE  Aloof \/ Executed(t) \/ Unheard(t) \/ GiveUp(t) \/ Answered(t)
  BY <1>3 DEF Step, Woken, TimesOut, Refused, Opened, Connected, Acked,
               Leave, Left, Close, Closed, Done, others, module, client, Aloof
<1>4. CASE UNCHANGED vars
  BY <1>4 DEF vars, Aloof, module, client
<1> QED
  BY <1>1, <1>2, <1>3, <1>4 DEF Next, Parse

LEMMA ExchangeKept ==
    ASSUME Types, Exchange, [Next]_vars, InTime'
    PROVE  Exchange'
<1>1. wire \in Seq(Lines) /\ lock \in SUBSET Tasks
  BY DEF Types, QueueTypes, TaskTypes
<1> USE DEF Exchange
<1>2. CASE Aloof
  BY <1>2 DEF Aloof
<1>3. CASE PeerCloses \/ Retransmits
  <2>1. PICK M \in Seq(Lines) : wire' = wire \o M /\ NoReply(M)
    BY <1>3, PeerLine
  <2>2. UNCHANGED <<lock, reply>>
    BY <1>3 DEF PeerCloses, Retransmits, client
  <2>3. AtMostOneReply(wire') /\ (NoReply(wire) => NoReply(wire'))
    BY <1>1, <2>1, ConcatLines
  <2> QED
    BY <2>2, <2>3
<1>4. CASE ReadReply
  <2>1. NoReply(wire') /\ AtMostOneReply(wire') /\ ~NoReply(wire)
    BY <1>1, <1>4, TailReplies DEF ReadReply
  <2> QED
    BY <1>4, <2>1 DEF ReadReply
<1>5. CASE Find
  <2>1. AtMostOneReply(wire') /\ (NoReply(wire) => NoReply(wire'))
    BY <1>1, <1>5, TailReplies DEF Find
  <2> QED
    BY <1>5, <2>1 DEF Find, client
<1>6. ASSUME NEW t \in Tasks, Executed(t)
      PROVE  Exchange'
  <2>1. PICK M \in Seq(Lines) : wire' = wire \o M /\ AtMostOneReply(M)
    BY <1>6, AnswerLines DEF Answer
  <2>2. NoReply(wire)
    BY <1>6 DEF Executed, Send
  <2>3. AtMostOneReply(wire')
    BY <1>1, <2>1, <2>2, ConcatLines
  <2> QED
    BY <1>6, <2>3 DEF Executed, Send
<1>7. ASSUME NEW t \in Tasks, Unheard(t) \/ Answered(t)
      PROVE  Exchange'
  BY <1>7 DEF Unheard, Send, Answered, module
<1>8. ASSUME NEW t \in Tasks, GiveUp(t)
      PROVE  Exchange'
  <2>1. NoReply(wire)
    BY <1>8 DEF GiveUp, Happens, InTime, NoReply
  <2> QED
    BY <1>8, <2>1 DEF GiveUp, module
<1> QED
  BY <1>2, <1>3, <1>4, <1>5, <1>6, <1>7, <1>8, WhoTouches

LEMMA FreshKept ==
    ASSUME Types, Fresh, [Next]_vars
    PROVE  Fresh'
<1>0. HandleTypes
  BY DEF Types
<1> USE DEF Fresh, HandleTypes
<1>1. CASE PeerCloses \/ Retransmits \/ ReadReply
  BY <1>1 DEF PeerCloses, Retransmits, ReadReply, parser
<1>2. CASE Find
  BY <1>0, <1>2, ConstantsAssumption DEF Find, parser
<1>3. CASE SetStatus
  BY <1>3 DEF SetStatus, Mine
<1>4. CASE Post
  BY <1>0, <1>4 DEF Post
<1>5. CASE Destroy
  BY <1>5 DEF Destroy, parser
<1>6. CASE Create
  BY <1>0, <1>6 DEF Create, parser
<1>7. ASSUME NEW t \in Tasks, Starts(t)
      PROVE  Fresh'
  BY <1>7 DEF Starts, Connect, Publish, Subscribe, Unsubscribe, Disconnect, Call, parser
<1>8. ASSUME NEW t \in Tasks, Step(t)
      PROVE  Fresh'
  BY <1>8 DEF Step, Executed, Unheard, Send, GiveUp, Answered, Woken, TimesOut, Refused, Opened, Connected,
              Acked, Leave, Left, Close, Closed, Done, others, parser, Return
<1>9. CASE UNCHANGED vars
  BY <1>9 DEF vars, parser
<1> QED
  BY <1>1, <1>2, <1>3, <1>4, <1>5, <1>6, <1>7, <1>8, <1>9 DEF Next, Parse

(* A step of a task leaves the parser alone and does not make the handle    *)
(* connected.                                                               *)
LEMMA TasksLower ==
    ASSUME NEW t \in Tasks, Starts(t) \/ Step(t)
    PROVE  UNCHANGED parser /\ (status # "connected" => status' # "connected")
<1>1. CASE Starts(t)
  BY <1>1 DEF Starts, Connect, Publish, Subscribe, Unsubscribe, Disconnect, Call
<1>2. CASE Step(t)
  BY <1>2 DEF Step, Executed, Unheard, Send, GiveUp, Answered, Woken, TimesOut, Refused, Opened, Connected,
              Acked, Leave, Left, Close, Closed, Done, others, parser, Return
<1> QED
  BY <1>1, <1>2

LEMMA SettledKept ==
    ASSUME Types, Fresh, Settled, [Next]_vars
    PROVE  Settled'
<1>1. wire \in Seq(Lines) /\ sess \in Sessions
  BY DEF Types, QueueTypes, HandleTypes
<1>2. CASE PeerCloses \/ Retransmits
  BY <1>2 DEF PeerCloses, Retransmits, Settled
<1>3. CASE ReadReply
  <2>1. ~Lowers(Head(wire)) /\ UNCHANGED <<sess, status, ppc, urc>>
    BY <1>3 DEF ReadReply, Lowers, Replies, parser
  <2>2. (NoRaise(wire) => NoRaise(wire')) /\ (LowersLast(wire) => LowersLast(wire'))
    BY <1>1, <1>3, <2>1, TailStatus DEF ReadReply
  <2> QED
    BY <2>1, <2>2 DEF Settled
<1>4. CASE Find
  <2>1. UNCHANGED <<sess, status>> /\ wire # <<>> /\ ppc = "idle" /\ wire' = Tail(wire)
    BY <1>4 DEF Find, module
  <2>2. /\ NoRaise(wire) => NoRaise(wire') /\ ~Raises(Head(wire))
        /\ LowersLast(wire) => LowersLast(wire') \/ (Lowers(Head(wire)) /\ NoRaise(wire'))
    BY <1>1, <2>1, TailStatus
  <2>3. CASE used /\ Head(wire).urc # "unsub"
    <3>1. ppc' = "status" /\ urc' = Head(wire)
      BY <1>4, <2>3 DEF Find
    <3> QED
      BY <2>1, <2>2, <3>1 DEF Settled
  <2>4. CASE ~(used /\ Head(wire).urc # "unsub")
    <3>1. UNCHANGED <<ppc, urc>>
      BY <1>4, <2>4 DEF Find, parser
    <3>2. Lowers(Head(wire)) => status # "connected"
      BY <2>4 DEF Lowers, Fresh
    <3> QED
      BY <2>1, <2>2, <3>1, <3>2 DEF Settled
  <2> QED
    BY <2>3, <2>4
<1>5. CASE SetStatus
  <2>1. UNCHANGED <<sess, wire>> /\ ppc = "status" /\ ppc' = "post"
        /\ status' = IF Mine THEN StatusAfter ELSE status
    BY <1>5 DEF SetStatus, module
  <2>2. Lowers(urc) => StatusAfter # "connected"
    BY DEF Lowers, StatusAfter
  <2>3. ~Raises(urc) /\ status # "connected" => StatusAfter # "connected"
    BY DEF Raises, StatusAfter
  <2>4. ~Mine => status # "connected"
    BY <2>1 DEF Fresh, Mine
  <2> QED
    BY <2>1, <2>2, <2>3, <2>4 DEF Settled
<1>6. CASE Post \/ Create
  BY <1>6 DEF Post, Create, module, parser, Settled
<1>7. CASE Destroy
  BY <1>7 DEF Destroy, module, parser, Settled
<1>8. ASSUME NEW t \in Tasks, Executed(t)
      PROVE  Settled'
  <2>1. PICK M \in Seq(Lines) : wire' = wire \o M /\ Answer(t, M)
    BY <1>8, AnswerLines
  <2>2. UNCHANGED <<status, ppc, urc>>
    BY <1>8 DEF Executed, Send, parser
  <2>3. CASE sess' = "open"
    <3>1. NoRaise(M) /\ (sess = "open" \/ LowersLast(M))
      BY <2>1, <2>3 DEF Answer
    <3>2. /\ LowersLast(M) => LowersLast(wire')
          /\ LowersLast(wire) => LowersLast(wire')
          /\ NoRaise(wire) => NoRaise(wire')
      BY <1>1, <2>1, <3>1, ConcatLines
    <3> QED
      BY <2>2, <3>1, <3>2 DEF Settled
  <2> QED
    BY <2>3 DEF Settled
<1>9. ASSUME NEW t \in Tasks, Starts(t) \/ Step(t), ~Executed(t)
      PROVE  Settled'
  <2>1. UNCHANGED <<wire, sess>>
    BY <1>9 DEF Starts, Connect, Publish, Subscribe, Unsubscribe, Disconnect, Call,
                Step, Unheard, Send, GiveUp, Answered, Woken, TimesOut, Refused, Opened, Connected,
                Acked, Leave, Left, Close, Closed, Done, others, module, Return
  <2>2. UNCHANGED parser /\ (status # "connected" => status' # "connected")
    BY <1>9, TasksLower
  <2> QED
    BY <2>1, <2>2 DEF Settled, parser
<1>10. CASE UNCHANGED vars
  BY <1>10 DEF vars, module, parser, Settled
<1> QED
  BY <1>2, <1>3, <1>4, <1>5, <1>6, <1>7, <1>8, <1>9, <1>10 DEF Next, Parse

LEMMA LowKept ==
    ASSUME Types, Low, [Next]_vars
    PROVE  Low' \/ sess' = "connected"
<1>1. wire \in Seq(Lines)
  BY DEF Types, QueueTypes
<1> USE DEF Low
<1>2. CASE PeerCloses \/ Retransmits
  <2>1. PICK M \in Seq(Lines) : wire' = wire \o M /\ NoRaise(M)
    BY <1>2, PeerLine
  <2>2. NoRaise(wire')
    BY <1>1, <2>1, ConcatLines
  <2> QED
    BY <1>2, <2>2 DEF PeerCloses, Retransmits, parser
<1>3. CASE ReadReply
  <2>1. NoRaise(wire')
    BY <1>1, <1>3, TailStatus DEF ReadReply
  <2> QED
    BY <1>3, <2>1 DEF ReadReply, parser
<1>4. CASE Find
  <2>1. NoRaise(wire') /\ ~Raises(Head(wire))
    BY <1>1, <1>4, TailStatus DEF Find
  <2> QED
    BY <1>4, <2>1 DEF Find, parser
<1>5. CASE SetStatus
  <2>1. StatusAfter # "connected"
    BY <1>5 DEF SetStatus, StatusAfter, Raises
  <2> QED
    BY <1>5, <2>1 DEF SetStatus, module
<1>6. CASE Post \/ Create \/ Destroy
  BY <1>6 DEF Post, Create, Destroy, module, parser
<1>7. ASSUME NEW t \in Tasks, Executed(t)
      PROVE  Low' \/ sess' = "connected"
  <2>1. PICK M \in Seq(Lines) : wire' = wire \o M /\ Answer(t, M)
    BY <1>7, AnswerLines
  <2>2. UNCHANGED <<status, ppc, urc>>
    BY <1>7 DEF Executed, Send, parser
  <2>3. NoRaise(M) => NoRaise(wire')
    BY <1>1, <2>1, ConcatLines
  <2> QED
    BY <2>1, <2>2, <2>3 DEF Answer
<1>8. ASSUME NEW t \in Tasks, Starts(t) \/ Step(t), ~Executed(t)
      PROVE  Low'
  <2>1. UNCHANGED wire
    BY <1>8 DEF Starts, Connect, Publish, Subscribe, Unsubscribe, Disconnect, Call,
                Step, Unheard, Send, GiveUp, Answered, Woken, TimesOut, Refused, Opened, Connected,
                Acked, Leave, Left, Close, Closed, Done, others, module, Return
  <2>2. UNCHANGED parser /\ (status # "connected" => status' # "connected")
    BY <1>8, TasksLower
  <2> QED
    BY <2>1, <2>2 DEF parser
<1>9. CASE UNCHANGED vars
  BY <1>9 DEF vars, module, parser
<1> QED
  BY <1>2, <1>3, <1>4, <1>5, <1>6, <1>7, <1>8, <1>9 DEF Next, Parse

(* A session stays, or its end is known to every call on its way.           *)
LEMMA KeptKept ==
    ASSUME Types, NEW u \in Tasks, Kept(u), pc[u] # "idle", [Next]_vars,
           ~Executed(u), ~GiveUp(u), ~Done(u)
    PROVE  Kept(u)'
<1>0. TaskTypes
  BY DEF Types
<1>1. CASE PeerCloses
  BY <1>1 DEF PeerCloses, Ended, Kept
<1>2. CASE Retransmits \/ ReadReply \/ Find \/ SetStatus \/ Post \/ Destroy \/ Create
  BY <1>2 DEF Retransmits, ReadReply, Find, SetStatus, Post, Destroy, Create, module, task, Kept
<1>3. ASSUME NEW t \in Tasks, Starts(t)
      PROVE  Kept(u)'
  BY <1>3 DEF Starts, Connect, Publish, Subscribe, Unsubscribe, Disconnect, Call, module, Kept
<1>4. ASSUME NEW t \in Tasks, Executed(t)
      PROVE  Kept(u)'
  <2>1. PICK M \in Seq(Lines) : wire' = wire \o M /\ Answer(t, M)
    BY <1>4, AnswerLines
  <2>2. t # u
    BY <1>4
  <2> QED
    BY <2>1, <2>2 DEF Answer, Kept, Ended
<1>5. ASSUME NEW t \in Tasks, GiveUp(t) \/ Done(t)
      PROVE  Kept(u)'
  <2>1. t # u
    BY <1>5
  <2> QED
    BY <1>0, <1>5, <2>1 DEF GiveUp, Done, others, module, Kept, TaskTypes
<1>6. ASSUME NEW t \in Tasks, Step(t), ~Executed(t), ~GiveUp(t), ~Done(t)
      PROVE  Kept(u)'
  BY <1>6 DEF Step, Unheard, Answered, Woken, TimesOut, Refused, Opened, Connected,
              Acked, Leave, Left, Close, Closed, others, module, Return, Kept
<1>7. CASE UNCHANGED vars
  BY <1>7 DEF vars, module, task, Kept
<1> QED
  BY <1>1, <1>2, <1>3, <1>4, <1>5, <1>6, <1>7 DEF Next, Parse

LEMMA PlaceKept ==
    ASSUME Types, NEW u \in Tasks, Place(u), [Next]_vars
    PROVE  Place(u)'
<1>0. TaskTypes
  BY DEF Types
<1> USE DEF TaskTypes, Place, ConnectPlaces
<1>1. CASE PeerCloses \/ Retransmits \/ ReadReply \/ Find \/ SetStatus \/ Post \/ Destroy \/ Create
  BY <1>1 DEF PeerCloses, Retransmits, ReadReply, Find, SetStatus, Post, Destroy, Create, task
<1>2. ASSUME NEW t \in Tasks, Starts(t)
      PROVE  Place(u)'
  BY <1>0, <1>2 DEF Starts, Connect, Publish, Subscribe, Unsubscribe, Disconnect, Call
<1>3. ASSUME NEW t \in Tasks, Executed(t) \/ Unheard(t) \/ GiveUp(t)
      PROVE  Place(u)'
  BY <1>3 DEF Executed, Unheard, Send, GiveUp
<1>4. ASSUME NEW t \in Tasks, Answered(t)
      PROVE  Place(u)'
  <2>1. pc[t] \in DOMAIN Command
    BY <1>0, <1>4 DEF Answered
  <2>2. UNCHANGED <<op, result>>
    BY <1>4 DEF Answered
  <2>3. CASE t = u
    <3>1. pc'[u] = (IF reply = "ok" THEN Good[pc[u]] ELSE Bad(pc[u]))
      BY <1>0, <1>4, <2>3 DEF Answered
    <3> QED
      BY <2>1, <2>2, <2>3, <3>1 DEF Good, Bad, Command
  <2>4. CASE t # u
    BY <1>0, <1>4, <2>2, <2>4 DEF Answered
  <2> QED
    BY <2>3, <2>4
<1>5. ASSUME NEW t \in Tasks, Woken(t) \/ TimesOut(t)
      PROVE  Place(u)'
  <2>1. UNCHANGED <<op, result>> /\ pc[t] \in DOMAIN After /\ pc' = [pc EXCEPT ![t] = After[pc[t]]]
    BY <1>5 DEF Woken, TimesOut
  <2>2. CASE t = u
    <3>1. pc'[u] = After[pc[u]]
      BY <1>0, <2>1, <2>2
    <3> QED
      BY <2>1, <2>2, <3>1 DEF After
  <2>3. CASE t # u
    BY <1>0, <2>1, <2>3
  <2> QED
    BY <2>2, <2>3
<1>6. ASSUME NEW t \in Tasks, Step(t), ~Executed(t), ~Unheard(t), ~GiveUp(t), ~Answered(t),
             ~Woken(t), ~TimesOut(t)
      PROVE  Place(u)'
  BY <1>0, <1>6 DEF Step, Refused, Opened, Connected, Acked, Leave, Left, Close, Closed, Done, Return
<1>7. CASE UNCHANGED vars
  BY <1>7 DEF vars, task
<1> QED
  BY <1>1, <1>2, <1>3, <1>4, <1>5, <1>6, <1>7 DEF Next, Parse

(* What another task's step leaves alone.                                   *)
LEMMA OthersSteps ==
    ASSUME TaskTypes, Exchange, NEW u \in Tasks, NEW t \in Tasks \ {u}, Starts(t) \/ Step(t)
    PROVE  /\ pc'[u] = pc[u] /\ op'[u] = op[u] /\ result'[u] = result[u]
           /\ u \in lock' <=> u \in lock
           /\ u \in lock => UNCHANGED <<wire, sess, reply>>
<1> USE DEF TaskTypes
<1>1. CASE Starts(t)
  BY <1>1 DEF Starts, Connect, Publish, Subscribe, Unsubscribe, Disconnect, Call, module, client
<1>2. CASE Executed(t) \/ Unheard(t) \/ GiveUp(t) \/ Answered(t)
  BY <1>2 DEF Executed, Unheard, Send, GiveUp, Answered, Exchange
<1>3. CASE Step(t) /\ ~(Executed(t) \/ Unheard(t) \/ GiveUp(t) \/ Answered(t))
  BY <1>3 DEF Step, Woken, TimesOut, Refused, Opened, Connected,
              Acked, Leave, Left, Close, Closed, Done, others, module, client, Return
<1> QED
  BY <1>1, <1>2, <1>3

LEMMA TryingKept ==
    ASSUME Types, Connecting, InTime, NEW u \in Tasks, [Next]_vars
    PROVE  Trying(u)'
<1>0. TaskTypes /\ wire \in Seq(Lines) /\ Exchange /\ Settled /\ Place(u) /\ Trying(u) /\ Place(u)'
  BY PlaceKept DEF Types, QueueTypes, Connecting
<1>1. ASSUME ~Executed(u), ~GiveUp(u), ~Done(u), pc[u] # "idle", Kept(u) \/ Low
      PROVE  Kept(u)' \/ Low'
  <2>1. Kept(u) => Kept(u)'
    BY <1>1, KeptKept
  <2>2. Low => Low' \/ sess' = "connected"
    BY LowKept
  <2> QED
    BY <1>1, <2>1, <2>2 DEF Kept
<1>2. ASSUME ~Executed(u), ~GiveUp(u), ~Done(u), pc[u] # "idle", Kept(u)
      PROVE  Kept(u)'
  BY <1>2, KeptKept
<1>4. CASE Executed(u)
  <2>1. PICK M \in Seq(Lines) : wire' = wire \o M /\ Answer(u, M)
    BY <1>4, AnswerLines
  <2>2. /\ pc[u] \in DOMAIN Command /\ lock = {} /\ reply' = "none" /\ UNCHANGED <<pc, op, result>>
    BY <1>4 DEF Executed, Send
  <2>3. NoReply(wire)
    BY <1>0, <2>2 DEF Exchange
  <2>4. pc[u] = "conn" => Refusal(wire') \/ (sess' = "open" /\ Denial(wire')) \/ sess' = "connected"
    BY <1>0, <2>1, <2>3, ConcatLines DEF Answer
  <2>5. pc[u] \notin {"connecting", "connected", "done"}
    BY <2>2 DEF Command
  <2> QED
    BY <1>0, <2>2, <2>4, <2>5 DEF Trying, Place, Kept
<1>5. CASE Unheard(u)
  <2>1. /\ pc[u] \in DOMAIN Command /\ lock = {} /\ reply' = "none"
        /\ UNCHANGED <<pc, op, result, wire>>
    BY <1>5 DEF Unheard, Send
  <2>2. pc[u] \notin {"connecting", "connected", "done"} /\ NoReply(wire')
    BY <1>0, <2>1 DEF Command, Exchange
  <2> QED
    BY <1>0, <2>1, <2>2 DEF Trying, Place
<1>18. CASE GiveUp(u)
  <2>1. /\ pc[u] \in DOMAIN Command /\ reply' = "error" /\ UNCHANGED <<pc, op, result>>
    BY <1>0, <1>18 DEF GiveUp, TaskTypes
  <2>2. pc[u] \notin {"connecting", "connected", "done"}
    BY <2>1 DEF Command
  <2> QED
    BY <1>0, <2>1, <2>2 DEF Trying, Place
<1>6. CASE Done(u)
  BY <1>0, <1>6 DEF Done, Trying, TaskTypes
<1>7. CASE Answered(u)
  <2>1. u \in lock /\ lock' = {} /\ op' = op /\ result' = result
        /\ pc' = [pc EXCEPT ![u] = IF reply = "ok" THEN Good[pc[u]] ELSE Bad(pc[u])]
    BY <1>7 DEF Answered
  <2>2. pc[u] \in DOMAIN Command
    BY <1>0, <2>1 DEF TaskTypes
  <2>3. pc'[u] = IF reply = "ok" THEN Good[pc[u]] ELSE Bad(pc[u])
    BY <1>0, <2>1 DEF TaskTypes
  <2>4. pc'[u] # "connected" /\ (pc'[u] = "connecting" => pc[u] = "conn" /\ reply = "ok")
    BY <2>2, <2>3 DEF Command, Good, Bad
  <2>5. pc'[u] = "connecting" => (Kept(u) \/ Low)'
    <3>1. ~Executed(u) /\ ~GiveUp(u) /\ ~Done(u) /\ pc[u] # "idle"
      BY <1>7, <2>1, <2>2 DEF Answered, Executed, Send, GiveUp, Done, Command
    <3> QED
      BY <1>0, <1>1, <2>1, <2>4, <3>1 DEF Trying
  <2>6. result[u] # "ok"
    BY <1>0, <2>2 DEF Place, Command
  <2> QED
    BY <2>1, <2>4, <2>5, <2>6 DEF Trying
<1>8. CASE Woken(u) \/ TimesOut(u)
  <2>1. UNCHANGED <<op, result, lock>> /\ pc[u] \in DOMAIN After /\ pc' = [pc EXCEPT ![u] = After[pc[u]]]
    BY <1>8 DEF Woken, TimesOut, others, client
  <2>2. pc'[u] = After[pc[u]]
    BY <1>0, <2>1 DEF TaskTypes
  <2>3. pc'[u] \notin {"connecting", "conn"} /\ (pc'[u] = "connected" => pc[u] = "connecting")
    BY <2>1, <2>2 DEF After
  <2>4. pc'[u] = "connected" => (Kept(u) \/ Low)'
    <3>1. (~Executed(u) /\ ~GiveUp(u) /\ ~Done(u)) \/ pc[u] # "connecting"
      BY <1>0 DEF Executed, Send, GiveUp, Done, Command, TaskTypes
    <3> QED
      BY <1>0, <1>1, <2>3, <3>1 DEF Trying
  <2>5. result[u] # "ok"
    BY <1>0, <2>1 DEF Place, After
  <2> QED
    BY <2>1, <2>3, <2>4, <2>5 DEF Trying
<1>9. CASE Opened(u)
  <2>1. u \notin lock /\ lock' = lock
    BY <1>0, <1>9 DEF Opened, others, client, TaskTypes, Command
  <2>2. pc'[u] \in {"conn", "done"} /\ result'[u] # "ok"
    BY <1>0, <1>9 DEF Opened, Return, TaskTypes, Place
  <2> QED
    BY <2>1, <2>2 DEF Trying
<1>10. CASE Connected(u)
  <2>1. /\ pc[u] = "connected" /\ pc'[u] = "done"
        /\ result'[u] = IF status = "connected" THEN "ok" ELSE "error"
    BY <1>0, <1>10 DEF Connected, Return, TaskTypes
  <2>2. Kept(u) \/ Low
    BY <1>0, <2>1 DEF Trying
  <2>3. result'[u] = "ok" => Kept(u)'
    <3>1. ~Executed(u) /\ ~GiveUp(u) /\ ~Done(u)
      BY <1>0, <2>1 DEF Executed, Send, GiveUp, Done, Command, TaskTypes
    <3> QED
      BY <1>2, <2>1, <2>2, <3>1 DEF Low
  <2> QED
    BY <2>1, <2>3 DEF Trying
<1>11. CASE Refused(u) \/ Starts(u)
  <2>1. u \notin lock /\ lock' = lock
    BY <1>0, <1>11 DEF Refused, Starts, Connect, Publish, Subscribe, Unsubscribe, Disconnect, Call,
                       others, client, TaskTypes, Command
  <2>2. pc'[u] \notin {"connecting", "connected"} /\ result'[u] # "ok"
    BY <1>0, <1>11 DEF Refused, Starts, Connect, Publish, Subscribe, Unsubscribe, Disconnect, Call,
                       Return, TaskTypes, Place
  <2> QED
    BY <2>1, <2>2 DEF Trying
<1>12. CASE Acked(u) \/ Leave(u) \/ Left(u) \/ Close(u) \/ Closed(u)
  <2>1. op'[u] # "connect"
    BY <1>0, <1>12 DEF Acked, Leave, Left, Close, Closed, Place, ConnectPlaces
  <2>2. pc'[u] \notin {"connecting", "connected", "conn"}
    BY <1>0, <2>1 DEF Place, ConnectPlaces
  <2> QED
    BY <2>1, <2>2 DEF Trying
<1>13. CASE PeerCloses
  <2>1. UNCHANGED <<pc, op, result, lock, reply>> /\ why' = Ended
    BY <1>13 DEF PeerCloses, client
  <2>2. pc[u] # "idle" => Kept(u)'
    BY <2>1 DEF Kept, Ended
  <2> QED
    BY <1>0, <2>1, <2>2 DEF Trying, Place
<1>19. CASE Retransmits
  <2>1. UNCHANGED <<pc, op, result, lock, reply, why, sess>> /\ sess = "connected"
    BY <1>19 DEF Retransmits, client, task
  <2>2. Kept(u)'
    BY <2>1 DEF Kept
  <2> QED
    BY <1>0, <2>1, <2>2 DEF Trying
<1>14. CASE ReadReply
  <2>1. /\ UNCHANGED <<pc, op, result, why, lock, sess, status, ppc, urc>>
        /\ wire # <<>> /\ wire' = Tail(wire) /\ ppc = "idle"
        /\ reply' = IF lock # {} /\ reply = "none" THEN Head(wire).urc ELSE reply
        /\ Head(wire).urc \in Replies
    BY <1>14 DEF ReadReply, task, parser
  <2>2. ~NoReply(wire) /\ NoReply(wire') /\ lock # {} /\ reply' = Head(wire).urc
    BY <1>0, <2>1, TailReplies DEF Exchange
  <2>3. reply = "none"
    BY <1>0, <2>2 DEF Exchange, TaskTypes
  <2>4. Kept(u) => Kept(u)'
    BY <2>1 DEF Kept
  <2>5. Low => Low' \/ sess' = "connected"
    BY LowKept
  <2>6. ~Refusal(wire')
    <3>1. ASSUME Refusal(wire') PROVE FALSE
      <4> DEFINE v == wire'
      <4>1. v \in Seq(Lines) /\ v # <<>> /\ v[Len(v)].urc = "error"
        BY <1>0, <2>1, <3>1 DEF Refusal
      <4> HIDE DEF v
      <4>2. Len(v) \in 1 .. Len(v)
        BY <4>1
      <4>3. v[Len(v)].urc \notin Replies
        BY <2>2, <4>2 DEF NoReply, v
      <4> QED
        BY <4>1, <4>3 DEF Replies
    <3> QED
      BY <3>1
  <2>7. ASSUME reply' = "ok", pc[u] = "conn", u \in lock
        PROVE  Kept(u)' \/ Low'
    <3>1. CASE Kept(u)
      BY <2>4, <3>1
    <3>2. CASE Refusal(wire)
      BY <1>0, <2>1, <2>2, <2>6, <2>7, <3>2, TailStatus
    <3>3. CASE sess = "open" /\ Denial(wire)
      <4>1. NoRaise(wire) /\ ~LowersLast(wire)
        BY <1>0, <2>1, <3>3, TailStatus
      <4>2. NoRaise(wire')
        BY <1>0, <2>1, <4>1, TailStatus
      <4>3. status # "connected"
        BY <1>0, <2>1, <3>3, <4>1 DEF Settled
      <4> QED
        BY <2>1, <4>2, <4>3 DEF Low
    <3> QED
      BY <1>0, <2>1, <2>2, <2>3, <2>7, <3>1, <3>2, <3>3 DEF Trying
  <2>8. reply' # "none"
    BY <2>1, <2>2 DEF Replies
  <2>9. pc[u] \in {"connecting", "connected"} => Kept(u)' \/ Low'
    BY <1>0, <2>4, <2>5 DEF Trying, Kept
  <2> QED
    BY <1>0, <2>1, <2>4, <2>7, <2>8, <2>9 DEF Trying
<1>15. CASE Find
  <2>1. /\ UNCHANGED <<pc, op, result, why, lock, reply, sess, status>>
        /\ wire # <<>> /\ wire' = Tail(wire) /\ Head(wire).urc \notin Replies
    BY <1>15 DEF Find, task, module, client
  <2>2. Kept(u) => Kept(u)'
    BY <2>1 DEF Kept
  <2>3. Low => Low' \/ sess' = "connected"
    BY LowKept
  <2>4. Kept(u) \/ Low => Kept(u)' \/ Low'
    BY <2>2, <2>3 DEF Kept
  <2>5. /\ Refusal(wire) => Refusal(wire')
        /\ Denial(wire) => Denial(wire')
        /\ NoReply(wire) => NoReply(wire')
    BY <1>0, <2>1, TailStatus, TailReplies DEF Replies
  <2> QED
    BY <1>0, <2>1, <2>2, <2>4, <2>5 DEF Trying
<1>16. CASE SetStatus \/ Post \/ Destroy \/ Create \/ UNCHANGED vars
  <2>1. Aloof /\ UNCHANGED <<pc, op, result, why>>
    BY <1>16 DEF SetStatus, Post, Destroy, Create, vars, Aloof, module, client, task
  <2>2. Kept(u) => Kept(u)'
    BY <2>1 DEF Kept, Aloof
  <2>3. Low => Low' \/ sess' = "connected"
    BY LowKept
  <2>4. Kept(u) \/ Low => Kept(u)' \/ Low'
    BY <2>2, <2>3 DEF Kept
  <2> QED
    BY <1>0, <2>1, <2>2, <2>4 DEF Trying, Aloof
<1>17. ASSUME NEW t \in Tasks \ {u}, Starts(t) \/ Step(t)
       PROVE  Trying(u)'
  <2>1. /\ pc'[u] = pc[u] /\ op'[u] = op[u] /\ result'[u] = result[u]
        /\ u \in lock' <=> u \in lock
        /\ u \in lock => UNCHANGED <<wire, sess, reply>>
    BY <1>0, <1>17, OthersSteps
  <2>2. CASE Executed(u) \/ GiveUp(u) \/ Done(u)
    BY <1>4, <1>18, <1>6, <2>2
  <2>3. CASE ~(Executed(u) \/ GiveUp(u) \/ Done(u))
    <3>1. pc[u] \in {"connecting", "connected"} => (Kept(u) \/ Low)'
      BY <1>0, <1>1, <2>3 DEF Trying
    <3>2. pc[u] = "conn" /\ u \in lock /\ reply = "ok" => (Kept(u) \/ Low)'
      BY <1>0, <1>1, <2>3 DEF Trying
    <3>3. pc[u] = "conn" /\ u \in lock /\ reply = "none" =>
              Kept(u)' \/ NoReply(wire)' \/ Refusal(wire)' \/ (sess' = "open" /\ Denial(wire)')
      BY <1>0, <1>2, <2>1, <2>3 DEF Trying
    <3>4. op[u] = "connect" /\ result[u] = "ok" => Kept(u)'
      BY <1>0, <1>2, <2>3 DEF Trying, Place
    <3> QED
      BY <2>1, <3>1, <3>2, <3>3, <3>4 DEF Trying
  <2> QED
    BY <2>2, <2>3
<1> QED
  BY <1>4, <1>5, <1>6, <1>7, <1>8, <1>9, <1>10, <1>11, <1>12, <1>13, <1>14, <1>15, <1>16, <1>17,
     <1>18, <1>19 DEF Next, Parse, Step

(* The kinds of trouble only grow.                                          *)
LEMMA TroubleGrows ==
    ASSUME [Next]_vars
    PROVE  trouble \subseteq trouble'
<1>1. CASE PeerCloses \/ Retransmits \/ ReadReply \/ Find \/ SetStatus \/ Post \/ Destroy \/ Create
  BY <1>1 DEF PeerCloses, Retransmits, ReadReply, Find, SetStatus, Post, Destroy, Create, Happens
<1>2. ASSUME NEW t \in Tasks, Starts(t)
      PROVE  trouble \subseteq trouble'
  BY <1>2 DEF Starts, Connect, Publish, Subscribe, Unsubscribe, Disconnect, Call, Happens
<1>3. ASSUME NEW t \in Tasks, Step(t)
      PROVE  trouble \subseteq trouble'
  BY <1>3 DEF Step, Executed, Unheard, GiveUp, Answered, Woken, TimesOut, Refused, Opened, Connected,
              Acked, Leave, Left, Close, Closed, Done, Happens
<1>4. CASE UNCHANGED vars
  BY <1>4 DEF vars
<1> QED
  BY <1>1, <1>2, <1>3, <1>4 DEF Next, Parse

LEMMA ConnectingKept == Types /\ Connecting /\ [Next]_vars => Connecting'
<1> SUFFICES ASSUME Types, Connecting, [Next]_vars
             PROVE  Connecting'
  OBVIOUS
<1>1. Fresh' /\ Settled' /\ \A t \in Tasks : Place(t)'
  BY FreshKept, SettledKept, PlaceKept DEF Connecting
<1>2. ASSUME InTime'
      PROVE  Exchange' /\ \A t \in Tasks : Trying(t)'
  <2>1. InTime
    BY <1>2, TroubleGrows DEF InTime
  <2> QED
    BY <1>2, <2>1, ExchangeKept, TryingKept DEF Connecting
<1> QED
  BY <1>1, <1>2 DEF Connecting

LEMMA InitConnecting == Init => Connecting
BY DEF Init, Connecting, Exchange, Fresh, Settled, Place, Trying, ConnectPlaces, NoReply,
       AtMostOneReply

(* As long as no answer comes after the time-out of its command,            *)
(* ql_mqtt_connect returns QL_MQTT_OK only with a session, unless that has  *)
(* been closed during the call: whatever tokens earlier waits left on the   *)
(* handle's semaphore, whichever commands the module did not hear, whoever  *)
(* else uses the handle meanwhile, and whenever the parser gets to a URC.   *)
THEOREM ConnectCorrect == Spec => []ConnectIsReal
<1>1. Connecting => ConnectIsReal
  BY DEF Connecting, Trying, Kept, ConnectIsReal, InTime
<1>2. Init => Types /\ Connecting
  BY InitTypes, InitConnecting
<1>3. Types /\ Connecting /\ [Next]_vars => (Types /\ Connecting)'
  BY TypesKept, ConnectingKept
<1> QED
  BY <1>1, <1>2, <1>3, PTL DEF Spec

-----------------------------------------------------------------------------
(* A wait is ended by its own command.                                      *)

\* The handler of the line releases the semaphore.
Posts(x) == x.urc \notin {"close", "unsub"} \cup Replies
Coming == ppc # "idle" /\ Posts(urc)

\* The +QMTDISC and the +QMTSTAT of command m.
Parting(x, m) == x.urc = "disc" /\ ~x.err /\ x.of = m
Goodbye(x, m) == x.urc = "stat" /\ x.err /\ x.of = m

\* The lines that post: none; that of command m; its +QMTSTAT; both of its lines.
Clean(w) == \A i \in 1 .. Len(w) : ~Posts(w[i])
OneOn(w, m) ==
    \E i \in 1 .. Len(w) :
        /\ Posts(w[i]) /\ w[i].of = m
        /\ \A j \in 1 .. Len(w) : j # i => ~Posts(w[j])
GoodbyeOn(w, m) ==
    \E i \in 1 .. Len(w) :
        /\ Goodbye(w[i], m)
        /\ \A j \in 1 .. Len(w) : j # i => ~Posts(w[j])
BothOn(w, m) ==
    \E i, k \in 1 .. Len(w) :
        /\ i < k /\ Parting(w[i], m) /\ Goodbye(w[k], m)
        /\ \A j \in 1 .. Len(w) : j \notin {i, k} => ~Posts(w[j])
NoError(w) == \A i \in 1 .. Len(w) : w[i].urc # "error"

\* No token is left and none is on its way; or that of command m is, or is there.
Quiet == Clean(wire) /\ ~Coming /\ sem = <<>>
One(m) ==
    \/ OneOn(wire, m) /\ ~Coming /\ sem = <<>>
    \/ Clean(wire) /\ Coming /\ urc.of = m /\ sem = <<>>
    \/ Clean(wire) /\ ~Coming /\ sem = <<m>>

\* +QMTDISC has set the status; +QMTSTAT is on its way, or has set it as well.
Parted(m) ==
    /\ status \in {"disconnected", "closed"}
    /\ \/ GoodbyeOn(wire, m) /\ ~Coming
       \/ Clean(wire) /\ Coming /\ Goodbye(urc, m) /\ (ppc = "post" => status = "closed")
Over == Clean(wire) /\ ~Coming /\ status = "closed"

\* AT+QMTDISC of a module that reports the end of the session: before the first wait
\* has ended, and after it.
Both(m) ==
    \/ BothOn(wire, m) /\ ~Coming /\ sem = <<>>
    \/ /\ GoodbyeOn(wire, m) /\ Coming /\ Parting(urc, m) /\ sem = <<>>
       /\ ppc = "post" => status = "disconnected"
    \/ Parted(m) /\ sem = <<m>>
    \/ Over /\ sem \in {<<m>>, <<m, m>>}
Second(m) ==
    \/ Parted(m) /\ sem = <<>>
    \/ Over /\ sem \in {<<>>, <<m>>}

Still == {"opened", "connected", "refused", "acked", "leaving", "close", "closed", "done", "unsub"}

\* The result of the command has been read, or is on its way.
Answering == reply = "none" => ~NoReply(wire)

\* What is on its way at each place of a call.
Stage(t) ==
    /\ pc[t] \in Still \/ (pc[t] \in DOMAIN Command /\ t \notin lock) => Quiet
    /\ pc[t] \in {"open", "conn", "pub"} /\ t \in lock =>
          Quiet \/ (One(mine[t]) /\ reply # "error" /\ NoError(wire) /\ Answering)
    /\ pc[t] \in {"opening", "connecting", "acking"} \/ (pc[t] = "sub" /\ t \in lock) =>
          Quiet \/ (op[t] # "unsubscribe" /\ One(mine[t]))
    /\ pc[t] = "disconnecting" \/ (pc[t] = "disc" /\ t \in lock) =>
          Quiet \/ One(mine[t]) \/ (closes /\ Both(mine[t]))
    /\ pc[t] = "left" => Quiet \/ (closes /\ Second(mine[t]))
    /\ pc[t] = "closing" => Quiet \/ Second(mine[t])
    /\ pc[t] = "quit" /\ t \in lock => Quiet

\* The places of ql_mqtt_unsub, whose wait always times out.
UnsubPlace(t) ==
    /\ pc[t] = "unsub" => op[t] = "unsubscribe"
    /\ op[t] = "unsubscribe" => pc[t] \in {"unsub", "acking", "acked", "done"}

Undisturbed ==
    /\ \A t, u \in Tasks : pc[t] # "idle" /\ pc[u] # "idle" => t = u
    /\ Idle => Quiet
    /\ Coming => Mine
    /\ \A t \in Tasks : took[t] \in {0, mine[t]} /\ (pc[t] # "idle" => Stage(t))

\* What the parser handles.
Handled == ppc # "idle" => urc.urc \notin {"unsub"} \cup Replies

Calm ==
    /\ \A t \in Tasks : UnsubPlace(t)
    /\ Handled
    /\ ~used => Idle
    /\ trouble \cap Stray = {} => Undisturbed

LEMMA TailPosts ==
    ASSUME NEW w \in Seq(Lines), w # <<>>, NEW m \in Nat
    PROVE  /\ Clean(w) => Clean(Tail(w)) /\ ~Posts(Head(w))
           /\ OneOn(w, m) => IF Posts(Head(w)) THEN Head(w).of = m /\ Clean(Tail(w))
                             ELSE OneOn(Tail(w), m)
           /\ GoodbyeOn(w, m) => IF Posts(Head(w)) THEN Goodbye(Head(w), m) /\ Clean(Tail(w))
                                 ELSE GoodbyeOn(Tail(w), m)
           /\ BothOn(w, m) => IF Posts(Head(w)) THEN Parting(Head(w), m) /\ GoodbyeOn(Tail(w), m)
                              ELSE BothOn(Tail(w), m)
           /\ NoError(w) => NoError(Tail(w)) /\ Head(w).urc # "error"
<1> DEFINE v == Tail(w)
<1>1. /\ v \in Seq(Lines) /\ Len(v) = Len(w) - 1 /\ Len(w) \in Nat \ {0} /\ Head(w) = w[1]
      /\ \A i \in 1 .. Len(v) : v[i] = w[i + 1]
  BY TailOfLines
<1> HIDE DEF v
<1>2. Clean(w) => Clean(v) /\ ~Posts(Head(w))
  BY <1>1 DEF Clean
<1>3. NoError(w) => NoError(v) /\ Head(w).urc # "error"
  BY <1>1 DEF NoError
<1>4. \A i \in 1 .. Len(w) : i = 1 \/ (i - 1 \in 1 .. Len(v) /\ v[i - 1] = w[i])
  BY <1>1
<1>5. \A x : Goodbye(x, m) \/ Parting(x, m) => Posts(x)
  BY DEF Goodbye, Parting, Posts, Replies
<1>6. ASSUME OneOn(w, m)
      PROVE  IF Posts(Head(w)) THEN Head(w).of = m /\ Clean(v) ELSE OneOn(v, m)
  <2>1. PICK i \in 1 .. Len(w) : /\ Posts(w[i]) /\ w[i].of = m
                                /\ \A j \in 1 .. Len(w) : j # i => ~Posts(w[j])
    BY <1>6 DEF OneOn
  <2>2. CASE i = 1
    BY <1>1, <2>1, <2>2 DEF Clean
  <2>3. CASE i # 1
    <3>1. i - 1 \in 1 .. Len(v) /\ v[i - 1] = w[i] /\ ~Posts(Head(w))
      BY <1>1, <1>4, <2>1, <2>3
    <3>2. \A j \in 1 .. Len(v) : j # i - 1 => ~Posts(v[j])
      BY <1>1, <2>1
    <3> QED
      BY <2>1, <3>1, <3>2 DEF OneOn
  <2> QED
    BY <2>2, <2>3
<1>7. ASSUME GoodbyeOn(w, m)
      PROVE  IF Posts(Head(w)) THEN Goodbye(Head(w), m) /\ Clean(v) ELSE GoodbyeOn(v, m)
  <2>1. PICK i \in 1 .. Len(w) : /\ Goodbye(w[i], m)
                                /\ \A j \in 1 .. Len(w) : j # i => ~Posts(w[j])
    BY <1>7 DEF GoodbyeOn
  <2>2. CASE i = 1
    BY <1>1, <1>5, <2>1, <2>2 DEF Clean
  <2>3. CASE i # 1
    <3>1. i - 1 \in 1 .. Len(v) /\ v[i - 1] = w[i] /\ ~Posts(Head(w))
      BY <1>1, <1>4, <2>1, <2>3
    <3>2. \A j \in 1 .. Len(v) : j # i - 1 => ~Posts(v[j])
      BY <1>1, <2>1
    <3> QED
      BY <2>1, <3>1, <3>2 DEF GoodbyeOn
  <2> QED
    BY <2>2, <2>3
<1>8. ASSUME BothOn(w, m)
      PROVE  IF Posts(Head(w)) THEN Parting(Head(w), m) /\ GoodbyeOn(v, m) ELSE BothOn(v, m)
  <2>1. PICK i \in 1 .. Len(w), k \in 1 .. Len(w) :
            /\ i < k /\ Parting(w[i], m) /\ Goodbye(w[k], m)
            /\ \A j \in 1 .. Len(w) : j \notin {i, k} => ~Posts(w[j])
    BY <1>8 DEF BothOn
  <2>2. k - 1 \in 1 .. Len(v) /\ v[k - 1] = w[k]
    BY <1>1, <1>4, <2>1
  <2>3. CASE i = 1
    <3>1. \A j \in 1 .. Len(v) : j # k - 1 => ~Posts(v[j])
      BY <1>1, <2>1, <2>3
    <3> QED
      BY <1>1, <1>5, <2>1, <2>2, <2>3, <3>1 DEF GoodbyeOn
  <2>4. CASE i # 1
    <3>1. i - 1 \in 1 .. Len(v) /\ v[i - 1] = w[i] /\ ~Posts(Head(w)) /\ i - 1 < k - 1
      BY <1>1, <1>4, <2>1, <2>4
    <3>2. \A j \in 1 .. Len(v) : j \notin {i - 1, k - 1} => ~Posts(v[j])
      BY <1>1, <2>1
    <3> QED
      BY <2>1, <2>2, <3>1, <3>2 DEF BothOn
  <2> QED
    BY <2>3, <2>4
<1> QED
  BY <1>2, <1>3, <1>6, <1>7, <1>8 DEF v

LEMMA ConcatPosts ==
    ASSUME NEW w \in Seq(Lines), NEW M \in Seq(Lines), NEW m \in Nat, Clean(w)
    PROVE  /\ Clean(M) => Clean(w \o M)
           /\ OneOn(M, m) => OneOn(w \o M, m)
           /\ BothOn(M, m) => BothOn(w \o M, m)
           /\ NoError(w) /\ NoError(M) => NoError(w \o M)
<1> DEFINE v == w \o M
           l == Len(w)
           n == Len(M)
<1>1. /\ v \in Seq(Lines) /\ Len(v) = l + n /\ l \in Nat /\ n \in Nat
      /\ \A i \in 1 .. l : v[i] = w[i]
      /\ \A i \in (l + 1) .. (l + n) : v[i] = M[i - l]
  BY ConcatProperties
<1> HIDE DEF v, l, n
<1>2. \A i \in 1 .. Len(v) : \/ i \in 1 .. l /\ v[i] = w[i]
                             \/ i - l \in 1 .. n /\ v[i] = M[i - l] /\ (i - l) + l = i
  BY <1>1
<1>3. \A i \in 1 .. n : l + i \in 1 .. Len(v) /\ v[l + i] = M[i]
  <2> TAKE i \in 1 .. n
  <2>1. l + i \in (l + 1) .. (l + n) /\ (l + i) - l = i
    BY <1>1
  <2>2. v[l + i] = M[(l + i) - l]
    BY <1>1, <2>1
  <2> QED
    BY <1>1, <2>1, <2>2
<1>4. \A i \in 1 .. l : ~Posts(w[i])
  BY DEF Clean, l
<1>5. Clean(M) => Clean(v)
  BY <1>2, <1>4 DEF Clean, n
<1>6. NoError(w) /\ NoError(M) => NoError(v)
  BY <1>2 DEF NoError, l, n
<1>7. ASSUME OneOn(M, m) PROVE OneOn(v, m)
  <2>1. PICK i \in 1 .. n : /\ Posts(M[i]) /\ M[i].of = m
                           /\ \A j \in 1 .. n : j # i => ~Posts(M[j])
    BY <1>7 DEF OneOn, n
  <2>2. l + i \in 1 .. Len(v) /\ v[l + i] = M[i]
    BY <1>3
  <2>3. \A j \in 1 .. Len(v) : j # l + i => ~Posts(v[j])
    <3> TAKE j \in 1 .. Len(v)
    <3>1. CASE j \in 1 .. l /\ v[j] = w[j]
      BY <1>4, <3>1
    <3>2. CASE j - l \in 1 .. n /\ v[j] = M[j - l] /\ j # l + i
      <4>1. j - l # i
        BY <1>1, <2>1, <3>2
      <4> QED
        BY <2>1, <3>2, <4>1
    <3> QED
      BY <1>2, <3>1, <3>2
  <2> QED
    BY <2>1, <2>2, <2>3 DEF OneOn
<1>8. ASSUME BothOn(M, m) PROVE BothOn(v, m)
  <2>1. PICK i \in 1 .. n, k \in 1 .. n :
            /\ i < k /\ Parting(M[i], m) /\ Goodbye(M[k], m)
            /\ \A j \in 1 .. n : j \notin {i, k} => ~Posts(M[j])
    BY <1>8 DEF BothOn, n
  <2>2. l + i \in 1 .. Len(v) /\ v[l + i] = M[i] /\ l + k \in 1 .. Len(v) /\ v[l + k] = M[k]
    BY <1>3
  <2>3. \A j \in 1 .. Len(v) : j \notin {l + i, l + k} => ~Posts(v[j])
    <3> TAKE j \in 1 .. Len(v)
    <3>1. CASE j \in 1 .. l /\ v[j] = w[j]
      BY <1>4, <3>1
    <3>2. CASE j - l \in 1 .. n /\ v[j] = M[j - l] /\ j # l + i /\ j # l + k
      <4>1. j - l \notin {i, k}
        BY <1>1, <2>1, <3>2
      <4> QED
        BY <2>1, <3>2, <4>1
    <3> QED
      BY <1>2, <3>1, <3>2
  <2>4. l + i < l + k
    BY <1>1, <2>1
  <2> QED
    BY <2>1, <2>2, <2>3, <2>4 DEF BothOn
<1> QED
  BY <1>5, <1>6, <1>7, <1>8 DEF v

LEMMA UnsubPlaceKept ==
    ASSUME Types, NEW u \in Tasks, UnsubPlace(u), Place(u), [Next]_vars
    PROVE  UnsubPlace(u)'
<1>0. TaskTypes
  BY DEF Types
<1> USE DEF TaskTypes, UnsubPlace
<1>1. CASE PeerCloses \/ Retransmits \/ ReadReply \/ Find \/ SetStatus \/ Post \/ Destroy \/ Create
  BY <1>1 DEF PeerCloses, Retransmits, ReadReply, Find, SetStatus, Post, Destroy, Create, task
<1>2. ASSUME NEW t \in Tasks, Starts(t)
      PROVE  UnsubPlace(u)'
  BY <1>0, <1>2 DEF Starts, Connect, Publish, Subscribe, Unsubscribe, Disconnect, Call, Place
<1>3. ASSUME NEW t \in Tasks, Executed(t) \/ Unheard(t) \/ GiveUp(t)
      PROVE  UnsubPlace(u)'
  BY <1>3 DEF Executed, Unheard, Send, GiveUp
<1>4. ASSUME NEW t \in Tasks, Answered(t)
      PROVE  UnsubPlace(u)'
  <2>1. pc[t] \in DOMAIN Command
    BY <1>0, <1>4 DEF Answered
  <2>2. UNCHANGED op
    BY <1>4 DEF Answered
  <2>3. CASE t = u
    <3>1. pc'[u] = (IF reply = "ok" THEN Good[pc[u]] ELSE Bad(pc[u]))
      BY <1>0, <1>4, <2>3 DEF Answered
    <3> QED
      BY <2>1, <2>2, <2>3, <3>1 DEF Good, Bad, Command
  <2>4. CASE t # u
    BY <1>0, <1>4, <2>2, <2>4 DEF Answered
  <2> QED
    BY <2>3, <2>4
<1>5. ASSUME NEW t \in Tasks, Woken(t) \/ TimesOut(t)
      PROVE  UnsubPlace(u)'
  <2>1. UNCHANGED op /\ pc[t] \in DOMAIN After /\ pc' = [pc EXCEPT ![t] = After[pc[t]]]
    BY <1>5 DEF Woken, TimesOut
  <2>2. CASE t = u
    <3>1. pc'[u] = After[pc[u]]
      BY <1>0, <2>1, <2>2
    <3> QED
      BY <2>1, <2>2, <3>1 DEF After
  <2>3. CASE t # u
    BY <1>0, <2>1, <2>3
  <2> QED
    BY <2>2, <2>3
<1>6. ASSUME NEW t \in Tasks, Step(t), ~Executed(t), ~Unheard(t), ~GiveUp(t), ~Answered(t),
             ~Woken(t), ~TimesOut(t)
      PROVE  UnsubPlace(u)'
  BY <1>0, <1>6 DEF Step, Refused, Opened, Connected, Acked, Leave, Left, Close, Closed, Done, Return
<1>7. CASE UNCHANGED vars
  BY <1>7 DEF vars, task
<1> QED
  BY <1>1, <1>2, <1>3, <1>4, <1>5, <1>6, <1>7 DEF Next, Parse

(* A handle destroyed is nobody's.                                          *)
LEMMA UnusedKept ==
    ASSUME Types, ~used => Idle, [Next]_vars
    PROVE  (~used => Idle)'
<1> USE DEF Idle
<1>1. CASE PeerCloses \/ Retransmits \/ ReadReply \/ Find \/ SetStatus \/ Post \/ Destroy \/ Create
  BY <1>1 DEF PeerCloses, Retransmits, ReadReply, Find, SetStatus, Post, Destroy, Create, task
<1>2. ASSUME NEW t \in Tasks, Starts(t)
      PROVE  used'
  BY <1>2 DEF Starts, Connect, Publish, Subscribe, Unsubscribe, Disconnect, Call
<1>3. ASSUME NEW t \in Tasks, Step(t)
      PROVE  used' = used /\ pc[t] # "idle"
  <2>1. CASE Executed(t) \/ Unheard(t)
    BY <2>1 DEF Executed, Unheard, Send, Command
  <2>2. CASE Answered(t) \/ GiveUp(t)
    BY <2>2 DEF Answered, GiveUp, Types, TaskTypes, Command
  <2>3. CASE Woken(t) \/ TimesOut(t)
    BY <2>3 DEF Woken, TimesOut, After, others
  <2> QED
    BY <1>3, <2>1, <2>2, <2>3 DEF Step, Refused, Opened, Connected, Acked, Leave, Left, Close, Closed,
                                  Done, others
<1>4. CASE UNCHANGED vars
  BY <1>4 DEF vars, task
<1> QED
  BY <1>1, <1>2, <1>3, <1>4 DEF Next, Parse

(* What the parser does with the tokens on their way.                       *)
Stays(m) ==
    /\ Quiet => Quiet'
    /\ Coming' => Mine'
    /\ used => /\ One(m) => One(m)'
               /\ Both(m) => Both(m)'
               /\ Second(m) => Second(m)'
    /\ reply # "error" /\ NoError(wire) => reply' # "error" /\ NoError(wire')
    /\ lock # {} /\ Answering => Answering'

LEMMA ReadStays ==
    ASSUME Types, Coming => Mine, ReadReply, NEW m \in Nat
    PROVE  Stays(m)
<1>1. wire \in Seq(Lines) /\ wire # <<>> /\ wire' = Tail(wire) /\ ~Posts(Head(wire))
      /\ UNCHANGED <<used, gen, status, sem, ppc, ph, urc>> /\ reply' \in {reply, Head(wire).urc}
      /\ (lock # {} => reply' # "none")
  BY DEF ReadReply, Types, QueueTypes, parser, Posts, Replies
<1>2. /\ Clean(wire) => Clean(wire')
      /\ OneOn(wire, m) => OneOn(wire', m)
      /\ GoodbyeOn(wire, m) => GoodbyeOn(wire', m)
      /\ BothOn(wire, m) => BothOn(wire', m)
      /\ NoError(wire) => NoError(wire') /\ Head(wire).urc # "error"
  BY <1>1, TailPosts
<1>3. lock # {} => Answering'
  BY <1>1 DEF Answering
<1> QED
  BY <1>1, <1>2, <1>3 DEF Stays, Quiet, One, Both, Second, Parted, Over, Coming, Mine

LEMMA FindStays ==
    ASSUME Types, Coming => Mine, Find, NEW m \in Nat
    PROVE  Stays(m)
<1>1. wire \in Seq(Lines) /\ wire # <<>> /\ wire' = Tail(wire) /\ ppc = "idle" /\ ~Coming
      /\ UNCHANGED <<used, gen, status, sem, reply>> /\ Head(wire).urc \notin Replies
  BY DEF Find, Types, QueueTypes, Coming, client
<1> DEFINE h == Head(wire)
<1>2. /\ Clean(wire) => Clean(wire') /\ ~Posts(h)
      /\ OneOn(wire, m) => IF Posts(h) THEN h.of = m /\ Clean(wire') ELSE OneOn(wire', m)
      /\ GoodbyeOn(wire, m) => IF Posts(h) THEN Goodbye(h, m) /\ Clean(wire') ELSE GoodbyeOn(wire', m)
      /\ BothOn(wire, m) => IF Posts(h) THEN Parting(h, m) /\ GoodbyeOn(wire', m)
                            ELSE BothOn(wire', m)
      /\ NoError(wire) => NoError(wire')
  BY <1>1, TailPosts
<1>3. Coming' => Mine' /\ Posts(h) /\ urc' = h /\ ppc' = "status"
  BY <1>1 DEF Find, Coming, Mine, parser
<1>4. used /\ Posts(h) => Coming' /\ urc' = h /\ ppc' = "status"
  BY <1>1 DEF Find, Coming, Posts
<1> HIDE DEF h
<1>5. Quiet => Quiet'
  BY <1>1, <1>2, <1>3 DEF Quiet
<1>6. used /\ One(m) => One(m)'
  BY <1>1, <1>2, <1>3, <1>4 DEF One
<1>7. used /\ Parted(m) => Parted(m)'
  BY <1>1, <1>2, <1>3, <1>4 DEF Parted
<1>8. Over => Over'
  BY <1>1, <1>2, <1>3 DEF Over
<1>9. used /\ BothOn(wire, m) /\ sem = <<>> => Both(m)'
  BY <1>1, <1>2, <1>3, <1>4 DEF Both
<1>10. Answering => Answering'
  <2>1. NoReply(wire') => NoReply(wire)
    <3> SUFFICES ASSUME NoReply(wire'), NEW i \in 1 .. Len(wire)
                 PROVE  wire[i].urc \notin Replies
      BY DEF NoReply
    <3>1. CASE i = 1
      BY <1>1, <3>1, TailOfLines
    <3>2. CASE i # 1
      <4>1. i - 1 \in 1 .. Len(wire') /\ wire'[i - 1] = wire[(i - 1) + 1]
        BY <1>1, <3>2, TailOfLines
      <4>2. wire[i].urc = wire'[i - 1].urc
        BY <4>1, <3>2
      <4> QED
        BY <4>1, <4>2 DEF NoReply
    <3> QED
      BY <3>1, <3>2
  <2> QED
    BY <1>1, <2>1 DEF Answering
<1> QED
  BY <1>1, <1>2, <1>3, <1>5, <1>6, <1>7, <1>8, <1>9, <1>10 DEF Stays, Both, Second

LEMMA SetStays ==
    ASSUME Types, Coming => Mine, SetStatus, NEW m \in Nat
    PROVE  Stays(m)
<1>1. UNCHANGED <<wire, used, gen, sem, reply, ph, urc>> /\ ppc = "status" /\ ppc' = "post"
      /\ status' = IF Mine THEN StatusAfter ELSE status
  BY DEF SetStatus, module, client
<1>2. (Coming <=> Coming') /\ (Mine <=> Mine')
  BY <1>1 DEF Coming, Mine
<1>3. ~Posts(urc) => status' = status \/ status' = "closed"
  BY <1>1 DEF Posts, StatusAfter, Replies
<1>4. Coming /\ Parting(urc, m) => status' = "disconnected"
  BY <1>1 DEF Parting, StatusAfter
<1>5. Coming /\ Goodbye(urc, m) => status' = "closed"
  BY <1>1 DEF Goodbye, StatusAfter
<1>6. Quiet => Quiet'
  BY <1>1, <1>2, <1>3 DEF Quiet, Coming
<1>7. One(m) => One(m)'
  BY <1>1, <1>2 DEF One
<1>8. Parted(m) => Parted(m)'
  BY <1>1, <1>2, <1>3, <1>5 DEF Parted, Coming
<1>9. Over => Over'
  BY <1>1, <1>2, <1>3 DEF Over, Coming
<1>10. Answering => Answering'
  BY <1>1 DEF Answering
<1> QED
  BY <1>1, <1>2, <1>4, <1>6, <1>7, <1>8, <1>9, <1>10 DEF Stays, Both, Second

LEMMA OneMore ==
    ASSUME NEW m \in Nat
    PROVE  Len(<<>>) = 0 /\ Append(<<>>, m) = <<m>> /\ Append(<<m>>, m) = <<m, m>>
<1>1. Append(<<>>, m) = <<m>>
  <2>1. Append(<<>>, m) \in Seq(Nat) /\ <<m>> \in Seq(Nat)
    OBVIOUS
  <2>2. Len(Append(<<>>, m)) = 1 /\ Append(<<>>, m)[1] = m
    OBVIOUS
  <2>3. Len(<<m>>) = 1 /\ <<m>>[1] = m
    OBVIOUS
  <2>4. \A i \in 1 .. 1 : Append(<<>>, m)[i] = <<m>>[i]
    BY <2>2, <2>3
  <2> QED
    BY <2>1, <2>2, <2>3, <2>4, SeqEqual
<1>2. Append(<<m>>, m) = <<m, m>>
  <2>1. Append(<<m>>, m) \in Seq(Nat) /\ <<m, m>> \in Seq(Nat)
    OBVIOUS
  <2>2. Len(Append(<<m>>, m)) = 2 /\ Append(<<m>>, m)[1] = m /\ Append(<<m>>, m)[2] = m
    OBVIOUS
  <2>3. Len(<<m, m>>) = 2 /\ <<m, m>>[1] = m /\ <<m, m>>[2] = m
    OBVIOUS
  <2>4. \A i \in 1 .. 2 : Append(<<m>>, m)[i] = <<m, m>>[i]
    BY <2>2, <2>3
  <2> QED
    BY <2>1, <2>2, <2>3, <2>4, SeqEqual
<1> QED
  BY <1>1, <1>2

LEMMA PostStays ==
    ASSUME Types, Handled, Coming => Mine, Post, NEW m \in Nat
    PROVE  Stays(m)
<1>1. UNCHANGED <<wire, used, gen, status, reply>> /\ ppc = "post" /\ ppc' = "idle"
      /\ sem' = IF Mine /\ PostsToken THEN Given(urc.of) ELSE sem
  BY DEF Post, module, client
<1>2. ~Coming'
  BY <1>1 DEF Coming
<1>3. ~Coming => sem' = sem
  BY <1>1 DEF Coming, Posts, Handled, PostsToken
<1>4. Coming => sem' = Given(urc.of)
  BY <1>1 DEF Coming, Posts, PostsToken
<1>5. /\ Len(<<>>) = 0 /\ Append(<<>>, m) = <<m>>
      /\ Append(<<m>>, m) = <<m, m>>
  BY OneMore
<1>6. ASSUME Coming, urc.of = m
      PROVE  /\ sem = <<>> => sem' = <<m>>
             /\ sem = <<m>> => sem' \in {<<m>>, <<m, m>>}
  <2>1. sem' = Given(m)
    BY <1>4, <1>6
  <2>2. 0 < Tokens
    BY ConstantsAssumption
  <2>3. sem = <<>> => sem' = <<m>>
    BY <1>5, <2>1, <2>2 DEF Given
  <2>4. sem' = Append(sem, m) \/ sem' = sem
    BY <2>1 DEF Given
  <2> QED
    BY <1>5, <2>3, <2>4
<1>7. (Goodbye(urc, m) => urc.of = m) /\ (Parting(urc, m) => urc.of = m)
  BY DEF Goodbye, Parting
<1>8. (~Coming)' /\ (Coming' => Mine')
  BY <1>2
<1>9. Quiet => Quiet'
  BY <1>1, <1>3, <1>8 DEF Quiet
<1>10. One(m) => One(m)'
  BY <1>1, <1>3, <1>6, <1>8 DEF One
<1>11. Both(m) => Both(m)'
  <2>1. BothOn(wire, m) /\ ~Coming /\ sem = <<>> => Both(m)'
    BY <1>1, <1>3, <1>8 DEF Both
  <2>2. GoodbyeOn(wire, m) /\ Coming /\ Parting(urc, m) /\ sem = <<>>
        /\ (ppc = "post" => status = "disconnected") => Both(m)'
    BY <1>1, <1>6, <1>7, <1>8 DEF Both, Parted
  <2>3. Parted(m) /\ sem = <<m>> => Both(m)'
    BY <1>1, <1>3, <1>6, <1>7, <1>8 DEF Both, Parted, Over
  <2>4. Over /\ sem \in {<<m>>, <<m, m>>} => Both(m)'
    BY <1>1, <1>3, <1>8 DEF Both, Over
  <2> QED
    BY <2>1, <2>2, <2>3, <2>4 DEF Both
<1>12. Second(m) => Second(m)'
  <2>1. Parted(m) /\ sem = <<>> => Second(m)'
    BY <1>1, <1>3, <1>6, <1>7, <1>8 DEF Second, Parted, Over
  <2>2. Over /\ sem \in {<<>>, <<m>>} => Second(m)'
    BY <1>1, <1>3, <1>8 DEF Second, Over
  <2> QED
    BY <2>1, <2>2 DEF Second
<1>13. Answering => Answering'
  BY <1>1 DEF Answering
<1> QED
  BY <1>1, <1>8, <1>9, <1>10, <1>11, <1>12, <1>13 DEF Stays

LEMMA HandledKept ==
    ASSUME Handled, [Next]_vars
    PROVE  Handled'
<1> USE DEF Handled
<1>1. CASE Find
  BY <1>1 DEF Find, parser
<1>2. CASE SetStatus \/ Post
  BY <1>2 DEF SetStatus, Post
<1>3. CASE PeerCloses \/ Retransmits \/ ReadReply \/ Destroy \/ Create \/ UNCHANGED vars
  BY <1>3 DEF PeerCloses, Retransmits, ReadReply, Destroy, Create, vars, parser
<1>4. ASSUME NEW t \in Tasks, Starts(t) \/ Step(t)
      PROVE  Handled'
  BY <1>4, TasksLower DEF parser
<1> QED
  BY <1>1, <1>2, <1>3, <1>4 DEF Next, Parse

(* The lines of an answer, and the tokens they will become.                 *)
AnswerPosts(t, M) ==
    LET m == commands + 1 IN
    /\ pc[t] \in {"open", "conn", "pub"} => Clean(M) \/ (OneOn(M, m) /\ NoError(M) /\ ~NoReply(M))
    /\ pc[t] = "sub" => Clean(M) \/ OneOn(M, m)
    /\ pc[t] = "unsub" => Clean(M)
    /\ pc[t] = "disc" => Clean(M) \/ OneOn(M, m) \/ (closes /\ BothOn(M, m))
    /\ pc[t] = "quit" => Clean(M)

LEMMA AnswerTokens ==
    ASSUME Types, NEW t \in Tasks, Executed(t)
    PROVE  \E M \in Seq(Lines) : wire' = wire \o M /\ AnswerPosts(t, M)
<1>1. PICK M \in Seq(Lines) : wire' = wire \o M /\ Effect(t, M)
  BY Effects
<1> DEFINE m == commands + 1
           ok == Line("ok", FALSE)
<1>2. \A u, e : Line(u, e).urc = u /\ Line(u, e).err = e /\ Line(u, e).of = m
  BY DEF Line
<1>3. \A x, y, z : /\ Len(<<x>>) = 1 /\ <<x>>[1] = x
                  /\ Len(<<x, y>>) = 2 /\ <<x, y>>[1] = x /\ <<x, y>>[2] = y
                  /\ Len(<<x, y, z>>) = 3 /\ <<x, y, z>>[1] = x /\ <<x, y, z>>[2] = y
                  /\ <<x, y, z>>[3] = z
  OBVIOUS
<1>4. ASSUME NEW u \in {"open", "conn", "disc", "close", "ack", "unsub"}, NEW e \in BOOLEAN,
             M = <<ok, Line(u, e)>>
      PROVE  /\ u \notin {"close", "unsub"} => OneOn(M, m) /\ NoError(M) /\ ~NoReply(M)
             /\ u \in {"close", "unsub"} => Clean(M)
  <2>1. Len(M) = 2 /\ M[1].urc = "ok" /\ M[2].urc = u /\ M[2].of = m
    BY <1>2, <1>3, <1>4, ZenonT(60)
  <2> HIDE DEF m
  <2>2. u \notin {"close", "unsub"} => OneOn(M, m)
    BY <2>1 DEF OneOn, Posts, Replies
  <2>3. NoError(M)
    BY <2>1 DEF NoError
  <2>4. u \in {"close", "unsub"} => Clean(M)
    BY <2>1 DEF Clean, Posts, Replies
  <2>5. ~NoReply(M)
    BY <2>1 DEF NoReply, Replies
  <2> QED
    BY <2>2, <2>3, <2>4, <2>5
<1>5. ASSUME M = <<ok, Line("disc", FALSE), Line("stat", TRUE)>>
      PROVE  BothOn(M, m)
  <2>1. /\ Len(M) = 3 /\ M[1].urc = "ok" /\ M[2].urc = "disc" /\ M[2].of = m
        /\ ~M[2].err /\ M[3].urc = "stat" /\ M[3].err /\ M[3].of = m
    BY <1>2, <1>3, <1>5, ZenonT(60)
  <2> HIDE DEF m
  <2>2. ~Posts(M[1]) /\ Parting(M[2], m) /\ Goodbye(M[3], m)
    BY <2>1 DEF Posts, Replies, Parting, Goodbye
  <2>3. \A j \in 1 .. Len(M) : j \notin {2, 3} => ~Posts(M[j])
    BY <2>1, <2>2
  <2>4. 2 \in 1 .. Len(M) /\ 3 \in 1 .. Len(M) /\ 2 < 3
    BY <2>1
  <2> QED
    BY <2>2, <2>3, <2>4 DEF BothOn
<1>6. ASSUME M = <<Line("error", TRUE)>>
      PROVE  Clean(M)
  <2>1. Len(M) = 1 /\ M[1].urc = "error"
    BY <1>2, <1>3, <1>6
  <2> QED
    BY <2>1 DEF Clean, Posts, Replies
<1> HIDE DEF m, ok
<1> SUFFICES AnswerPosts(t, M)
  BY <1>1
<1>7. CASE Refuses(t, M)
  BY <1>6, <1>7 DEF Refuses, AnswerPosts
<1>8. CASE Opens(t, M)
  <2>1. PICK e \in BOOLEAN : M = <<ok, Line("open", e)>>
    BY <1>8 DEF Opens, ok
  <2>2. OneOn(M, m) /\ NoError(M) /\ ~NoReply(M) /\ pc[t] = "open"
    BY <1>4, <1>8, <2>1 DEF Opens
  <2> QED
    BY <2>2 DEF AnswerPosts, m
<1>9. CASE Connects(t, M)
  <2>1. PICK e \in BOOLEAN : M = <<ok, Line("conn", e)>>
    BY <1>9 DEF Connects, ok
  <2>2. OneOn(M, m) /\ NoError(M) /\ ~NoReply(M) /\ pc[t] = "conn"
    BY <1>4, <1>9, <2>1 DEF Connects
  <2> QED
    BY <2>2 DEF AnswerPosts, m
<1>10. CASE Disconnects(t, M)
  <2>1. pc[t] = "disc"
    BY <1>10 DEF Disconnects
  <2>2. CASE closes
    <3>1. BothOn(M, m)
      BY <1>5, <1>10, <2>2 DEF Disconnects, ok
    <3> QED
      BY <2>1, <2>2, <3>1 DEF AnswerPosts, m
  <2>3. CASE ~closes
    <3>1. M = <<ok, Line("disc", FALSE)>>
      BY <1>10, <2>3 DEF Disconnects, ok
    <3>2. OneOn(M, m)
      BY <1>4, <3>1
    <3> QED
      BY <2>1, <2>3, <3>2 DEF AnswerPosts, m
  <2> QED
    BY <2>2, <2>3
<1>11. CASE Closes(t, M)
  <2>1. M = <<ok, Line("close", FALSE)>> /\ pc[t] = "quit"
    BY <1>11 DEF Closes, ok
  <2>2. Clean(M)
    BY <1>4, <2>1
  <2> QED
    BY <2>1, <2>2 DEF AnswerPosts
<1>14. CASE Remains(t, M)
  <2>1. CASE pc[t] = "disc" /\ M = <<ok, Line("disc", TRUE)>>
    <3>1. OneOn(M, m)
      BY <1>4, <2>1
    <3> QED
      BY <2>1, <3>1 DEF AnswerPosts, m
  <2>2. CASE pc[t] = "quit" /\ M = <<ok, Line("close", TRUE)>>
    <3>1. Clean(M)
      BY <1>4, <2>2
    <3> QED
      BY <2>2, <3>1 DEF AnswerPosts
  <2> QED
    BY <1>14, <2>1, <2>2 DEF Remains, ok
<1>12. CASE Acknowledges(t, M)
  <2>1. PICK e \in BOOLEAN : M = <<ok, Line("ack", e)>>
    BY <1>12 DEF Acknowledges, ok
  <2>2. OneOn(M, m) /\ NoError(M) /\ ~NoReply(M) /\ pc[t] \in {"pub", "sub"}
    BY <1>4, <1>12, <2>1 DEF Acknowledges
  <2> QED
    BY <2>2 DEF AnswerPosts, m
<1>13. CASE Unsubscribes(t, M)
  <2>1. M = <<ok, Line("unsub", FALSE)>> /\ pc[t] = "unsub"
    BY <1>13 DEF Unsubscribes, ok
  <2>2. Clean(M)
    BY <1>4, <2>1
  <2> QED
    BY <2>1, <2>2 DEF AnswerPosts
<1> QED
  BY <1>1, <1>7, <1>8, <1>9, <1>10, <1>11, <1>12, <1>13, <1>14 DEF Effect

(* What a step of its own does to the call of t.                            *)
Goes(t) ==
    /\ took'[t] \in {0, mine'[t]}
    /\ IF pc'[t] = "idle" THEN Quiet' ELSE Stage(t)'

LEMMA QuietStep ==
    ASSUME NEW t \in Tasks, Quiet, UNCHANGED <<wire, sem, parser>>,
           pc'[t] \in Still \/ (pc'[t] \in DOMAIN Command /\ t \notin lock'),
           took'[t] \in {0, mine'[t]}
    PROVE  Goes(t)
<1>1. Quiet'
  BY DEF Quiet, Coming, parser
<1>2. pc'[t] \notin {"opening", "connecting", "acking", "disconnecting", "left", "closing"}
      /\ (pc'[t] \in {"open", "conn", "pub", "sub", "disc", "quit"} => t \notin lock')
  BY DEF Still, Command
<1> QED
  BY <1>1, <1>2 DEF Goes, Stage

LEMMA ExecutedGoes ==
    ASSUME Types, Exchange, NEW t \in Tasks, Stage(t), UnsubPlace(t), Executed(t)
    PROVE  Goes(t)
<1>1. /\ pc[t] \in DOMAIN Command /\ lock = {} /\ lock' = {t} /\ reply' = "none"
      /\ mine'[t] = commands + 1 /\ took'[t] = 0
      /\ UNCHANGED <<pc, op, sem, parser, closes>>
  BY DEF Executed, Send, Types, TaskTypes
<1>2. PICK M \in Seq(Lines) : wire' = wire \o M /\ AnswerPosts(t, M)
  BY AnswerTokens
<1> DEFINE m == commands + 1
<1>3. wire \in Seq(Lines) /\ m \in Nat
  BY DEF Types, QueueTypes, TaskTypes
<1>4. Quiet
  BY <1>1 DEF Stage
<1>5. NoError(wire)
  BY <1>1 DEF Exchange, NoReply, NoError, Replies
<1>6. /\ Clean(M) => Clean(wire')
      /\ OneOn(M, m) => OneOn(wire', m)
      /\ BothOn(M, m) => BothOn(wire', m)
      /\ NoError(M) => NoError(wire')
  BY <1>2, <1>3, <1>4, <1>5, ConcatPosts DEF Quiet
<1>12. ~NoReply(M) => Answering'
  <2> SUFFICES ASSUME NEW j \in 1 .. Len(M), M[j].urc \in Replies
               PROVE  ~NoReply(wire')
    BY DEF NoReply, Answering
  <2>1. /\ Len(wire) + j \in 1 .. Len(wire')
        /\ wire'[Len(wire) + j] = M[j]
    BY <1>2, <1>3
  <2> QED
    BY <2>1 DEF NoReply
<1>7. /\ pc[t] \in {"open", "conn", "pub"} => Clean(M) \/ (OneOn(M, m) /\ NoError(M) /\ ~NoReply(M))
      /\ pc[t] = "sub" => Clean(M) \/ OneOn(M, m)
      /\ pc[t] = "unsub" => Clean(M)
      /\ pc[t] = "disc" => Clean(M) \/ OneOn(M, m) \/ (closes /\ BothOn(M, m))
      /\ pc[t] = "quit" => Clean(M)
  BY <1>2 DEF AnswerPosts
<1> HIDE DEF m
<1>8. sem' = <<>> /\ (~Coming)'
  BY <1>1, <1>4 DEF Quiet, Coming, parser
<1>9. /\ Clean(M) => Quiet'
      /\ OneOn(M, m) => One(mine[t])'
      /\ BothOn(M, m) => Both(mine[t])'
  BY <1>1, <1>6, <1>8 DEF Quiet, One, Both, m
<1>10. pc'[t] \in {"open", "conn", "pub", "sub", "unsub", "disc", "quit"} /\ t \in lock'
  BY <1>1, <1>4 DEF Command
<1>11. pc[t] = "sub" => op'[t] # "unsubscribe"
  BY <1>1 DEF UnsubPlace
<1> QED
  BY <1>1, <1>6, <1>7, <1>9, <1>10, <1>11, <1>12 DEF Goes, Stage, Still

LEMMA UnheardGoes ==
    ASSUME Types, NEW t \in Tasks, Stage(t), Unheard(t)
    PROVE  Goes(t)
<1>1. /\ pc[t] \in DOMAIN Command /\ lock = {} /\ took'[t] = 0
      /\ UNCHANGED <<pc, sem, parser, wire>>
  BY DEF Unheard, Send, Types, TaskTypes
<1>2. Quiet
  BY <1>1 DEF Stage
<1>3. Quiet'
  BY <1>1, <1>2 DEF Quiet, Coming, parser
<1>4. pc'[t] \in {"open", "conn", "pub", "sub", "unsub", "disc", "quit"}
  BY <1>1 DEF Command
<1> QED
  BY <1>1, <1>3, <1>4 DEF Goes, Stage

LEMMA GiveUpGoes ==
    ASSUME Types, NEW t \in Tasks, Stage(t), UnsubPlace(t), took[t] \in {0, mine[t]}, GiveUp(t),
           trouble' \cap Stray = {}
    PROVE  Goes(t)
<1>1. /\ t \in lock /\ pc[t] \in DOMAIN Command
      /\ UNCHANGED <<pc, op, mine, took, lock, closes, status, sem, wire, ppc, urc>>
  BY DEF GiveUp, Types, TaskTypes, module, parser
<1>2. ~Answering
  BY DEF GiveUp, Happens, Stray, Answering, NoReply
<1>3. /\ (Quiet <=> Quiet') /\ (One(mine[t]) <=> One(mine[t])') /\ (Both(mine[t]) <=> Both(mine[t])')
  <2>1. (Coming <=> Coming') /\ mine'[t] = mine[t]
    BY <1>1 DEF Coming
  <2>2. (Parted(mine[t]) <=> Parted(mine[t])') /\ (Over <=> Over')
    BY <1>1, <2>1 DEF Parted, Over
  <2> QED
    BY <1>1, <2>1, <2>2 DEF Quiet, One, Both
<1>4. pc[t] \in {"open", "conn", "pub", "sub", "unsub", "disc", "quit"}
  BY <1>1 DEF Command
<1> QED
  BY <1>1, <1>2, <1>3, <1>4 DEF Goes, Stage, Still

LEMMA AnsweredGoes ==
    ASSUME Types, NEW t \in Tasks, Stage(t), UnsubPlace(t), took[t] \in {0, mine[t]}, Answered(t)
    PROVE  Goes(t)
<1>1. /\ t \in lock /\ pc[t] \in DOMAIN Command /\ reply \in {"ok", "error"}
      /\ pc'[t] = IF reply = "ok" THEN Good[pc[t]] ELSE Bad(pc[t])
      /\ UNCHANGED <<op, mine, took, closes, status, sem, wire, ppc, urc>>
  BY DEF Answered, Types, TaskTypes, module, parser
<1>2. pc[t] \in {"open", "conn", "pub", "sub", "unsub", "disc", "quit"}
  BY <1>1 DEF Command
<1>3. /\ (Quiet <=> Quiet') /\ (One(mine[t]) <=> One(mine[t])') /\ (Both(mine[t]) <=> Both(mine[t])')
  <2>1. (Coming <=> Coming') /\ mine'[t] = mine[t]
    BY <1>1 DEF Coming
  <2>2. (Parted(mine[t]) <=> Parted(mine[t])') /\ (Over <=> Over')
    BY <1>1, <2>1 DEF Parted, Over
  <2> QED
    BY <1>1, <2>1, <2>2 DEF Quiet, One, Both
<1>4. CASE pc[t] \in {"open", "conn", "pub"}
  <2>1. CASE reply = "ok"
    <3>1. pc'[t] \in {"opening", "connecting", "acking"} /\ op[t] # "unsubscribe"
      BY <1>1, <1>4, <2>1 DEF Good, UnsubPlace
    <3>2. Quiet' \/ One(mine[t])'
      BY <1>1, <1>3, <1>4 DEF Stage
    <3> QED
      BY <1>1, <3>1, <3>2 DEF Goes, Stage, Still, Command
  <2>2. CASE reply # "ok"
    <3>1. pc'[t] = "refused"
      BY <1>1, <1>4, <2>2 DEF Bad
    <3>2. Quiet'
      BY <1>1, <1>3, <1>4, <2>2 DEF Stage
    <3> QED
      BY <1>1, <3>1, <3>2 DEF Goes, Stage
  <2> QED
    BY <2>1, <2>2
<1>5. CASE pc[t] = "sub"
  <2>1. pc'[t] = "acking"
    BY <1>1, <1>5 DEF Good, Bad
  <2>2. Quiet' \/ (op[t] # "unsubscribe" /\ One(mine[t])')
    BY <1>1, <1>3, <1>5 DEF Stage
  <2> QED
    BY <1>1, <2>1, <2>2 DEF Goes, Stage, Still, Command
<1>6. CASE pc[t] = "unsub"
  <2>1. pc'[t] = "acking"
    BY <1>1, <1>6 DEF Good, Bad
  <2>2. Quiet'
    BY <1>3, <1>6 DEF Stage, Still
  <2> QED
    BY <1>1, <2>1, <2>2 DEF Goes, Stage
<1>7. CASE pc[t] = "disc"
  <2>1. pc'[t] = "disconnecting"
    BY <1>1, <1>7 DEF Good, Bad
  <2>2. Quiet' \/ One(mine[t])' \/ (closes /\ Both(mine[t])')
    BY <1>1, <1>3, <1>7 DEF Stage
  <2> QED
    BY <1>1, <2>1, <2>2 DEF Goes, Stage, Still, Command
<1>8. CASE pc[t] = "quit"
  <2>1. pc'[t] = "closed"
    BY <1>1, <1>8 DEF Good, Bad
  <2>2. Quiet'
    BY <1>1, <1>3, <1>8 DEF Stage
  <2> QED
    BY <1>1, <2>1, <2>2 DEF Goes, Stage, Still, Command
<1> QED
  BY <1>2, <1>4, <1>5, <1>6, <1>7, <1>8

LEMMA Emptied ==
    ASSUME NEW m \in Nat
    PROVE  /\ <<m>> # <<>> /\ Head(<<m>>) = m /\ Tail(<<m>>) = <<>>
           /\ <<m, m>> # <<>> /\ Head(<<m, m>>) = m /\ Tail(<<m, m>>) = <<m>>
<1>1. <<m>> # <<>> /\ Head(<<m>>) = m /\ Tail(<<m>>) = <<>>
  OBVIOUS
<1>2. <<m, m>> # <<>> /\ Head(<<m, m>>) = m
  OBVIOUS
<1>3. Tail(<<m, m>>) = <<m>>
  <2>1. Tail(<<m, m>>) \in Seq(Nat) /\ <<m>> \in Seq(Nat)
    OBVIOUS
  <2>2. Len(Tail(<<m, m>>)) = 1 /\ Tail(<<m, m>>)[1] = m
    OBVIOUS
  <2>3. Len(<<m>>) = 1 /\ <<m>>[1] = m
    OBVIOUS
  <2>4. \A i \in 1 .. 1 : Tail(<<m, m>>)[i] = <<m>>[i]
    BY <2>2, <2>3
  <2> QED
    BY <2>1, <2>2, <2>3, <2>4, SeqEqual
<1> QED
  BY <1>1, <1>2, <1>3

LEMMA WokenGoes ==
    ASSUME Types, NEW t \in Tasks, Stage(t), Woken(t)
    PROVE  Goes(t)
<1> DEFINE m == mine[t]
<1>1. /\ pc[t] \in DOMAIN After /\ sem # <<>> /\ sem' = Tail(sem)
      /\ pc'[t] = After[pc[t]] /\ took'[t] = Head(sem)
      /\ UNCHANGED <<op, mine, closes, status, wire, ppc, urc, lock>>
  BY DEF Woken, Types, TaskTypes, others, module, parser, client
<1>2. m \in Nat /\ pc[t] \in {"opening", "connecting", "acking", "disconnecting", "closing"} /\ ~Quiet
  BY <1>1 DEF Types, TaskTypes, After, Quiet
<1>3. (Coming <=> Coming') /\ (Over <=> Over')
  BY <1>1 DEF Coming, Over
<1>4. One(m) => sem = <<m>> /\ Clean(wire) /\ ~Coming
  BY <1>1 DEF One
<1> HIDE DEF m
<1>5. Parted(m) <=> Parted(m)'
  BY <1>1, <1>3 DEF Parted, m
<1>6. /\ <<m>> # <<>> /\ Head(<<m>>) = m /\ Tail(<<m>>) = <<>>
      /\ <<m, m>> # <<>> /\ Head(<<m, m>>) = m /\ Tail(<<m, m>>) = <<m>>
  BY <1>2, Emptied
<1>7. One(m) => Quiet' /\ took'[t] = m
  BY <1>1, <1>3, <1>4, <1>6 DEF Quiet
<1>8. Both(m) => took'[t] = m /\ Second(m)'
  <2>1. Both(m) => (Parted(m) /\ sem = <<m>>) \/ (Over /\ sem \in {<<m>>, <<m, m>>})
    BY <1>1 DEF Both
  <2>2. Parted(m) /\ sem = <<m>> => took'[t] = m /\ Second(m)'
    BY <1>1, <1>5, <1>6 DEF Second
  <2>3. Over /\ sem \in {<<m>>, <<m, m>>} => took'[t] = m /\ Second(m)'
    <3>1. sem = <<m>> => took'[t] = m /\ sem' = <<>>
      BY <1>1, <1>6
    <3>2. sem = <<m, m>> => took'[t] = m /\ sem' = <<m>>
      BY <1>1, <1>6
    <3>3. m' = m
      BY <1>1 DEF m
    <3>4. Over => Over' /\ (sem' \in {<<>>, <<m>>} => Second(m)')
      BY <1>3, <3>3 DEF Second
    <3> QED
      BY <3>1, <3>2, <3>4
  <2> QED
    BY <2>1, <2>2, <2>3
<1>9. Second(m) => took'[t] = m /\ Quiet'
  <2>1. Second(m) => Over /\ sem = <<m>>
    BY <1>1 DEF Second
  <2> QED
    BY <1>1, <1>3, <1>6, <2>1 DEF Quiet, Over
<1>10. mine'[t] = m
  BY <1>1 DEF m
<1>11. CASE pc[t] \in {"opening", "connecting", "acking"}
  <2>1. pc'[t] \in {"opened", "connected", "acked"}
    BY <1>1, <1>11 DEF After
  <2>2. One(m)
    BY <1>2, <1>11 DEF Stage, m
  <2> QED
    BY <1>7, <1>10, <2>1, <2>2 DEF Goes, Stage
<1>12. CASE pc[t] = "disconnecting"
  <2>1. pc'[t] = "left"
    BY <1>1, <1>12 DEF After
  <2>2. One(m) \/ (closes /\ Both(m))
    BY <1>2, <1>12 DEF Stage, m
  <2>3. took'[t] = m /\ (Quiet' \/ (closes' /\ Second(m)'))
    BY <1>1, <1>7, <1>8, <2>2
  <2>4. Second(m)' => Second(mine[t])'
    BY <1>10, <1>1 DEF m
  <2> QED
    BY <1>10, <2>1, <2>3, <2>4 DEF Goes, Stage, Still, Command
<1>13. CASE pc[t] = "closing"
  <2>1. pc'[t] = "close"
    BY <1>1, <1>13 DEF After
  <2>2. Second(m)
    BY <1>2, <1>13 DEF Stage, m
  <2> QED
    BY <1>9, <1>10, <2>1, <2>2 DEF Goes, Stage
<1> QED
  BY <1>2, <1>11, <1>12, <1>13

LEMMA TimesOutGoes ==
    ASSUME Types, NEW t \in Tasks, Stage(t), UnsubPlace(t), took[t] \in {0, mine[t]}, TimesOut(t),
           trouble' \cap Stray = {}
    PROVE  Goes(t)
<1>1. op[t] = "unsubscribe"
  BY DEF TimesOut, Happens, Stray
<1>2. pc[t] = "acking"
  BY <1>1 DEF TimesOut, UnsubPlace, After
<1>3. Quiet
  BY <1>1, <1>2 DEF Stage
<1>4. pc'[t] = "acked" /\ UNCHANGED <<wire, sem, parser, took, mine>>
  BY <1>2 DEF TimesOut, After, others, module, Types, TaskTypes
<1> QED
  BY <1>3, <1>4, QuietStep DEF Still

LEMMA LeftGoes ==
    ASSUME Types, NEW t \in Tasks, Stage(t), took[t] \in {0, mine[t]}, Left(t),
           trouble' \cap Stray = {}
    PROVE  Goes(t)
<1>1. /\ pc[t] = "left" /\ UNCHANGED <<closes, wire, sem, parser, took, mine>>
  BY DEF Left, others, module
<1>2. CASE closes
  <2>1. (Quiet \/ Second(mine[t])) /\ status # "closed" /\ status' = status
    BY <1>1, <1>2 DEF Stage, Left, Stray
  <2>2. CASE status = "disconnected"
    <3>1. pc'[t] = "closing"
      BY <1>2, <2>2 DEF Left, Types, TaskTypes
    <3>2. Quiet => Quiet'
      BY <1>1 DEF Quiet, Coming, parser
    <3>3. Second(mine[t]) => Second(mine[t])'
      BY <1>1, <2>1 DEF Second, Parted, Over, Coming, parser
    <3> QED
      BY <1>1, <2>1, <3>1, <3>2, <3>3 DEF Goes, Stage, Still, Command
  <2>3. CASE status # "disconnected"
    <3>1. pc'[t] = "close"
      BY <1>2, <2>3 DEF Left, Types, TaskTypes
    <3>2. Quiet
      BY <2>1, <2>3 DEF Second, Parted, Over
    <3> QED
      BY <1>1, <3>1, <3>2, QuietStep DEF Still
  <2> QED
    BY <2>2, <2>3
<1>3. CASE ~closes
  <2>1. Quiet
    BY <1>1, <1>3 DEF Stage
  <2>2. pc'[t] = "done"
    BY <1>3 DEF Left, Return, Types, TaskTypes
  <2> QED
    BY <1>1, <2>1, <2>2, QuietStep DEF Still
<1> QED
  BY <1>2, <1>3

LEMMA OtherGoes ==
    ASSUME Types, NEW t \in Tasks, Stage(t), took[t] \in {0, mine[t]},
           \/ Refused(t) \/ Opened(t) \/ Connected(t) \/ Acked(t) \/ Leave(t) \/ Close(t)
           \/ Closed(t) \/ Done(t)
    PROVE  Goes(t)
<1>1. UNCHANGED <<wire, sem, parser, lock>>
  BY DEF Refused, Opened, Connected, Acked, Leave, Close, Closed, Done, others, module, client, Return
<1>2. pc[t] \in Still \ {"unsub"}
  BY DEF Refused, Opened, Connected, Acked, Leave, Close, Closed, Done, Still
<1>3. Quiet
  BY <1>2 DEF Stage
<1>4. CASE Done(t)
  <2>1. pc'[t] = "idle" /\ took'[t] = 0
    BY <1>4 DEF Done, Types, TaskTypes
  <2>2. Quiet'
    BY <1>1, <1>3 DEF Quiet, Coming, parser
  <2> QED
    BY <2>1, <2>2 DEF Goes
<1>5. CASE ~Done(t)
  <2>1. took'[t] = took[t] /\ mine'[t] = mine[t]
    BY <1>5 DEF Refused, Opened, Connected, Acked, Leave, Close, Closed, Return
  <2>2. t \notin lock
    BY <1>2 DEF Types, TaskTypes, Still, Command
  <2>3. pc'[t] \in {"done", "conn", "disc", "quit", "closed"}
    BY <1>5 DEF Refused, Opened, Connected, Acked, Leave, Close, Closed, Return, Types, TaskTypes
  <2> QED
    BY <1>1, <1>3, <2>1, <2>2, <2>3, QuietStep DEF Still, Command
<1> QED
  BY <1>4, <1>5

LEMMA StartsGoes ==
    ASSUME Types, Undisturbed, NEW t \in Tasks, Starts(t), trouble' \cap Stray = {}
    PROVE  Idle /\ Goes(t)
<1>1. /\ pc[t] = "idle" /\ UNCHANGED <<wire, sem, parser, lock, took, mine>>
      /\ pc'[t] \in {"open", "pub", "sub", "unsub", "leaving"}
  BY DEF Starts, Connect, Publish, Subscribe, Unsubscribe, Disconnect, Call, module, client, Types,
         TaskTypes
<1>2. Idle
  BY DEF Starts, Connect, Publish, Subscribe, Unsubscribe, Disconnect, Call, Happens, Stray
<1>3. Quiet /\ took[t] \in {0, mine[t]}
  BY <1>2 DEF Undisturbed
<1>4. t \notin lock
  BY <1>1 DEF Types, TaskTypes, Command
<1> QED
  BY <1>1, <1>2, <1>3, <1>4, QuietStep DEF Still, Command

LEMMA TaskAlone ==
    ASSUME Types, NEW t \in Tasks, Starts(t) \/ Step(t)
    PROVE  /\ \A u \in Tasks \ {t} : pc'[u] = pc[u] /\ took'[u] = took[u] /\ mine'[u] = mine[u]
           /\ UNCHANGED <<ppc, ph, urc, used, gen>>
           /\ Step(t) => pc[t] # "idle"
<1>0. TaskTypes
  BY DEF Types
<1> USE DEF TaskTypes
<1>1. CASE Starts(t)
  <2>1. pc[t] = "idle" /\ ~Step(t)
    BY <1>0, <1>1 DEF Starts, Connect, Publish, Subscribe, Unsubscribe, Disconnect, Call, Step, Executed,
          Unheard, Send, GiveUp, Answered, Woken, TimesOut, Refused, Opened, Connected, Acked, Leave,
          Left, Close, Closed, Done, Command, After
  <2> QED
    BY <1>0, <1>1, <2>1 DEF Starts, Connect, Publish, Subscribe, Unsubscribe, Disconnect, Call, parser
<1>2. CASE Executed(t) \/ Unheard(t)
  BY <1>0, <1>2 DEF Executed, Unheard, Send, parser, Command
<1>3. CASE GiveUp(t) \/ Answered(t)
  BY <1>0, <1>3 DEF GiveUp, Answered, parser, Command
<1>4. CASE Woken(t) \/ TimesOut(t)
  BY <1>0, <1>4 DEF Woken, TimesOut, parser, others, After
<1>5. CASE Step(t) /\ ~(Executed(t) \/ Unheard(t) \/ GiveUp(t) \/ Answered(t) \/ Woken(t) \/ TimesOut(t))
  BY <1>0, <1>5 DEF Step, Refused, Opened, Connected, Acked, Leave, Left, Close, Closed, Done, others,
                    parser, Return
<1> QED
  BY <1>1, <1>2, <1>3, <1>4, <1>5

(* When t is the only task at work, what its step does is all that happens. *)
LEMMA AloneKeeps ==
    ASSUME Types, Undisturbed, NEW t \in Tasks, Starts(t) \/ Step(t), Goes(t),
           \A u \in Tasks \ {t} : pc[u] = "idle"
    PROVE  Undisturbed'
<1>1. /\ \A u \in Tasks \ {t} : pc'[u] = "idle" /\ took'[u] = took[u] /\ mine'[u] = mine[u]
      /\ UNCHANGED <<ppc, ph, urc, used, gen>>
  BY TaskAlone
<1>2. \A u, v \in Tasks : pc'[u] # "idle" /\ pc'[v] # "idle" => u = v
  BY <1>1
<1>3. Idle' => Quiet'
  BY DEF Goes, Idle
<1>4. Coming' => Mine'
  BY <1>1 DEF Undisturbed, Coming, Mine
<1>5. \A u \in Tasks : took'[u] \in {0, mine'[u]} /\ (pc'[u] # "idle" => Stage(u)')
  <2> TAKE u \in Tasks
  <2>1. CASE u = t
    BY <2>1 DEF Goes
  <2>2. CASE u # t
    BY <1>1, <2>2 DEF Undisturbed
  <2> QED
    BY <2>1, <2>2
<1> QED
  BY <1>2, <1>3, <1>4, <1>5 DEF Undisturbed

LEMMA ParseKeeps ==
    ASSUME Types, Calm, Undisturbed, Parse
    PROVE  Undisturbed'
<1>1. \A m \in Nat : Stays(m)
  BY ReadStays, FindStays, SetStays, PostStays DEF Undisturbed, Calm, Parse
<1>2. UNCHANGED <<pc, op, mine, took, lock, closes>>
  BY DEF Parse, ReadReply, Find, SetStatus, Post, task, client, module
<1>3. /\ Quiet => Quiet'
      /\ Coming' => Mine'
      /\ reply # "error" /\ NoError(wire) => reply' # "error" /\ NoError(wire')
      /\ lock # {} /\ Answering => Answering'
  BY <1>1 DEF Stays
<1>4. Idle' => Quiet'
  BY <1>2, <1>3 DEF Undisturbed, Idle
<1>5. ASSUME NEW u \in Tasks, pc[u] # "idle"
      PROVE  Stage(u)'
  <2>1. Stage(u) /\ used /\ mine[u] \in Nat
    BY <1>5 DEF Undisturbed, Calm, Idle, Types, TaskTypes
  <2>2. /\ One(mine[u]) => One(mine[u])'
        /\ Both(mine[u]) => Both(mine[u])'
        /\ Second(mine[u]) => Second(mine[u])'
    <3>1. /\ One(mine[u]) => One(mine[u])'
          /\ Both(mine[u]) => Both(mine[u])'
          /\ Second(mine[u]) => Second(mine[u])'
      BY <1>1, <1>2, <2>1 DEF Stays
    <3> QED
      BY <3>1
  <2>3. u \in lock => lock # {}
    OBVIOUS
  <2> QED
    BY <1>2, <1>3, <2>1, <2>2, <2>3 DEF Stage
<1> QED
  BY <1>2, <1>3, <1>4, <1>5 DEF Undisturbed

LEMMA UndisturbedKept ==
    ASSUME Types, Exchange, Calm, Undisturbed, [Next]_vars, trouble' \cap Stray = {}
    PROVE  Undisturbed'
<1>1. CASE Parse
  BY <1>1, ParseKeeps
<1>2. CASE PeerCloses \/ Retransmits
  BY <1>2 DEF PeerCloses, Retransmits, Happens, Stray
<1>3. CASE Destroy \/ Create
  <2>1. Idle /\ Quiet /\ UNCHANGED <<pc, took, mine, wire, ppc, urc>> /\ (sem' = sem \/ sem' = <<>>)
    BY <1>3 DEF Destroy, Create, Calm, Undisturbed, task, module, parser
  <2>2. Quiet' /\ ~Coming' /\ Idle'
    BY <2>1 DEF Quiet, Coming, Idle
  <2> QED
    BY <2>1, <2>2 DEF Undisturbed, Idle
<1>4. ASSUME NEW t \in Tasks, Starts(t)
      PROVE  Undisturbed'
  <2>1. Idle /\ Goes(t)
    BY <1>4, StartsGoes
  <2> QED
    BY <1>4, <2>1, AloneKeeps DEF Idle
<1>5. ASSUME NEW t \in Tasks, Step(t)
      PROVE  Undisturbed'
  <2>1. pc[t] # "idle"
    BY <1>5, TaskAlone
  <2>2. Stage(t) /\ UnsubPlace(t) /\ took[t] \in {0, mine[t]} /\ \A u \in Tasks \ {t} : pc[u] = "idle"
    BY <2>1 DEF Undisturbed, Calm
  <2>3. Goes(t)
    BY <1>5, <2>2, ExecutedGoes, UnheardGoes, GiveUpGoes, AnsweredGoes, WokenGoes, TimesOutGoes,
       LeftGoes, OtherGoes DEF Step
  <2> QED
    BY <1>5, <2>2, <2>3, AloneKeeps
<1>6. CASE UNCHANGED vars
  <2>1. UNCHANGED <<pc, op, took, mine, lock, reply, closes, wire, ppc, ph, urc, used, gen, status, sem>>
    BY <1>6 DEF vars, task, client, module, parser
  <2>2. (Quiet <=> Quiet') /\ (Coming <=> Coming') /\ (Mine <=> Mine') /\ (Idle <=> Idle')
    BY <2>1 DEF Quiet, Coming, Mine, Idle
  <2> QED
    BY <2>1 DEF Undisturbed, Quiet, Coming, Mine, Idle, Stage, One, Both, Second, Parted, Over,
                Answering
<1> QED
  BY <1>1, <1>2, <1>3, <1>4, <1>5, <1>6 DEF Next

LEMMA CalmKept ==
    ASSUME Types, Connecting, Calm, [Next]_vars
    PROVE  Calm'
<1>1. \A t \in Tasks : UnsubPlace(t)'
  BY UnsubPlaceKept DEF Calm, Connecting
<1>2. Handled' /\ (~used => Idle)'
  BY HandledKept, UnusedKept DEF Calm
<1>3. ASSUME trouble' \cap Stray = {}
      PROVE  Undisturbed'
  <2>1. trouble \cap Stray = {}
    BY <1>3, TroubleGrows
  <2>2. Undisturbed /\ Exchange
    BY <2>1 DEF Calm, Connecting, InTime, Stray
  <2> QED
    BY <1>3, <2>2, UndisturbedKept
<1> QED
  BY <1>1, <1>2, <1>3 DEF Calm

LEMMA InitCalm == Init => Calm
BY DEF Init, Calm, UnsubPlace, Handled, Idle, Undisturbed, Quiet, Coming, Clean

(* A wait is ended by a URC of its own command, as long as no wait ended    *)
(* without its token, no command was answered after its time-out, no packet *)
(* was reported sent again, no +QMTSTAT came unasked or before it was waited*)
(* for, and no two calls overlapped.                                        *)
THEOREM AckCorrect == Spec => []AckIsOwn
<1>1. Calm => AckIsOwn
  BY DEF Calm, Undisturbed, AckIsOwn
<1>2. Init => Types /\ Connecting /\ Calm
  BY InitTypes, InitConnecting, InitCalm
<1>3. Types /\ Connecting /\ Calm /\ [Next]_vars => (Types /\ Connecting /\ Calm)'
  BY TypesKept, ConnectingKept, CalmKept
<1> QED
  BY <1>1, <1>2, <1>3, PTL DEF Spec
=============================================================================
