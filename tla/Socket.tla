-------------------------------- MODULE Socket --------------------------------
(***************************************************************************)
(* A stream socket of ql_socket.c: one task that creates, connects, reads  *)
(* and closes the sockets of one descriptor, one after the other; the      *)
(* parser task that runs the URC handlers +QIOPEN, "recv" and "closed";    *)
(* and the module, whose lines reach the parser in order.  A command       *)
(* returns when the parser has read its OK (see AtClient), or after a time-*)
(* out.  Bytes are numbered through all connections.                       *)
(*                                                                         *)
(* A packet fits into ONE_PKT_MAX_LENGTH and arrives whole.  Past the last *)
(* packet ql_recvfrom compares with what lies at address 0, which is       *)
(* readable on this microcontroller, and its loop ends either way.  Where  *)
(* the parser walks on from a packet that has been freed, or from address 0,*)
(* the mildest outcome is taken: the walk ends and its packet is lost.     *)
(***************************************************************************)
EXTENDS Integers, Sequences, SequencesExt

CONSTANTS
    PktLens,        \* lengths of a packet
    Wants,          \* lengths ql_recvfrom is asked for
    Tokens,         \* most tokens of a semaphore: 5 in qosa_sem.c
    MaxBytes,       \* bound: bytes the peers send
    MaxSockets,     \* bound: sockets created
    MaxLate         \* bound: commands and connections that time out

ASSUME ConstantsAssumption ==
    /\ PktLens \subseteq Nat \ {0} /\ Wants \subseteq Nat \ {0} /\ Tokens \in Nat \ {0}
    /\ MaxBytes \in Nat /\ MaxSockets \in Nat /\ MaxLate \in Nat

VARIABLES
    wire,           \* lines from the module that the parser has not read
    conn,           \* the connection in the module
    cmd,            \* the AT command: "none", "sent", "unheard" or "done"
    used,           \* s_socket_indices[fd].used
    gen,            \* the handle, counted from 1; its fields are
    alive, err, state, sem, list, offset, lock,
    upc, want, last,    \* the task: place, bytes asked for, loaded pkt->next = NULL
    ppc, ph, urc, tailOf,   \* the parser: place, handle, URC, packet of its walk
    sent,           \* history: bytes the peers have sent
    given, got,     \* history: bytes put into this handle's list, bytes read from it
    late,           \* history: commands and connections that timed out
    raced           \* history: ql_recvfrom, without the lock, took a packet off the
                    \* list while ql_socket_pkt_put, under the lock, added one

module == <<wire, conn, sent>>
handle == <<used, gen, alive, err, state>>
packets == <<list, offset, lock, given, raced>>
task == <<upc, want, last, got, cmd, late>>
parser == <<ppc, ph, urc, tailOf>>
vars == <<module, handle, packets, sem, task, parser>>

Ok == [line |-> "OK", bytes |-> <<>>]

Init ==
    /\ wire = <<>> /\ conn = "idle" /\ cmd = "none" /\ sent = 0
    /\ used = FALSE /\ gen = 0 /\ alive = FALSE
    /\ err = "ok" /\ state = "open" /\ sem = 0 /\ list = <<>> /\ offset = 0 /\ lock = "nobody"
    /\ upc = "none" /\ want = 0 /\ last = FALSE
    /\ ppc = "idle" /\ ph = 0 /\ urc = Ok /\ tailOf = <<>>
    /\ given = <<>> /\ got = <<>> /\ late = 0 /\ raced = FALSE

\* Mistake: the kernel's limit is forgotten.
PostUnbounded == sem' = sem + 1

\* qosa_sem_release
Post == sem' = IF sem < Tokens THEN sem + 1 ELSE sem

-----------------------------------------------------------------------------
(* The module.                                                              *)

Open(e) == [line |-> e, bytes |-> <<>>]
Results == {"ok", "refused", "fd_used"}

Execute(command) ==
    /\ cmd = "none" /\ cmd' = "sent"
    /\ CASE command = "QICLOSE" -> conn' = "idle" /\ wire' = Append(wire, Ok)
         [] command = "QIOPEN" /\ conn = "idle" -> conn' = "opening" /\ wire' = Append(wire, Ok)
         [] OTHER -> wire' = wire \o <<Ok, Open("fd_used")>> /\ UNCHANGED conn

\* The command is not answered.
Lost == cmd = "none" /\ cmd' = "unheard" /\ UNCHANGED <<conn, wire>>

Opened(e) ==
    /\ conn = "opening"
    /\ conn' = IF e = "ok" THEN "open" ELSE "idle"
    /\ wire' = Append(wire, Open(e))
    /\ UNCHANGED <<sent, handle, packets, sem, task, parser>>

Data(n) ==
    /\ conn = "open" /\ sent + n <= MaxBytes
    /\ sent' = sent + n
    /\ wire' = Append(wire, [line |-> "recv", bytes |-> [k \in 1 .. n |-> sent + k]])
    /\ UNCHANGED <<conn, handle, packets, sem, task, parser>>

PeerCloses ==
    /\ conn = "open" /\ conn' = "closed"
    /\ wire' = Append(wire, [line |-> "closed", bytes |-> <<>>])
    /\ UNCHANGED <<sent, handle, packets, sem, task, parser>>

-----------------------------------------------------------------------------
(* The parser.                                                              *)

ReadOk ==
    /\ ppc = "idle" /\ wire # <<>> /\ Head(wire) = Ok
    /\ wire' = Tail(wire)
    /\ cmd' = IF cmd = "sent" THEN "done" ELSE cmd
    /\ UNCHANGED <<conn, sent, handle, packets, sem, upc, want, last, got, late, parser>>

\* ql_socket_find_handle_by_fd: no handle, no URC.
FindHandle ==
    /\ ppc = "idle" /\ wire # <<>> /\ Head(wire) # Ok
    /\ wire' = Tail(wire)
    /\ IF used
       THEN /\ ph' = gen
            /\ urc' = Head(wire)
            /\ ppc' = IF Head(wire).line \in Results THEN "err" ELSE Head(wire).line
       ELSE UNCHANGED <<ppc, ph, urc>>
    /\ UNCHANGED <<conn, sent, handle, packets, sem, task, tailOf>>

\* Whether the parser's handle is still there to be written.
Mine == alive /\ ph = gen

\* ql_socket_urc_connect
SetErr ==
    /\ ppc = "err" /\ ppc' = "post"
    /\ err' = IF Mine THEN urc.line ELSE err
    /\ UNCHANGED <<module, used, gen, alive, state, packets, sem, task, ph, urc, tailOf>>

\* ql_socket_urc_close
SetClosing ==
    /\ ppc = "closed" /\ ppc' = "post"
    /\ state' = IF Mine THEN "closing" ELSE state
    /\ UNCHANGED <<module, used, gen, alive, err, packets, sem, task, ph, urc, tailOf>>

\* ql_socket_pkt_put under the lock: the first packet is tested, ...
TestHead ==
    /\ ppc = "recv" /\ lock = "nobody"
    /\ ppc' = IF Mine /\ list # <<>> THEN "head" ELSE "link"
    /\ lock' = "parser"
    /\ UNCHANGED <<module, handle, list, offset, given, raced, sem, task, ph, urc, tailOf>>

\* An address at which there is no packet; bytes are numbered from 1.
Wild == <<0>>

\* ... loaded again, ...
LoadHead ==
    /\ ppc = "head" /\ ppc' = "walk"
    /\ tailOf' = IF Mine /\ list # <<>> THEN list[1] ELSE Wild
    /\ UNCHANGED <<module, handle, packets, sem, task, ph, urc>>

\* ... followed from packet to packet while there is a next one, ...
Walk ==
    /\ ppc = "walk"
    /\ \/ \E k \in 1 .. Len(list) - 1 : list[k] = tailOf /\ tailOf' = list[k + 1] /\ UNCHANGED ppc
       \/ /\ \A k \in 1 .. Len(list) - 1 : list[k] # tailOf
          /\ ppc' = "link" /\ UNCHANGED tailOf
    /\ UNCHANGED <<module, handle, packets, sem, task, ph, urc>>

FindLast == TestHead \/ LoadHead \/ Walk

\* ... and the new packet is linked to the one where the walk ended.  If that
\* one is no longer in the list, the new packet is lost.
Link ==
    LET lost == tailOf # <<>> /\ (list = <<>> \/ list[Len(list)] # tailOf)
    IN  /\ ppc = "link" /\ ppc' = "post"
        /\ lock' = "nobody"
        /\ IF Mine
           THEN /\ list' = IF lost THEN list ELSE Append(list, urc.bytes)
                /\ given' = given \o urc.bytes
                /\ raced' = (raced \/ (upc = "cut" /\ last))
           ELSE UNCHANGED <<list, given, raced>>
        /\ UNCHANGED <<module, handle, offset, sem, task, ph, urc, tailOf>>

PostUrc ==
    /\ ppc = "post" /\ ppc' = "idle"
    /\ IF Mine THEN Post ELSE UNCHANGED sem
    /\ ph' = 0 /\ urc' = Ok /\ tailOf' = <<>>
    /\ UNCHANGED <<module, handle, packets, task>>

-----------------------------------------------------------------------------
(* ql_socket and ql_connect                                                 *)

NewSocket ==
    /\ upc = "none" /\ gen < MaxSockets
    /\ upc' = "open"
    /\ used' = TRUE /\ gen' = gen + 1 /\ alive' = TRUE
    /\ err' = "ok" /\ state' = "open" /\ sem' = 0
    /\ list' = <<>> /\ offset' = 0 /\ lock' = "nobody"
    /\ given' = <<>> /\ got' = <<>> /\ raced' = FALSE
    /\ UNCHANGED <<module, want, last, cmd, late, parser>>

\* AT+QIOPEN; unanswered, it fails.
Connect ==
    /\ upc = "open"
    /\ \/ Execute("QIOPEN") /\ UNCHANGED late
       \/ Lost /\ late < MaxLate /\ late' = late + 1
    /\ upc' = "opening"
    /\ UNCHANGED <<sent, handle, packets, sem, want, last, got, parser>>

ConnectFails ==
    /\ upc = "opening" /\ cmd = "unheard"
    /\ upc' = "open" /\ cmd' = "none"
    /\ UNCHANGED <<module, handle, packets, sem, want, last, got, late, parser>>

ConnectSent ==
    /\ upc = "opening" /\ cmd = "done"
    /\ upc' = "result" /\ cmd' = "none"
    /\ UNCHANGED <<module, handle, packets, sem, want, last, got, late, parser>>

\* Mistake: the result is not looked at.
ConnectedAnyway ==
    /\ upc = "result" /\ sem > 0
    /\ sem' = sem - 1
    /\ upc' = "ready" /\ state' = "connected"
    /\ UNCHANGED <<module, used, gen, alive, err, packets, want, last, got, cmd, late, parser>>

Connected ==
    /\ upc = "result" /\ sem > 0
    /\ sem' = sem - 1
    /\ IF err = "ok"
       THEN upc' = "ready" /\ state' = "connected"
       ELSE upc' = "open" /\ UNCHANGED state
    /\ UNCHANGED <<module, used, gen, alive, err, packets, want, last, got, cmd, late, parser>>

\* 151 seconds without a +QIOPEN.
ConnectTimesOut ==
    /\ upc = "result" /\ sem = 0 /\ late < MaxLate
    /\ late' = late + 1
    /\ upc' = "open"
    /\ UNCHANGED <<module, handle, packets, sem, want, last, got, cmd, parser>>

-----------------------------------------------------------------------------
(* ql_recvfrom                                                              *)

Recv(n) ==
    /\ upc = "ready"
    /\ upc' = "peek" /\ want' = n
    /\ UNCHANGED <<module, handle, packets, sem, last, got, cmd, late, parser>>

\* ql_socket_pkt_get, under the lock.
Peek ==
    /\ upc = "peek" /\ lock = "nobody"
    /\ upc' = IF list = <<>> THEN "empty" ELSE "copy"
    /\ UNCHANGED <<module, handle, packets, sem, want, last, got, cmd, late, parser>>

\* Mistake: old tokens are thrown away before the wait.
EmptyDrains ==
    /\ upc = "empty"
    /\ upc' = IF state = "closing" THEN "eof" ELSE "wait"
    /\ sem' = 0
    /\ UNCHANGED <<module, handle, packets, want, last, got, cmd, late, parser>>

\* The peer has closed: 0 is returned.  Otherwise the task waits, if it may.
Empty ==
    /\ upc = "empty"
    /\ upc' = IF state = "closing" THEN "eof" ELSE "wait"
    /\ UNCHANGED <<module, handle, packets, sem, want, last, got, cmd, late, parser>>

Woken ==
    /\ upc = "wait" /\ sem > 0
    /\ sem' = sem - 1
    /\ upc' = "peek"
    /\ UNCHANGED <<module, handle, packets, want, last, got, cmd, late, parser>>

\* MSG_DONTWAIT, or the time of SO_RCVTIMEO is over.
RecvFails ==
    /\ upc = "wait"
    /\ upc' = "ready" /\ want' = 0
    /\ UNCHANGED <<module, handle, packets, sem, last, got, cmd, late, parser>>

Left == SubSeq(list[1], offset + 1, Len(list[1]))

\* Copy from the first packet; the list is read and cut without the lock.
Copy ==
    LET n == IF Len(Left) < want THEN Len(Left) ELSE want
    IN  /\ upc = "copy"
        /\ got' = got \o SubSeq(Left, 1, n)
        /\ want' = want - n
        /\ offset' = offset + n
        /\ last' = (Len(list) = 1)
        /\ upc' = IF n = Len(Left) THEN "cut" ELSE "ready"
        /\ UNCHANGED <<module, handle, list, lock, given, raced, sem, cmd, late, parser>>

\* Mistake: the next packet is read from where this one ended.
CutKeepsOffset ==
    /\ upc = "cut"
    /\ list' = IF last THEN <<>> ELSE Tail(list)
    /\ raced' = (raced \/ lock = "parser")
    /\ upc' = IF list' # <<>> /\ want > 0 THEN "copy" ELSE "ready"
    /\ UNCHANGED <<module, handle, offset, lock, given, sem, want, last, got, cmd, late, parser>>

\* handle->pkt_head = tmp->next, as it was loaded.
Cut ==
    /\ upc = "cut"
    /\ list' = IF last THEN <<>> ELSE Tail(list)
    /\ raced' = (raced \/ lock = "parser")
    /\ offset' = 0
    /\ upc' = IF list' # <<>> /\ want > 0 THEN "copy" ELSE "ready"
    /\ UNCHANGED <<module, handle, lock, given, sem, want, last, got, cmd, late, parser>>

-----------------------------------------------------------------------------
(* ql_close                                                                 *)

\* A descriptor that is used elsewhere is not closed in the module.
Close ==
    /\ upc \in {"open", "ready", "eof"}
    /\ IF err = "fd_used"
       THEN upc' = "closed" /\ UNCHANGED <<wire, conn, cmd, late>>
       ELSE /\ \/ Execute("QICLOSE") /\ UNCHANGED late
               \/ Lost /\ late < MaxLate /\ late' = late + 1
            /\ upc' = "closing"
    /\ UNCHANGED <<sent, handle, packets, sem, want, last, got, parser>>

\* Mistake: the answer of AT+QICLOSE is not waited for.
CloseSentUnheard ==
    /\ upc = "closing" /\ upc' = "closed"
    /\ cmd' = "none"
    /\ UNCHANGED <<module, handle, packets, sem, want, last, got, late, parser>>

CloseSent ==
    /\ upc = "closing" /\ cmd \in {"unheard", "done"} /\ upc' = "closed"
    /\ cmd' = "none"
    /\ UNCHANGED <<module, handle, packets, sem, want, last, got, late, parser>>

\* ql_socket_release_fd
ReleaseFd ==
    /\ upc = "closed" /\ upc' = "free"
    /\ used' = FALSE
    /\ UNCHANGED <<module, gen, alive, err, state, packets, sem, want, last, got, cmd, late,
                   parser>>

FreeHandle ==
    /\ upc = "free" /\ upc' = "none"
    /\ alive' = FALSE /\ list' = <<>> /\ offset' = 0 /\ sem' = 0
    /\ want' = 0 /\ last' = FALSE
    /\ UNCHANGED <<module, used, gen, err, state, lock, given, raced, got, cmd, late, parser>>

-----------------------------------------------------------------------------
Module == (\E e \in Results : Opened(e)) \/ (\E n \in PktLens : Data(n)) \/ PeerCloses
Parser == ReadOk \/ FindHandle \/ SetErr \/ SetClosing \/ FindLast \/ Link \/ PostUrc
Calls == NewSocket \/ Connect \/ (\E n \in Wants : Recv(n)) \/ Close
Task == \/ ConnectFails \/ ConnectSent \/ Connected \/ Peek \/ Empty \/ Woken \/ Copy \/ Cut
        \/ CloseSent \/ ReleaseFd \/ FreeHandle

Next == Module \/ Parser \/ Calls \/ Task \/ ConnectTimesOut \/ RecvFails

Spec == Init /\ [][Next]_vars

\* The scheduler runs both tasks; no peer has to send, no timeout to strike.
LiveSpec == Spec /\ WF_vars(Parser) /\ WF_vars(Task)

-----------------------------------------------------------------------------
TypeOK ==
    /\ conn \in {"idle", "opening", "open", "closed"}
    /\ cmd \in {"none", "sent", "unheard", "done"}
    /\ err \in Results /\ state \in {"open", "connected", "closing"}
    /\ sem \in 0 .. Tokens /\ lock \in {"nobody", "parser"} /\ late \in Nat
    /\ offset \in Nat /\ want \in Nat
    /\ upc \in {"none", "open", "opening", "result", "ready", "peek", "empty", "wait", "copy",
                "cut", "eof", "closing", "closed", "free"}
    /\ ppc \in {"idle", "err", "closed", "recv", "head", "walk", "link", "post"}

Unread == SubSeq(FlattenSeq(list), offset + 1, Len(FlattenSeq(list)))

\* What was read from a socket and what is still in its list are together what
\* the parser put into it, in order, as long as ql_recvfrom and the parser never
\* changed the list at the same time: the task never stored pkt_head between the
\* parser's test of it and its link, and the parser never linked a packet between
\* the task's load of a next that is NULL and that store.
StreamKept == alive /\ ~raced => got \o Unread = given

\* The same without the condition, as if ql_recvfrom took a packet off the list
\* under the lock.  It does not hold of the code.
StreamAlways == alive => got \o Unread = given

\* As long as every command was answered in time, no URC handler still uses a
\* handle when ql_close frees it.
NoUseAfterFree == late = 0 /\ ppc # "idle" => Mine

\* As long as no command or connection timed out, a socket whose connection has
\* been reported open has a connection in the module, and a descriptor that was
\* closed has none: the next socket of the descriptor starts afresh.
ConnectionMatches ==
    late = 0 =>
        /\ upc \in {"ready", "peek", "empty", "wait", "copy", "cut", "eof"}
             => conn \in {"open", "closed"}
        /\ upc = "none" => conn = "idle"

\* End of file is reported only after the last byte.
EofIsLast == upc = "eof" /\ ~raced => Unread = <<>>

\* A task that waits in ql_recvfrom is woken when a packet is in the list.
RecvWakes == (upc = "wait" /\ list # <<>>) ~> upc # "wait"
===============================================================================
