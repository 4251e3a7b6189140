------------------------------- MODULE DebugLog -------------------------------
(***************************************************************************)
(* Saving the debug output to the SD card: debug_print (qosa_log.c) puts   *)
(* records, a length and a text, into the ring g_log_rb, and the thread of *)
(* debug_service.c takes them out and writes the texts to quectel.log.     *)
(* "debug save 1" and "debug save 0" start and stop the thread.            *)
(*                                                                         *)
(* A cell stands for a few bytes: <<n, 0>> for the length of record n,     *)
(* <<n, k>> for the k-th part of its text.  The thread is taken to end     *)
(* within the second that "debug save 0" sleeps.  The messages the thread  *)
(* itself logs are left out.  A text is no longer than DBG_BUFF_LEN: a     *)
(* longer message does not fit into debug_print's own buffer, which lies   *)
(* before anything modelled here.  A longer length, for which the thread   *)
(* has a loop, comes from a text misread as a length (LengthIn).  The      *)
(* specification's names begin with Log: StreamProofs takes this module    *)
(* together with Socket.                                                   *)
(***************************************************************************)
EXTENDS Integers, Sequences, SequencesExt

CONSTANTS
    Tasks,          \* tasks that call debug_print
    Texts,          \* lengths of a text, in cells
    RingSize,       \* g_log_rb.buffer_size
    BuffLen,        \* DBG_BUFF_LEN
    SemTokens,      \* most tokens of a semaphore: 5 in qosa_sem.c
    MaxRecords,     \* bound: messages printed
    MaxStarts,      \* bound: times the service is created
    MaxFaults       \* bound: failures of the card

ASSUME SizesAssumption ==
    /\ RingSize \in Nat \ {0} /\ BuffLen \in Nat \ {0} /\ SemTokens \in Nat \ {0}
    /\ Texts \subseteq 1 .. BuffLen
    /\ "nobody" \notin Tasks

VARIABLES
    pc, reg,        \* debug_print: place, and the size loaded for size += n
    slock,          \* debug_slock, created by the first message of the start-up
    saving,         \* g_save_debug_flag
    serviceSem,     \* tokens of g_debug_service_sem_id, -1 for NULL
    buffer,         \* g_log_rb.buffer: "null", "live" or "freed"
    cells, head, tail, size,    \* the rest of g_log_rb
    starts, cli,    \* the service's creations, and where the command is
    tpc, left, logBuffer, loaded,   \* the thread: place, size, LOG_BUFFER, register
    file,           \* quectel.log
    texts,          \* history: the length of each record printed
    accepted,       \* history: the cells put into the ring of this creation
    cut,            \* history: a record did not fit
    torn,           \* history: two updates of size overlapped, or a debug_print and On
    faults          \* history: failures of the card

printer == <<pc, reg, slock, texts>>
ring == <<cells, head, tail, size>>
service == <<saving, serviceSem, buffer, starts, cli>>
thread == <<tpc, left, logBuffer, loaded, file>>
history == <<accepted, cut, torn, faults>>
logVars == <<printer, ring, service, thread, history>>

Junk == <<0, 0>>    \* what a fresh buffer holds
NoReg == [size |-> 0, n |-> 0, start |-> 0]

LogInit ==
    /\ pc = [t \in Tasks |-> "idle"] /\ reg = [t \in Tasks |-> NoReg]
    /\ slock = "nobody" /\ texts = <<>>
    /\ cells = [k \in 0 .. RingSize - 1 |-> Junk]
    /\ head = 0 /\ tail = 0 /\ size = 0
    /\ saving = FALSE /\ serviceSem = -1 /\ buffer = "null" /\ starts = 0 /\ cli = "idle"
    /\ tpc = "none" /\ left = 0 /\ logBuffer = <<>> /\ loaded = NoReg /\ file = <<>>
    /\ accepted = <<>> /\ cut = FALSE /\ torn = FALSE /\ faults = 0

Least(a, b) == IF a < b THEN a ELSE b
Cells(n) == [k \in 1 .. 1 + texts[n] |-> <<n, k - 1>>]

-----------------------------------------------------------------------------
(* debug_print                                                              *)

Record(t, len) ==
    /\ pc[t] = "idle" /\ slock = "nobody" /\ Len(texts) < MaxRecords
    /\ slock' = t
    /\ texts' = Append(texts, len)
    /\ pc' = [pc EXCEPT ![t] = "test"]
    /\ UNCHANGED <<reg, ring, service, thread, history>>

Leave(t) ==
    /\ slock' = "nobody"
    /\ pc' = [pc EXCEPT ![t] = "idle"]

Test(t) ==
    /\ pc[t] = "test"
    /\ IF saving /\ buffer # "null"
       THEN pc' = [pc EXCEPT ![t] = "put"] /\ UNCHANGED slock
       ELSE Leave(t)
    /\ UNCHANGED <<reg, texts, ring, service, thread, history>>

\* ringbuffer_put up to the load of size; what does not fit is cut off.  The
\* thread only moves head, so its steps commute with the copy.
Put(t) ==
    LET record == Cells(Len(texts))
        n == Least(Len(record), RingSize - size)
    IN  /\ pc[t] = "put"
        /\ cells' = [k \in 0 .. RingSize - 1 |->
                       LET d == (k - tail) % RingSize IN IF d < n THEN record[d + 1] ELSE cells[k]]
        /\ tail' = (tail + n) % RingSize
        /\ reg' = [reg EXCEPT ![t] =
                      IF n = 0 THEN NoReg ELSE [size |-> size, n |-> n, start |-> starts]]
        /\ pc' = [pc EXCEPT ![t] = IF n = 0 THEN "release" ELSE "add"]
        /\ accepted' = accepted \o SubSeq(record, 1, n)
        /\ cut' = (cut \/ n < Len(record))
        /\ UNCHANGED <<slock, texts, head, size, service, thread, torn, faults>>

Overlapped(r) == size # r.size \/ starts # r.start

Add(t) ==
    /\ pc[t] = "add"
    /\ size' = reg[t].size + reg[t].n
    /\ torn' = (torn \/ Overlapped(reg[t]))
    /\ reg' = [reg EXCEPT ![t] = NoReg]
    /\ pc' = [pc EXCEPT ![t] = "release"]
    /\ UNCHANGED <<slock, texts, cells, head, tail, service, thread, accepted, cut, faults>>

\* Mistake: the kernel's limit is forgotten.
GivenUnbounded == IF serviceSem = -1 THEN -1 ELSE serviceSem + 1

\* qosa_sem_release, if the semaphore is there.
Given == IF serviceSem = -1 THEN -1 ELSE Least(serviceSem + 1, SemTokens)

Release(t) ==
    /\ pc[t] = "release"
    /\ serviceSem' = Given
    /\ Leave(t)
    /\ UNCHANGED <<reg, texts, ring, saving, buffer, starts, cli, thread, history>>

-----------------------------------------------------------------------------
(* The command "debug save"                                                 *)

\* debug_save_service_create: the ring.  The command tests only the flag.  That no
\* thread is there, tpc = "none", is assumed of the user: "debug save 1" is not given
\* again while an earlier thread still opens its file or ends.
On ==
    /\ cli = "idle" /\ ~saving /\ tpc = "none" /\ starts < MaxStarts
    /\ starts' = starts + 1
    /\ buffer' = "live"
    /\ cells' = [k \in 0 .. RingSize - 1 |-> Junk]
    /\ head' = 0 /\ tail' = 0 /\ size' = 0
    /\ accepted' = <<>> /\ cut' = FALSE
    /\ torn' = (\E t \in Tasks : pc[t] \in {"put", "add", "release"})
    /\ cli' = "create"
    /\ UNCHANGED <<printer, saving, serviceSem, thread, faults>>

\* The semaphore and the thread.
Create ==
    /\ cli = "create"
    /\ serviceSem' = 0 /\ tpc' = "open" /\ cli' = "idle"
    /\ UNCHANGED <<printer, ring, saving, buffer, starts, left, logBuffer, loaded, file, history>>

Off ==
    /\ cli = "idle" /\ saving
    /\ saving' = FALSE
    /\ cli' = "wake"
    /\ UNCHANGED <<printer, ring, serviceSem, buffer, starts, thread, history>>

\* Mistake: the thread is not woken.
WakeForgotten ==
    /\ cli = "wake" /\ cli' = "sleep"
    /\ UNCHANGED <<printer, ring, saving, serviceSem, buffer, starts, thread, history>>

Wake ==
    /\ cli = "wake" /\ cli' = "sleep"
    /\ serviceSem' = Given
    /\ UNCHANGED <<printer, ring, saving, buffer, starts, thread, history>>

\* qosa_task_sleep_ms(1000): the thread has ended.
Slept ==
    /\ cli = "sleep" /\ tpc = "none"
    /\ cli' = "idle"
    /\ UNCHANGED <<printer, ring, saving, serviceSem, buffer, starts, thread, history>>

-----------------------------------------------------------------------------
(* debug_service_thread_proc                                                *)

\* The old log is moved to the backups and a new one is created.
OpenLog ==
    /\ tpc = "open" /\ tpc' = "raise"
    /\ file' = <<>>
    /\ UNCHANGED <<printer, ring, service, left, logBuffer, loaded, history>>

OpenFails ==
    /\ tpc = "open" /\ faults < MaxFaults
    /\ tpc' = "exit" /\ faults' = faults + 1
    /\ UNCHANGED <<printer, ring, service, left, logBuffer, loaded, file, accepted, cut, torn>>

Raise ==
    /\ tpc = "raise" /\ tpc' = "loop"
    /\ saving' = TRUE
    /\ UNCHANGED <<printer, ring, serviceSem, buffer, starts, cli, left, logBuffer, loaded, file,
                   history>>

Loop ==
    /\ tpc = "loop"
    /\ tpc' = IF saving THEN "wait" ELSE "exit"
    /\ UNCHANGED <<printer, ring, service, left, logBuffer, loaded, file, history>>

Wait ==
    /\ tpc = "wait" /\ serviceSem > 0
    /\ serviceSem' = serviceSem - 1
    /\ tpc' = "more"
    /\ UNCHANGED <<printer, ring, saving, buffer, starts, cli, left, logBuffer, loaded, file,
                   history>>

More ==
    /\ tpc = "more"
    /\ tpc' = IF saving /\ size > 0 THEN "header" ELSE "loop"
    /\ UNCHANGED <<printer, ring, service, left, logBuffer, loaded, file, history>>

\* ringbuffer_get of up to n cells, up to the load of size.
Get(n) ==
    LET m == Least(n, size)
    IN  /\ logBuffer' = [k \in 1 .. m |-> cells[(head + k - 1) % RingSize]]
        /\ head' = (head + m) % RingSize
        /\ loaded' = [size |-> size, n |-> m, start |-> starts]

Sub ==
    /\ size' = loaded.size - loaded.n
    /\ loaded' = NoReg
    /\ torn' = (torn \/ Overlapped(loaded))

Header ==
    /\ tpc = "header" /\ tpc' = "size"
    /\ Get(1)
    /\ UNCHANGED <<printer, cells, tail, size, service, left, file, history>>

\* The four bytes are taken for a length, whatever they are; a text read as one
\* is negative (0 here) or asks for several blocks.
LengthIn(c) == IF c # Junk /\ c[2] = 0 THEN {texts[c[1]]} ELSE {0, BuffLen + 1}

Size ==
    /\ tpc = "size" /\ tpc' = "text"
    /\ Sub
    /\ left' \in LengthIn(logBuffer[1])
    /\ UNCHANGED <<printer, cells, head, tail, service, logBuffer, file, accepted, cut, faults>>

\* Mistake: the size counts the length as well as the text.
NeedWhole == Least(BuffLen, left + 1)

Need == Least(BuffLen, left)

\* Mistake: one record for each token.
TextOnce ==
    /\ tpc = "text"
    /\ IF left = 0
       THEN tpc' = "loop" /\ UNCHANGED <<logBuffer, head, loaded>>
       ELSE Get(Need) /\ tpc' = "sub"
    /\ UNCHANGED <<printer, cells, tail, size, service, left, file, history>>

Text ==
    /\ tpc = "text"
    /\ IF left = 0
       THEN tpc' = "more" /\ UNCHANGED <<logBuffer, head, loaded>>
       ELSE Get(Need) /\ tpc' = "sub"
    /\ UNCHANGED <<printer, cells, tail, size, service, left, file, history>>

SubText ==
    /\ tpc = "sub" /\ tpc' = "write"
    /\ Sub
    /\ UNCHANGED <<printer, cells, head, tail, service, left, logBuffer, file, accepted, cut,
                   faults>>

\* What the ring did not give is what LOG_BUFFER happens to hold.
Block == [k \in 1 .. Need |-> IF k <= Len(logBuffer) THEN logBuffer[k] ELSE Junk]

Write ==
    /\ tpc = "write" /\ tpc' = "text"
    /\ file' = file \o Block
    /\ left' = left - Need /\ logBuffer' = <<>>
    /\ UNCHANGED <<printer, ring, service, loaded, history>>

\* An error is logged and the text is lost; FR_INVALID_OBJECT ends the service.
WriteFails ==
    /\ tpc = "write" /\ faults < MaxFaults
    /\ faults' = faults + 1
    /\ \/ tpc' = "text" /\ left' = left - Need
       \/ tpc' = "exit" /\ UNCHANGED left
    /\ UNCHANGED <<printer, ring, service, logBuffer, loaded, file, accepted, cut, torn>>

Exit ==
    /\ tpc = "exit" /\ tpc' = "destroy"
    /\ saving' = FALSE
    /\ UNCHANGED <<printer, ring, serviceSem, buffer, starts, cli, left, logBuffer, loaded, file,
                   history>>

\* debug_save_service_destroy: g_log_rb.buffer keeps pointing to the freed memory.
Destroy ==
    /\ tpc = "destroy" /\ tpc' = "none"
    /\ buffer' = "freed"
    /\ serviceSem' = -1
    /\ left' = 0 /\ logBuffer' = <<>>
    /\ UNCHANGED <<printer, ring, saving, starts, cli, loaded, file, history>>

-----------------------------------------------------------------------------
DebugPrint(t) == Test(t) \/ Put(t) \/ Add(t) \/ Release(t)
Command == Create \/ Wake \/ Slept
Save == \/ OpenLog \/ Raise \/ Loop \/ Wait \/ More \/ Header \/ Size \/ Text \/ SubText
        \/ Write \/ Exit \/ Destroy

LogNext ==
    \/ \E t \in Tasks : (\E len \in Texts : Record(t, len)) \/ DebugPrint(t)
    \/ On \/ Off \/ Command
    \/ Save \/ OpenFails \/ WriteFails

LogSpec == LogInit /\ [][LogNext]_logVars

\* The scheduler runs every task that is ready; nobody has to log or to type.
LogLiveSpec ==
    /\ LogSpec
    /\ \A t \in Tasks : WF_logVars(DebugPrint(t))
    /\ WF_logVars(Command) /\ WF_logVars(Save)

-----------------------------------------------------------------------------
LogTypeOK ==
    /\ pc \in [Tasks -> {"idle", "test", "put", "add", "release"}]
    /\ slock \in Tasks \cup {"nobody"}
    /\ saving \in BOOLEAN /\ serviceSem \in -1 .. SemTokens /\ buffer \in {"null", "live", "freed"}
    /\ head \in 0 .. RingSize - 1 /\ tail \in 0 .. RingSize - 1 /\ size \in 0 .. RingSize
    /\ cli \in {"idle", "create", "wake", "sleep"}
    /\ tpc \in {"none", "open", "raise", "loop", "wait", "more", "header", "size", "text", "sub",
                "write", "exit", "destroy"}
    /\ left \in 0 .. BuffLen + 1 /\ Len(logBuffer) <= BuffLen

\* What can go wrong in the ring or on the card has not happened.
Clean == ~cut /\ ~torn /\ faults = 0

\* The cells of s that are pieces of texts.
TextOf(s) == FlattenSeq([k \in 1 .. Len(s) |-> IF s[k][2] > 0 THEN <<s[k]>> ELSE <<>>])

\* As long as every record fitted into the ring and no two updates of its size
\* overlapped, the log holds the texts of the records in the order they were
\* printed, without a gap, and between two records it ends with a whole one: the
\* lengths and the texts of g_log_rb are never mistaken for each other.
LogMatches ==
    Clean /\ tpc \notin {"none", "open"} =>
        /\ Len(file) <= Len(TextOf(accepted))
        /\ file = SubSeq(TextOf(accepted), 1, Len(file))
        /\ tpc \in {"more", "wait"} /\ file # <<>> =>
             LET last == file[Len(file)] IN last[2] = texts[last[1]]

\* The thread goes to sleep only when the log has caught up: a record it has not
\* seen comes with a token of its own.
CaughtUp ==
    /\ Clean /\ saving /\ tpc = "wait" /\ serviceSem = 0
    /\ \A t \in Tasks : pc[t] \notin {"add", "release"}
    => file = TextOf(accepted)

\* While the log is saved, the ring is emptied again and again, also when a record
\* was cut off and lengths and texts are mistaken for each other.
EveryRecordSaved == []<>(~saving \/ size = 0 \/ torn)

\* "debug save 0" ends the thread.
StopEnds == cli = "wake" ~> tpc = "none"

\* debug_print puts nothing into a buffer that was freed.
NoWildPut == buffer = "freed" => \A t \in Tasks : pc[t] # "put"
===============================================================================
