-------------------------------- MODULE UartRx --------------------------------
(***************************************************************************)
(* Reception from the module: the circular DMA buffer and the interrupt    *)
(* handlers of .../common/hal/hal_uart.c, the ring of ringbuffer.c, the    *)
(* data set aside while the ring is full, the RTS line that then stops the *)
(* module, and the task that reads (at_client_getchar, at_client_obj_recv).*)
(* A byte is named by its place in what the module sent.                   *)
(***************************************************************************)
EXTENDS Integers, Sequences, FiniteSets

CONSTANTS
    DmaSize,    \* sizeof(g_uart_buf), 256 in this code
    RingSize,   \* g_uart_rb.buffer_size, 5120 in this code
    ReadMax,    \* most bytes one qosa_uart_read asks for: 1500 in ql_socket.c
    NoticeMax,  \* tokens of client->rx_notice
    CountMax,   \* maxCount of client->rx_notice, 0x7FFFFFFF
    Latency,    \* bytes that arrive while an interrupt is pending
    InFlight,   \* bytes the module still sends after RTS is raised
    SlowIsr,    \* whether bytes arrive within the idle handler
    Quiet,      \* places of the reader where no interrupt is taken
    MaxErrors,  \* bound: UART errors
    MaxBytes    \* bound: bytes the module sends

ASSUME SizesAssumption ==
    /\ DmaSize \in Nat /\ DmaSize >= 2 /\ RingSize \in Nat \ {0}
    /\ ReadMax \in 1 .. RingSize
    /\ NoticeMax \in Nat \ {0} /\ CountMax \in Nat /\ NoticeMax + 1 < CountMax
ASSUME BoundsAssumption ==
    /\ Latency \in Nat /\ InFlight \in Nat /\ MaxErrors \in Nat /\ MaxBytes \in Nat
    /\ SlowIsr \in BOOLEAN

VARIABLES
    sent,           \* bytes the module has sent
    extra,          \* how many of them since RTS was raised
    dma,            \* g_uart_buf
    pos,            \* RxXferSize - the DMA's counter
    half, cplt,     \* the DMA's interrupts, pending
    idle,           \* the UART's idle interrupt, pending
    quietLine,      \* the idle line has been seen since the last byte
    late,           \* bytes since an interrupt became pending
    isr,            \* where the idle handler is
    head,           \* g_head_ptr
    wild,           \* a copy did not lie within the DMA buffer
    passed,         \* bytes went to the ring past others that were set aside
    ring, rhead, rtail, rsize,  \* g_uart_rb
    left,           \* g_uart2_left_data
    flow,           \* g_flow_control
    rts,            \* the RTS line: TRUE stops the module
    notice,         \* tokens of client->rx_notice in the kernel
    count,          \* the count qosa_sem.c keeps of them
    pc, want, n, reg,   \* the reader: place, bytes asked for, bytes got, register
    got,            \* all that qosa_uart_read returned
    errors          \* UART errors so far

uart == <<sent, extra, dma, pos, quietLine>>
flags == <<half, cplt, idle, late>>
driver == <<isr, head, wild, passed>>
rb == <<ring, rhead, rtail, rsize>>
control == <<left, flow, rts>>
sem == <<notice, count>>
reader == <<pc, want, n, reg, got>>
vars == <<uart, flags, driver, rb, control, sem, reader, errors>>

Init ==
    /\ sent = 0 /\ extra = 0 /\ pos = 0 /\ quietLine = TRUE
    /\ dma = [k \in 0 .. DmaSize - 1 |-> 0]
    /\ half = FALSE /\ cplt = FALSE /\ idle = FALSE /\ late = 0
    /\ isr = "none" /\ head = 0 /\ wild = FALSE /\ passed = FALSE
    /\ ring = [k \in 0 .. RingSize - 1 |-> 0]
    /\ rhead = 0 /\ rtail = 0 /\ rsize = 0
    /\ left = <<>> /\ flow = FALSE /\ rts = FALSE
    /\ notice = 0 /\ count = 0
    /\ pc = "length" /\ want = 1 /\ n = 0 /\ reg = 0 /\ got = <<>>
    /\ errors = 0

Least(a, b) == IF a < b THEN a ELSE b

\* u32_t arithmetic
MaxU32 == 2 * CountMax + 1
Inc(k) == IF k = MaxU32 THEN 0 ELSE k + 1
Dec(k) == IF k = 0 THEN MaxU32 ELSE k - 1

-----------------------------------------------------------------------------
(* The module, the DMA and the UART                                         *)

Pending == half \/ cplt \/ idle
HalfSize == (DmaSize + 1) \div 2

Arrive ==
    /\ sent < MaxBytes
    /\ rts => extra < InFlight
    /\ Pending => late < Latency
    /\ isr # "none" => SlowIsr
    /\ sent' = sent + 1
    /\ extra' = IF rts THEN extra + 1 ELSE 0
    /\ dma' = [dma EXCEPT ![pos] = sent + 1]
    /\ pos' = (pos + 1) % DmaSize
    /\ half' = (half \/ pos + 1 = HalfSize)
    /\ cplt' = (cplt \/ pos + 1 = DmaSize)
    /\ late' = IF Pending THEN late + 1 ELSE 0
    /\ quietLine' = FALSE
    /\ UNCHANGED <<idle, driver, rb, control, sem, reader, errors>>

LineIdle ==
    /\ ~quietLine /\ quietLine' = TRUE
    /\ idle' = TRUE
    /\ UNCHANGED <<sent, extra, dma, pos, half, cplt, late, driver, rb, control, sem,
                   reader, errors>>

-----------------------------------------------------------------------------
(* The interrupt handlers.  No task runs in between.                        *)

\* The ring with s[1] to s[w] copied to it from place t on.
Over(t, w, s) ==
    [k \in 0 .. RingSize - 1 |->
        LET d == (k - t) % RingSize IN IF d < w THEN s[d + 1] ELSE ring[k]]

\* ringbuffer_put of the bytes s, as far as there is room.
Put(s) ==
    LET w == Least(Len(s), RingSize - rsize)
    IN  /\ ring' = Over(rtail, w, s)
        /\ rtail' = (rtail + w) % RingSize
        /\ rsize' = rsize + w
        /\ UNCHANGED rhead

\* rt_device_cb: what does not fit is set aside and the module is stopped.
SetAside(s) ==
    LET w == Least(Len(s), RingSize - rsize)
    IN  IF w < Len(s)
        THEN /\ left' = left \o SubSeq(s, w + 1, Len(s))
             /\ flow' = TRUE
             /\ rts' = IF flow THEN rts ELSE TRUE
        ELSE UNCHANGED control

\* Bytes set aside that the reader has not yet copied to the ring.
Aside == left # <<>> /\ pc \notin {"add", "store_add", "free"}

\* Nothing keeps a handler from filling the ring while older bytes are aside.
Overtake(s) == passed' = (passed \/ (Aside /\ s # <<>> /\ rsize < RingSize))

\* Mistake: the reader is not woken.
NoticeForgotten == UNCHANGED sem

\* at_client_rx_ind: qosa_sem_release, whose mutex cannot be taken here.  A
\* count not below maxCount skips the kernel's semaphore, and counts.
Notice ==
    LET offered == count < CountMax
        full == notice = NoticeMax
    IN  /\ notice' = IF offered /\ ~full THEN notice + 1 ELSE notice
        /\ count' = IF offered /\ full THEN count ELSE Inc(count)

\* Hand over what lies between head_ptr and tail_ptr.  An unsigned difference
\* that wraps makes ringbuffer_put fill the ring with what lies behind the
\* buffer (written as 0), and rt_device_cb, whose size is signed, is content.
HandOver(tail) ==
    LET offset == head % DmaSize
        s == [k \in 1 .. tail - offset |-> dma[offset + k - 1]]
    IN  /\ IF tail >= offset
           THEN Put(s) /\ SetAside(s) /\ Overtake(s) /\ UNCHANGED wild
           ELSE /\ Put([k \in 1 .. RingSize - rsize |-> 0])
                /\ wild' = TRUE /\ UNCHANGED <<control, passed>>
        /\ head' = tail
        /\ Notice

Interruptible == pc \notin Quiet
Served == late' = IF half' \/ cplt' \/ idle' THEN late ELSE 0

\* The DMA's interrupt has the lower number and so the precedence.
HalfIsr ==
    /\ half /\ half' = FALSE
    /\ Interruptible /\ isr = "none"
    /\ HandOver(HalfSize)
    /\ UNCHANGED <<cplt, idle>> /\ Served
    /\ UNCHANGED <<uart, isr, reader, errors>>

CpltIsr ==
    /\ ~half /\ cplt /\ cplt' = FALSE
    /\ Interruptible /\ isr = "none"
    /\ HandOver(DmaSize)
    /\ UNCHANGED <<half, idle>> /\ Served
    /\ UNCHANGED <<uart, isr, reader, errors>>

\* Mistake: the idle interrupt has precedence over the DMA's.
IdleFirst == idle /\ Interruptible /\ isr = "none"

IdleRuns == idle /\ ~half /\ ~cplt /\ Interruptible /\ isr = "none"

\* "just interrupted no data"
IdleNothing ==
    /\ IdleRuns /\ pos = 0
    /\ idle' = FALSE /\ UNCHANGED <<half, cplt>> /\ Served
    /\ head' = 0
    /\ UNCHANGED <<uart, isr, wild, passed, rb, control, sem, reader, errors>>

IdleBegins ==
    /\ IdleRuns /\ pos # 0
    /\ idle' = FALSE /\ UNCHANGED <<half, cplt, late>>
    /\ isr' = "idle"
    /\ UNCHANGED <<uart, head, wild, passed, rb, control, sem, reader, errors>>

\* The counter is read a second time.
IdleIsr ==
    /\ isr = "idle" /\ isr' = "none"
    /\ HandOver(pos)
    /\ UNCHANGED <<half, cplt, idle>> /\ Served
    /\ UNCHANGED <<uart, reader, errors>>

\* The UART reports an error: the HAL stops the DMA and HAL_UART_ErrorCallback
\* starts it at the beginning of the buffer.  What was not handed over is lost.
ErrorIsr ==
    /\ errors < MaxErrors /\ errors' = errors + 1
    /\ Interruptible /\ isr = "none"
    /\ pos' = 0 /\ half' = FALSE /\ cplt' = FALSE
    /\ UNCHANGED idle /\ Served
    /\ UNCHANGED <<sent, extra, dma, quietLine, driver, rb, control, sem, reader>>

-----------------------------------------------------------------------------
(* The reader: qosa_uart_read, and the wait for rx_notice when it has       *)
(* returned 0                                                               *)

Running == isr = "none"
Goto(from, to) == Running /\ pc = from /\ pc' = to

Empty ==
    /\ Goto("length", "wait")
    /\ rsize = 0
    /\ UNCHANGED <<uart, flags, driver, rb, control, sem, want, n, reg, got, errors>>

\* qosa_sem_wait: the kernel's token, then count--.
Wait ==
    /\ Goto("wait", "count")
    /\ notice > 0 /\ notice' = notice - 1
    /\ UNCHANGED <<uart, flags, driver, rb, control, count, want, n, reg, got, errors>>

LoadCount ==
    /\ Goto("count", "store_count")
    /\ reg' = Dec(count)
    /\ UNCHANGED <<uart, flags, driver, rb, control, sem, want, n, got, errors>>

StoreCount ==
    /\ Goto("store_count", "length")
    /\ count' = reg /\ reg' = 0
    /\ UNCHANGED <<uart, flags, driver, rb, control, notice, want, n, got, errors>>

Read ==
    /\ Goto("length", "threshold")
    /\ rsize > 0
    /\ want' \in 1 .. ReadMax
    /\ UNCHANGED <<uart, flags, driver, rb, control, sem, n, reg, got, errors>>

\* Mistake: the ring must have become empty.
LowWhenEmpty == rsize = 0

Low == rsize < RingSize \div 3

Threshold ==
    /\ Goto("threshold", IF Low THEN "low" ELSE "get")
    /\ UNCHANGED <<uart, flags, driver, rb, control, sem, want, n, reg, got, errors>>

NoFlush ==
    /\ Goto("low", "get")
    /\ ~flow
    /\ UNCHANGED <<uart, flags, driver, rb, control, sem, want, n, reg, got, errors>>

\* ringbuffer_put of the data set aside: the room first, and the return when
\* there is none.
Measure ==
    LET w == Least(Len(left), RingSize - rsize)
    IN  /\ Goto("low", IF w = 0 THEN "free" ELSE "tail")
        /\ flow
        /\ n' = w
        /\ UNCHANGED <<uart, flags, driver, rb, control, sem, want, reg, got, errors>>

LoadTail ==
    /\ Goto("tail", "copy")
    /\ reg' = rtail
    /\ UNCHANGED <<uart, flags, driver, rb, control, sem, want, n, got, errors>>

CopyLeft ==
    /\ Goto("copy", "store_tail")
    /\ ring' = Over(reg, n, left)
    /\ UNCHANGED <<uart, flags, driver, rhead, rtail, rsize, control, sem, want, n, reg, got,
                   errors>>

StoreTail ==
    /\ Goto("store_tail", "add")
    /\ rtail' = (reg + n) % RingSize
    /\ UNCHANGED <<uart, flags, driver, ring, rhead, rsize, control, sem, want, n, reg, got,
                   errors>>

LoadAdd ==
    /\ Goto("add", "store_add")
    /\ reg' = rsize + n
    /\ UNCHANGED <<uart, flags, driver, rb, control, sem, want, n, got, errors>>

StoreAdd ==
    /\ Goto("store_add", "free")
    /\ rsize' = reg
    /\ UNCHANGED <<uart, flags, driver, ring, rhead, rtail, control, sem, want, n, reg, got,
                   errors>>

\* Mistake: the data set aside is kept after it went to the ring.
FreeForgotten ==
    /\ Goto("free", "rts")
    /\ UNCHANGED <<uart, flags, driver, rb, control, sem, want, n, reg, got, errors>>

Free ==
    /\ Goto("free", "rts")
    /\ left' = <<>>
    /\ UNCHANGED <<uart, flags, driver, rb, flow, rts, sem, want, n, reg, got, errors>>

LetModuleSend ==
    /\ Goto("rts", "flow")
    /\ rts' = FALSE
    /\ UNCHANGED <<uart, flags, driver, rb, left, flow, sem, want, n, reg, got, errors>>

FlowOff ==
    /\ Goto("flow", "get")
    /\ flow' = FALSE
    /\ UNCHANGED <<uart, flags, driver, rb, left, rts, sem, want, n, reg, got, errors>>

\* ringbuffer_get: the copy and the new head, then size -= read_len.
Get ==
    LET r == Least(want, rsize)
    IN  /\ Goto("get", "sub")
        /\ n' = r
        /\ got' = got \o [k \in 1 .. r |-> ring[(rhead + k - 1) % RingSize]]
        /\ rhead' = (rhead + r) % RingSize
        /\ UNCHANGED <<uart, flags, driver, ring, rtail, rsize, control, sem, want, reg,
                       errors>>

LoadSub ==
    /\ Goto("sub", "store_sub")
    /\ reg' = rsize - n
    /\ UNCHANGED <<uart, flags, driver, rb, control, sem, want, n, got, errors>>

StoreSub ==
    /\ Goto("store_sub", "length")
    /\ rsize' = reg
    /\ UNCHANGED <<uart, flags, driver, ring, rhead, rtail, control, sem, want, n, reg, got,
                   errors>>

Hardware == Arrive \/ LineIdle
Handlers == HalfIsr \/ CpltIsr \/ IdleNothing \/ IdleBegins \/ IdleIsr
Reader ==
    \/ Empty \/ Wait \/ LoadCount \/ StoreCount \/ Read \/ Threshold \/ NoFlush
    \/ Measure \/ LoadTail \/ CopyLeft \/ StoreTail \/ LoadAdd \/ StoreAdd \/ Free \/ LetModuleSend \/ FlowOff
    \/ Get \/ LoadSub \/ StoreSub

Next == Hardware \/ Handlers \/ ErrorIsr \/ Reader

Spec == Init /\ [][Next]_vars

\* A line without bytes is found idle, interrupts are served, and the parser's
\* task runs and reads for ever; the module need not send.
LiveSpec == Spec /\ WF_vars(LineIdle) /\ SF_vars(Handlers) /\ WF_vars(Reader)

-----------------------------------------------------------------------------
(* Properties                                                               *)

Bytes == 0 .. MaxBytes
Places ==
    {"length", "wait", "count", "store_count", "threshold", "low", "get", "sub", "store_sub",
     "tail", "copy", "store_tail", "add", "store_add", "free", "rts", "flow"}

\* The type invariant: the ring's indices and its size stay in range, and so
\* does what is subtracted from it.
TypeOK ==
    /\ sent \in 0 .. MaxBytes /\ extra \in 0 .. MaxBytes /\ pos \in 0 .. DmaSize - 1
    /\ dma \in [0 .. DmaSize - 1 -> Bytes] /\ quietLine \in BOOLEAN
    /\ half \in BOOLEAN /\ cplt \in BOOLEAN /\ idle \in BOOLEAN /\ late \in 0 .. Latency
    /\ isr \in {"none", "idle"} /\ head \in 0 .. DmaSize /\ wild \in BOOLEAN
    /\ passed \in BOOLEAN
    /\ ring \in [0 .. RingSize - 1 -> Bytes]
    /\ rhead \in 0 .. RingSize - 1 /\ rtail \in 0 .. RingSize - 1 /\ rsize \in 0 .. RingSize
    /\ left \in Seq(Bytes) /\ flow \in BOOLEAN /\ rts \in BOOLEAN
    /\ notice \in 0 .. NoticeMax /\ count \in 0 .. MaxU32
    /\ pc \in Places /\ want \in 1 .. ReadMax /\ n \in 0 .. RingSize
    /\ reg \in IF pc = "store_count" THEN 0 .. MaxU32 ELSE 0 .. RingSize
    /\ got \in Seq(Bytes) /\ errors \in 0 .. MaxErrors

InRing == [k \in 1 .. rsize |-> ring[(rhead + k - 1) % RingSize]]
AtRest ==
    /\ isr = "none"
    /\ pc \in {"length", "wait", "count", "store_count", "threshold", "low", "get", "tail", "copy",
               "store_tail", "rts", "flow"}

\* What the reader has, followed by the ring and by what was set aside, is
\* what the module sent, each byte once, as long as the UART reports no error;
\* and in the order sent, as long as no handler finds room in the ring while
\* older bytes are still set aside.
Conserved ==
    AtRest /\ errors = 0 =>
        LET all == got \o InRing \o left
        IN  /\ {all[k] : k \in 1 .. Len(all)} = 1 .. Len(all)
            /\ ~passed => \A k \in 1 .. Len(all) : all[k] = k

\* The drawing of lines 197 to 204: tail_ptr is not left of head_ptr, so no
\* handler copies from outside the DMA buffer, before the first UART error.
NoWildCopy == errors = 0 => ~wild

\* The same drawing, for every state of the UART.
TailRightOfHead == ~wild

\* The wake-up of the reader is not lost, although a full semaphore refuses
\* notices, as long as no interrupt comes between the load and the store of the
\* semaphore's count: asleep on rx_notice, the reader has left nothing in the
\* ring.
WokenForData == pc = "wait" /\ notice = 0 => rsize = 0

\* "AT client receive fixed-length data" (at_client.c:534): the bytes a reader
\* receives are the bytes the module sent.
ReceivedAsSent == \A k \in 1 .. Len(got) : got[k] = k

\* Every byte sent reaches the reader, also those that were set aside, and
\* although RTS stops the module until the reader itself releases it.  Only an
\* error the UART reports may cost bytes.  (The module sends finitely many, so
\* whatever was sent has arrived when the reader has caught up after it.)
EveryByteArrives == []<>(Len(got) = sent \/ errors > 0)
=============================================================================
