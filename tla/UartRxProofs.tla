----------------------------- MODULE UartRxProofs -----------------------------
(***************************************************************************)
(* Proofs about UartRx for buffers of any size: no handler copies from     *)
(* outside the DMA buffer, the reader's wake-up is not lost, and no byte   *)
(* is lost or doubled between the DMA buffer and the reader.               *)
(***************************************************************************)
EXTENDS UartRx, SequenceTheorems, TLAPS

LEMMA Sizes ==
    /\ DmaSize \in Nat /\ DmaSize >= 2 /\ NoticeMax \in Nat /\ NoticeMax >= 1
    /\ HalfSize \in 1 .. DmaSize - 1
    /\ DmaSize \div 2 = DmaSize - HalfSize /\ DmaSize \div 2 <= HalfSize
    /\ Latency \in Nat
BY SizesAssumption, BoundsAssumption DEF HalfSize

-----------------------------------------------------------------------------
(* The wake-up.                                                             *)

\* The idle handler runs only where the reader could be interrupted.
Entered == isr = "idle" => Interruptible

\* The reader's steps that leave the UART, the ring and what is set aside alone,
\* those of ringbuffer_put on it, and the others.
Plain == Empty \/ Wait \/ LoadCount \/ StoreCount \/ Read \/ Threshold \/ NoFlush
Flush == Measure \/ LoadTail \/ CopyLeft \/ StoreTail \/ LoadAdd \/ StoreAdd \/ Free
Rest == LetModuleSend \/ FlowOff \/ Get \/ LoadSub \/ StoreSub

LEMMA ReaderSteps == Reader => Plain \/ Flush \/ Rest
BY Zenon DEF Reader, Plain, Flush, Rest

LEMMA ReaderRuns ==
    ASSUME Reader
    PROVE  isr = "none" /\ UNCHANGED <<uart, flags, driver, errors>>
<1>1. CASE Plain
  BY <1>1 DEF Plain, Empty, Wait, LoadCount, StoreCount, Read, Threshold, NoFlush, Goto, Running
<1>2. CASE Flush
  BY <1>2 DEF Flush, Measure, LoadTail, CopyLeft, StoreTail, LoadAdd, StoreAdd, Free, Goto, Running
<1>3. CASE Rest
  BY <1>3 DEF Rest, LetModuleSend, FlowOff, Get, LoadSub, StoreSub, Goto, Running
<1> QED
  BY <1>1, <1>2, <1>3, ReaderSteps

LEMMA EnteredNext == ASSUME isr \in {"none", "idle"}, Entered, [Next]_vars PROVE Entered'
<1> USE DEF Entered, Interruptible
<1>1. CASE Hardware \/ ErrorIsr
  BY <1>1 DEF Hardware, Arrive, LineIdle, ErrorIsr, driver, reader
<1>2. CASE Handlers
  BY <1>2 DEF Handlers, HalfIsr, CpltIsr, IdleNothing, IdleBegins, IdleRuns, IdleIsr, reader
<1>3. CASE Reader
  BY <1>3, ReaderRuns DEF driver
<1>4. CASE UNCHANGED vars
  BY <1>4 DEF vars, driver, reader
<1> QED
  BY <1>1, <1>2, <1>3, <1>4 DEF Next

\* No interrupt comes between the load and the store of the semaphore's count.
CountKept == "store_count" \in Quiet

\* The count is that of the kernel's tokens, and of the one just taken.
Counted ==
    /\ notice \in 0 .. NoticeMax
    /\ count = IF pc \in {"count", "store_count"} THEN notice + 1 ELSE notice
    /\ pc = "store_count" => reg = notice

Awake == isr \in {"none", "idle"} /\ Entered /\ Counted /\ WokenForData

LEMMA NoticeCounts ==
    ASSUME Counted, Notice, pc # "store_count", UNCHANGED reader
    PROVE  Counted' /\ notice' > 0
<1>1. /\ notice \in 0 .. NoticeMax /\ count \in 0 .. NoticeMax + 1
      /\ NoticeMax \in Nat /\ NoticeMax >= 1 /\ CountMax \in Nat /\ NoticeMax + 1 < CountMax
  BY SizesAssumption, Sizes DEF Counted
<1>2. Inc(count) = count + 1 /\ count < CountMax
  BY <1>1 DEF Inc, MaxU32
<1>3. /\ notice' = (IF notice = NoticeMax THEN notice ELSE notice + 1)
      /\ count' = (IF notice = NoticeMax THEN count ELSE count + 1)
  BY <1>2 DEF Notice
<1>4. pc' = pc /\ reg' = reg
  BY DEF reader
<1> QED
  BY <1>1, <1>3, <1>4 DEF Counted

LEMMA AwakeNext == ASSUME CountKept, Awake, [Next]_vars PROVE Awake'
<1>1. isr' \in {"none", "idle"} /\ Entered'
  <2>1. isr' \in {"none", "idle"}
    <3>1. CASE Hardware \/ Handlers \/ ErrorIsr
      BY <3>1 DEF Awake, Hardware, Arrive, LineIdle, Handlers, HalfIsr, CpltIsr, IdleNothing,
         IdleBegins, IdleIsr, ErrorIsr, driver
    <3>2. CASE Reader \/ UNCHANGED vars
      BY <3>2, ReaderRuns DEF Awake, driver, vars
    <3> QED
      BY <3>1, <3>2 DEF Next
  <2> QED
    BY <2>1, EnteredNext DEF Awake
<1>2. Counted' /\ WokenForData'
  <2>1. CASE HalfIsr \/ CpltIsr \/ IdleIsr
    <3>1. Notice /\ UNCHANGED reader /\ Interruptible
      BY <2>1 DEF HalfIsr, CpltIsr, IdleIsr, HandOver, Awake, Entered
    <3>2. pc # "store_count"
      BY <3>1 DEF Interruptible, CountKept
    <3>3. Counted' /\ notice' > 0
      BY <3>1, <3>2, NoticeCounts DEF Awake
    <3> QED
      BY <3>3 DEF WokenForData, Counted
  <2>2. CASE Hardware \/ IdleNothing \/ IdleBegins \/ ErrorIsr \/ UNCHANGED vars
    <3>1. UNCHANGED <<sem, rb, reader>>
      BY <2>2 DEF Hardware, Arrive, LineIdle, IdleNothing, IdleBegins, ErrorIsr, vars
    <3> QED
      BY <3>1 DEF Awake, Counted, WokenForData, sem, rb, reader
  <2>3. CASE Reader
    <3>1. CASE Empty
      BY <3>1 DEF Empty, Goto, rb, sem, Awake, Counted, WokenForData
    <3>2. CASE Wait
      BY <3>2, Sizes DEF Wait, Goto, Awake, Counted, WokenForData
    <3>3. CASE LoadCount
      <4>1. Dec(count) = notice
        BY <3>3, Sizes DEF Awake, Counted, Dec, LoadCount, Goto
      <4> QED
        BY <3>3, <4>1 DEF LoadCount, Goto, sem, Awake, Counted, WokenForData
    <3>4. CASE StoreCount
      BY <3>4 DEF StoreCount, Goto, Awake, Counted, WokenForData
    <3>5. CASE Read \/ Threshold \/ NoFlush
      BY <3>5 DEF Read, Threshold, NoFlush, Goto, sem, Awake, Counted, WokenForData
    <3>6. CASE Flush
      BY <3>6 DEF Flush, Measure, LoadTail, CopyLeft, StoreTail, LoadAdd, StoreAdd, Free, Goto, sem,
         Awake, Counted, WokenForData
    <3>7. CASE Rest
      BY <3>7 DEF Rest, LetModuleSend, FlowOff, Get, LoadSub, StoreSub, Goto, sem, Awake, Counted,
         WokenForData
    <3> QED
      BY <2>3, <3>1, <3>2, <3>3, <3>4, <3>5, <3>6, <3>7, ReaderSteps DEF Plain
  <2> QED
    BY <2>1, <2>2, <2>3 DEF Next, Handlers
<1> QED
  BY <1>1, <1>2 DEF Awake

\* Unless an interrupt comes between the load and the store of the semaphore's
\* count, the parser's task never sleeps on rx_notice while bytes are in the
\* ring, whatever else the interrupts come between and although notices that
\* find the semaphore full are refused.
THEOREM WakeUpNotLost == ASSUME CountKept PROVE Spec => []WokenForData
<1>1. Init => Awake
  BY Sizes DEF Init, Awake, Entered, Counted, WokenForData
<1>2. Awake => WokenForData
  BY DEF Awake
<1>3. Awake /\ [Next]_vars => Awake'
  BY AwakeNext
<1> QED
  BY <1>1, <1>2, <1>3, PTL DEF Spec

-----------------------------------------------------------------------------
(* The DMA buffer.                                                          *)

\* Interrupts are served before half a buffer has arrived, and none arrives
\* while the idle handler is between its two reads of the counter.
ServedInTime == ~SlowIsr /\ Latency < DmaSize \div 2

\* Where head_ptr lies in the buffer.
Start == IF head = DmaSize THEN 0 ELSE head

Counters ==
    /\ pos \in 0 .. DmaSize - 1 /\ head \in 0 .. DmaSize /\ late \in 0 .. Latency
    /\ isr \in {"none", "idle"}

Flags == half \in BOOLEAN /\ cplt \in BOOLEAN /\ idle \in BOOLEAN

\* head_ptr is never right of what the next handler takes for tail_ptr, and the
\* DMA is at most late bytes past the half or the end it has to be told about.
Ahead ==
    /\ ~half /\ ~cplt => Start <= pos
    /\ ~half /\ ~cplt /\ pos >= HalfSize => Start >= HalfSize
    /\ half => ~cplt /\ Start <= HalfSize /\ HalfSize <= pos /\ pos - HalfSize <= late
    /\ cplt => pos <= late
    /\ isr = "idle" => ~half /\ ~cplt

Window == errors \in Nat /\ Flags /\ (errors = 0 => Counters /\ Ahead /\ ~wild)

LEMMA Offset == ASSUME head \in 0 .. DmaSize PROVE head % DmaSize = Start
BY Sizes DEF Start

LEMMA NextPos ==
    ASSUME pos \in 0 .. DmaSize - 1
    PROVE  (pos + 1) % DmaSize = IF pos + 1 = DmaSize THEN 0 ELSE pos + 1
BY Sizes

LEMMA WindowInit == Init => Window
<1>1. SUFFICES ASSUME Init PROVE Window
  OBVIOUS
<1>2. /\ pos = 0 /\ head = 0 /\ late = 0 /\ errors = 0 /\ isr = "none"
      /\ half = FALSE /\ cplt = FALSE /\ idle = FALSE /\ wild = FALSE
  BY <1>1 DEF Init
<1>3. Start = 0
  BY <1>2 DEF Start
<1>4. Counters
  BY <1>2, Sizes DEF Counters
<1>5. Ahead
  BY <1>2, <1>3, Sizes DEF Ahead
<1>6. Flags
  BY <1>2 DEF Flags
<1> QED
  BY <1>2, <1>4, <1>5, <1>6 DEF Window

LEMMA FlagsNext == ASSUME Flags, [Next]_vars PROVE Flags'
<1> USE DEF Flags
<1>1. CASE Arrive
  BY <1>1 DEF Arrive
<1>2. CASE Handlers
  BY <1>2 DEF Handlers, HalfIsr, CpltIsr, IdleNothing, IdleBegins, IdleIsr
<1>3. CASE LineIdle \/ ErrorIsr
  BY <1>3 DEF LineIdle, ErrorIsr
<1>4. CASE Reader \/ UNCHANGED vars
  BY <1>4, ReaderRuns DEF vars, flags
<1> QED
  BY <1>1, <1>2, <1>3, <1>4 DEF Next, Hardware

LEMMA ArriveWindow ==
    ASSUME ServedInTime, Flags, Counters, Ahead, ~wild, Arrive PROVE Counters' /\ Ahead' /\ ~wild'
<1>1. /\ isr = "none" /\ (half \/ cplt \/ idle => late < Latency)
      /\ late' = (IF half \/ cplt \/ idle THEN late + 1 ELSE 0)
      /\ UNCHANGED <<idle, isr, head, wild>>
  BY DEF ServedInTime, Arrive, Pending, driver
<1>2. /\ half' <=> half \/ pos + 1 = HalfSize
      /\ cplt' <=> cplt \/ pos + 1 = DmaSize
  BY Zenon DEF Arrive
<1>3. pos' = IF pos + 1 = DmaSize THEN 0 ELSE pos + 1
  BY NextPos DEF Arrive, Counters
<1>4. Counters'
  BY <1>1, <1>3, Sizes DEF Counters
<1>5. Start' = Start
  BY <1>1 DEF Start
<1>6. half => pos + 1 < DmaSize
  BY <1>1, Sizes DEF ServedInTime, Ahead, Counters
<1>7. cplt => pos + 1 < HalfSize
  BY <1>1, Sizes DEF ServedInTime, Ahead, Counters
<1>8. Ahead'
  <2> USE DEF Ahead, Counters
  <2>1. Start \in 0 .. DmaSize - 1
    BY Sizes DEF Start
  <2>2. CASE half
    <3>1. half' /\ ~cplt /\ pos' = pos + 1 /\ late' = late + 1 /\ isr' = "none"
      BY <1>1, <1>2, <1>3, <1>6, <2>2
    <3>2. pos + 1 # DmaSize
      BY <1>6, <2>2, Sizes
    <3>3. ~cplt'
      BY <1>2, <3>1, <3>2
    <3> QED
      BY <1>5, <2>1, <2>2, <3>1, <3>3, Sizes
  <2>3. CASE cplt /\ ~half
    <3>1. cplt' /\ pos' = pos + 1 /\ late' = late + 1 /\ isr' = "none"
      BY <1>1, <1>2, <1>3, <1>7, <2>3, Sizes
    <3>2. ~half'
      BY <1>1, <1>2, <1>7, <2>3
    <3> QED
      BY <1>5, <2>1, <2>3, <3>1, <3>2, Sizes
  <2>4. CASE ~cplt /\ ~half
    <3>1. isr' = "none" /\ late' \in Nat
      BY <1>1
    <3>2. CASE pos + 1 = HalfSize
      <4>1. half' /\ ~cplt' /\ pos' = pos + 1
        BY <1>1, <1>2, <1>3, <2>4, <3>2, Sizes
      <4> QED
        BY <1>5, <2>1, <2>4, <3>1, <3>2, <4>1, Sizes
    <3>3. CASE pos + 1 = DmaSize
      <4>1. cplt' /\ ~half' /\ pos' = 0
        BY <1>1, <1>2, <1>3, <2>4, <3>3, Sizes
      <4> QED
        BY <1>5, <2>1, <2>4, <3>1, <3>3, <4>1, Sizes
    <3>4. CASE pos + 1 # HalfSize /\ pos + 1 # DmaSize
      <4>1. ~cplt' /\ ~half' /\ pos' = pos + 1
        BY <1>1, <1>2, <1>3, <2>4, <3>4
      <4> QED
        BY <1>5, <2>1, <2>4, <3>1, <3>4, <4>1, Sizes
    <3> QED
      BY <3>2, <3>3, <3>4
  <2> QED
    BY <2>2, <2>3, <2>4
<1> QED
  BY <1>1, <1>4, <1>8

LEMMA HandlerWindow ==
    ASSUME ServedInTime, Flags, Counters, Ahead, ~wild, Handlers PROVE Counters' /\ Ahead' /\ ~wild'
<1>1. head % DmaSize = Start /\ Start \in 0 .. DmaSize - 1
  BY Offset, Sizes DEF Counters, Start
<1>2. ASSUME NEW tail, HandOver(tail), Start <= tail PROVE ~wild' /\ head' = tail
  BY <1>1, <1>2 DEF HandOver
<1>3. CASE HalfIsr
  <2>1. HandOver(HalfSize) /\ half /\ ~half' /\ UNCHANGED <<cplt, idle, pos, isr>> /\ Served
    BY <1>3 DEF HalfIsr, uart
  <2>2. ~wild' /\ head' = HalfSize
    BY <1>2, <2>1 DEF Ahead
  <2>3. Start' = HalfSize /\ half = TRUE /\ half' = FALSE /\ cplt = FALSE /\ isr = isr'
    BY <2>1, <2>2, Sizes DEF Start, Ahead, Counters, Flags
  <2>4. late' \in 0 .. Latency
    BY <2>1, Sizes DEF Counters, Served
  <2>5. Counters'
    BY <2>1, <2>2, <2>3, <2>4, Sizes DEF Counters
  <2>6. Ahead'
    BY <2>1, <2>3, Sizes DEF Ahead
  <2> QED
    BY <2>2, <2>5, <2>6
<1>4. CASE CpltIsr
  <2>1. /\ HandOver(DmaSize) /\ ~half /\ cplt /\ ~cplt' /\ Served
        /\ UNCHANGED <<half, idle, pos, isr>>
    BY <1>4 DEF CpltIsr, uart
  <2>2. ~wild' /\ head' = DmaSize
    BY <1>1, <1>2, <2>1, Sizes
  <2>3. /\ Start' = 0 /\ cplt' = FALSE /\ half = FALSE /\ half' = FALSE
        /\ isr' = "none" /\ pos' < HalfSize
    BY <1>4, <2>1, <2>2, Sizes DEF Start, Ahead, Counters, Flags, CpltIsr, ServedInTime
  <2>4. late' \in 0 .. Latency
    BY <2>1, Sizes DEF Counters, Served
  <2>5. Counters'
    BY <2>1, <2>2, <2>3, <2>4, Sizes DEF Counters
  <2>6. Ahead'
    BY <2>1, <2>3, Sizes DEF Ahead, Counters
  <2> QED
    BY <2>2, <2>5, <2>6
<1>5. CASE IdleNothing
  <2>1. /\ half = FALSE /\ cplt = FALSE /\ half' = FALSE /\ cplt' = FALSE /\ idle' = FALSE
        /\ pos' = 0 /\ head' = 0 /\ UNCHANGED <<isr, wild>> /\ Served
    BY <1>5 DEF IdleNothing, IdleRuns, Flags, uart
  <2>2. late' = 0 /\ Start' = 0
    BY <2>1 DEF Served, Start
  <2> QED
    BY <2>1, <2>2, Sizes DEF Counters, Ahead
<1>6. CASE IdleBegins
  BY <1>6 DEF IdleBegins, IdleRuns, Counters, Ahead, Start, uart
<1>7. CASE IdleIsr
  <2>1. /\ HandOver(pos) /\ isr = "idle" /\ isr' = "none" /\ Served
        /\ UNCHANGED <<half, cplt, idle, pos>>
    BY <1>7 DEF IdleIsr, uart
  <2>2. ~wild' /\ head' = pos
    BY <1>2, <2>1 DEF Ahead
  <2> QED
    BY <2>1, <2>2, Sizes DEF Counters, Ahead, Start, Served
<1> QED
  BY <1>3, <1>4, <1>5, <1>6, <1>7 DEF Handlers

LEMMA WindowNext == ASSUME ServedInTime, Window, [Next]_vars PROVE Window'
<1>1. CASE Arrive
  BY FlagsNext, <1>1, ArriveWindow DEF Arrive, Window
<1>2. CASE Handlers
  <2>1. UNCHANGED errors
    BY <1>2 DEF Handlers, HalfIsr, CpltIsr, IdleNothing, IdleBegins, IdleIsr
  <2> QED
    BY FlagsNext, <1>2, <2>1, HandlerWindow DEF Window
<1>3. CASE ErrorIsr
  <2>1. errors' # 0
    BY <1>3 DEF ErrorIsr, Window
  <2> QED
    BY FlagsNext, <1>3, <2>1 DEF ErrorIsr, Window
<1>4. CASE LineIdle
  BY FlagsNext, <1>4 DEF LineIdle, Window, Counters, Ahead, Start, driver
<1>5. CASE Reader \/ UNCHANGED vars
  <2>1. UNCHANGED <<uart, flags, driver, errors>>
    BY <1>5, ReaderRuns DEF vars
  <2> QED
    BY FlagsNext, <2>1 DEF Window, Counters, Ahead, Start, uart, flags, driver
<1> QED
  BY <1>1, <1>2, <1>3, <1>4, <1>5 DEF Next, Hardware

\* Before the first UART error, the interrupt handlers copy only from within the
\* DMA buffer, for every size of it, if they are served before half of it has
\* filled and nothing arrives between the idle handler's two reads.
THEOREM CopiesLieInBuffer == ASSUME ServedInTime PROVE Spec => []NoWildCopy
<1>1. Window => NoWildCopy
  BY DEF Window, NoWildCopy
<1>2. Window /\ [Next]_vars => Window'
  BY WindowNext
<1> QED
  BY <1>1, <1>2, WindowInit, PTL DEF Spec

-----------------------------------------------------------------------------
(* Places in a buffer that is used in a circle.                             *)

LEMMA Wrap ==
    ASSUME NEW R \in Nat \ {0}, NEW a \in 0 .. R - 1, NEW b \in 0 .. R
    PROVE  (a + b) % R = IF a + b < R THEN a + b ELSE a + b - R
OBVIOUS

LEMMA Back ==
    ASSUME NEW R \in Nat \ {0}, NEW k \in 0 .. R - 1, NEW t \in 0 .. R - 1
    PROVE  (k - t) % R = IF k >= t THEN k - t ELSE k - t + R
OBVIOUS

\* The place k behind the c places from h on, seen from where these end.
LEMMA Around ==
    ASSUME NEW R \in Nat \ {0}, NEW h \in 0 .. R - 1, NEW c \in 0 .. R, NEW k \in 1 .. R - c
    PROVE  (((h + c + k - 1) % R) - ((h + c) % R)) % R = k - 1
<1> DEFINE t == IF h + c < R THEN h + c ELSE h + c - R
           p == IF h + c + k - 1 < R THEN h + c + k - 1 ELSE h + c + k - 1 - R
<1>1. (h + c) % R = t
  BY Wrap
<1>2. (h + c + k - 1) % R = p
  <2>1. c + k - 1 \in 0 .. R
    OBVIOUS
  <2>2. (h + (c + k - 1)) % R = IF h + (c + k - 1) < R THEN h + (c + k - 1) ELSE h + (c + k - 1) - R
    BY <2>1, Wrap
  <2> QED
    BY <2>2
<1>3. t \in 0 .. R - 1 /\ p \in 0 .. R - 1
  OBVIOUS
<1>4. (IF p >= t THEN p - t ELSE p - t + R) = k - 1
  OBVIOUS
<1> HIDE DEF t, p
<1>5. (p - t) % R = IF p >= t THEN p - t ELSE p - t + R
  BY <1>3, Back
<1>6. (((h + c + k - 1) % R) - ((h + c) % R)) % R = (p - t) % R
  BY <1>1, <1>2, Zenon
<1>7. (p - t) % R = k - 1
  BY <1>4, <1>5
<1> QED
  BY <1>6, <1>7, Zenon

\* The places from h on, seen from behind the last of them.
LEMMA Behind ==
    ASSUME NEW R \in Nat \ {0}, NEW h \in 0 .. R - 1, NEW c \in 0 .. R, NEW k \in 1 .. c
    PROVE  ~((((h + k - 1) % R) - ((h + c) % R)) % R < R - c)
<1> DEFINE t == IF h + c < R THEN h + c ELSE h + c - R
           p == IF h + k - 1 < R THEN h + k - 1 ELSE h + k - 1 - R
<1>1. (h + c) % R = t
  BY Wrap
<1>2. (h + k - 1) % R = p
  <2>1. k - 1 \in 0 .. R
    OBVIOUS
  <2>2. (h + (k - 1)) % R = IF h + (k - 1) < R THEN h + (k - 1) ELSE h + (k - 1) - R
    BY <2>1, Wrap
  <2> QED
    BY <2>2
<1>3. t \in 0 .. R - 1 /\ p \in 0 .. R - 1
  OBVIOUS
<1>4. ~((IF p >= t THEN p - t ELSE p - t + R) < R - c)
  OBVIOUS
<1> HIDE DEF t, p
<1>5. (p - t) % R = IF p >= t THEN p - t ELSE p - t + R
  BY <1>3, Back
<1>6. (((h + k - 1) % R) - ((h + c) % R)) % R = (p - t) % R
  BY <1>1, <1>2, Zenon
<1>7. ~(((p - t) % R) < R - c)
  BY <1>4, <1>5, Zenon
<1> QED
  BY <1>6, <1>7, Zenon

LEMMA InRange == ASSUME NEW R \in Nat \ {0}, NEW a \in Int PROVE a % R \in 0 .. R - 1
OBVIOUS

\* Advancing by r and then by k places.
LEMMA WrapTwice ==
    ASSUME NEW R \in Nat \ {0}, NEW h \in 0 .. R - 1, NEW r \in 0 .. R, NEW k \in 0 .. R - r
    PROVE  (((h + r) % R) + k) % R = (h + r + k) % R
<1>1. PICK t \in 0 .. R - 1 : t = (h + r) % R /\ t = IF h + r < R THEN h + r ELSE h + r - R
  <2>1. (h + r) % R = IF h + r < R THEN h + r ELSE h + r - R
    BY Wrap
  <2> QED
    BY <2>1
<1>5. k \in 0 .. R
  OBVIOUS
<1>2. (t + k) % R = IF t + k < R THEN t + k ELSE t + k - R
  BY <1>5, Wrap
<1>3. r + k \in 0 .. R
  OBVIOUS
<1>4. (h + (r + k)) % R = IF h + (r + k) < R THEN h + (r + k) ELSE h + (r + k) - R
  BY <1>3, Wrap
<1>6. r + k = (r + k) /\ h + (r + k) = h + r + k
  OBVIOUS
<1>7. (IF t + k < R THEN t + k ELSE t + k - R)
      = IF h + (r + k) < R THEN h + (r + k) ELSE h + (r + k) - R
  BY <1>1, <1>5
<1> QED
  BY <1>1, <1>2, <1>4, <1>6, <1>7, Zenon

LEMMA Distinct ==
    ASSUME NEW R \in Nat \ {0}, NEW h \in 0 .. R - 1,
           NEW a \in 0 .. R - 1, NEW b \in 0 .. R - 1, a # b
    PROVE  (h + a) % R # (h + b) % R
<1>1. a \in 0 .. R /\ b \in 0 .. R
  OBVIOUS
<1>2. (h + a) % R = IF h + a < R THEN h + a ELSE h + a - R
  BY <1>1, Wrap
<1>3. (h + b) % R = IF h + b < R THEN h + b ELSE h + b - R
  BY <1>1, Wrap
<1>4. (IF h + a < R THEN h + a ELSE h + a - R) # (IF h + b < R THEN h + b ELSE h + b - R)
  OBVIOUS
<1> QED
  BY <1>2, <1>3, <1>4

-----------------------------------------------------------------------------
(* No byte is lost.                                                         *)

\* No interrupt comes between a load and a store of the ring's tail or size,
\* between the two tests before the data set aside are put into the ring, nor
\* before g_flow_control is reset, and the ring has room for what RTS has held up.
FlowControlled ==
    /\ {"low", "copy", "store_tail", "store_add", "store_sub", "flow"} \subseteq Quiet
    /\ 3 * (DmaSize + InFlight) <= 2 * RingSize

Types ==
    /\ sent \in Nat /\ extra \in 0 .. InFlight /\ dma \in [0 .. DmaSize - 1 -> Nat]
    /\ ring \in [0 .. RingSize - 1 -> Nat]
    /\ rhead \in 0 .. RingSize - 1 /\ rsize \in 0 .. RingSize
    /\ left \in Seq(Nat) /\ flow \in BOOLEAN /\ rts \in BOOLEAN /\ passed \in BOOLEAN
    /\ pc \in Places /\ want \in Nat /\ n \in 0 .. RingSize
    /\ got \in Seq(Nat)

\* The bytes in the ring, whatever its size says while the reader changes it;
\* those still set aside; and those the DMA has stored since the last handler.
Held ==
    IF pc \in {"sub", "store_sub"} THEN rsize - n
    ELSE IF pc \in {"add", "store_add"} THEN rsize + n ELSE rsize
Kept == IF pc \in {"add", "store_add", "free"} THEN 0 ELSE Len(left)
\* What is about to be copied from there to the ring.
Due == IF pc \in {"tail", "copy", "store_tail"} THEN n ELSE 0
Unhanded == IF cplt THEN DmaSize - Start + pos ELSE pos - Start
Handed == Len(got) + Held + Kept

\* Between the end of the ring and the reader's next step.
Counts ==
    /\ Held \in 0 .. RingSize /\ rtail = (rhead + Held) % RingSize
    /\ pc \in {"sub", "store_sub"} => n <= rsize
    /\ pc = "store_sub" => reg = rsize - n
    /\ pc = "store_add" => reg = rsize + n
    /\ pc = "low" => Low
    /\ pc \in {"tail", "copy", "store_tail", "add", "store_add"} => n = Len(left)
    /\ pc \in {"copy", "store_tail"} => reg = rtail
    /\ pc = "store_tail" => \A k \in 1 .. n : ring[(rhead + rsize + k - 1) % RingSize] = left[k]

Flushing == {"tail", "copy", "store_tail", "add", "store_add", "free", "rts"}

\* While data are set aside the module is stopped, and what it sent in the
\* meantime, with what is set aside, fits into the ring once that is low.
Stopped ==
    /\ flow <=> rts \/ pc = "flow"
    /\ pc = "flow" => ~rts
    /\ left # <<>> => flow
    /\ flow => left # <<>> \/ pc \in {"rts", "flow"}
    /\ pc \in Flushing \cup {"flow"} => flow
    /\ pc \in {"rts", "flow"} => left = <<>>
    /\ rts => Len(left) + Unhanded <= DmaSize + extra
    /\ pc \in Flushing => Held + Due + Unhanded + InFlight - extra <= RingSize

\* What the DMA has stored follows what was handed over.
Buffer ==
    /\ sent = Handed + Unhanded
    /\ cplt => Start >= HalfSize
    /\ pos = (Start + Unhanded) % DmaSize
    /\ \A j \in 1 .. Unhanded : dma[(Start + j - 1) % DmaSize] = Handed + j

\* What was handed over, in the order in which it is or will be read.
Stream ==
    [k \in 1 .. Handed |->
        IF k <= Len(got) THEN got[k]
        ELSE IF k <= Len(got) + Held THEN ring[(rhead + (k - Len(got)) - 1) % RingSize]
        ELSE left[k - Len(got) - Held]]

\* s holds each of 1 .. len once.
Whole(s, len) == {s[k] : k \in 1 .. len} = 1 .. len

Complete ==
    /\ Whole(Stream, Handed)
    /\ ~passed => \A k \in 1 .. Handed : Stream[k] = k

Intact == Entered /\ Types /\ Counts /\ Stopped /\ Buffer /\ Complete

IInv == Window /\ (errors = 0 => Intact)

LEMMA Rings ==
    /\ RingSize \in Nat \ {0} /\ InFlight \in Nat
    /\ RingSize \div 3 \in Nat /\ 3 * (RingSize \div 3) <= RingSize
BY SizesAssumption, BoundsAssumption

\* The places from t on take the bytes s[1] to s[w].
Copied(f, g, t, w, s) ==
    \A p \in 0 .. RingSize - 1 :
        g[p] = IF (p - t) % RingSize < w THEN s[((p - t) % RingSize) + 1] ELSE f[p]

\* g holds the c bytes of f from h on, and then the w bytes of s.
Extended(f, g, h, c, w, s) ==
    /\ \A k \in 1 .. c : g[(h + k - 1) % RingSize] = f[(h + k - 1) % RingSize]
    /\ \A k \in 1 .. w : g[(h + c + k - 1) % RingSize] = s[k]

\* A copy of w bytes to the end of the ring's c bytes.
LEMMA CopyPlaces ==
    ASSUME NEW h \in 0 .. RingSize - 1, NEW c \in 0 .. RingSize, NEW w \in 0 .. RingSize - c,
           NEW t, t = (h + c) % RingSize, NEW f, NEW s, NEW g,
           Copied(f, g, t, w, s)
    PROVE  Extended(f, g, h, c, w, s) /\ (t + w) % RingSize = (h + c + w) % RingSize
<1>1. ASSUME NEW k \in 1 .. c PROVE g[(h + k - 1) % RingSize] = f[(h + k - 1) % RingSize]
  <2>1. (h + k - 1) % RingSize \in 0 .. RingSize - 1
    BY Rings, InRange
  <2>2. /\ ~((((h + k - 1) % RingSize) - t) % RingSize < RingSize - c)
        /\ (((h + k - 1) % RingSize) - t) % RingSize \in 0 .. RingSize - 1
    <3>1. ~((((h + k - 1) % RingSize) - t) % RingSize < RingSize - c)
      BY Rings, Behind, Zenon
    <3>2. t \in 0 .. RingSize - 1
      BY Rings, InRange
    <3>3. ((h + k - 1) % RingSize) - t \in Int
      BY <2>1, <3>2
    <3> QED
      BY <3>1, <3>3, Rings, InRange
  <2>3. ~((((h + k - 1) % RingSize) - t) % RingSize < w)
    BY <2>2, Rings
  <2> QED
    BY <2>1, <2>3, Zenon DEF Copied
<1>2. ASSUME NEW k \in 1 .. w PROVE g[(h + c + k - 1) % RingSize] = s[k]
  <2>1. (h + c + k - 1) % RingSize \in 0 .. RingSize - 1
    BY Rings, InRange
  <2>2. k \in 1 .. RingSize - c
    BY Rings
  <2>3. (((h + c + k - 1) % RingSize) - t) % RingSize = k - 1
    BY Rings, Around, <2>2, Zenon
  <2>4. k - 1 < w /\ k - 1 + 1 = k
    BY Rings
  <2> QED
    BY <2>1, <2>3, <2>4, Zenon DEF Copied
<1>3. (t + w) % RingSize = (h + c + w) % RingSize
  BY Rings, WrapTwice, Zenon
<1> QED
  BY <1>1, <1>2, <1>3 DEF Extended

LEMMA UnhandedFits ==
    ASSUME ServedInTime, Flags, Counters, Ahead, cplt => Start >= HalfSize
    PROVE  Unhanded \in 0 .. DmaSize - 1 /\ Start \in 0 .. DmaSize - 1
<1>1. Start \in 0 .. DmaSize - 1
  BY Sizes DEF Start, Counters
<1>2. CASE cplt
  <2>1. pos \in Nat /\ pos < HalfSize /\ Start >= HalfSize
    BY <1>2, Sizes DEF Counters, Ahead, ServedInTime
  <2> QED
    BY <1>1, <1>2, <2>1, Sizes DEF Unhanded
<1>3. CASE ~cplt
  <2>1. Start <= pos
    BY <1>3, <1>1, Sizes DEF Ahead, Flags, Counters
  <2> QED
    BY <1>1, <1>3, <2>1, Sizes DEF Unhanded, Counters
<1> QED
  BY <1>2, <1>3

\* g is f with w new bytes behind the first c of its H, and m - w at the end.
Inserts(f, g, H, c, m, w) ==
    /\ \A k \in 1 .. c : g[k] = f[k]
    /\ \A k \in 1 .. w : g[c + k] = H + k
    /\ \A k \in c + 1 .. H : g[k + w] = f[k]
    /\ \A k \in H + w + 1 .. H + m : g[k] = k

LEMMA Inserted ==
    ASSUME NEW H \in Nat, NEW c \in 0 .. H, NEW m \in Nat, NEW w \in 0 .. m, NEW f, NEW g,
           Whole(f, H), Inserts(f, g, H, c, m, w)
    PROVE  Whole(g, H + m)
<1> USE DEF Whole, Inserts
<1>1. ASSUME NEW k \in 1 .. H + m PROVE g[k] \in 1 .. H + m
  <2>1. CASE k <= c
    BY <2>1
  <2>2. CASE c < k /\ k <= c + w
    <3>1. k - c \in 1 .. w /\ c + (k - c) = k
      BY <2>2
    <3>2. g[c + (k - c)] = H + (k - c)
      BY <3>1
    <3> QED
      BY <3>1, <3>2
  <2>3. CASE c + w < k /\ k <= H + w
    <3>1. k - w \in c + 1 .. H /\ (k - w) + w = k
      BY <2>3
    <3>2. g[(k - w) + w] = f[k - w]
      BY <3>1
    <3>3. f[k - w] \in 1 .. H
      BY <3>1
    <3> QED
      BY <3>1, <3>2, <3>3
  <2>4. CASE H + w < k
    BY <2>4
  <2> QED
    BY <2>1, <2>2, <2>3, <2>4
<1>2. ASSUME NEW b \in 1 .. H + m PROVE \E k \in 1 .. H + m : g[k] = b
  <2>1. CASE b <= H
    <3>1. PICK k \in 1 .. H : f[k] = b
      BY <2>1
    <3>2. CASE k <= c
      BY <3>1, <3>2
    <3>3. CASE k > c
      <4>1. g[k + w] = b /\ k + w \in 1 .. H + m
        BY <3>1, <3>3
      <4> QED
        BY <4>1
    <3> QED
      BY <3>2, <3>3
  <2>2. CASE H < b /\ b <= H + w
    <3>1. b - H \in 1 .. w /\ c + (b - H) \in 1 .. H + m
      BY <2>2
    <3>2. g[c + (b - H)] = H + (b - H)
      BY <3>1
    <3>3. H + (b - H) = b
      OBVIOUS
    <3> QED
      BY <3>1, <3>2, <3>3
  <2>3. CASE H + w < b
    BY <2>3
  <2> QED
    BY <2>1, <2>2, <2>3
<1> QED
  BY <1>1, <1>2

LEMMA IInvInit == Init => IInv
<1>1. SUFFICES ASSUME Init PROVE IInv
  OBVIOUS
<1>2. /\ sent = 0 /\ extra = 0 /\ pos = 0 /\ head = 0 /\ cplt = FALSE
      /\ dma = [k \in 0 .. DmaSize - 1 |-> 0] /\ ring = [k \in 0 .. RingSize - 1 |-> 0]
      /\ rhead = 0 /\ rtail = 0 /\ rsize = 0 /\ left = <<>> /\ flow = FALSE /\ rts = FALSE
      /\ passed = FALSE /\ pc = "length" /\ want = 1 /\ n = 0 /\ reg = 0 /\ got = <<>>
  BY <1>1 DEF Init
<1>3. Start = 0 /\ Held = 0 /\ Kept = 0 /\ Unhanded = 0 /\ Handed = 0
  BY <1>2, Sizes DEF Start, Held, Kept, Unhanded, Handed
<1>4. Types
  <2>1. dma \in [0 .. DmaSize - 1 -> Nat] /\ ring \in [0 .. RingSize - 1 -> Nat]
    BY <1>2
  <2>2. left \in Seq(Nat) /\ got \in Seq(Nat)
    BY <1>2
  <2>3. rhead \in 0 .. RingSize - 1 /\ rsize \in 0 .. RingSize /\ n \in 0 .. RingSize
    BY <1>2, Rings
  <2>4. /\ sent \in Nat /\ extra \in 0 .. InFlight /\ want \in Nat
        /\ flow \in BOOLEAN /\ rts \in BOOLEAN /\ passed \in BOOLEAN /\ pc \in Places
    BY <1>2, Rings DEF Places
  <2> QED
    BY <2>1, <2>2, <2>3, <2>4 DEF Types
<1>5. Counts /\ Stopped
  BY <1>2, <1>3, Rings DEF Counts, Stopped, Flushing
<1>6. Buffer
  <2>1. (Start + Unhanded) % DmaSize = 0
    BY <1>3, Sizes
  <2> QED
    BY <1>2, <1>3, <2>1, Sizes DEF Buffer
<1>7. Complete
  BY <1>3 DEF Complete, Whole
<1> QED
  BY <1>1, <1>4, <1>5, <1>6, <1>7, WindowInit DEF IInv, Intact, Entered, Init

-----------------------------------------------------------------------------
(* The reader's steps.                                                      *)

\* A step that hands nothing over and moves what was handed over in its order.
LEMMA Moved ==
    ASSUME Buffer, Complete, UNCHANGED <<sent, dma, pos, cplt, head, passed>>,
           Stream' = Stream, Handed' = Handed
    PROVE  Buffer' /\ Complete'
<1>1. Start' = Start /\ Unhanded' = Unhanded
  BY DEF Start, Unhanded
<1> QED
  BY <1>1 DEF Buffer, Complete

LEMMA StoppedSame ==
    ASSUME Stopped, UNCHANGED <<uart, flags, driver, control, n>>, pc' = pc,
           Held' = Held
    PROVE  Stopped'
BY DEF Stopped, Due, uart, flags, driver, control, Start, Unhanded

\* What the steps before ringbuffer_get do to the invariant.
LEMMA PlainStep ==
    ASSUME Types, Counts, Stopped, Buffer, Complete, Plain
    PROVE  Types' /\ Counts' /\ Stopped' /\ Buffer' /\ Complete'
<1> DEFINE Before == {"length", "wait", "count", "store_count", "threshold", "low"}
<1>1. /\ UNCHANGED <<uart, flags, driver, rb, control, n, got>>
      /\ pc \in Before /\ pc' \in Before \cup {"get"} /\ (pc' = "low" => Low')
  BY DEF Plain, Empty, Wait, LoadCount, StoreCount, Read, Threshold, NoFlush, Goto, Low, rb
<1>2. want' \in Nat
  BY SizesAssumption DEF Plain, Empty, Wait, LoadCount, StoreCount, Read, Threshold, NoFlush, Types
<1>3. Types'
  BY <1>1, <1>2 DEF Types, Places, uart, driver, rb, control
<1>4. Held = rsize /\ Held' = rsize /\ Kept = Len(left) /\ Kept' = Kept
  BY <1>1 DEF Held, Kept, rb, control
<1>5. Stream' = Stream /\ Handed' = Handed
  BY <1>1, <1>4 DEF Stream, Handed, rb, control
<1>6. Counts'
  BY <1>1, <1>4 DEF Counts, rb, control
<1>7. Stopped'
  BY <1>1 DEF Stopped, Flushing, uart, flags, driver, control, Start, Unhanded
<1> QED
  BY <1>1, <1>3, <1>5, <1>6, <1>7, Moved DEF uart, flags, driver

LEMMA MeasureStep ==
    ASSUME FlowControlled, Types, Counts, Stopped, Buffer, Complete, Measure,
           Unhanded \in 0 .. DmaSize - 1
    PROVE  Types' /\ Counts' /\ Stopped' /\ Buffer' /\ Complete'
<1>1. /\ UNCHANGED <<uart, flags, driver, rb, control, want, reg, got>>
      /\ pc = "low" /\ flow /\ rsize < RingSize \div 3
  BY DEF Measure, Goto, Counts, Low
<1>2. Len(left) \in Nat /\ extra \in 0 .. InFlight /\ rsize \in Nat
  BY DEF Types
<1>3. rts /\ left # <<>> /\ Held = rsize /\ Kept = Len(left)
  BY <1>1 DEF Stopped, Held, Kept
<1>4. /\ Len(left) + Unhanded <= DmaSize + extra
      /\ rsize + Len(left) + Unhanded + InFlight - extra <= RingSize
  <2>1. Len(left) + Unhanded <= DmaSize + extra
    BY <1>3 DEF Stopped
  <2> QED
    BY <1>1, <1>2, <2>1, Rings, Sizes DEF FlowControlled
<1>5. Least(Len(left), RingSize - rsize) = Len(left) /\ rsize + Len(left) <= RingSize
  BY <1>2, <1>4, Rings, Sizes DEF Least
<1>6. n' = Len(left) /\ pc' = "tail"
  <2>1. Len(left) # 0
    BY <1>3 DEF Types
  <2> QED
    BY <1>5, <2>1 DEF Measure, Goto
<1>7. Held' = rsize /\ Kept' = Len(left) /\ Due' = Len(left)
  BY <1>1, <1>6 DEF Held, Kept, Due, rb, control
<1>8. Handed' = Handed /\ Stream' = Stream
  BY <1>1, <1>3, <1>7 DEF Handed, Stream, rb, control
<1>9. Types'
  <2>1. n' \in 0 .. RingSize
    BY <1>2, <1>5, <1>6, Rings
  <2> QED
    BY <1>1, <1>6, <2>1 DEF Types, Places, uart, driver, control, rb
<1>10. Counts'
  BY <1>1, <1>3, <1>6, <1>7 DEF Counts, control, rb
<1>11. Stopped'
  <2>1. Unhanded' = Unhanded
    BY <1>1 DEF Unhanded, Start, uart, flags, driver
  <2> QED
    BY <1>1, <1>3, <1>4, <1>6, <1>7, <2>1 DEF Stopped, Flushing, uart, control
<1> QED
  BY <1>1, <1>8, <1>9, <1>10, <1>11, Moved DEF uart, flags, driver

\* The copy of what was set aside behind the ring's bytes.
LEMMA CopyStep ==
    ASSUME Types, Counts, Stopped, Buffer, Complete, Unhanded \in 0 .. DmaSize - 1,
           LoadTail \/ CopyLeft
    PROVE  Types' /\ Counts' /\ Stopped' /\ Buffer' /\ Complete'
<1>1. /\ UNCHANGED <<uart, flags, driver, rhead, rtail, rsize, control, want, n, got>>
      /\ \/ pc = "tail" /\ pc' = "copy" /\ reg' = rtail /\ ring' = ring
         \/ pc = "copy" /\ pc' = "store_tail" /\ reg' = reg /\ ring' = Over(reg, n, left)
  BY DEF LoadTail, CopyLeft, Goto, rb
<1>2. /\ Held = rsize /\ Held' = rsize /\ Kept = Len(left) /\ Kept' = Len(left)
      /\ Due = n /\ Due' = n /\ n = Len(left)
  BY <1>1 DEF Held, Kept, Due, Counts, control
<1>3. Handed' = Handed
  BY <1>1, <1>2 DEF Handed
<1>4. rsize + n <= RingSize /\ n \in Nat /\ rsize \in Nat
  <2>1. rsize + n + Unhanded + InFlight - extra <= RingSize
    BY <1>1, <1>2 DEF Stopped, Flushing
  <2>2. extra \in 0 .. InFlight /\ n \in Nat /\ rsize \in Nat
    BY DEF Types
  <2> QED
    BY <2>1, <2>2, Rings, Sizes
<1>5. ASSUME pc = "copy"
      PROVE  /\ \A k \in 1 .. rsize :
                    ring'[(rhead + k - 1) % RingSize] = ring[(rhead + k - 1) % RingSize]
             /\ \A k \in 1 .. n : ring'[(rhead + rsize + k - 1) % RingSize] = left[k]
             /\ ring' \in [0 .. RingSize - 1 -> Nat]
  <2>1. ring' = [k \in 0 .. RingSize - 1 |->
                    LET d == (k - rtail) % RingSize IN IF d < n THEN left[d + 1] ELSE ring[k]]
    BY <1>1, <1>5 DEF Over, Counts
  <2>2. Copied(ring, ring', rtail, n, left)
    BY <2>1, Zenon DEF Copied
  <2>3. /\ n \in 0 .. RingSize - rsize /\ rtail = (rhead + rsize) % RingSize
        /\ rhead \in 0 .. RingSize - 1 /\ rsize \in 0 .. RingSize
    BY <1>2, <1>4, Rings DEF Counts, Types
  <2>4. Extended(ring, ring', rhead, rsize, n, left)
    BY <2>2, <2>3, CopyPlaces
  <2>5. ASSUME NEW k \in 0 .. RingSize - 1, (k - rtail) % RingSize < n
        PROVE  left[((k - rtail) % RingSize) + 1] \in Nat
    <3>1. rtail \in Int
      BY <2>3, Rings, InRange
    <3>2. (k - rtail) % RingSize \in 0 .. RingSize - 1
      BY <3>1, Rings, InRange
    <3>3. ((k - rtail) % RingSize) + 1 \in 1 .. Len(left)
      BY <1>2, <1>4, <2>5, <3>2
    <3>4. left \in Seq(Nat)
      BY DEF Types
    <3> QED
      BY <3>3, <3>4
  <2>6. ring \in [0 .. RingSize - 1 -> Nat]
    BY DEF Types
  <2>7. ring' \in [0 .. RingSize - 1 -> Nat]
    BY <2>1, <2>5, <2>6, Zenon
  <2> QED
    BY <2>4, <2>7 DEF Extended
<1>6. Stream' = Stream
  <2>1. ASSUME NEW k \in 1 .. Handed, Len(got) < k, k <= Len(got) + rsize
        PROVE  ring'[(rhead + (k - Len(got)) - 1) % RingSize]
                   = ring[(rhead + (k - Len(got)) - 1) % RingSize]
    <3>1. k - Len(got) \in 1 .. rsize
      BY <1>4, <2>1 DEF Types
    <3> QED
      BY <1>1, <1>5, <3>1
  <2>2. ASSUME NEW k \in 1 .. Handed
        PROVE  (IF k <= Len(got') THEN got'[k]
                ELSE IF k <= Len(got') + Held' THEN ring'[(rhead' + (k - Len(got')) - 1) % RingSize]
                ELSE left'[k - Len(got') - Held'])
               = (IF k <= Len(got) THEN got[k]
                  ELSE IF k <= Len(got) + Held THEN ring[(rhead + (k - Len(got)) - 1) % RingSize]
                  ELSE left[k - Len(got) - Held])
    <3>1. got' = got /\ rhead' = rhead /\ left' = left /\ Held = rsize /\ Held' = rsize
      BY <1>1, <1>2 DEF control
    <3>2. Len(got) \in Nat
      BY DEF Types
    <3> QED
      BY <2>1, <3>1, <3>2
  <2> QED
    BY <1>3, <2>2, Zenon DEF Stream
<1>7. Types'
  <2>1. ring' \in [0 .. RingSize - 1 -> Nat]
    BY <1>1, <1>5 DEF Types
  <2> QED
    BY <1>1, <2>1 DEF Types, Places, uart, driver, control
<1>8. Counts'
  <2>1. pc' = "store_tail" =>
            \A k \in 1 .. n : ring'[(rhead + rsize + k - 1) % RingSize] = left[k]
    BY <1>1, <1>5
  <2> QED
    BY <1>1, <1>2, <2>1 DEF Counts, control
<1>9. Stopped'
  <2>1. Unhanded' = Unhanded
    BY <1>1 DEF Unhanded, Start, uart, flags, driver
  <2> QED
    BY <1>1, <1>2, <2>1 DEF Stopped, Flushing, uart, control
<1> QED
  BY <1>1, <1>3, <1>6, <1>7, <1>8, <1>9, Moved DEF uart, flags, driver

\* The new tail: what was set aside now belongs to the ring.
LEMMA StoreTailStep ==
    ASSUME Types, Counts, Stopped, Buffer, Complete, Unhanded \in 0 .. DmaSize - 1, StoreTail
    PROVE  Types' /\ Counts' /\ Stopped' /\ Buffer' /\ Complete'
<1>1. /\ UNCHANGED <<uart, flags, driver, ring, rhead, rsize, control, want, n, got>>
      /\ pc = "store_tail" /\ pc' = "add" /\ rtail' = (reg + n) % RingSize
  BY DEF StoreTail, Goto
<1>2. /\ Held = rsize /\ Held' = rsize + n /\ Kept = Len(left) /\ Kept' = 0
      /\ Due = n /\ Due' = 0 /\ n = Len(left)
  BY <1>1 DEF Held, Kept, Due, Counts, control
<1>3. rsize + n <= RingSize /\ n \in Nat /\ rsize \in Nat /\ Len(got) \in Nat
  <2>1. rsize + n + Unhanded + InFlight - extra <= RingSize
    BY <1>1, <1>2 DEF Stopped, Flushing
  <2>2. extra \in 0 .. InFlight /\ n \in Nat /\ rsize \in Nat /\ Len(got) \in Nat
    BY DEF Types
  <2> QED
    BY <2>1, <2>2, Rings, Sizes
<1>4. Handed' = Handed
  BY <1>1, <1>2, <1>3 DEF Handed
<1>5. Types'
  BY <1>1 DEF Types, Places, uart, driver, control
<1>6. Counts'
  <2>1. Held' \in 0 .. RingSize
    BY <1>2, <1>3, Rings
  <2>2. rtail' = (rhead' + Held') % RingSize
    <3>1. /\ rhead \in 0 .. RingSize - 1 /\ rsize \in 0 .. RingSize /\ n \in 0 .. RingSize - rsize
          /\ reg = (rhead + rsize) % RingSize
      BY <1>1, <1>2, <1>3, Rings DEF Counts, Types
    <3>2. (((rhead + rsize) % RingSize) + n) % RingSize = (rhead + rsize + n) % RingSize
      BY <3>1, Rings, WrapTwice
    <3>3. rhead + rsize + n = rhead' + Held'
      BY <1>1, <1>2, <1>3, <3>1
    <3> QED
      BY <1>1, <3>1, <3>2, <3>3
  <2> QED
    BY <1>1, <1>2, <2>1, <2>2 DEF Counts, control
<1>7. Stopped'
  <2>1. Unhanded' = Unhanded
    BY <1>1 DEF Unhanded, Start, uart, flags, driver
  <2>2. Held' + Due' = Held + Due
    BY <1>2, <1>3
  <2> QED
    BY <1>1, <2>1, <2>2 DEF Stopped, Flushing, uart, control
<1>8. Stream' = Stream
  <2>1. ASSUME NEW k \in 1 .. Handed, Len(got) + rsize < k
        PROVE  ring[(rhead + (k - Len(got)) - 1) % RingSize] = left[k - Len(got) - rsize]
    <3>1. k - Len(got) - rsize \in 1 .. n
      BY <1>2, <1>3, <2>1 DEF Handed
    <3>2. rhead + rsize + (k - Len(got) - rsize) - 1 = rhead + (k - Len(got)) - 1
      BY <1>3 DEF Types
    <3> QED
      BY <1>1, <3>1, <3>2 DEF Counts
  <2>2. \A k \in 1 .. Handed : k <= Len(got) + (rsize + n)
    BY <1>2, <1>3 DEF Handed
  <2>3. ASSUME NEW k \in 1 .. Handed
        PROVE  (IF k <= Len(got') THEN got'[k]
                ELSE IF k <= Len(got') + Held' THEN ring'[(rhead' + (k - Len(got')) - 1) % RingSize]
                ELSE left'[k - Len(got') - Held'])
               = (IF k <= Len(got) THEN got[k]
                  ELSE IF k <= Len(got) + Held THEN ring[(rhead + (k - Len(got)) - 1) % RingSize]
                  ELSE left[k - Len(got) - Held])
    <3>1. /\ got' = got /\ rhead' = rhead /\ left' = left /\ ring' = ring /\ Held = rsize
          /\ Held' = rsize + n
      BY <1>1, <1>2 DEF control
    <3>2. CASE k <= Len(got)
      BY <3>1, <3>2
    <3>3. CASE Len(got) < k /\ k <= Len(got) + rsize
      <4>1. ~(k <= Len(got)) /\ k <= Len(got) + (rsize + n)
        BY <1>3, <3>3
      <4> QED
        BY <3>1, <3>3, <4>1
    <3>4. CASE Len(got) + rsize < k
      <4>1. ~(k <= Len(got)) /\ ~(k <= Len(got) + rsize)
        BY <1>3, <3>4
      <4> QED
        BY <2>1, <2>2, <3>1, <3>4, <4>1, Zenon
    <3> QED
      BY <1>3, <3>2, <3>3, <3>4
  <2> QED
    BY <1>4, <2>3, Zenon DEF Stream
<1> QED
  BY <1>1, <1>4, <1>5, <1>6, <1>7, <1>8, Moved DEF uart, flags, driver

LEMMA AddStep ==
    ASSUME Types, Counts, Stopped, Buffer, Complete, LoadAdd \/ StoreAdd
    PROVE  Types' /\ Counts' /\ Stopped' /\ Buffer' /\ Complete'
<1>1. /\ UNCHANGED <<uart, flags, driver, ring, rhead, rtail, control, want, n, got>>
      /\ \/ pc = "add" /\ pc' = "store_add" /\ reg' = rsize + n /\ rsize' = rsize
         \/ pc = "store_add" /\ pc' = "free" /\ rsize' = reg /\ reg' = reg
  BY DEF LoadAdd, StoreAdd, Goto, rb
<1>2. Held = rsize + n /\ Held' = rsize + n /\ Kept = 0 /\ Kept' = 0
  BY <1>1 DEF Held, Kept, Counts
<1>3. Handed' = Handed
  BY <1>1, <1>2 DEF Handed
<1>4. Stream' = Stream
  BY <1>1, <1>2, <1>3 DEF Stream, control
<1>5. Types'
  <2>1. rsize' \in 0 .. RingSize
    BY <1>1, <1>2 DEF Types, Counts
  <2> QED
    BY <1>1, <2>1, Rings DEF Types, Places, uart, driver, control
<1>6. Counts'
  BY <1>1, <1>2 DEF Counts, control, Types
<1>7. Stopped'
  <2>1. Unhanded' = Unhanded
    BY <1>1 DEF Unhanded, Start, uart, flags, driver
  <2> QED
    BY <1>1, <1>2, <2>1 DEF Stopped, Flushing, Due, uart, control
<1> QED
  BY <1>1, <1>3, <1>4, <1>5, <1>6, <1>7, Moved DEF uart, flags, driver

LEMMA ReleaseStep ==
    ASSUME Types, Counts, Stopped, Buffer, Complete, Unhanded \in 0 .. DmaSize - 1,
           Free \/ LetModuleSend \/ FlowOff
    PROVE  Types' /\ Counts' /\ Stopped' /\ Buffer' /\ Complete'
<1>1. /\ UNCHANGED <<uart, flags, driver, rb, want, n, reg, got>>
      /\ \/ pc = "free" /\ pc' = "rts" /\ left' = <<>> /\ UNCHANGED <<flow, rts>>
         \/ pc = "rts" /\ pc' = "flow" /\ rts' = FALSE /\ UNCHANGED <<left, flow>>
         \/ pc = "flow" /\ pc' = "get" /\ flow' = FALSE /\ UNCHANGED <<left, rts>>
  BY DEF Free, LetModuleSend, FlowOff, Goto
<1>2. Held = rsize /\ Held' = rsize /\ Kept = 0 /\ Kept' = 0
  BY <1>1 DEF Held, Kept, Stopped, Flushing, rb
<1>3. Handed' = Handed
  BY <1>1, <1>2 DEF Handed
<1>4. Stream' = Stream
  <2>1. \A k \in 1 .. Handed : k <= Len(got) + rsize
    BY <1>2 DEF Handed, Types
  <2> QED
    BY <1>1, <1>2, <1>3, <2>1 DEF Stream, rb
<1>5. Types'
  <2>1. left' \in Seq(Nat) /\ flow' \in BOOLEAN /\ rts' \in BOOLEAN /\ pc' \in Places
    <3>1. left \in Seq(Nat) /\ flow \in BOOLEAN /\ rts \in BOOLEAN
      BY DEF Types
    <3>2. <<>> \in Seq(Nat) /\ {"rts", "flow", "get"} \subseteq Places
      BY DEF Places
    <3> QED
      BY <1>1, <3>1, <3>2
  <2> QED
    BY <1>1, <2>1 DEF Types, uart, driver, rb
<1>6. Counts'
  BY <1>1, <1>2 DEF Counts, rb
<1>7. Stopped'
  <2>1. Unhanded' = Unhanded
    BY <1>1 DEF Unhanded, Start, uart, flags, driver
  <2>2. Len(left') <= Len(left)
    BY <1>1 DEF Types
  <2>3. rts' => rts /\ Len(left') + Unhanded <= DmaSize + extra
    <3>1. rts' => rts /\ Len(left) + Unhanded <= DmaSize + extra
      BY <1>1 DEF Stopped
    <3>2. Len(left) \in Nat /\ Len(left') \in Nat /\ extra \in Nat /\ DmaSize \in Nat
      BY <1>1, Sizes, Rings, SMTT(30) DEF Types
    <3> QED
      BY <2>2, <3>1, <3>2
  <2> QED
    BY <1>1, <1>2, <2>1, <2>3 DEF Stopped, Flushing, Due, uart
<1> QED
  BY <1>1, <1>3, <1>4, <1>5, <1>6, <1>7, Moved DEF uart, flags, driver

LEMMA SubStep ==
    ASSUME Types, Counts, Stopped, Buffer, Complete, LoadSub \/ StoreSub
    PROVE  Types' /\ Counts' /\ Stopped' /\ Buffer' /\ Complete'
<1>1. /\ UNCHANGED <<uart, flags, driver, ring, rhead, rtail, control, want, n, got>>
      /\ \/ pc = "sub" /\ pc' = "store_sub" /\ reg' = rsize - n /\ rsize' = rsize
         \/ pc = "store_sub" /\ pc' = "length" /\ rsize' = reg /\ reg' = reg
  BY DEF LoadSub, StoreSub, Goto, rb
<1>2. Held = rsize - n /\ Held' = rsize - n /\ Kept = Len(left) /\ Kept' = Kept
  BY <1>1 DEF Held, Kept, Counts, control
<1>3. Handed' = Handed
  BY <1>1, <1>2 DEF Handed
<1>4. Stream' = Stream
  BY <1>1, <1>2, <1>3 DEF Stream, control
<1>5. Types'
  <2>1. rsize' \in 0 .. RingSize
    BY <1>1, <1>2 DEF Types, Counts
  <2> QED
    BY <1>1, <2>1, Rings DEF Types, Places, uart, driver, control
<1>6. Counts'
  BY <1>1, <1>2 DEF Counts, control, Types
<1>7. Stopped'
  BY <1>1 DEF Stopped, Flushing, Due, uart, flags, driver, control, Start, Unhanded
<1> QED
  BY <1>1, <1>3, <1>4, <1>5, <1>6, <1>7, Moved DEF uart, flags, driver

LEMMA GetStep ==
    ASSUME Types, Counts, Stopped, Buffer, Complete, Get
    PROVE  Types' /\ Counts' /\ Stopped' /\ Buffer' /\ Complete'
<1> DEFINE r == Least(want, rsize)
           taken == [k \in 1 .. r |-> ring[(rhead + k - 1) % RingSize]]
<1>1. /\ UNCHANGED <<uart, flags, driver, ring, rtail, rsize, control, want, reg>>
      /\ pc = "get" /\ pc' = "sub" /\ n' = r
      /\ got' = got \o taken /\ rhead' = (rhead + r) % RingSize
  BY DEF Get, Goto
<1>2. r \in 0 .. rsize /\ rsize \in 0 .. RingSize
  BY DEF Least, Types
<1>3. Held = rsize /\ Held' = rsize - r /\ Kept = Len(left) /\ Kept' = Kept
  BY <1>1 DEF Held, Kept, control
<1>4. /\ taken \in Seq(Nat) /\ Len(taken) = r
      /\ \A k \in 1 .. r : taken[k] = ring[(rhead + k - 1) % RingSize]
  <2>1. ASSUME NEW k \in 1 .. r PROVE ring[(rhead + k - 1) % RingSize] \in Nat
    <3>1. (rhead + k - 1) % RingSize \in 0 .. RingSize - 1
      <4>1. rhead + k - 1 \in Int
        BY <1>2 DEF Types
      <4> QED
        BY <4>1, Rings, InRange
    <3> QED
      BY <3>1 DEF Types
  <2>2. r \in Nat
    BY <1>2
  <2> HIDE DEF r
  <2> QED
    BY <2>1, <2>2
<1>5. /\ got \in Seq(Nat) /\ Len(got) \in Nat /\ Len(got') = Len(got) + r /\ got' \in Seq(Nat)
      /\ \A k \in 1 .. Len(got) : got'[k] = got[k]
      /\ \A k \in Len(got) + 1 .. Len(got) + r : got'[k] = taken[k - Len(got)]
  <2>1. got \in Seq(Nat)
    BY DEF Types
  <2>2. got' = got \o taken
    BY <1>1
  <2>3. r \in Nat
    BY <1>2, Rings
  <2>4. taken \in Seq(Nat) /\ Len(taken) = r
    BY <1>4
  <2> HIDE DEF taken, r
  <2>5. got \o taken \in Seq(Nat) /\ Len(got \o taken) = Len(got) + Len(taken)
    BY <2>1, <2>4, SMTT(30)
  <2>6. \A k \in 1 .. Len(got) + Len(taken) :
            (got \o taken)[k] = IF k <= Len(got) THEN got[k] ELSE taken[k - Len(got)]
    BY <2>1, <2>4
  <2>7. Len(got) \in Nat
    BY <2>1
  <2>8. ASSUME NEW k \in 1 .. Len(got) PROVE got'[k] = got[k]
    BY <2>2, <2>3, <2>4, <2>6, <2>7
  <2>9. ASSUME NEW k \in Len(got) + 1 .. Len(got) + r PROVE got'[k] = taken[k - Len(got)]
    BY <2>2, <2>3, <2>4, <2>6, <2>7
  <2> QED
    BY <2>1, <2>2, <2>4, <2>5, <2>7, <2>8, <2>9
<1> HIDE DEF taken, r
<1>6. Handed' = Handed
  <2>1. Len(left) \in Nat
    BY DEF Types
  <2> QED
    BY <1>2, <1>3, <1>5, <2>1 DEF Handed
<1>7. rhead' \in 0 .. RingSize - 1
  BY <1>1, <1>2, Rings, InRange DEF Types
<1>8. Stream' = Stream
  <2>1. ASSUME NEW k \in 1 .. Handed
        PROVE  (IF k <= Len(got') THEN got'[k]
                ELSE IF k <= Len(got') + Held' THEN ring'[(rhead' + (k - Len(got')) - 1) % RingSize]
                ELSE left'[k - Len(got') - Held'])
               = (IF k <= Len(got) THEN got[k]
                  ELSE IF k <= Len(got) + Held THEN ring[(rhead + (k - Len(got)) - 1) % RingSize]
                  ELSE left[k - Len(got) - Held])
    <3>1. ring' = ring /\ left' = left
      BY <1>1 DEF control
    <3>2. CASE k <= Len(got)
      <4>1. k <= Len(got') /\ got'[k] = got[k]
        BY <1>2, <1>5, <3>2
      <4> QED
        BY <3>2, <4>1
    <3>3. CASE Len(got) < k /\ k <= Len(got) + r
      <4>1. /\ k <= Len(got') /\ got'[k] = taken[k - Len(got)] /\ k - Len(got) \in 1 .. r
            /\ ~(k <= Len(got)) /\ k <= Len(got) + Held
        BY <1>2, <1>3, <1>5, <3>3
      <4> QED
        BY <1>4, <4>1
    <3>4. CASE Len(got) + r < k /\ k <= Len(got) + rsize
      <4>1. /\ ~(k <= Len(got')) /\ k <= Len(got') + Held' 
            /\ ~(k <= Len(got)) /\ k <= Len(got) + Held
            /\ k - Len(got') - 1 \in 0 .. RingSize - r
        BY <1>2, <1>3, <1>5, <3>4, Rings
      <4>2. rhead \in 0 .. RingSize - 1 /\ r \in 0 .. RingSize
        BY <1>2, Rings DEF Types
      <4>3. (((rhead + r) % RingSize) + (k - Len(got') - 1)) % RingSize
            = (rhead + r + (k - Len(got') - 1)) % RingSize
        BY <4>1, <4>2, Rings, WrapTwice
      <4>4. /\ rhead + r + (k - Len(got') - 1) = rhead + (k - Len(got)) - 1
            /\ rhead' + (k - Len(got')) - 1 = rhead' + (k - Len(got') - 1)
        BY <1>2, <1>5, <1>7, <4>2
      <4>5. (rhead' + (k - Len(got')) - 1) % RingSize = (rhead + (k - Len(got)) - 1) % RingSize
        BY <1>1, <4>3, <4>4
      <4> QED
        BY <3>1, <4>1, <4>5, Zenon
    <3>5. CASE Len(got) + rsize < k
      <4>1. /\ ~(k <= Len(got')) /\ ~(k <= Len(got') + Held') /\ ~(k <= Len(got)) 
            /\ ~(k <= Len(got) + Held)
            /\ k - Len(got') - Held' = k - Len(got) - Held
        BY <1>2, <1>3, <1>5, <3>5, SMTT(30)
      <4> QED
        BY <3>1, <4>1, Zenon
    <3> QED
      BY <1>2, <1>5, <3>2, <3>3, <3>4, <3>5
  <2> QED
    BY <1>6, <2>1, Zenon DEF Stream
<1>9. Types'
  <2>1. n' \in 0 .. RingSize
    BY <1>1, <1>2, Rings
  <2> QED
    BY <1>1, <1>5, <1>7, <2>1 DEF Types, Places, uart, driver, control
<1>10. Counts'
  <2>1. Held' \in 0 .. RingSize /\ n' <= rsize'
    BY <1>1, <1>2, <1>3, Rings
  <2>2. rtail' = (rhead' + Held') % RingSize
    <3>1. rhead \in 0 .. RingSize - 1 /\ r \in 0 .. RingSize /\ rsize - r \in 0 .. RingSize - r
      BY <1>2, Rings DEF Types
    <3>2. (((rhead + r) % RingSize) + (rsize - r)) % RingSize = (rhead + r + (rsize - r)) % RingSize
      BY <3>1, Rings, WrapTwice
    <3>3. rhead + r + (rsize - r) = rhead + rsize
      BY <1>2, <3>1
    <3>4. rtail = (rhead + rsize) % RingSize
      BY <1>3 DEF Counts
    <3> QED
      BY <1>1, <1>3, <3>2, <3>3, <3>4
  <2> QED
    BY <1>1, <2>1, <2>2 DEF Counts
<1>11. Stopped'
  BY <1>1 DEF Stopped, Flushing, Due, uart, flags, driver, control, Start, Unhanded
<1> QED
  BY <1>1, <1>6, <1>8, <1>9, <1>10, <1>11, Moved DEF uart, flags, driver

-----------------------------------------------------------------------------
(* The DMA's and the handlers' steps.                                       *)

LEMMA ArriveStep ==
    ASSUME ServedInTime, Flags, Counters, Ahead, Types, Counts, Stopped, Buffer, Complete, Arrive
    PROVE  Types' /\ Counts' /\ Stopped' /\ Buffer' /\ Complete'
<1>1. /\ isr = "none" /\ (half \/ cplt \/ idle => late < Latency)
      /\ rts => extra < InFlight
      /\ sent' = sent + 1 /\ extra' = (IF rts THEN extra + 1 ELSE 0)
      /\ dma' = [dma EXCEPT ![pos] = sent + 1]
      /\ UNCHANGED <<head, passed, rb, control, reader>>
  BY DEF ServedInTime, Arrive, Pending, driver
<1>2. cplt' <=> cplt \/ pos + 1 = DmaSize
  BY Zenon DEF Arrive
<1>3. pos' = IF pos + 1 = DmaSize THEN 0 ELSE pos + 1
  BY NextPos DEF Arrive, Counters
<1>4. half => pos + 1 < DmaSize
  BY <1>1, Sizes DEF ServedInTime, Ahead, Counters
<1>5. cplt => pos + 1 < HalfSize
  BY <1>1, Sizes DEF ServedInTime, Ahead, Counters
<1>6. Unhanded \in 0 .. DmaSize - 1 /\ Start \in 0 .. DmaSize - 1
  BY UnhandedFits DEF Buffer
<1>7. Start' = Start
  BY <1>1 DEF Start
<1>8. pos \in 0 .. DmaSize - 1
  BY DEF Counters
<1>9. Unhanded' = Unhanded + 1
  <2>1. CASE pos + 1 = DmaSize
    <3>1. ~cplt /\ cplt' /\ pos' = 0
      BY <1>2, <1>3, <1>5, <2>1, Sizes
    <3> QED
      BY <1>6, <1>7, <1>8, <2>1, <3>1, Sizes DEF Unhanded
  <2>2. CASE pos + 1 # DmaSize
    <3>1. (cplt' <=> cplt) /\ pos' = pos + 1
      BY <1>2, <1>3, <2>2
    <3> QED
      BY <1>6, <1>7, <1>8, <3>1, Sizes DEF Unhanded
  <2> QED
    BY <2>1, <2>2
<1>10. cplt' => Start' >= HalfSize
  <2>1. CASE cplt
    BY <1>7, <2>1 DEF Buffer
  <2>2. CASE ~cplt /\ pos + 1 = DmaSize
    <3>1. ~half /\ pos >= HalfSize
      BY <1>4, <1>8, <2>2, Sizes
    <3> QED
      BY <1>7, <2>2, <3>1 DEF Ahead
  <2> QED
    BY <1>2, <2>1, <2>2
<1>11. /\ Held' = Held /\ Kept' = Kept /\ Handed' = Handed /\ Stream' = Stream
  BY <1>1 DEF Held, Kept, Handed, Stream, rb, control, reader
<1>12. Types'
  <2>1. extra' \in 0 .. InFlight
    BY <1>1, Rings DEF Types
  <2>2. dma' \in [0 .. DmaSize - 1 -> Nat] /\ sent' \in Nat
    BY <1>1, <1>8 DEF Types
  <2> QED
    BY <1>1, <2>1, <2>2 DEF Types, rb, control, reader
<1>13. Counts'
  BY <1>1, <1>11 DEF Counts, Low, rb, control, reader
<1>14. Stopped'
  <2>1. rts => Len(left) + (Unhanded + 1) <= DmaSize + extra'
    BY <1>1, <1>6, Sizes DEF Stopped, Types
  <2>2. pc \in Flushing => Held + Due + (Unhanded + 1) + InFlight - extra' <= RingSize
    <3>1. Held \in Nat /\ Due \in Nat
      BY DEF Counts, Due, Types
    <3>2. pc \in Flushing => rts \/ pc = "flow"
      BY DEF Stopped
    <3>3. pc \in Flushing => extra' = extra + 1 \/ pc = "flow"
      BY <1>1, <3>2
    <3> QED
      BY <1>1, <1>6, <3>1, <3>3, Rings DEF Stopped, Types, Flushing
  <2>3. Due' = Due /\ pc' = pc
    BY <1>1 DEF Due, reader
  <2> QED
    BY <1>1, <1>9, <1>11, <2>1, <2>2, <2>3 DEF Stopped, control
<1>15. Complete'
  BY <1>1, <1>11 DEF Complete
<1>16. Buffer'
  <2>1. Handed \in Nat /\ sent = Handed + Unhanded
    <3>1. Held \in Nat /\ Len(got) \in Nat /\ Len(left) \in Nat
      BY DEF Types, Counts
    <3>2. Kept \in Nat
      BY <3>1 DEF Kept
    <3> QED
      BY <3>1, <3>2 DEF Handed, Buffer
  <2>2. sent' = Handed' + Unhanded'
    BY <1>1, <1>6, <1>9, <1>11, <2>1
  <2>3. pos' = (Start' + Unhanded') % DmaSize
    <3>1. (((Start + Unhanded) % DmaSize) + 1) % DmaSize = (Start + Unhanded + 1) % DmaSize
      <4>1. Unhanded \in 0 .. DmaSize /\ 1 \in 0 .. DmaSize - Unhanded /\ DmaSize \in Nat \ {0}
        BY <1>6, Sizes
      <4> QED
        BY <1>6, <4>1, WrapTwice
    <3>2. pos' = (pos + 1) % DmaSize /\ pos = (Start + Unhanded) % DmaSize
      BY DEF Arrive, Buffer
    <3>3. Start + Unhanded + 1 = Start + (Unhanded + 1)
      BY <1>6
    <3> QED
      BY <1>7, <1>9, <3>1, <3>2, <3>3
  <2>4. ASSUME NEW j \in 1 .. Unhanded + 1 PROVE dma'[(Start + j - 1) % DmaSize] = Handed + j
    <3>1. pos = (Start + Unhanded) % DmaSize /\ DmaSize \in Nat \ {0}
      BY Sizes DEF Buffer
    <3>2. (Start + j - 1) % DmaSize \in 0 .. DmaSize - 1
      BY <1>6, <3>1, InRange
    <3>3. CASE j = Unhanded + 1
      <4>1. Start + j - 1 = Start + Unhanded
        BY <1>6, <3>3
      <4>2. dma'[pos] = sent + 1
        BY <1>1, <1>8 DEF Types
      <4> QED
        BY <1>6, <2>1, <3>1, <3>3, <4>1, <4>2
    <3>4. CASE j # Unhanded + 1
      <4>1. j - 1 \in 0 .. DmaSize - 1 /\ j \in 1 .. Unhanded /\ j - 1 # Unhanded
        BY <1>6, <3>4, Sizes
      <4>2. (Start + (j - 1)) % DmaSize # (Start + Unhanded) % DmaSize
        BY <1>6, <3>1, <4>1, Distinct
      <4>3. Start + (j - 1) = Start + j - 1
        BY <1>6
      <4>4. (Start + j - 1) % DmaSize # pos
        BY <3>1, <4>2, <4>3
      <4>5. dma'[(Start + j - 1) % DmaSize] = dma[(Start + j - 1) % DmaSize]
        BY <1>1, <3>2, <4>4 DEF Types
      <4> QED
        BY <4>1, <4>5 DEF Buffer
    <3> QED
      BY <3>3, <3>4
  <2> QED
    BY <1>7, <1>9, <1>10, <1>11, <2>2, <2>3, <2>4 DEF Buffer
<1> QED
  BY <1>12, <1>13, <1>14, <1>15, <1>16

LEMMA HandOverStep ==
    ASSUME FlowControlled, Types, Counts, Stopped, Buffer, Complete, NEW tail \in Int,
           HandOver(tail), head % DmaSize = Start, Start \in 0 .. DmaSize - 1,
           Start <= tail, tail - Start <= Unhanded, tail <= DmaSize, Unhanded \in 0 .. DmaSize - 1,
           pc \notin {"low", "copy", "store_tail", "store_add", "store_sub", "flow"},
           UNCHANGED <<uart, reader>>,
           Unhanded' = Unhanded - (tail - Start),
           Start' = tail % DmaSize, cplt' => Start' >= HalfSize
    PROVE  Types' /\ Counts' /\ Stopped' /\ Buffer' /\ Complete'
<1> DEFINE m == tail - Start
           s == [k \in 1 .. m |-> dma[Start + k - 1]]
           w == Least(m, RingSize - rsize)
           c == Len(got) + Held
<1>1. m \in 0 .. Unhanded /\ m \in 0 .. DmaSize
  BY Sizes
<1>2. s \in Seq(Nat) /\ Len(s) = m /\ \A k \in 1 .. m : s[k] = Handed + k
  <2>1. ASSUME NEW k \in 1 .. m PROVE dma[Start + k - 1] = Handed + k /\ dma[Start + k - 1] \in Nat
    <3>1. Start + k - 1 \in 0 .. DmaSize - 1 /\ k \in 1 .. Unhanded
      BY <1>1, Sizes
    <3>2. (Start + k - 1) % DmaSize = Start + k - 1
      BY <3>1, Sizes
    <3> QED
      BY <3>1, <3>2 DEF Buffer, Types
  <2>2. m \in Nat
    BY <1>1
  <2> HIDE DEF m
  <2>5. \A k \in 1 .. m : dma[Start + k - 1] \in Nat
    BY <2>1
  <2>3. s \in Seq(Nat) /\ Len(s) = m
    BY <2>2, <2>5
  <2>4. \A k \in 1 .. m : s[k] = dma[Start + k - 1]
    OBVIOUS
  <2> QED
    BY <2>1, <2>3, <2>4
<1>3. /\ ring' = [k \in 0 .. RingSize - 1 |->
                    LET d == (k - rtail) % RingSize IN IF d < w THEN s[d + 1] ELSE ring[k]]
      /\ rtail' = (rtail + w) % RingSize /\ rsize' = rsize + w /\ rhead' = rhead
      /\ SetAside(s) /\ (passed' <=> passed \/ (Aside /\ s # <<>> /\ rsize < RingSize))
  <2>1. Put(s) /\ SetAside(s) /\ Overtake(s)
    BY DEF HandOver
  <2> HIDE DEF s
  <2> QED
    BY <1>2, <2>1 DEF Put, Over, Overtake
<1>4. UNCHANGED <<sent, extra, dma, pos, pc, want, n, reg, got>>
  BY DEF uart, reader
<1> HIDE DEF m, s, w, c
<1>5. /\ w \in 0 .. m /\ Held + w <= RingSize /\ rsize + w <= RingSize /\ Held \in 0 .. RingSize
      /\ pc \in {"tail", "add", "free", "rts"} => w = m
      /\ w < m => rsize + w = RingSize
  <2>1. w = (IF m < RingSize - rsize THEN m ELSE RingSize - rsize)
    BY DEF w, Least
  <2>2. Held \in 0 .. RingSize /\ rsize \in 0 .. RingSize /\ n \in 0 .. RingSize
    BY DEF Counts, Types
  <2>3. CASE pc \in {"tail", "add", "free", "rts"}
    <3>1. /\ Held + Due + Unhanded + InFlight - extra <= RingSize
          /\ extra <= InFlight /\ extra \in Nat /\ Due \in Nat
      BY <2>2, <2>3 DEF Stopped, Flushing, Due, Types
    <3>2. rsize <= Held
      BY <2>2, <2>3 DEF Held
    <3> QED
      BY <1>1, <2>1, <2>2, <3>1, <3>2, Rings, Sizes
  <2>4. CASE pc \notin {"tail", "add", "free", "rts"}
    <3>1. Held <= rsize
      BY <2>2, <2>4 DEF Held
    <3> QED
      BY <1>1, <2>1, <2>2, <2>4, <3>1, Rings, Sizes
  <2> QED
    BY <2>3, <2>4
<1>6. Held' = Held + w
  <2>1. n \in Nat /\ rsize \in Nat /\ w \in Nat
    BY <1>1, <1>5 DEF Types
  <2> QED
    BY <1>3, <1>4, <2>1 DEF Held
<1>7. /\ Extended(ring, ring', rhead, Held, w, s)
      /\ rtail' = (rhead' + Held') % RingSize
  <2>1. Copied(ring, ring', rtail, w, s)
    BY <1>3, Zenon DEF Copied
  <2>2. w \in 0 .. RingSize - Held
    BY <1>1, <1>5, Rings
  <2>3. rtail = (rhead + Held) % RingSize /\ rhead \in 0 .. RingSize - 1
    BY DEF Counts, Types
  <2>4. Extended(ring, ring', rhead, Held, w, s)
        /\ (rtail + w) % RingSize = (rhead + Held + w) % RingSize
    BY <1>5, <2>1, <2>2, <2>3, CopyPlaces
  <2>5. rhead + Held + w = rhead' + Held'
    BY <1>3, <1>5, <1>6, <2>2, <2>3
  <2> QED
    BY <1>3, <2>4, <2>5
<1>8. /\ left' \in Seq(Nat) /\ Len(left') = Len(left) + (m - w)
      /\ \A k \in 1 .. Len(left) : left'[k] = left[k]
      /\ \A k \in Len(left) + 1 .. Len(left) + (m - w) : left'[k] = s[w + (k - Len(left))]
      /\ IF w < m THEN flow' = TRUE /\ rts' = (IF flow THEN rts ELSE TRUE)
         ELSE flow' = flow /\ rts' = rts /\ left' = left
  <2>1. left \in Seq(Nat) /\ Len(left) \in Nat /\ m \in Nat /\ w \in Nat
    BY <1>1, <1>5 DEF Types
  <2>2. CASE w < m
    <3>1. left' = left \o SubSeq(s, w + 1, m) /\ flow' = TRUE /\ rts' = (IF flow THEN rts ELSE TRUE)
      <4>1. Least(Len(s), RingSize - rsize) = w
        BY <1>2 DEF w
      <4> QED
        BY <1>2, <1>3, <2>2, <4>1 DEF SetAside
    <3>2. SubSeq(s, w + 1, m) \in Seq(Nat) /\ Len(SubSeq(s, w + 1, m)) = m - w
      BY <1>2, <2>1, <2>2
    <3>3. \A k \in 1 .. m - w : SubSeq(s, w + 1, m)[k] = s[w + k]
      BY <1>2, <2>1, <2>2
    <3> DEFINE x == SubSeq(s, w + 1, m)
    <3>7. x \in Seq(Nat) /\ Len(x) = m - w /\ left' = left \o x
      BY <3>1, <3>2
    <3> HIDE DEF x
    <3>8. /\ left' \in Seq(Nat) /\ Len(left') = Len(left) + (m - w)
          /\ \A k \in 1 .. Len(left) + (m - w) :
                 left'[k] = IF k <= Len(left) THEN left[k] ELSE x[k - Len(left)]
      <4>1. left \o x \in Seq(Nat) /\ Len(left \o x) = Len(left) + Len(x)
        BY <2>1, <3>7, ConcatProperties
      <4>2. \A k \in 1 .. Len(left) + Len(x) :
                (left \o x)[k] = IF k <= Len(left) THEN left[k] ELSE x[k - Len(left)]
        BY <2>1, <3>7, ConcatProperties
      <4> QED
        BY <3>7, <4>1, <4>2
    <3>4. /\ left' \in Seq(Nat) /\ Len(left') = Len(left) + (m - w)
          /\ \A k \in 1 .. Len(left) + (m - w) :
                 left'[k] = IF k <= Len(left) THEN left[k] ELSE SubSeq(s, w + 1, m)[k - Len(left)]
      BY <3>8 DEF x
    <3>5. ASSUME NEW k \in Len(left) + 1 .. Len(left) + (m - w)
          PROVE  left'[k] = s[w + (k - Len(left))]
      BY <2>1, <3>3, <3>4, SMTT(30)
    <3>6. ASSUME NEW k \in 1 .. Len(left) PROVE left'[k] = left[k]
      BY <2>1, <2>2, <3>4, SMTT(30)
    <3> QED
      BY <2>2, <3>1, <3>4, <3>5, <3>6
  <2>3. CASE ~(w < m)
    <3>1. left' = left /\ flow' = flow /\ rts' = rts /\ m = w
      BY <1>2, <1>3, <1>5, <2>1, <2>3 DEF SetAside, control, w
    <3> QED
      BY <2>1, <2>3, <3>1
  <2> QED
    BY <2>2, <2>3
<1>9. w < m => pc \notin Flushing \cup {"flow"}
  BY <1>5 DEF Flushing
<1>10. Kept' = Kept + (m - w)
  <2>1. Len(left) \in Nat /\ m \in Nat /\ w \in Nat /\ pc' = pc
    BY <1>1, <1>4, <1>5 DEF Types
  <2>2. CASE w < m
    BY <1>8, <1>9, <2>1, <2>2 DEF Kept, Flushing
  <2>3. CASE w = m
    BY <1>8, <2>1, <2>3 DEF Kept
  <2> QED
    BY <1>5, <2>1, <2>2, <2>3
<1>11. /\ Held \in Nat /\ Kept \in Nat /\ Len(got) \in Nat /\ Len(left) \in Nat
       /\ Kept = Len(left) \/ (Kept = 0 /\ w = m)
       /\ m \in Nat /\ w \in Nat /\ Handed \in Nat /\ c \in 0 .. Handed
  <2>1. Held \in Nat /\ Len(got) \in Nat /\ Len(left) \in Nat /\ m \in Nat /\ w \in Nat
    BY <1>1, <1>5, SMTT(30) DEF Types, Counts
  <2>2. CASE pc \in {"add", "free"}
    <3>1. Kept = 0 /\ w = m
      BY <1>5, <2>2 DEF Kept
    <3>2. Handed = Len(got) + Held + 0 /\ c = Len(got) + Held
      BY <3>1 DEF Handed, c
    <3> QED
      BY <2>1, <3>1, <3>2
  <2>3. CASE pc \notin {"add", "free"}
    <3>1. Kept = Len(left)
      BY <2>3 DEF Kept
    <3> QED
      <4>1. Handed = Len(got) + Held + Len(left) /\ c = Len(got) + Held
        BY <3>1 DEF Handed, c
      <4>2. Handed \in Nat /\ c \in 0 .. Handed
        BY <2>1, <4>1
      <4> QED
        BY <2>1, <3>1, <4>2
  <2> QED
    BY <2>2, <2>3
<1>12. Handed' = Handed + m
  BY <1>4, <1>5, <1>6, <1>10, <1>11 DEF Handed
<1>13. ASSUME NEW k \in 1 .. Handed + m
       PROVE  /\ k <= c => Stream'[k] = Stream[k]
              /\ c < k /\ k <= c + w => Stream'[k] = Handed + (k - c)
              /\ c + w < k /\ k <= Handed + w => Stream'[k] = Stream[k - w]
              /\ Handed + w < k => Stream'[k] = k
  <2>1. Stream'[k] =
            IF k <= Len(got) THEN got[k]
            ELSE IF k <= c + w THEN ring'[(rhead + (k - Len(got)) - 1) % RingSize]
            ELSE left'[k - Len(got) - (Held + w)]
    <3>1. Len(got) + (Held + w) = c + w
      BY <1>11 DEF c
    <3> QED
      BY <1>3, <1>4, <1>6, <1>12, <3>1 DEF Stream
  <2>2. ASSUME NEW i \in 1 .. Handed
        PROVE  Stream[i] = IF i <= Len(got) THEN got[i]
                           ELSE IF i <= c THEN ring[(rhead + (i - Len(got)) - 1) % RingSize]
                           ELSE left[i - Len(got) - Held]
    BY DEF Stream, c
  <2>3. CASE k <= Len(got)
    <3>1. k \in 1 .. Handed /\ k <= c
      BY <1>11, <2>3 DEF c
    <3> QED
      BY <1>11, <2>1, <2>2, <2>3, <3>1
  <2>4. CASE Len(got) < k /\ k <= c
    <3>1. k \in 1 .. Handed /\ k - Len(got) \in 1 .. Held /\ ~(k <= Len(got)) /\ k <= c + w
      BY <1>11, <2>4 DEF c
    <3>2. ring'[(rhead + (k - Len(got)) - 1) % RingSize]
          = ring[(rhead + (k - Len(got)) - 1) % RingSize]
      BY <1>7, <3>1 DEF Extended
    <3>3. ~(c < k) /\ ~(c + w < k) /\ ~(Handed + w < k)
      BY <1>11, <2>4
    <3> QED
      BY <2>1, <2>2, <2>4, <3>1, <3>2, <3>3
  <2>5. CASE c < k /\ k <= c + w
    <3>1. k - c \in 1 .. w /\ k - c \in 1 .. m /\ ~(k <= Len(got)) /\ ~(k <= c) /\ ~(c + w < k)
          /\ ~(Handed + w < k)
      BY <1>5, <1>11, <2>5 DEF c
    <3>2. ring'[(rhead + Held + (k - c) - 1) % RingSize] = s[k - c]
      BY <1>7, <3>1 DEF Extended
    <3>3. rhead + Held + (k - c) - 1 = rhead + (k - Len(got)) - 1
      BY <1>11 DEF c, Types
    <3>4. s[k - c] = Handed + (k - c)
      BY <1>2, <3>1
    <3> QED
      BY <2>1, <2>5, <3>1, <3>2, <3>3, <3>4
  <2>6. CASE c + w < k /\ k <= Handed + w
    <3>1. /\ k - w \in 1 .. Handed /\ ~(k - w <= Len(got)) /\ ~(k - w <= c)
          /\ ~(k <= Len(got)) /\ ~(k <= c) /\ ~(k <= c + w) /\ ~(Handed + w < k)
      BY <1>5, <1>11, <2>6 DEF c
    <3>2. k - Len(got) - (Held + w) = (k - w) - Len(got) - Held
      BY <1>11
    <3>3. (k - w) - Len(got) - Held \in 1 .. Len(left)
      BY <1>11, <2>6 DEF c, Handed
    <3>4. left'[(k - w) - Len(got) - Held] = left[(k - w) - Len(got) - Held]
      BY <1>8, <3>3
    <3>5. Stream[k - w] = left[(k - w) - Len(got) - Held]
      BY <2>2, <3>1
    <3> QED
      BY <2>1, <3>1, <3>2, <3>4, <3>5
  <2>7. CASE Handed + w < k
    <3>1. /\ ~(k <= Len(got)) /\ ~(k <= c) /\ ~(k <= c + w) /\ ~(k <= Handed + w)
      <4>1. /\ c \in Nat /\ c <= Handed /\ Len(got) <= c /\ Len(got) \in Nat
            /\ w \in Nat /\ Handed \in Nat
        BY <1>11 DEF c
      <4> QED
        BY <2>7, <4>1
    <3>2. w < m /\ Kept = Len(left)
      BY <1>11, <2>7
    <3>3. k - Len(got) - (Held + w) \in Len(left) + 1 .. Len(left) + (m - w)
      BY <1>11, <2>7, <3>2 DEF Handed
    <3>4. w + (k - Len(got) - (Held + w) - Len(left)) = k - Handed
      BY <1>11, <3>2 DEF Handed
    <3>5. left'[k - Len(got) - (Held + w)] = s[k - Handed]
      BY <1>8, <3>3, <3>4
    <3>6. k - Handed \in 1 .. m
      BY <1>11, <2>7
    <3>7. s[k - Handed] = Handed + (k - Handed)
      BY <1>2, <3>6
    <3>8. Handed + (k - Handed) = k
      BY <1>11
    <3> QED
      BY <2>1, <3>1, <3>5, <3>7, <3>8
  <2> QED
    BY <1>11, <2>3, <2>4, <2>5, <2>6, <2>7
<1>14. Complete'
  <2>1. Whole(Stream', Handed + m)
    <3>1. \A k \in 1 .. c : Stream'[k] = Stream[k]
      BY <1>11, <1>13
    <3>2. ASSUME NEW k \in 1 .. w PROVE Stream'[c + k] = Handed + k
      <4>1. c + k \in 1 .. Handed + m /\ c < c + k /\ c + k <= c + w /\ (c + k) - c = k
        BY <1>5, <1>11
      <4> QED
        BY <1>13, <4>1
    <3>3. ASSUME NEW k \in c + 1 .. Handed PROVE Stream'[k + w] = Stream[k]
      <4>1. k + w \in 1 .. Handed + m /\ c + w < k + w /\ k + w <= Handed + w /\ (k + w) - w = k
        BY <1>5, <1>11
      <4> QED
        BY <1>13, <4>1
    <3>4. \A k \in Handed + w + 1 .. Handed + m : Stream'[k] = k
      BY <1>11, <1>13
    <3>5. Whole(Stream, Handed)
      BY DEF Complete
    <3>6. \A k \in 1 .. w : Stream'[c + k] = Handed + k
      BY <3>2
    <3>7. \A k \in c + 1 .. Handed : Stream'[k + w] = Stream[k]
      BY <3>3
    <3>8. Inserts(Stream, Stream', Handed, c, m, w)
      BY <3>1, <3>4, <3>6, <3>7 DEF Inserts
    <3> QED
      BY <1>5, <1>11, <3>5, <3>8, Inserted
  <2>2. ASSUME ~passed', NEW k \in 1 .. Handed + m PROVE Stream'[k] = k
    <3>1. ~passed /\ (Kept = 0 \/ w = 0)
      <4>1. ~passed /\ ~(Aside /\ s # <<>> /\ rsize < RingSize)
        BY <1>3, <2>2
      <4>2. CASE left = <<>> \/ pc \in {"add", "store_add", "free"}
        BY <4>1, <4>2 DEF Kept
      <4>3. CASE s = <<>>
        BY <1>2, <1>5, <4>1, <4>3
      <4>4. CASE ~(rsize < RingSize)
        BY <1>5, <1>11, <4>1, <4>4, Rings DEF Types
      <4> QED
        BY <4>1, <4>2, <4>3, <4>4 DEF Aside
    <3>2. \A i \in 1 .. Handed : Stream[i] = i
      BY <3>1 DEF Complete
    <3>3. CASE w = 0
      <4>1. k <= c \/ (c + w < k /\ k <= Handed + w /\ k - w = k /\ k \in 1 .. Handed)
            \/ Handed + w < k
        BY <1>11, <3>3
      <4> QED
        BY <1>11, <1>13, <3>2, <4>1
    <3>4. CASE Kept = 0
      <4>1. Handed = c
        BY <1>11, <3>4 DEF Handed, c
      <4>2. k <= c \/ (c < k /\ k <= c + w /\ Handed + (k - c) = k) \/ Handed + w < k
        BY <1>11, <4>1
      <4> QED
        BY <1>11, <1>13, <3>2, <4>1, <4>2
    <3> QED
      BY <3>1, <3>3, <3>4
  <2> QED
    BY <1>12, <2>1, <2>2 DEF Complete
<1>15. Types'
  <2>1. ring' \in [0 .. RingSize - 1 -> Nat]
    <3>1. ASSUME NEW k \in 0 .. RingSize - 1, (k - rtail) % RingSize < w
          PROVE  s[((k - rtail) % RingSize) + 1] \in Nat
      <4>1. rtail \in Int
        <5>1. rhead + Held \in Int
          BY <1>5 DEF Types
        <5> QED
          BY <5>1, Rings, InRange DEF Counts
      <4>2. (k - rtail) % RingSize \in 0 .. RingSize - 1
        BY <4>1, Rings, InRange
      <4>3. ((k - rtail) % RingSize) + 1 \in 1 .. Len(s)
        <5>1. w <= Len(s) /\ w \in Nat /\ Len(s) \in Nat
          BY <1>2, <1>5, <1>11
        <5> QED
          BY <3>1, <4>2, <5>1, Rings
      <4> QED
        BY <1>2, <4>3
    <3>2. ring \in [0 .. RingSize - 1 -> Nat]
      BY DEF Types
    <3> QED
      BY <1>3, <3>1, <3>2, Zenon
  <2>2. rsize' \in 0 .. RingSize
    BY <1>3, <1>5, <1>11 DEF Types
  <2>3. flow' \in BOOLEAN /\ rts' \in BOOLEAN
    BY <1>8 DEF Types
  <2>4. passed' \in BOOLEAN
    BY DEF HandOver, Overtake, Types
  <2> QED
    BY <1>3, <1>4, <1>8, <2>1, <2>2, <2>3, <2>4 DEF Types
<1>16. Counts'
  <2>1. Held' \in 0 .. RingSize
    BY <1>5, <1>6, <1>11, Rings
  <2>2. pc \in {"sub", "store_sub"} => n' <= rsize'
    BY <1>3, <1>4, <1>11 DEF Counts, Types
  <2>3. pc \in {"tail", "add"} => n' = Len(left')
    BY <1>4, <1>8, <1>9, <1>11 DEF Counts, Flushing
  <2> QED
    BY <1>4, <1>7, <2>1, <2>2, <2>3 DEF Counts
<1>17. Stopped'
  <2>1. extra \in Nat /\ rts \in BOOLEAN /\ flow \in BOOLEAN
    BY DEF Types
  <2>2. rts' => Len(left') + Unhanded' <= DmaSize + extra'
    <3>1. CASE rts
      <4>1. Len(left) + Unhanded <= DmaSize + extra
        BY <3>1 DEF Stopped
      <4> QED
        <5>1. /\ Len(left') = Len(left) + (m - w) /\ Unhanded' = Unhanded - m /\ extra' = extra
              /\ Len(left) \in Nat /\ m \in Nat /\ w \in Nat
          BY <1>4, <1>8, <1>11 DEF m
        <5> QED
          BY <2>1, <4>1, <5>1, Sizes
    <3>2. CASE ~rts /\ rts'
      <4>1. ~flow /\ w < m
        BY <1>8, <3>2
      <4>2. left = <<>>
        BY <4>1 DEF Stopped
      <4>3. Len(left') = m - w
        BY <1>8, <1>11, <4>2
      <4> QED
        BY <1>4, <1>11, <2>1, <4>3, Sizes DEF m
    <3> QED
      BY <3>1, <3>2
  <2>3. pc \in Flushing => Held' + Due' + Unhanded' + InFlight - extra' <= RingSize
    <3>1. Due' = Due /\ Due \in Nat
      BY <1>4 DEF Due, Types
    <3>2. pc \in Flushing => w = m /\ Held + Due + Unhanded + InFlight - extra <= RingSize
      BY <1>5 DEF Stopped, Flushing
    <3> QED
      BY <1>4, <1>6, <1>11, <2>1, <3>1, <3>2, Rings DEF m
  <2>4. left' # <<>> => flow'
    <3>1. CASE w < m
      BY <1>8, <3>1
    <3>2. CASE ~(w < m)
      BY <1>8, <3>2 DEF Stopped
    <3> QED
      BY <3>1, <3>2
  <2>5. flow' <=> rts' \/ pc = "flow"
    BY <1>8, <1>9 DEF Stopped
  <2>6. flow' => left' # <<>> \/ pc \in {"rts", "flow"}
    <3>1. CASE w < m
      <4>1. Len(left') # 0
        BY <1>8, <1>11, <3>1
      <4> QED
        BY <4>1
    <3>2. CASE ~(w < m)
      BY <1>8, <3>2 DEF Stopped
    <3> QED
      BY <3>1, <3>2
  <2>7. pc \in {"rts", "flow"} => left' = <<>>
    BY <1>8, <1>9 DEF Stopped, Flushing
  <2>8. pc \in Flushing \cup {"flow"} => flow'
    BY <1>8, <1>9 DEF Stopped
  <2> QED
    BY <1>4, <2>2, <2>3, <2>4, <2>5, <2>6, <2>7, <2>8 DEF Stopped
<1>18. Buffer'
  <2>1. /\ Unhanded' = Unhanded - m /\ Unhanded - m \in 0 .. DmaSize - m
        /\ m \in 0 .. DmaSize /\ DmaSize \in Nat \ {0}
    BY <1>1, Sizes DEF m
  <2>2. Start' = (Start + m) % DmaSize
    <3>1. Start + m = tail
      BY DEF m
    <3> QED
      BY <3>1
  <2>3. ASSUME NEW j \in 0 .. Unhanded - m
        PROVE  (Start' + j) % DmaSize = (Start + m + j) % DmaSize
    <3>1. j \in 0 .. DmaSize - m
      BY <2>1
    <3>2. (((Start + m) % DmaSize) + j) % DmaSize = (Start + m + j) % DmaSize
      BY <2>1, <3>1, WrapTwice
    <3> QED
      BY <2>2, <3>2
  <2>4. sent' = Handed' + Unhanded'
    BY <1>4, <1>11, <1>12, <2>1 DEF Buffer
  <2>5. pos' = (Start' + Unhanded') % DmaSize
    <3>1. Start + m + (Unhanded - m) = Start + Unhanded
      BY <1>11
    <3>2. (Start' + (Unhanded - m)) % DmaSize = (Start + m + (Unhanded - m)) % DmaSize
      BY <1>1, <1>11, <2>3
    <3> QED
      BY <1>4, <2>1, <3>1, <3>2 DEF Buffer
  <2>6. ASSUME NEW j \in 1 .. Unhanded - m
        PROVE  dma[(Start' + j - 1) % DmaSize] = Handed + m + j
    <3>1. m + j \in 1 .. Unhanded /\ j - 1 \in 0 .. Unhanded - m
      BY <1>1, <1>11
    <3>2. (Start' + (j - 1)) % DmaSize = (Start + m + (j - 1)) % DmaSize
      BY <2>3, <3>1
    <3>3. Start' \in Int
      BY Sizes, InRange
    <3>4. Start' + j - 1 = Start' + (j - 1) /\ Start + m + (j - 1) = Start + (m + j) - 1
      BY <1>11, <3>3
    <3>5. dma[(Start + (m + j) - 1) % DmaSize] = Handed + (m + j)
      BY <3>1 DEF Buffer
    <3> QED
      BY <1>11, <3>2, <3>4, <3>5
  <2> QED
    BY <1>4, <1>12, <2>1, <2>4, <2>5, <2>6 DEF Buffer
<1> QED
  BY <1>14, <1>15, <1>16, <1>17, <1>18

LEMMA Still ==
    ASSUME Types, Counts, Stopped, Buffer, Complete, Start' = Start,
           UNCHANGED <<sent, extra, dma, pos, cplt, passed, rb, control, reader>>
    PROVE  Types' /\ Counts' /\ Stopped' /\ Buffer' /\ Complete'
<1>1. Unhanded' = Unhanded /\ Held' = Held /\ Kept' = Kept /\ Handed' = Handed /\ Stream' = Stream
  BY DEF Unhanded, Held, Kept, Handed, Stream, rb, control, reader
<1>2. Due' = Due /\ Low' = Low
  BY DEF Due, Low, rb, reader
<1> QED
  BY <1>1, <1>2 DEF Types, Counts, Stopped, Buffer, Complete, rb, control, reader

LEMMA HandlerStep ==
    ASSUME ServedInTime, FlowControlled, Flags, Counters, Ahead, Entered,
           Types, Counts, Stopped, Buffer, Complete, Handlers
    PROVE  Types' /\ Counts' /\ Stopped' /\ Buffer' /\ Complete'
<1>1. Unhanded \in 0 .. DmaSize - 1 /\ Start \in 0 .. DmaSize - 1 /\ head % DmaSize = Start
  BY UnhandedFits, Offset DEF Buffer, Counters
<1>2. pos \in 0 .. DmaSize - 1 /\ isr \in {"none", "idle"}
  BY DEF Counters
<1>3. Interruptible => pc \notin {"low", "copy", "store_tail", "store_add", "store_sub", "flow"}
  BY DEF Interruptible, FlowControlled
<1>4. CASE HalfIsr
  <2>1. HandOver(HalfSize) /\ half /\ UNCHANGED <<uart, reader, cplt>> /\ Interruptible
    BY <1>4 DEF HalfIsr
  <2>2. HandOver(HalfSize) => head' = HalfSize
    BY DEF HandOver
  <2>3. ~cplt /\ Start <= HalfSize /\ HalfSize <= pos /\ pos' = pos
        /\ cplt' = cplt /\ Start' = HalfSize
    BY <2>1, <2>2, Sizes DEF Ahead, uart, Start
  <2>4. Unhanded = pos - Start /\ Unhanded' = pos - HalfSize /\ HalfSize % DmaSize = HalfSize
    BY <2>3, Sizes DEF Unhanded
  <2>5. /\ HalfSize - Start <= Unhanded /\ Unhanded' = Unhanded - (HalfSize - Start)
        /\ HalfSize \in Int /\ HalfSize <= DmaSize
    BY <1>1, <1>2, <2>3, <2>4, Sizes
  <2> HIDE DEF HalfSize
  <2> QED
    BY <1>1, <1>3, <2>1, <2>3, <2>4, <2>5, HandOverStep
<1>5. CASE CpltIsr
  <2>1. HandOver(DmaSize) /\ cplt /\ ~cplt' /\ UNCHANGED <<uart, reader>> /\ Interruptible
    BY <1>5 DEF CpltIsr
  <2>2. HandOver(DmaSize) => head' = DmaSize
    BY DEF HandOver
  <2>3. pos' = pos /\ Start' = 0 /\ DmaSize % DmaSize = 0
    BY <2>1, <2>2, Sizes DEF uart, Start
  <2>4. Unhanded = DmaSize - Start + pos /\ Unhanded' = pos
    BY <1>2, <2>1, <2>3 DEF Unhanded
  <2>5. /\ DmaSize - Start <= Unhanded /\ Unhanded' = Unhanded - (DmaSize - Start)
        /\ Start <= DmaSize /\ DmaSize \in Int /\ DmaSize <= DmaSize
    BY <1>1, <1>2, <2>4, Sizes
  <2> QED
    BY <1>1, <1>3, <2>1, <2>3, <2>5, HandOverStep
<1>6. CASE IdleNothing
  <2>1. /\ UNCHANGED <<uart, passed, rb, control, reader, cplt>>
        /\ pos = 0 /\ ~half /\ ~cplt /\ head' = 0
    BY <1>6 DEF IdleNothing, IdleRuns
  <2>2. Start' = 0 /\ Start = 0
    BY <1>1, <2>1, Sizes DEF Start, Ahead
  <2> QED
    BY <2>1, <2>2, Still DEF uart
<1>7. CASE IdleBegins
  <2>1. UNCHANGED <<uart, head, passed, rb, control, reader, cplt>>
    BY <1>7 DEF IdleBegins
  <2>2. Start' = Start
    BY <2>1 DEF Start
  <2> QED
    BY <2>1, <2>2, Still DEF uart
<1>8. CASE IdleIsr
  <2>1. HandOver(pos) /\ isr = "idle" /\ UNCHANGED <<uart, reader, cplt>>
    BY <1>8 DEF IdleIsr
  <2>2. HandOver(pos) => head' = pos
    BY DEF HandOver
  <2>3. ~cplt /\ ~half /\ Start <= pos /\ pos' = pos /\ cplt' = cplt /\ Start' = pos
    BY <1>2, <2>1, <2>2, Sizes DEF Ahead, uart, Start
  <2>4. Unhanded = pos - Start /\ Unhanded' = 0 /\ pos % DmaSize = pos
    BY <1>1, <1>2, <2>3, Sizes DEF Unhanded
  <2>5. /\ pos - Start <= Unhanded /\ Unhanded' = Unhanded - (pos - Start)
        /\ pos \in Int /\ pos <= DmaSize
    BY <1>1, <1>2, <2>3, <2>4, Sizes
  <2>6. Interruptible
    BY <2>1 DEF Entered
  <2> QED
    BY <1>1, <1>3, <2>1, <2>3, <2>4, <2>5, <2>6, HandOverStep
<1> QED
  BY <1>4, <1>5, <1>6, <1>7, <1>8 DEF Handlers

LEMMA ReaderStep ==
    ASSUME FlowControlled, Types, Counts, Stopped, Buffer, Complete,
           Unhanded \in 0 .. DmaSize - 1, Reader
    PROVE  Types' /\ Counts' /\ Stopped' /\ Buffer' /\ Complete'
BY ReaderSteps, PlainStep, MeasureStep, CopyStep, StoreTailStep, AddStep, ReleaseStep, GetStep,
   SubStep, Zenon DEF Flush, Rest

LEMMA ErrorsCount ==
    ASSUME errors \in Nat, [Next]_vars, errors' = 0 PROVE errors = 0 /\ ~ErrorIsr
<1>1. errors' = errors \/ (ErrorIsr /\ errors' = errors + 1)
  BY ReaderRuns DEF Next, Hardware, Arrive, LineIdle, Handlers, HalfIsr, CpltIsr, IdleNothing,
     IdleBegins, IdleIsr, ErrorIsr, vars
<1>2. ErrorIsr => errors' = errors + 1
  BY DEF ErrorIsr
<1> QED
  BY <1>1, <1>2

LEMMA IInvNext == ASSUME ServedInTime, FlowControlled, IInv, [Next]_vars PROVE IInv'
<1>1. Window'
  BY WindowNext DEF IInv
<1>2. ASSUME errors' = 0 PROVE Intact'
  <2>1. errors = 0 /\ ~ErrorIsr
    BY <1>2, ErrorsCount DEF IInv, Window
  <2>2. Flags /\ Counters /\ Ahead /\ Intact
    BY <2>1 DEF IInv, Window
  <2>3. Entered'
    BY <2>2, EnteredNext DEF Intact, Counters
  <2>4. Unhanded \in 0 .. DmaSize - 1
    BY <2>2, UnhandedFits DEF Intact, Buffer
  <2>5. CASE Arrive
    BY <2>2, <2>3, <2>5, ArriveStep DEF Intact
  <2>6. CASE LineIdle
    <3>1. UNCHANGED <<sent, extra, dma, pos, cplt, passed, rb, control, reader, head>>
      BY <2>6 DEF LineIdle, driver
    <3>2. Start' = Start
      BY <3>1 DEF Start
    <3> QED
      BY <2>2, <2>3, <3>1, <3>2, Still DEF Intact
  <2>7. CASE Handlers
    BY <2>2, <2>3, <2>7, HandlerStep DEF Intact
  <2>8. CASE Reader
    BY <2>2, <2>3, <2>4, <2>8, ReaderStep DEF Intact
  <2>9. CASE UNCHANGED vars
    <3>1. UNCHANGED <<sent, extra, dma, pos, cplt, passed, rb, control, reader, head>>
      BY <2>9 DEF vars, uart, flags, driver
    <3>2. Start' = Start
      BY <3>1 DEF Start
    <3> QED
      BY <2>2, <2>3, <3>1, <3>2, Still DEF Intact
  <2> QED
    BY <2>1, <2>5, <2>6, <2>7, <2>8, <2>9 DEF Next, Hardware
<1> QED
  BY <1>1, <1>2 DEF IInv

LEMMA IntactConserves == ASSUME Types, Counts, Complete, AtRest PROVE
    LET all == got \o InRing \o left
    IN  /\ {all[k] : k \in 1 .. Len(all)} = 1 .. Len(all)
        /\ ~passed => \A k \in 1 .. Len(all) : all[k] = k
<1> DEFINE all == got \o InRing \o left
<1>1. Held = rsize /\ Kept = Len(left)
  BY DEF AtRest, Held, Kept
<1>2. /\ got \in Seq(Nat) /\ left \in Seq(Nat) /\ rsize \in Nat
      /\ Len(got) \in Nat /\ Len(left) \in Nat
  BY DEF Types
<1>3. InRing \in Seq(Nat) /\ Len(InRing) = rsize
      /\ \A k \in 1 .. rsize : InRing[k] = ring[(rhead + k - 1) % RingSize]
  <2>1. ASSUME NEW k \in 1 .. rsize PROVE ring[(rhead + k - 1) % RingSize] \in Nat
    <3>1. rhead + k - 1 \in Int
      BY <1>2 DEF Types
    <3>2. (rhead + k - 1) % RingSize \in 0 .. RingSize - 1
      BY <3>1, Rings, InRange
    <3> QED
      BY <3>2 DEF Types
  <2>2. \A k \in 1 .. rsize : ring[(rhead + k - 1) % RingSize] \in Nat
    BY <2>1
  <2> QED
    BY <1>2, <2>2 DEF InRing
<1>4. /\ got \o InRing \in Seq(Nat) /\ Len(got \o InRing) = Len(got) + rsize
      /\ \A k \in 1 .. Len(got) + rsize :
             (got \o InRing)[k] = IF k <= Len(got) THEN got[k] ELSE InRing[k - Len(got)]
  BY <1>2, <1>3, ConcatProperties
<1>5. /\ Len(all) = Len(got) + rsize + Len(left)
      /\ \A k \in 1 .. Len(got) + rsize + Len(left) :
             all[k] = IF k <= Len(got) + rsize THEN (got \o InRing)[k]
                      ELSE left[k - (Len(got) + rsize)]
  BY <1>2, <1>4, ConcatProperties
<1>6. Handed = Len(all)
  BY <1>1, <1>5 DEF Handed
<1> HIDE DEF all
<1>7. ASSUME NEW k \in 1 .. Handed PROVE all[k] = Stream[k]
  <2>1. Stream[k] = IF k <= Len(got) THEN got[k]
                    ELSE IF k <= Len(got) + rsize THEN ring[(rhead + (k - Len(got)) - 1) % RingSize]
                    ELSE left[k - Len(got) - rsize]
    BY <1>1 DEF Stream
  <2>2. k \in 1 .. Len(got) + rsize + Len(left)
    BY <1>5, <1>6
  <2>3. CASE k <= Len(got)
    <3>1. k <= Len(got) + rsize /\ k \in 1 .. Len(got) + rsize
      BY <1>2, <2>2, <2>3
    <3> QED
      BY <1>4, <1>5, <2>1, <2>2, <2>3, <3>1
  <2>4. CASE Len(got) < k /\ k <= Len(got) + rsize
    <3>1. ~(k <= Len(got)) /\ k \in 1 .. Len(got) + rsize /\ k - Len(got) \in 1 .. rsize
      BY <1>2, <2>2, <2>4
    <3>2. all[k] = InRing[k - Len(got)]
      BY <1>4, <1>5, <2>2, <2>4, <3>1
    <3> QED
      BY <1>3, <2>1, <2>4, <3>1, <3>2
  <2>5. CASE Len(got) + rsize < k
    <3>1. /\ ~(k <= Len(got)) /\ ~(k <= Len(got) + rsize)
          /\ k - (Len(got) + rsize) = k - Len(got) - rsize
      BY <1>2, <2>2, <2>5
    <3> QED
      BY <1>5, <2>1, <2>2, <3>1
  <2> QED
    BY <1>2, <2>2, <2>3, <2>4, <2>5
<1>8. {all[k] : k \in 1 .. Handed} = 1 .. Handed
  <2>1. {all[k] : k \in 1 .. Handed} = {Stream[k] : k \in 1 .. Handed}
    BY <1>7
  <2> QED
    BY <2>1 DEF Complete, Whole
<1>9. ~passed => \A k \in 1 .. Handed : all[k] = k
  BY <1>7 DEF Complete
<1> QED
  BY <1>6, <1>8, <1>9 DEF all

\* Before the first UART error no byte is lost or doubled on its way from the
\* DMA buffer to the reader, through the ring and the data set aside, and none
\* overtakes another as long as no handler fills the ring past what is aside:
\* for every size of the buffers that leaves room in a ring two thirds empty
\* for a DMA buffer and what the module still sends after RTS.
THEOREM BytesConserved ==
    ASSUME ServedInTime, FlowControlled PROVE Spec => []Conserved
<1>1. IInv => Conserved
  BY IntactConserves, Zenon DEF IInv, Intact, Conserved
<1>2. IInv /\ [Next]_vars => IInv'
  BY IInvNext
<1> QED
  BY <1>1, <1>2, IInvInit, PTL DEF Spec

-----------------------------------------------------------------------------
(* No byte overtakes another.                                               *)

\* What is set aside keeps its place: no handler puts later bytes into the ring.
NoOvertaking == errors = 0 => ~passed

\* Handlers are served at once, and the module stops at once.
AtOnce == Latency = 0 /\ InFlight = 0

\* Nothing is behind what is set aside.
Last == ~passed /\ (Aside => Unhanded = 0)

LEMMA HandOverLast ==
    ASSUME AtOnce, Counters, Flags, Ahead, Intact, Last, NEW tail \in Int, HandOver(tail),
           head % DmaSize = Start, Start \in Int, Start <= tail, tail - Start <= Unhanded
    PROVE  ~passed'
<1>1. passed' <=> passed \/ (Aside /\ [k \in 1 .. tail - Start |-> dma[Start + k - 1]] # <<>>
                             /\ rsize < RingSize)
  BY Zenon DEF HandOver, Overtake
<1>2. Aside => tail - Start = 0
  BY DEF Last
<1>3. Aside => [k \in 1 .. tail - Start |-> dma[Start + k - 1]] = <<>>
  BY <1>2
<1> QED
  BY <1>1, <1>3 DEF Last

LEMMA LastNext ==
    ASSUME ServedInTime, AtOnce, Flags, Counters, Ahead, Intact, Last, [Next]_vars, ~ErrorIsr
    PROVE  Last'
<1>1. /\ Unhanded \in 0 .. DmaSize - 1 /\ Start \in 0 .. DmaSize - 1 /\ head % DmaSize = Start
      /\ pos \in 0 .. DmaSize - 1
  BY UnhandedFits, Offset DEF Intact, Buffer, Counters
<1>2. CASE Arrive
  <2>1. ~rts /\ UNCHANGED <<left, pc, passed>>
    BY <1>2 DEF Arrive, AtOnce, Intact, Types, control, reader, driver
  <2>2. left = <<>>
    BY <2>1 DEF Intact, Stopped
  <2> QED
    BY <2>1, <2>2 DEF Last, Aside
<1>3. CASE HalfIsr
  <2>1. HandOver(HalfSize) /\ half /\ UNCHANGED <<uart, cplt>>
    BY <1>3 DEF HalfIsr
  <2>2. HandOver(HalfSize) => head' = HalfSize
    BY DEF HandOver
  <2>3. ~cplt /\ ~cplt' /\ Start <= HalfSize /\ pos = HalfSize /\ pos' = pos /\ Start' = HalfSize
    BY <1>1, <2>1, <2>2, Sizes DEF Ahead, uart, Start, AtOnce, Counters
  <2>4. HalfSize - Start <= Unhanded /\ Unhanded' = 0 /\ HalfSize \in Int
    BY <1>1, <2>3, Sizes DEF Unhanded
  <2> HIDE DEF HalfSize
  <2> QED
    BY <1>1, <2>1, <2>3, <2>4, HandOverLast DEF Last
<1>4. CASE CpltIsr
  <2>1. HandOver(DmaSize) /\ cplt /\ ~cplt' /\ UNCHANGED uart
    BY <1>4 DEF CpltIsr
  <2>2. HandOver(DmaSize) => head' = DmaSize
    BY DEF HandOver
  <2>3. pos = 0 /\ pos' = 0 /\ Start' = 0
    BY <1>1, <2>1, <2>2, Sizes DEF Ahead, uart, Start, AtOnce, Counters
  <2>4. DmaSize - Start <= Unhanded /\ Unhanded' = 0 /\ Start <= DmaSize /\ DmaSize \in Int
    BY <1>1, <2>1, <2>3, Sizes DEF Unhanded
  <2> QED
    BY <1>1, <2>1, <2>4, HandOverLast DEF Last
<1>5. CASE IdleIsr
  <2>1. HandOver(pos) /\ isr = "idle" /\ UNCHANGED <<uart, cplt>>
    BY <1>5 DEF IdleIsr
  <2>2. HandOver(pos) => head' = pos
    BY DEF HandOver
  <2>3. ~cplt /\ ~cplt' /\ ~half /\ Start <= pos /\ pos' = pos /\ Start' = pos
    BY <1>1, <2>1, <2>2, Sizes DEF Ahead, uart, Start
  <2>4. pos - Start <= Unhanded /\ Unhanded' = 0 /\ pos \in Int
    BY <1>1, <2>3, Sizes DEF Unhanded
  <2> QED
    BY <1>1, <2>1, <2>3, <2>4, HandOverLast DEF Last
<1>6. CASE IdleNothing
  <2>1. UNCHANGED <<uart, passed, control, reader, cplt>> /\ pos = 0 /\ ~half /\ ~cplt /\ head' = 0
    BY <1>6 DEF IdleNothing, IdleRuns
  <2>2. Start' = 0 /\ Start = 0
    BY <1>1, <2>1, Sizes DEF Start, Ahead
  <2> QED
    BY <2>1, <2>2 DEF Last, Aside, Unhanded, uart, control, reader
<1>7. CASE IdleBegins \/ LineIdle \/ UNCHANGED vars
  <2>1. UNCHANGED <<pos, head, passed, control, reader, cplt>>
    BY <1>7 DEF IdleBegins, LineIdle, vars, uart, flags, driver
  <2> QED
    BY <2>1 DEF Last, Aside, Unhanded, Start, control, reader
<1>8. CASE Reader
  <2>1. UNCHANGED <<uart, flags, driver>>
    BY <1>8, ReaderRuns
  <2>2. Aside' => Aside
    <3>1. CASE Plain
      BY <3>1 DEF Plain, Empty, Wait, LoadCount, StoreCount, Read, Threshold, NoFlush, Goto, Aside,
         control
    <3>2. CASE Flush
      BY <3>2 DEF Flush, Measure, LoadTail, CopyLeft, StoreTail, LoadAdd, StoreAdd, Free, Goto,
         Aside, control
    <3>3. CASE Rest
      BY <3>3 DEF Rest, LetModuleSend, FlowOff, Get, LoadSub, StoreSub, Goto, Aside, control
    <3> QED
      BY <1>8, <3>1, <3>2, <3>3, ReaderSteps
  <2> QED
    BY <2>1, <2>2 DEF Last, Unhanded, Start, uart, flags, driver
<1> QED
  BY <1>2, <1>3, <1>4, <1>5, <1>6, <1>7, <1>8 DEF Next, Hardware, Handlers

\* If besides every handler runs before another byte has arrived and the module
\* obeys RTS without a byte more, nothing is put into the ring past what was
\* set aside: the reader then gets the bytes in the order they were sent.
THEOREM OrderKept ==
    ASSUME ServedInTime, FlowControlled, AtOnce PROVE Spec => []NoOvertaking
<1> DEFINE J == IInv /\ (errors = 0 => Last)
<1>1. Init => J
  <2>1. Init => Last
    BY DEF Init, Last, Aside
  <2> QED
    BY <2>1, IInvInit
<1>2. J => NoOvertaking
  BY DEF NoOvertaking, Last
<1>3. J /\ [Next]_vars => J'
  <2> SUFFICES ASSUME J, [Next]_vars PROVE J'
    OBVIOUS
  <2>1. IInv'
    BY IInvNext
  <2>2. ASSUME errors' = 0 PROVE Last'
    <3>1. errors = 0 /\ ~ErrorIsr
      BY <2>2, ErrorsCount DEF IInv, Window
    <3> QED
      BY <3>1, LastNext DEF IInv, Window
  <2> QED
    BY <2>1, <2>2
<1> HIDE DEF J
<1> QED
  BY <1>1, <1>2, <1>3, PTL DEF Spec
=============================================================================
