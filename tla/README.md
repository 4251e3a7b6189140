# Verification of the Quectel MCU client

TLA+ models, TLC runs and TLAPS proofs for the client software an STM32 uses to
drive a Quectel cellular module over a UART: `quectel/modules` (network, socket,
HTTP, MQTT, FTP, file, SMS, FOTA ... APIs), `quectel/common` (broadcast and log
services), `quectel/third_party/at_client` (the AT command engine) and
`system/platform/arm-cortex` (OS abstraction, UART driver, boot loader).

## 1. Inventory

| Part | State it keeps | Operations | Talks to |
|---|---|---|---|
| AT client (`at_client.c`) | one `at_client`: `lock`, `resp`, `self_func`, `arg`, `resp_status`, `end_sign`, three semaphores, line buffer, URC table | `at_obj_exec_cmd`, `at_obj_exec_cmd_with_data`, `client_parser`, `at_obj_set_urc_table` | every module API (calls, callbacks), UART driver (`rx_notice`) |
| UART driver (`hal_uart.c`, `ringbuffer.c`) | circular DMA buffer, position already copied, 5 KiB ring | DMA half, full and idle interrupts, `qosa_uart_read`, error restart | AT client (`rx_ind` callback) |
| Semaphore (`qosa_sem.c`) | kernel semaphore and a shadow count | create, wait, release, get_cnt, delete | everything |
| Message queue (`qosa_msg_queue.c`, `qosa_queue_list.c`) | list of copied messages, a counting semaphore, a mutex | create, release, wait, get_cnt, delete | broadcast service, debug service, FOTA |
| Broadcast service (`broadcast_service.c`) | table of registered callbacks, queue | reg, unreg, send, dispatcher task | network, MQTT, sockets |
| Sockets (`ql_socket.c`) | table of descriptors; per handle a state, an error, a semaphore, a packet list with a lock | socket, connect, send, recv, close, accept, select, getaddrinfo; URCs +QIOPEN, recv, closed, incoming | AT client, tests' tasks |
| MQTT (`ql_mqtt.c`) | table of indices; per handle a status, a semaphore, callbacks | create, connect, pub, sub, unsub, disconnect, destroy; URCs +QMTOPEN ... +QMTSTAT | AT client |
| FOTA (`ql_fota.c`) | one `config_in`: file, counters, `succeed` | download over HTTP or FTP, with a callback for each piece | HTTP, FTP, FatFs, boot loader (the file) |
| HTTP, FTP, file, SMS, PSM, net, GNSS, voice | a handle with a semaphore and error code each | one function per AT command, URC handlers | AT client |
| Boot loader (`bootloader.c`) | flash, update file on the SD card | copy file to flash, delete file, jump | FOTA (the file) |
| Debug log (`qosa_log.c`, `debug_service.c`) | `g_log_rb`, a flag, a semaphore, the file | `debug_print`, "debug save 1" and "0", the save thread | all |

How they interact: application tasks call a module API; it creates a response
object, calls `at_obj_exec_cmd` and blocks on a semaphore.  The UART interrupt
copies received bytes to a ring and releases `rx_notice`; the parser task builds
lines and either dispatches an unsolicited code to its handler, runs the
response's own `self_func`, or stores the line in the response and wakes the
caller.  All tasks run at the same priority and are time-sliced.

The behaviours that are hard here, and what makes each part correct:

- *Shared client object.*  Callers, the parser task and URC handlers race on
  `resp`, `self_func`, `arg` and `resp_status`; only the callers hold `lock`.
  Correct: one command at a time, every caller gets the answer to its own
  command, no callback runs for a command that is gone.
- *Timeouts against late answers.*  A command that gives up leaves its answer on
  the wire.  Correct: the next command is not completed by it.
- *Semaphore with a shadow count.*  The count and the kernel's tokens are updated
  one after the other, by tasks under a mutex and by an interrupt without one.
  Correct: callers see a counting semaphore.
- *Queue of 16 with a semaphore of 5.*  Correct: a woken receiver finds a message,
  in order, and an accepted message arrives.
- *A table without a lock.*  The broadcast dispatcher reads what other tasks
  write.  Correct: every registered queue gets each message of its kind once.
- *Interrupt against task.*  DMA and idle interrupts fill a ring a task empties;
  overflow is set aside and RTS stops the module.  Correct: bytes arrive in order,
  none is lost, and the module is always released again.
- *Handles with one semaphore for several URCs* (HTTP, MQTT, FTP, sockets).
  Correct: a late token of one operation does not answer the next.
- *A packet list read without its lock* (sockets).  Correct: what the module
  delivered is read in order and once, and no URC handler uses a freed handle.
- *Power failure during an update* (FOTA and boot loader).  Correct: the device
  never boots a partial image and does not lose the update.
- *A framed ring between writers and a thread* (debug log).  Correct: lengths and
  texts are not mistaken for each other, and the thread never sleeps on a record.

`PROJECT.json` lists each hazard at its line, with the properties that cover it.

## 2. Plan

Order: the code every other part runs through first, then the primitives it
trusts, then the services and clients built on them.

| Step | Module | Composition and abstraction | Status |
|---|---|---|---|
| 1 | `AtClient` | callers, parser, module and wire in one module | checked, safety partly proved |
| 2 | `Semaphore`, `QosaSem` | `QosaSem` implements the abstract counting semaphore | checked, safety and refinement proved |
| 3 | `MsgQueue` | uses the promise of `Semaphore` for its tokens | checked, all state invariants proved |
| 4 | `Broadcast` | each queue is a list and a semaphore, as in `MsgQueue` | checked, all state invariants proved |
| 5 | `UartRx` | driver, ring and reader; wakes the parser of step 1 | checked, all state invariants proved |
| 6 | `Firmware`, `Fota` | `ql_fota.c` composed with `bootloader.c`; implements the abstract update | checked, safety and refinement proved |
| 7 | `DebugLog` | `debug_print`, its ring, the command and the save thread | checked, all state invariants proved |
| 8 | `Socket` | task, parser and module; a command is what `AtClient` promises | checked, all state invariants proved |
| 9 | `MqttClient` | tasks, parser and module on one handle | checked, all state invariants proved |
| 10 | `ql_http.c`, `ql_ftp.c`, `ql_file.c` | the handle's semaphore and err against late URCs, FTP's wait loop | to do |
| 11 | `ql_socket.c`: accept, select, getaddrinfo | more than one descriptor | to do |

Further abstract specifications worth stating: a fifo with refusals, implemented
by `MsgQueue` as long as no token is lost; a lossless byte stream, implemented by
`UartRx` and by `Socket`; "one request, one answer", implemented by `AtClient`
for commands answered in time.

Every state invariant a passing run checks is stated by a theorem (section 6).  To
prove next: that `MsgQueue` and `Socket` implement abstract queues, once those are
stated; and the answers to commands with a `self_func`.

## 3. The modules

Each module keeps the names of the code for its variables where it can; the
comment at a variable names the field it stands for.  `PROJECT.json` maps every
definition to the lines it translates.  Definitions that begin with "Mistake:" in
their comment are plausible bugs of the definition that follows them; no
specification uses them, they serve to show that a property can fail.

### AtClient

Source: `at_client.c`; its callers in `ql_http.c`, `ql_file.c`, `ql_socket.c`.

| Model | Code |
|---|---|
| `lock`, `resp`, `selfFunc`, `arg`, `respStatus`, `endSign` | the fields of `at_client`; `lock` names its owner |
| `respNotice`, `dataNotice`, `handle` | tokens of `resp_notice`, `data_send_notice` and the caller's own semaphore |
| `pc[t]`: lock, resp, self, arg, drain, send, wait, check, clear | the accesses of `at_obj_exec_cmd` to shared state, one step each |
| `outer`, `handle`, `free` | the recursive lock of the callers that nest it and what they do with the answer |
| `sign`, `chunk`, `body`, `dwait`, `next`, `stop` | `at_obj_exec_cmd_with_data` |
| `ppc` | `client_parser`: reading, dispatch, the two reads of `client->resp`, self_func, storing, notification |
| `tx`, `rx`, `Module` | the UART and the cellular module, which answers each command with one of a few scripts or not at all |

A response object is named by the number of its command: a command's response is
created for it and deleted after it, so a stale pointer is visible as a number no
longer in `alive`.  Text is abstracted to the kinds of line the parser tells
apart: information, too long, OK, ERROR, prompt, SEND OK, SEND FAIL and two URCs.
Undefined behaviour (a NULL response or callback, a deleted response, a wrong
`arg`) is recorded in `faults`; NULL stops the device.

### Semaphore and QosaSem

Source: `qosa_sem.c`, `qosa_mutex.c`.

`Semaphore` is what callers rely on: a wait that succeeds took one token, a
release that succeeds added one, and a release is refused only when full.
`QosaSem` has the kernel's `tokens`, the shadow `count` (unsigned, wrapping), the
handle's `lock`, and one step per kernel call and per load and store of `count`
(`reg` is the register in between).  `IsrRelease` is `qosa_sem_release` called by
the UART interrupt through `at_client_rx_ind`: its `osMutexAcquire` fails there,
and it runs between any two steps of a task, except at the places the constant
`Quiet` names.  The code keeps the interrupt out of none of them; the regular run
and the proofs make `Quiet` the two places between a load of `count` and its
store, and section 5 shows what happens without.

### MsgQueue

Source: `qosa_msg_queue.c`, `qosa_queue_list.c` (put and get), `qosa_mutex.c`.

`list`, `cnt` (`current_cnt`), `tokens` (the queue's semaphore, as `Semaphore`
promises), `lock`.  A sender: test of the size (`Send`, `SendFull`), allocation
(`NoMemory`), lock, put, count, unlock, release of the semaphore.  A receiver:
wait, token or timeout, lock, get, uncount, unlock.  `sent`, `outcome` and
`received` are history: what each call returned and what was received in which
order.  A message is named by its sender and its number.

### Broadcast

Source: `broadcast_service.c`; the receivers as in `cli_test_main.c`.

`what` and `msgqid` are the table's two fields, written in separate steps, as no lock
protects them; the search for a known pair and the choice of a slot are one step
each.  The dispatcher reads a slot's `what` twice and then its `msgqid`, one step
each.  The service's own queue is `queue` (the list) and `tokens` (its semaphore): a
sender tests the size (`Send`), links its message (`Put`) and posts it (`Post`) in three
steps, and a post that finds the semaphore full leaves the message in the list without a
token (`lost`).  The dispatcher needs both a token and a message.  `box` is all that was
put in each receiver's queue, `posts` its semaphore, `taken` how much of it was
received, `refused` the messages whose release returned an error: of a full list, or of
a full semaphore, with the message in the list all the same.  `registered` and `due` are
history, and so is `raced`: two calls that touch the table have overlapped.  An
instance's clients make at most the calls the bounds allow together, ask for the pairs
in `Wanted` only, and begin none after two have overlapped.

### UartRx

Source: `hal_uart.c`, `ringbuffer.c`, the reader in `at_client.c`, priorities in
`dma.c` and `stm32f4xx_it.c`.

The circular DMA buffer with the three interrupts (half, complete, idle), the
position already handed over (`head`), the ring, the data set aside (`left`,
`flow`, `rts`), and the reader (`pc`), which sleeps on `rx_notice`.  A handler's
`ringbuffer_put` is one step, as no task runs in between.  The task's is one step
for each access that a handler can come between: the room (`Measure`), the load of
`rb->tail`, the copy, the store of `rb->tail`, the load and the store of `rb->size`;
its `ringbuffer_get` loads and stores `size` in two.  `notice` and `count` are
`rx_notice`'s tokens and its shadow count, as in `QosaSem`: a handler's release
(`Notice`) is refused by a full semaphore and skipped when the count is not below
its maximum, and the reader's wait decrements the count by a load and a store.
The handlers run between any two steps of the reader, except at the places `Quiet`
names.  The idle handler has two steps because it reads the DMA's counter twice.

| Place in `Quiet` | Code | Without it |
|---|---|---|
| `store_count` | `qosa_sem.c:127`, between load and store of `count` | the count drifts, wraps, and a notice is skipped: `WokenForData` fails |
| `low` | `hal_uart.c:388`, between the two tests | a handler sets data aside in a ring that is no longer low: `ReceivedAsSent` fails |
| `copy`, `store_tail` | `ringbuffer.c:55` to `:61` or `:67`, load and store of `tail` | a handler's bytes are overwritten: `Conserved` fails |
| `store_add`, `store_sub` | `ringbuffer.c:69` and `:107`, load and store of `size` | an update is lost: `Conserved` fails, and `ReceivedAsSent` |
| `flow` | `hal_uart.c:394`, RTS released and `g_flow_control` not yet reset | data set aside there is forgotten: `ReceivedAsSent` fails |

The code keeps the interrupts out of none of them.  Section 5 names the configuration
that shows each failure; the regular run and the proofs show that no other place needs
to be kept free.

`passed` is history: a handler found room in the ring while older bytes were still
set aside, and put newer ones past them (`rt_device_cb` puts first and looks at
`g_uart2_left_data` only if something does not fit).

Environment assumptions are constants: `Latency` (bytes that arrive while an
interrupt is pending), `InFlight` (bytes the module sends after RTS rose),
`SlowIsr` (bytes arrive within the idle handler), `Quiet` (places where no
interrupt comes) and `MaxErrors`.  A run names the assumptions it makes, and
section 5 shows what happens without each.

### Firmware and Fota

Source: `ql_fota.c`, `bootloader.c`; the restart as in `cli_fota.c`.

`Firmware` is what the owner of a device expects of an update: it runs the old or
the new program, an update arrives as a whole, and installing it may be
interrupted and begun again.  `Fota` has the application's `flash` in blocks, the
update `file` (its length by the directory entry: f_open truncates at once, what
f_write wrote counts from f_close on), the download (`dl`, `open`, `received`,
`total`, `succeed`) and the boot loader (`bpc`, `idx`, `left`).

| Action | Code |
|---|---|
| `Begin`, `Open`, `OpenFails`, `RequestFails`, `Close`, `Cleanup` | `ql_fota_http_process` and `ql_fota_ftp_process` |
| `Start`, `Write`, `WriteFails`, `End` | the events of `ql_http_rsp_callback` and `ql_ftp_download_callback` |
| `Detect` ... `Jump` | `bootloader`, `Update_Firmware`, `IAP_Erase_Flash_AppBin`, `IAP_Write_Flash_AppBin`, `Jump2App` |
| `Cut` | power fails: between any two steps, in either program |

`blame` collects the causes of damage that have occurred (an FTP download that
was broken off, a power failure between END and f_unlink, a failing write,
...): the properties say that there are no others.

### DebugLog

Source: `qosa_log.c`, `debug_service.c`, `ringbuffer.c`.

`cells`, `head`, `tail`, `size` are `g_log_rb`, one cell for the four bytes of a
length and one for each piece of a text, so a length read as a text and a text
read as a length are visible.  `debug_print` is `Record`, `Test`, `Put`, `Add`,
`Release` under `debug_slock`; the thread is `OpenLog` ... `Destroy`, and reads the
ring without that lock, with a load and a store of `size`; the command is `On`,
`Create`, `Off`, `Wake`, `Slept`.  A freed buffer stays referenced, as in the code.
The names of the specification begin with `Log` (`LogSpec`, `LogTypeOK`), since
`StreamProofs` extends this module and `Socket` together.

### Socket

Source: `ql_socket.c`.

One descriptor, used by sockets one after the other (`gen`).  `wire` holds what the
module has sent and the parser has not read: the OK of a command and the URCs, in
order.  The parser finds the handle (`FindHandle`), writes to it and releases its
semaphore in separate steps; `ph` is the handle it found. `ql_recvfrom` looks at the
list under the lock (`Peek`) and copies and cuts without it (`Copy`, `Cut`, with `last`
for the pointer loaded in between), while the parser, under the lock, tests `pkt_head`
(`TestHead`), loads it again (`LoadHead`), follows the list packet by packet (`Walk`)
and links the new one (`Link`).  The task may take the packet off under it.  A walk from
NULL or through a packet that has been freed is taken in its mildest outcome: it ends,
and the new packet is lost.  `raced` records that both changed the list at the same time:
the task stored `pkt_head` between the parser's test and its link, or the parser linked
between the task's load of a `next` that is NULL and that store. `ql_close` waits for
the answer of AT+QICLOSE (`CloseSent`), gives the descriptor back and frees the handle.

### MqttClient

Source: `ql_mqtt.c`.

Several tasks call connect, publish, subscribe, unsubscribe and disconnect on one
handle; `status` and `sem` are its fields, and the semaphore's tokens carry, for
the properties only, the number of the command whose URC gave them.  A call is a
walk through places: those of `Command` send an AT command, those of `After` wait
on the semaphore, and `Good` and `Bad` say where a command's result leads.

| Action | Code |
|---|---|
| `Connect`, `Publish`, `Subscribe`, `Unsubscribe`, `Disconnect` | the entries of the five functions, with the tests of `status` that begin three of them |
| `Executed`, `Unheard` | `at_obj_exec_cmd` sends the command under `client->lock`; the module acts on it, or does not hear it |
| `GiveUp`, `Answered` | the time-out of `at_obj_exec_cmd`, and its return with the result |
| `ReadReply` | `client_parser`, at an OK or ERROR: it ends the command that waits now, which need not be the one it answers |
| `Retransmits` | the module reports a packet sent again: a +QMTPUB or +QMTSUB with the result 1 before the one at the end |
| `Find`, `SetStatus`, `Post` | the URC handlers: the index looked up, the status written, the semaphore released |
| `Woken`, `TimesOut` | the waits on `handle->sem` |
| `Opened` ... `Closed` | what the functions do after their waits |

OK, ERROR and URCs share one `wire`: a task goes on only when the parser has read
the result of its command, and with it every URC sent before.  That order is what
keeps an old +QMTCONN from being taken for the new one, and commands that take
effect in one step would not have it: with them `ql_mqtt_connect` reports a
session that an earlier call's URC told of.  `closes` is what
`ql_use_mqtt_close()` returned for the module in use.  `trouble` records what
leaves a token behind, or worse: a wait that ran out ("late"), a command whose
answer comes after its time-out ("slow"), a packet reported sent again ("resent"),
a +QMTSTAT nobody waits for ("stat", "skip"), calls that overlap.  A command that
timed out may have been executed: its OK is still on the wire, ends the next
command, and its URC releases the semaphore.

## 4. Runs

| Run | Shows | Bounds |
|---|---|---|
| `at_client` | one command at a time; while answers come in time every caller gets its own answer, notices and verdicts are not mixed up, the parser never acts for a command that is gone | 2 tasks, 2 commands of 6 kinds, 2 chunks, semaphores of 3 |
| `at_client_live` | every data and HTTP call returns whatever the module fails to answer | 2 tasks, 2 commands, no symmetry |
| `at_client_dropped` | counterexample: after a `self_func` the next command's answer is dropped | as above, plain and file-write commands |
| `qosa_sem` | the count follows the kernel, callers see a counting semaphore (refinement) | 3 tasks and the interrupt (not between load and store), semaphore of 2, `MaxCount` 7 |
| `qosa_sem_isr` | counterexample: the interrupt's update of the count is lost and releases are skipped | parser and interrupt, semaphore of 5 |
| `msg_queue` | no NULL message, bounded excess, order, and arrival of accepted messages | 2 senders of 2 messages, 2 receivers, list of 2, semaphore of 1 |
| `broadcast` | as long as calls do not overlap, what was registered stays registered, and before any unregistration each queue gets each message, once, in order; every message in the list is dispatched although receivers do not read, but for as many as tokens were lost | 2 clients, 2 slots, 3 pairs, 3 calls of which 1 unregisters, 2 messages, a list of 2 with a semaphore of 1, receivers' queues of 1 |
| `uart_rx` | with no interrupt at the places of `Quiet`: read, ring and set-aside data are together what was sent, late interrupts or not, and in order unless new data passed what was set aside; nothing is copied from outside the buffer; the reader never sleeps on data although the full semaphore refuses notices; all of it arrives and RTS is released again | buffer of 4, ring of 6, 8 bytes, 1 late byte, 1 error, semaphore of 2, `CountMax` 4 |
| `fota` | only whole programs run, a reported success is on the card, the abstract update is implemented, a complete update is installed in the end | image of 3 blocks, 3 downloads, 2 power failures, 2 faults |
| `debug_log` | the file holds the records in order, the thread sleeps only when it has caught up, empties the ring again and again and ends when told to | 2 tasks, 2 records, ring of 4 cells, 2 starts, 1 fault |
| `socket` | unless the list was changed by both at once bytes are read in order; without a time-out no freed handle is used and a reported connection is one; a waiting reader is woken | 2 sockets in turn, packets of 1 or 2 bytes, 4 bytes, 1 time-out |
| `mqtt` | unless a named cause left a token behind a call is woken by its own URC; unless an answer came after its time-out a reported connection is a session, whatever was left behind | 2 tasks, 3 calls, 2 handles in turn, semaphore of 2, 2 kinds of trouble ("slow" only by itself) |

Type invariants and other invariants that TLAPS proves for every value of the
constants (section 6) are not repeated in a run unless the run is the only
evidence for something they say.

Why the bounds are enough.  Two callers are the least that can exclude and
follow each other, and two commands the least for a late or misdirected answer;
the parser is one task in the code.  Semaphores and lists are scaled so that both
fill up and the list holds more than the semaphore (16 and 5 in the code):
refused, accepted-but-tokenless and excess messages all occur.  `MaxCount` 7
stands for 0x7FFFFFFF; `count` wraps modulo 16, out of reach of three tasks but
within reach of a lost update.  The broadcast table fills up and
is left again; `MCBroadcastRace` and `MCBroadcastHole` show the two ways in which
the table goes wrong.  The DMA buffer wraps twice,
the ring wraps and overflows, and reads are smaller than a third of the ring, the
threshold at which set-aside data is fetched; eight bytes fill the ring, are set
aside, and are fetched again, while the buffer wraps.  In `mqtt` the constraint
`Explored` follows a late answer without a second kind of trouble: with a late answer
neither property claims anything, so only `TypeOK` is checked less far.  An image of three
blocks has a first, a middle and a last one; one power failure can strike the download and
another the installation, and a third download can follow both.  The log's ring
holds one long record or two short ones, so that records wrap and are cut; the
second start finds what the first left behind.  The second socket of a descriptor
and the second handle of an index are the first that can meet something meant for
their predecessor; packets are both shorter and longer than a read.

Symmetry is used for tasks that make the same calls (`at_client`, `mqtt`), only in
runs of invariants and action properties; no run under fairness uses it.

Deadlock is checked in `at_client_live`, the semaphore runs, `msg_queue` and
`fota`.  It is switched off where a behaviour really ends: `ql_fwrite` waits
without a timeout and a stale notice can leave it waiting (`at_client`,
`at_client_dropped`); the dispatcher waits for ever when nobody sends
(`broadcast`); the reader waits for ever when the module is silent (`uart_rx`);
the save thread waits when nobody prints (`debug_log`); a reader waits when no
peer sends, and the calls of a bounded instance come to an end (`socket`, `mqtt`).

Fairness.
- `AtClient`: weak fairness of the parser, of each task inside a call and of the
  module's next step (which may be "no answer").  Tasks have equal priorities and
  are time-sliced, every timed wait ends.  No task has to begin a call.
- `QosaSem`: weak fairness of the interrupt and of a task's own steps, strong
  fairness of taking a token and of the mutex, which are granted in turn by the
  kernel.
- `MsgQueue`: senders finish what they began and receivers loop; strong fairness
  where a task waits for a token or the mutex.  No timeout and no new send is
  required.
- `Broadcast`: the dispatcher's task runs.  Nobody must send, register or receive.
- `UartRx`: a silent line is found idle, interrupts are served (strongly fair: the
  `Quiet` places come and go), the reader runs.  The module need not send.

- `Fota`: weak fairness of the download's and the boot loader's own steps; power
  must not fail, no download has to begin, and nothing has to succeed.
- `DebugLog`: the tasks that print, the command and the thread run; nobody has to
  print or to type.
- `Socket`: the parser and the task inside a call run; no peer has to send and no
  time-out to strike.
- `MqttClient` has no liveness property: each of its waits times out.

`InTime` (no wait of a command has run out) limits most properties of `AtClient`:
without it they are false, as section 5 shows.  `Guarded` (so far no command with a
`self_func` from a caller that does not own `client->lock`, as `ql_fread` and
`ql_file_list`, nor one without a response) limits two of them.  Likewise `NoSelf` (no
command with a `self_func` so far) for the two properties `at_client_dropped` refutes in
its absence, `OnlyRegistrations` and `~raced` in `Broadcast` and "no UART error so far"
in `UartRx`, `late = 0` in `Socket`, `trouble` in `MqttClient`, `blame` in `Fota`,
`Clean` (no record cut, no two updates of the size overlapping, no fault) in `DebugLog`.

## 5. Where the code and its documentation disagree

Two counterexamples are regular runs and listed as findings:

- `at_client.c:873`: the parser clears `client->resp` after a `self_func` although
  the released caller may already have been followed by the next command, whose
  OK or ERROR line is then dropped (`at.h:77`).
- `qosa_sem.c:155`: the UART interrupt updates `count` without the mutex; the count
  drifts below the tokens, wraps, and later releases return `QOSA_OK` without
  giving a token (`qosa_sem.c:44`).

Further configurations show disagreements of the same kind.  They check one
property each, which TLC finds violated (where a row names a change, after that
change to the configuration or with that invariant); they are kept next to the regular runs
for whoever changes that code.

| Configuration | Property | Behaviour |
|---|---|---|
| `MCAtClientLate` | `SuccessIsAnswered` | `at_client.c:412`: the late answer of a timed-out command completes the next one with 0 |
| `MCAtClientCut` | `TruncationReported` | `at_client.c:904`: `AT_RESP_BUFF_FULL` is overwritten by the final OK |
| `MCAtClientNull` | `CallbackGiven` | `at_client.c:871`: the parser's release lets a caller without the lock (`ql_file_list`) unlock, the next command clears `self_func` at line 386, and the parser calls NULL; every answer came in time |
| `MCAtClientNull` with the kind "null" | `NullResponseAccepted` | `at_client.c:386`: `resp->self_func` is read before the test for NULL, which line 355 allows |
| `MCQosaSemInitial` | `CountAtRest` | `qosa_sem.c:52`: the kernel's semaphore starts at 0 whatever `initialCount` is |
| `MCMsgQueueMaximum` | `MaximumHeld` | `qosa_msg_queue.c:176`: senders that pass the test together exceed `maxNumber` |
| `MCMsgQueueRefused` | `RefusedNotSent` | `qosa_msg_queue.c:202`: the error of a full semaphore is returned for a message that is in the list |
| `MCMsgQueueStranded` | `AcceptedIsReceived` | the token lost there leaves an accepted message behind with every receiver asleep |
| `MCBroadcastHole` | `RegisteredReceives` | `broadcast_service.c:148`: the search ends at an emptied slot |
| `MCBroadcastRace` | `RegisteredIsKept` | `broadcast_service.c:40`: two clients choose the same slot and both are told 0 |
| `MCUartRxSize` | `ReceivedAsSent` | `ringbuffer.c:107`: `size -= read_len` in the task and `size += write_len` in the interrupt are not protected from each other; `ringbuffer.c:79` promises the data that has been read |
| `MCUartRxSize` without "low" in `Quiet` | `ReceivedAsSent` | `hal_uart.c:388`: an interrupt between the test of the ring's length and that of `g_flow_control` fills the ring and sets data aside, which line 391 then frees |
| `MCUartRxSize` without "store_count" | `WokenForData` | `qosa_sem.c:127`: the interrupt's `count++` is lost, the count wraps, line 158 skips the release, and the reader sleeps with bytes in the ring |
| `MCUartRxAside` without "copy" or without "store_tail" | `Conserved` | `ringbuffer.c:55`: a handler puts bytes at the `tail` the task has loaded; the task overwrites them, or its store at line 61 or 67 takes the handler's back |
| `MCUartRxAside` with 12 bytes, without "store_add" | `Conserved` | `ringbuffer.c:69`: a handler's `size +=` is lost |
| `MCUartRxAside` | `ReceivedAsSent` | `hal_uart.c:155`: a byte still in the DMA buffer when RTS rises is put into the ring, once a read has made room, past those set aside |
| `MCUartRxFlow` | `ReceivedAsSent` | `hal_uart.c:394`: an overflow between the resets of RTS and `g_flow_control` |
| `MCUartRxIdle` | `TailRightOfHead` | `hal_uart.c:212`: the counter is read again after its test, and wrapped in between |
| `MCUartRxError` | `TailRightOfHead` | `hal_uart.c:350`: the DMA restarts at the beginning of the buffer, `g_head_ptr` does not |
| `MCDebugLogStop` | `NoWildPut` | `qosa_log.c:76`: between the test and the copy of line 78 "debug save 0" may end the thread, which frees the buffer |
| `MCSocketEof` | `EofIsLast` | `ql_socket.c:701`: data and the closing of the peer arrive after the list was found empty; 0 is returned before the last bytes |
| `MCSocketEof` | `StreamAlways` | `ql_socket.c:737`: a packet is taken off the list, without the lock, while the parser looks for the last one; the packet it links is lost |
| `MCMqttClientAgain` | `ErrorIsReal` | `ql_mqtt.c:432`: the token a +QMTSTAT left ends the wait for +QMTOPEN at once; a connection that would succeed is reported as `QL_MQTT_ERR_OPEN` (`ql_mqtt.h:147`) |

`MCQosaSemLive` is a further configuration that passes: a waiter woken by the
interrupt wakes again, even after the count went wrong.

The broadcast, UART, socket and MQTT ones show at the same time why the regular
runs make the assumptions they do.  Two more, seen while modelling: with
`LastBytes` no multiple of four the loop at `bootloader.c:74-85` ends half way and
the tail of the program is not written (`Fota`'s cause "tail"); and `ql_mqtt_pub`
and `ql_mqtt_sub` return `QL_MQTT_OK` whatever their URC says (`ql_mqtt.c:519`),
where `ql_mqtt.h:164` has "QL_MQTT_OK if success, otherwise error code".

## 6. Proofs

TLAPS checks every theorem below for all values of the constants that satisfy the
modules' `ASSUME`s: any number of tasks, any bounds.

**AtClientProofs**.  For `TypeCorrect`, `LockCorrect`, `RespCorrect` and
`EndSignCorrect`, `LockHeld` alone is not inductive.  The invariant is

    IInv == TypeOK /\ Started /\ Phases /\ LockHeld /\ RespOwned /\ SignOwned

`Started` says that a task in a call has a command whose kind is known, which
decides whether its caller nests the lock; `Phases` ties the place of a task to
that kind (only data calls are at the data steps, only nesting callers are
around the lock); `SignOwned` places the end sign inside a data call's lock.  A
step of one task leaves the places of the others (`OthersStay`) and the owner of
the lock (`LockStays`) alone; the parser and the module touch neither
(`ParserSafe`).  No assumption about timing is made: these hold with late answers
too.

`ResultCorrect`, `NoticeCorrect`, `WireCorrect`, `FaultFree` and `VerdictCorrect`
prove what `AtClient` promises of answers: those that come in time (`InTime`;
`MCAtClientLate` shows what a late one does), to commands without `self_func`
(`MCAtClientDropped`).  They assume `ByLines # 1`: a response counted in one line is
complete before the OK that follows it, which is then the first line the next
command reads.  `FaultFree` is about applications of plain, data and HTTP commands:
a `self_func` given without the lock, and a NULL response, do cause faults
(`MCAtClientNull`).  They rest on

    Exchange == InTime /\ NoSelf => Books /\ Talk

`Books` says which response is whose: no two calls share one, what a call uses is
not deleted, it has no result and no token before its command is sent.  `Talk` says,
for each place of the lock's owner, where the conversation is: nothing on the wire
and the parser at its read before the command is sent and after the call; while it
waits, the command is on its way (`Asked`), or the rest of one of the module's
scripts is on the wire or in the parser's hands and, if its final line is still to
come, that line gives the status the module answered (`Answering`, `Open`), or the
verdict stands (`Judged`), or only the URC of an HTTP request can follow
(`Trailing`); and after a chunk, that its one SEND line is still to come or has given
its one token (`Sending`).  One lemma follows the steps of the parser in each of
these; the steps of a task that does not own the lock change none (`Bystander`).

**QosaSemProofs**.  `TypeCorrect` holds wherever the interrupt comes.
`CountCorrect`, `NoUpdateLost`, `ReleaseGives` and `SemaphoreImplemented` assume
`Undisturbed` (the interrupt keeps out of the places between a load of `count` and
its store) and `InitialCount = 0` (section 5 shows both are needed), and rest on

    IInv == TypeOK /\ Locked /\ Succeeding /\ NeverSkips /\ NoLostUpdate /\ CountExact

The calls between the kernel's call and the update of `count` are counted:
`CountExact` says that tokens and count differ by exactly those.  As only finitely
many tasks can be there, the count stays below its maximum (`CountBound`), the
test of line 158 never skips a release (`NeverSkips`), and every step of a call
maps to a step of `Semaphore` or a stutter.

**MsgQueueProofs** (`TypeCorrect`, `MutualExclusion`, `GetFindsMessage`,
`CountCorrect`, `OvershootCorrect`, `OrderCorrect`).  The invariant is

    IInv == Types /\ Roles /\ Locked /\ Counted

where `Counted` has three parts, each an inequality or equation between the
length of the list and the number of tasks at certain places: every token given or
taken and not yet used stands for a message of the list (`Backed`), so a receiver
at `get` finds one; `current_cnt` is the length up to the update in progress
(`Agrees`); and what is in the list plus the senders that have passed the test of
line 176 but not yet counted their message stays below `MaxNumber` plus the number
of senders (`Reserved`).  One lemma per action says how those numbers move
(`SendEffect` ... `UnlockGetEffect`), from one lemma on what moving a task from a
place to another does to a set of tasks (`AtStep`).

`OrderCorrect` has an invariant of its own over `Flow`, what was received followed
by the list: every message in it has been sent (`Begun`), none is newer than its
sender's last (`Newest`), and a sender's messages stand in the order of their
numbers (`Sorted`).

**FotaProofs** (`TypeCorrect`, `WholeImages`, `SuccessStored`,
`UpdateImplemented`).  The invariant is

    IInv == TypeOK /\ DownloadOK /\ PartOK /\ Restartable /\ CopyOK
              /\ OnlyWholeImagesRun /\ SuccessIsStored

That only whole programs run is not inductive: it must be known that a partial
flash always finds the update file still there (`Restartable`), that what the boot
loader has copied so far is what the file holds (`CopyOK`), that the file
is partial only for a cause in `blame` (`PartOK`), and that what the download
counted is what it wrote (`DownloadOK`).  `UpdateImplemented` maps every step to a
step of `Firmware` or a stutter, for any number of blocks, downloads and power
failures.

**StreamProofs** (`TypeCorrect`, `HandleNotFreedInUse`, `ConnectionsMatch`,
`StreamCorrect` for `Socket`; `LogTypeCorrect`, `LogCorrect`, `CaughtUpCorrect`,
`RecordsComplete` for `DebugLog`). One module holds both, as both promises are
stated with `FlattenSeq` and need the same lemmas about it. For `Socket` the types
come in three parts: the lines of the wire, the packets with `offset` inside the
first of them, and the fields. The second and the third theorem rest on

    InTime == late = 0 => Stages /\ Handles

where `Stages` says, for each place of the task, what can be on the wire and in
the hands of the parser: nothing when no socket is connected, the result of
AT+QIOPEN exactly once while it is waited for (to be read, in hand, or told), data
and the closing of the peer while the socket is used, and the answer of AT+QICLOSE
last of all, so that the parser has no URC left when the handle is freed.
`StreamCorrect` is, like the property, conditional on `~raced`, and has `Stream`:
besides the property, that a packet is cut only when all of it was copied, that a
packet seen behind it is there, and that the parser's walk stands on a packet of
the list, so that it ends at the last one (`OnList`). What a list of
packets holds is a fold over the list, so its lemmas (`FlattenSeq` of a packet
appended, of one taken off) need induction over data. They have it in the form of
the smallest position at which they would fail (`LeastIn`, from the
well-foundedness of `<` on the naturals): no theorem with an operator for a
parameter is used.

For `DebugLog` the types hold without a condition, also after updates of `size`
were lost: what a task or the thread has loaded it can add or subtract within `0
.. RingSize` (`Loads`), and a header is read only from a ring that is not empty
(`Places`). The two promises need not hold once a record was cut off, two updates
overlapped or the card failed, and rest on

    DataOK  == Clean /\ Started => LogData
    LogData == Fresh /\ InRing /\ Framed /\ Position /\ Saved /\ Awake

`InRing`: counting what a `debug_print` has put but not added and what the thread
has read but not subtracted, the cells from `head` on are the last ones accepted.
`Framed`: what was accepted is made of whole records, and `size` counts whole
ones, so a text whose length the thread has read is there (`TextIsThere`): this is
why the thread never reads a text short, which is the theorem `RecordsComplete`.
`Position`: between two records the thread stands where one starts, and in one it
holds that record's length or text. `Saved`: the file is the texts of the cells up
to there. `Awake`: about to sleep without a token, the thread has emptied the
ring, as every record that was added is followed by a release. A creation starts
afresh only if no `debug_print` is in the middle of a record (`torn`). `DataOK`
was checked with TLC on the run's instance before it was proved; the places of the
ring are reasoned about by the lemmas `Wrap` ... `WrapTwice` on `%`.

**UartRxProofs** (`WakeUpNotLost`, `CopiesLieInBuffer`, `BytesConserved`,
`OrderKept`).  The first holds in rings, buffers and semaphores of any size; it
assumes `CountKept`, that no interrupt comes between the load and the store of the
semaphore's count, and nothing else about where they come.  Its invariant follows
count and tokens (`Counted`): the count is what the kernel holds, plus one while the
reader has a token it has not counted off yet, so it stays below its maximum, no
release is skipped, and one that is refused finds tokens that wake the reader all the
same.
The others assume `ServedInTime` (handlers run before half a buffer has
arrived, and nothing arrives between the idle handler's two reads; section 5 shows the
second is needed).  `CopiesLieInBuffer` rests on `Window`: `g_head_ptr` is never right
of what the next handler takes for `tail_ptr`, and the DMA is at most `late` bytes past
the point a pending interrupt stands for.  `BytesConserved` assumes `FlowControlled`
too: no interrupt at six of the seven places of `Quiet` (all but `store_count`;
section 3 has what one does at each), and two
thirds of the ring hold the DMA buffer and the bytes sent after RTS rose (256 of 5120
bytes in the code, which leaves room for 3157 such bytes).  Its invariant is

    IInv   == Window /\ (errors = 0 => Intact)
    Intact == Entered /\ Types /\ Counts /\ Stopped /\ Buffer /\ Complete

`Counts` says what the reader's registers hold at each of its places, `Buffer` that
what the DMA has stored and no handler has taken are the next bytes of the stream,
`Complete` that what was handed over is all that came before them, each byte once.
`Stopped` is the reason why the overflow never comes twice: while something is set
aside the module is stopped, and that, with what it still sent, fits into the ring
once this is two thirds empty.  The attempt to prove that the bytes are also in
order showed that they need not be: a handler still has bytes of the DMA buffer to
hand over when RTS rises, a read makes room in the ring, and `rt_device_cb` puts them
there, past those in `g_uart2_left_data` (`MCUartRxAside`).  `Conserved` states the
order for behaviours in which that has not happened, and `OrderKept` that it does not
if every handler runs before the next byte and the module stops on RTS at once.

**MqttClientProofs** (`TypeCorrect`, `ConnectCorrect`, `AckCorrect`).  The second
assumes that no answer comes after the time-out of its command ("slow" is not in
`trouble`).  Then, whatever was not heard, ran out, overlapped, or was left behind,
also across handles, it holds by the order of the wire.  With a late answer it does
not: the OK of a QMTOPEN that timed out ends the next command, and an old +QMTCONN
may then be taken for the new one.  Its invariant

    Connecting == Exchange /\ Fresh /\ Settled /\ \A t \in Tasks : Place(t) /\ Trying(t)

says that at most one result is on the wire, and only while the owner of the lock
waits for it (`Exchange`); that a handle that is new or gone is not connected
(`Fresh`); that as long as the module's session is only open, no +QMTCONN can still
raise the status, or a line behind it lowers it again (`Settled`); and that from
AT+QMTCONN on a task has a session, or one was closed during its call, or its
command was refused and nothing will raise the status (`Trying`).  The answers of
the module enter by four lemmas on what a command puts at the end of the wire
(`Forms`, `Effects`, `AnswerLines`, `AnswerTokens`).

`AckCorrect` holds while `trouble` names nothing that leaves a token behind.  Then

    Calm == (\A t \in Tasks : UnsubPlace(t)) /\ Handled /\ (~used => Idle)
              /\ (trouble \cap Stray = {} => Undisturbed)

keeps count of the tokens: one task at most is in a call, and at each of its places
(`Stage`) the wire, the parser's hands and the semaphore hold together none
(`Quiet`), the one of its command (`One`), or those of +QMTDISC and +QMTSTAT
(`Both`, then `Second`).  A refused command leaves none, a +QMTCLOSE gives none, and a
wait that nobody answers runs out, which is trouble unless it is that of
`ql_mqtt_unsub`, whose +QMTUNS has no handler.

**BroadcastProofs** (`TypeCorrect`, `RegistrationCorrect`, `ReceiversCorrect`,
`OrderCorrect`).  Three layers, each under its condition:

    Types    Alone    Filled    and on them    Owed    Numbers /\ Once

`Alone` (no two calls have overlapped) says what the one client in a call relies on
between two of its steps: the slot it chose is still free, the `what` it wrote is
there, what it searches for to remove is no longer promised (`Working`).  `Filled`
(`Quiet`: nobody has begun to unregister either) gives the table its shape: used from
the front, no pair twice, and a free slot empty but for the one half written.  A
client's step then only adds to the table (`Grows`), which is all the dispatcher's
invariants need: a queue that is due has the message or its slot is still ahead
(`Owed`), and one that has the message has it from a slot already passed (`Passed`
of `Once`).  The numbers in the queue grow from the dispatcher's message on
(`Numbers`, without condition).

Only model-checked: the answers to commands with `self_func`, and all liveness,
which is stated under fairness, where the prover does not reach.

## 7. Not modelled

- Bytes of lines and of commands: parsing and formatting, `sscanf` of answers,
  growth of the URC table.
- `qosa_sem_delete`, `qosa_msgq_delete` and `get_cnt` as operations of `QosaSem`
  and `MsgQueue`; a client's semaphore that ends with its handle is part of
  `Socket`, `MqttClient` and `DebugLog`.
- `broadcast_service_destory`: no caller.
- A sender of `MsgQueue` in an interrupt (the SD-card interrupt through
  `broadcast_send_msg`): listed as a hazard; `malloc` in an interrupt is outside of
  the model.
- UART transmission (one blocking HAL call), the receive branch without DMA, the
  debug console, the Windows port.
- `Fota`: two downloads at once; a waiter that gives up while END is on its way; a
  failing `f_unlink`; the progress callback's division by a total of 0; the login
  commands of FTP.
- `Socket`: listening and accept, `select`, `sendto` and UDP, `getaddrinfo`, reads of
  a packet in several pieces (`ql_socket.c:206`), `ql_close` called by the parser
  (`:43`), several descriptors.  The pause of a second at `:487` is left out: the
  model's task may be arbitrarily slow anyway.
- `MqttClient`: options and TLS, the receive callback, the counter of message ids,
  the creation of `s_idx_lock` (`ql_mqtt.c:245`), the response that is not freed at
  `:515`, several clients.
- `DebugLog`: the messages the thread itself prints, two services at once, the names
  of the backups, texts longer than the ring.  Two services: the command tests only
  `g_save_debug_flag`, so a second "debug save 1" given before the first thread has
  raised it, or before it has ended, would create another; `On` takes it that the user
  waits.  Texts longer than `DBG_BUFF_LEN`: `debug_print` would overrun its own buffer
  of that size first; longer *lengths*, for which line 353 has a loop, are in the
  model, as texts misread for lengths.  `debug_slock` is taken to have been
  created by the first message, which the main task prints before it starts others.
- HTTP, file and FTP clients' own state: the plan's step 10.  HTTP and file calls
  appear in `AtClient` as callers that hold the lock, and HTTP and FTP downloads in
  `Fota` as the events they deliver.
- Network registration, SMS, GNSS, voice, PSM, device and SSL settings: one command
  and the parsing of its answer each, no shared state of their own.
- Drivers (SD card, SPI flash, FatFs), FreeRTOS, mbedTLS, cJSON, examples: external
  or third-party code.
