# Verification of the FLEX communication software

The repository holds the Scicos-FLEX pack: the software with which a Scicos diagram on a PC
talks to a FLEX board (a dsPIC with a PIC18 as USB bridge), the firmware of the bridge, the
simulator blocks and gateways around it, and a code generator written in Scilab. This
directory models its communication core in TLA+, checks the models with TLC and proves
the main properties with TLAPS. `PROJECT.json` maps each definition to the lines it models
and lists runs, mutants, findings, hazards and theorems.

Paths below are relative to the repository (`src/` in `PROJECT.json`).

## 1. Inventory

### How the parts fit together

    Scicos diagram -- UDP -- gateway (app_flex_scicos.c)
                                |
                        flex_usbscicos.c     flex_bus.c      <- 15 float channels / message channels
                                \            /
                                 flex_usb.c                  <- byte stream over 64-byte HID packets
                                     | libusb
                                PIC18 bridge (main.c)        <- USB on one side, SPI on the other
                                     | SPI
                                dsPIC application

Beside this stack: the simulator blocks (`flex_blocks.c`, `smcube_block.c`) that talk to
simulator processes over `comm_channel`, the serial gateway for the Easylab board (C#), and
stateless run-time blocks.

### Components

| component | state | operations | talks to |
|---|---|---|---|
| **flex_usb** (`flex2pc_usb/pc/libraries/src/flex_usb.c`) | flags `init`, `stop_reader`; device handle; tx and rx buffers; `rx_first`, `rx_last`, `rx_held`; three mutexes and a condition | `flex_usb_init`, `_read` (blocking or not), `_write`, `_close`; the reader thread | libusb below, three libraries above |
| **flex_bus** (`flex_bus.c`) | per channel a circular message queue with mutex and condition; flags `init`, `stop_usb_reader` | `flex_bus_init`, `_read`, `_write`, `_close`; the bus thread | `flex_usb` |
| **flex_usbscicos** (`flex_usbscicos.c`, two builds) | 15 floats in each direction, their mutexes, block counters, pause and stop flags | `_init`, `_read`, `_write`, `_close`; reader and writer thread | `flex_usb` |
| **gateway** (`app_flex_scicos.c`, `udp_comms.c`) | UDP sockets, a frame in each direction | polling loop, SIGINT handler | `flex_usbscicos`, UDP |
| **PIC18 bridge** (`flex2pc_usb/pic18/src/main.c`) | `usb_rx_buffer`, `usb_tx_buffer`; `connected`, `to_send_spi`, `to_send_usb` | `flex_usb_process`, main loop | USB stack, SPI |
| **USB device stack** (`usbdrv.c`, `usbctrltrf.c`, `usb9.c`, `hid.c`) | device state, control transfer state, endpoint ownership | services called from the main loop | host |
| **dsPIC echo** (`flex2pc_usb/dsPIC/main.c`) | one message | task `echo_usb` | SPI |
| **simulator blocks** (`dspic/Flex-Sim/flex_blocks.c`, `Flex-iSim`) | process, channel, table of blocks, phase of the simulation | block init, update, end | `comm_channel`, `process_utils`, `data_model` |
| **comm_channel** | listening and connected descriptor, last error | open, wait, connect, read, write, close, with timeouts | Unix sockets or pipes |
| **process_utils** | child process, signal handler | launch, clean | the operating system |
| **SMCube block** | process, channel | init, update, end | `comm_channel` |
| **Serial gateway** (C#: `StreamParserEncoder`, `UdpCommunicator`, the form) | bytes left from the last read; sockets; receiving thread and its event | parse, encode, connect, disconnect, close | serial port, UDP |
| NativeInteger blocks | none | gain and sum at fixed widths | Scicos |
| Misc blocks | none | host time, formatting | Scicos |
| confparser (`testcase/common/confparser`) | none | the combinations of a command line, and the way back | the test scripts |
| code generator, palettes, installers | none at run time | text transformation | -- |

### What is hard, and what makes each component correct

* **flex_usb.** One reader thread, the application and any number of callers share the device,
  a ring and flags that are plain fields. `flex_usb_close` signals the thread with a flag and
  does not join it; failures leave `init` in several ways. Correct means: the ring hands out
  the bytes in order; no two threads transfer on the device at once, nor on one that is closed; one reader
  thread per session; an initialised session has a device and a buffer; nobody sleeps beside a packet. Not
  all of that is so (section 4).
* **flex_bus.** Signals only when a queue comes to hold one message; drops the oldest message
  under the readers' feet. Correct means: each channel is a drop-oldest queue, and a reader
  is woken when there is something to read.
* **flex_usbscicos and its gateway.** Values pass one call at a time through counters that several blocks
  share, beside the reader thread; a mutex kept across a blocking read in the build with threads; a
  signal handler that calls the library. Correct means: packets and datagrams go through whole,
  each in its turn.
* **PIC18 bridge.** A single packet buffer per direction, checked with a checksum and guarded
  by flags that three events set and clear. Correct means: a packet taken from SPI is sent
  once, or dropped for a stated reason; the loop never waits for what only the loop can do.
* **USB device stack.** The chip answers the host at once, by descriptors that the firmware set some
  turns of its loop ago, and cable, suspend and reset come between any two steps. Correct means: the
  host gets exactly what its request is due, both sides agree on address and configuration, and neither
  a stall nor a suspend is for ever.
* **simulator blocks, comm_channel, process_utils.** Partial reads, timeouts, a process that
  dies, an error at each of a dozen calls. Correct means: an answer belongs to its request, and after a
  simulation no descriptor, child or signal handler is left.
* **serial gateway.** Frames cut anywhere by the serial driver; a thread that is interrupted
  and resumed by connecting and disconnecting. Correct means: the frames found do not depend on
  the cut, and the receiving thread resumes after every connect and ends after close.
* **NativeInteger, confparser.** Pure functions. Correct means: the exact result taken once modulo the
  width; a line that is taken apart to what it was made of.

## 2. Modules

| module | models | kind |
|---|---|---|
| `Stream` | the numbered items a device sends (environment) | constants |
| `ShiftQueue` | the promise of `flex_usb.h`: a queue that overrides its oldest data | abstract |
| `RxRing` | the receive ring of `flex_usb.c`, byte by byte | detailed |
| `BusQueue` | the channel queues of `flex_bus.c` with their readers | detailed |
| `FlexUsb` | init, write, close, reader thread and readers of `flex_usb.c` | detailed |
| `FlexBus` | init, write, close and bus threads of `flex_bus.c` over `FlexUsb` | composition |
| `Pic18Bridge` | main loop of the bridge between the PC's sessions and the dsPIC | detailed |
| `UsbDevice` | the PIC18 USB stack between the host and the main loop | detailed |
| `UsbScicos` | `flex_usbscicos.c` in the build without threads | component |
| `UdpGateway` | `app_flex_scicos.c` and `udp_comms.c` over `UsbScicos` | composition |
| `CommChannel` | the server side of `comm_channel_linux.c` | component |
| `ProcessUtils` | `process_utils_linux.c` | component |
| `SimBlocks` | `flex_blocks.c` and `smcube_block.c` over the two | composition |
| `StreamParser` | `StreamParserEncoder.cs` | functions |
| `UdpCommunicator` | `UdpCommunicator.cs` | component |
| `SerialUdpGateway` | the form of the Easylab gateway over the two | composition |
| `NativeInteger`, `ConfParser` | the fixed-width blocks; the confparser tools | functions |
| `PureCalls` | one call of such a function, with what it should return | specification |
| `MC` + the name of a module | small instances | for TLC |
| `Modular` | lemmas on `%`, on `After`, on sequences, on induction and recursive functions | lemmas |
| `RxRing_proofs`, `BusQueue_proofs`, `FlexBus_proofs`, `Pic18Bridge_proofs`, `UsbDevice_proofs`, `Gateways_proofs`, `Blocks_proofs` | theorems | proofs |

`RxRing` and `BusQueue` each EXTEND `Stream` and are shown to implement `ShiftQueue`; `FlexBus` EXTENDS
`FlexUsb` and its actions call those of the USB library. The other compositions EXTEND their components in
the same way. `FlexBus_proofs` holds the theorems of `FlexUsb` too, `Gateways_proofs` those of both gateways,
`Blocks_proofs` those of `SimBlocks` and `PureCalls`. An operator marked `mutant` is a wrong version of the definition beside it: no specification uses
it, and `PROJECT.json` says which property it would break.

### RxRing

A byte is its place in the stream, cyclically, so a lost, repeated or reordered byte shows. The
ring is `rx_buffer`, `rx_first`, `rx_last`, `rx_held`. `write_rx_buffer_shift` and the copying
part of `flex_usb_read` hold `rx_mutex` for their whole length and are one action each; the
computation on `uint32_t` (`rx_buffer_size - rx_held`, `rx_held += size`) is modulo `Word`.
`Overwritten` is the set of positions the two `memcpy` calls write, including the byte that
the second one writes beyond the message. `stored` is everything the last read wrote to its
caller, `ret` what it returned. The branch for a packet as long as the ring
(`size >= rx_buffer_size`) cannot be taken: a packet has 60 bytes and `flex_usb_init` makes
the ring at least 64 bytes long; `RingAssumption` states the relation.

The length of a packet is what its 6-bit field says: `Receive` takes every length from 0 to `MaxLength`, which is
more than a payload, and takes it whether the ring has room or not. Four kinds of packet are more than the ring
bears (`Harms`): one that is longer than the room there is, one longer than the payload, an empty one while bytes
are held, which the code takes for one that wraps, and one that wraps and fills the last slot. The history
variables `faults` and `overrun` count them and remember the first kind; the properties say what each kind leaves.

### BusQueue

Every access to a channel is under its mutex, so a thread's section between two waits is an
action: `queue_insert(c)` by the bus thread; `Call`, `Wait`, `Get` by an application thread in
`flex_bus_read`. A signal moves one waiting thread back to the competition for the mutex;
`pthread_cond_wait` may also return on its own. Messages are numbered like bytes in `RxRing`.
The length of a message and its truncation are left out.

### FlexUsb

`app` says where the application thread is in `flex_usb_init`, `_write` or `_close`, with one
action between two points at which another thread can see a difference; `reader` and `caller`
do so for the reader threads and for threads in a blocking `flex_usb_read`. `dev` and
`rx_buffer` say what the handle and the buffer pointer designate; `rx_held` counts
packets. Two calls of the application do not overlap, as in every program of the repository.
A `memcpy` to or from the buffer that `flex_usb_close` has set to `NULL` ends the process (`Fault`: every
thread is then at the place `dead`). A copy that began before the `free` is not told from one that begins
after it. `pthread_cond_wait` may return on its own (`SpuriousWakeup`). `CreateFails` lets
`pthread_create` fail, which the code does not see as it tests for a negative result.
`Spec` has callers of `flex_usb_read` during sessions only; `LibrarySpec` lets them call at any time,
and it is what the bus is shown to be an instance of.

`InitStart` initialises the mutexes and the condition anew while threads may wait or hold them: a thread
that waits for the old condition may never be found again (`"lost"`), which is what POSIX
leaves open, and a reader thread of an earlier session may be in a transfer beside the new holder of
`usb_link_mutex` (`overlap`). Nothing in the code makes the next `flex_usb_init` wait for the old reader thread, so
it may come at once. `CloseDevice` is `usb_release_interface` and `usb_close`, for which the code holds no mutex:
they may come in the middle of a reader thread's transfer.

### FlexBus

One application thread goes through `flex_bus_init` and `flex_bus_close`, whose calls to the USB library are
the actions of `FlexUsb`; `bus_app` says where it is around them. `bus` is the loop of each bus
thread: test `stop_usb_reader` (`BusCheck`), block in `flex_usb_read` (`BusRead`), insert (`BusInsert`). The
`Callers` of `FlexUsb` are the bus threads. `flex_bus_close` does not join its thread, so threads of earlier
sessions stay, blocked in `flex_usb_read`, and compete for the packets of the next session.
The second `usb_claim_interface` of `flex_usb_close` may fail, whose result that function returns after it has
closed everything, and `pthread_create` may fail unseen; `unseen` remembers which of these befell the session of
the bus. What the messages carry, and the queues they are inserted
in, are left out.

### Pic18Bridge

The main loop is four actions in a cycle, at whose borders another party can see a difference:
`USBDriverService` (serves SET_CONFIGURATION), `ExchangeSpi`, `TakeReport`, `SendReport`, the last three being
`flex_usb_process`. `ep_out` and `ep_in` are the two HID endpoints, which the hardware fills and empties
at any time. The PC (`Host...`) does to the endpoints what `flex_usb.c` does: configure, CONNECT, write,
poll, DISCONNECT, one last read; and it may die. Packets are numbered in each direction when an endpoint or the
SPI bus takes them; the report that SET_CONFIGURATION throws out of the OUT endpoint (`HIDInitEP`) is lost, and
`discarded` keeps its number. `abandoned` says that the last session ended with no DISCONNECT delivered. `kind` keeps what the code tells apart in a report: a wrong checksum or header
(`bad`), DATA, ACK, the two commands and anything else. The dsPIC's USB driver is not in the repository: that it
holds its request line until the packet has been read is assumed (`Offer`).

### UsbDevice

One action per task of the main loop's turn (`USBCheckBusStatus`, `USBWakeFromSuspend`, `ServeReset`,
`ServeEvents`, then one completed transaction: `ServeSetup` and `USBCtrlEPServiceComplete`, `ServeIn`, `ServeOut`) and
one per transaction that the serial interface engine (SIE) of the chip completes on its own, by the
descriptors it owns, which it queues in `fifo`. `ServeSetup` ends where `PKTDIS` is cleared, before the
descriptors are set: the SIE answers again in between. The host is a well-behaved one: it resets, gives an address, then
reads descriptors and reads and writes registers (configuration, remote wake-up), in transfers that an unplugged
cable or a reset may end at any point. `Disturbs` bounds the events that disturb the bus (cable out, idle line,
reset, lost acknowledge). What the SIE does is external and taken from the comments of the code
(`usbdrv.c:304`, `:490`, `usbctrltrf.c`): the queue of transactions, `PKTDIS` after a SETUP, one `ACTVIF` for
an `IDLEIF`, a stalled endpoint that is never given back. The acknowledge of a packet may be lost, in the data stage
and in the status stage. After a write whose status acknowledge was lost the host takes the transfer for done and
the device does not: it keeps `CTRL_TRF_RX`, and after SET_ADDRESS the address 0, and its OUT buffer, set for a DATA1
packet, takes no SETUP. The host sends its next SETUP in vain until its timeout, which is much longer than a turn of the
main loop, and resets the device (`HostTimesOut`). Two assumptions on the host matter: it abandons a
transfer only by a reset, not by sending the next SETUP, and it leaves the device time after a reset.

### CommChannel, ProcessUtils, SimBlocks

`files` is what the descriptors of the Scicos process stand for, so a descriptor that is closed twice,
or reused while a channel still names it, shows. `engine` says of each child where it is, up to a zombie and reaped;
the handler of SIGCHLD, registered without `SA_RESTART`, interrupts `recv`, `poll` and `wait`, `write_to_channel` starts again.
An interrupted `wait` ends `clean_process` with the child that it has killed not reaped (`WaitFails`, `abandoned`). Linux
returns a child that has ended rather than `EINTR`, but a child that is stopped or resumed interrupts, too, and POSIX
leaves it open; the model has it at any wait. `SimBlocks` is the two
kinds of block over them: Scicos calls flag 4, rounds of flag 1, flag 5 on the blocks of `diagram` in order,
and `at` is where the call of a block is (`open`, `launch`, `poll`, `clean`, `wait`, `recv`), with an engine that may
end between any two. `flex_blocks` shares the engine of a board between blocks with one number and takes that
number for a position in `blocks_data`, as the code does; `smcube_block` numbers its blocks itself and puts the erasing
of its entries off (`erase_blocks`). An answer is a sequence of copies of the number of its request, read
by `recv` in parts.

### StreamParser, UdpCommunicator, SerialUdpGateway

`StreamParser` is the scan for packets and the encoder as functions on sequences of bytes; `Packets` and `Says`
state what a stream says without an order of reading it. In `UdpCommunicator` the calls of the form's thread are
lists of steps in `ui`, one for each field that is written, because the receiving thread reads the fields
between any two of them. `SerialUdpGateway` adds the form (buttons, reset message, closing), the serial port with
its event handler, and the receiving thread's handler of a datagram. .NET is external: `SerialPort.Close` waits for the
handler of its port, which is one action therefore; `Thread.Interrupt` stays pending until the thread blocks. An interrupt
that is pending when the receiving thread next blocks is thrown in `WaitOne` or in `Write`.
Each call that may throw does: making the sending client (`NewSending`, after which `Connect` returns false, the form
does not look at it and opens the port all the same) and the receiving one, `Send` of a packet (`SendPackets` goes on
with the next), `Open` of the port, and `Close`, after which `Disconnect` sets `CommPort` to null all the same. `refused`,
`unsent` and `unclosed` remember these. `UdpClient.Close` does not throw; that the finalizer of a forgotten port closes it
some day is left out. `SendPackets` may stay in `Send`, or in its message box, as long as it likes.
The branch of `SendPackets` for a datagram of another length is dead: `EncodeBytes` cuts whole chunks only.

### UsbScicos, UdpGateway

`UsbScicos` counts blocks and calls as the code does, and a value is the number of the packet or datagram
it came in. Of `flex_usb` it keeps the packets held, in order (which `RxRing` shows), and `usb_link_mutex`. The ring has 256
bytes, that is room for four packets of 60 bytes; nothing keeps the board from sending a fifth one. From then on the
ring is out of step (`overrun`): a read may return a mixture of the packets sent so far (`NextPacket`).
`UdpGateway` is the start (15 reading and 15 writing blocks, each of whose `flex_usbscicos_init` may fail as long as none
has succeeded), the loop, the polls of the reader thread, and `close_handler` at any step of the main
thread. The gateway's own copies of `flex_usb.c` and `flex_bus.c` are byte for byte those of the library.

### NativeInteger, ConfParser, PureCalls

Functions. `Wrap` is the assignment to a narrower type, applied wherever the code assigns; a type is given by `Half`, minus
its least value, which is a constant so that nothing depends on powers of two. `Assigned` is the
set of elements that a call writes. A string of `ConfParser` is a sequence of characters. `PureCalls` makes one call of a
function with any of the inputs and states what it should return, defined in another way: an exact sum; the assignments
of a configuration to each variable, the place of each among the lines (a number in mixed radix, the last variable fastest)
and the words that the two programs should make of its line.

## 3. Runs

| run | states | question |
|---|---|---|
| `ring_bytes` | 224,078 | packets of every length, into a ring with room or without: what survives each, and is the ring a queue until then? |
| `ring_full` | (violation) | does a full ring override its oldest data? No: `OverridesOldest` is violated |
| `bus_queues` | 137,865 | are channels drop-oldest queues, and are lone readers served? |
| `usb_sessions` | 52,247 | sessions opened, failed, closed and reopened at once, with two readers: who uses the device, who is left asleep? |
| `usb_store` | (violation) | is the buffer there when a packet is stored? No: `StoreHasBuffer` is violated |
| `bus_sessions` | 236,112 | the bus opened, failed, closed and reopened, whatever call fails: has it a thread and a USB session, do packets get to the queues? |
| `pic18_bridge` | 1,092,227 | packets both ways while sessions are opened, closed and abandoned: which arrive, which are lost? |
| `usb_device` | 457,578 | control transfers beside cable, suspend, reset and lost acknowledges: whole, agreed upon, and at an end? |
| `sim_blocks` | 300,601 | simulations with engines that fail and die, and waits that are interrupted: do answers fit, what is left? |
| `easylab` | 654,479 | the serial gateway connected and disconnected, with calls that throw: is the stream understood, does the thread follow? |
| `udp_gateway` | 536,575 | do packets and datagrams go through whole and in turn, until the ring overflows? |
| `pure_calls` | 44,972 | are gains and sums exact, are confparser's lines all the assignments, once and in order, and taken apart rightly? |

**Bounds.** `MCRxRing`: 5 slots, packets of 0 to 4 bytes with a payload of 3, reads of 1 to 3 bytes, stream cycle 7. Packets and
reads take every alignment with the end of the ring, both wrap, and 3 is the least length for
which a wrapped message has more than one byte on each side; two packets that the ring does not bear, so that each
kind meets what each has left. The cycle is longer
than the ring plus a packet's overlap, so no two bytes present have one number.
`Word` 32 stands for 2^32 and is more than twice the ring, as there.
`MCBusQueue`: queues of size 3 (two messages), cycle 4, one channel with one reader and
one with two: the queue is empty, half full, full and overflows. `MCFlexUsb`: two reader threads (the
old one and the new one; a third would need two sessions to end before the first thread has run again), two callers
(one to take the packet the other was woken for), two packets held. A new session needs a free
reader thread (`InitBuffers`), a new bus session a free bus thread (`BusInit`): these guards are bounds, which keep
a third thread out. `MCFlexBus`: the same, with the callers as bus threads, an old one and a new one.
`MCPic18Bridge`: three packets in each direction, as up to three of one direction are on their way at once
(in the SPI buffer, in the endpoint, offered or got).
`MCUsbDevice`: packets of two bytes, a descriptor that fills two packets and one that ends in a short one,
reads that ask for as much as there is and for more, a descriptor that no handler knows; two disturbances, so that
one may come while the other is being recovered from. `MCSimBlocks`: two blocks that share a board beside one of another,
the same with the boards numbered the wrong way, and two SMCube blocks; two simulations, so that what the first
leaves behind meets the second; three requests; an engine for each launch and as many descriptors as can be open.
`MCSerialUdpGateway`: bytes of two bits, packets of three bytes, a stream of two packets that reads otherwise when it is cut
after its first byte or its second, as start bytes are in the payload and the checksum of the first; two clicks or reset messages (the closing comes on top). A third client and a third port are enough
for the old one, the new one and the one that the receiving thread still holds.
`MCUdpGateway`: two channels instead of 15, the least number with a first and a last call (the theorems have any
number); three packets and datagrams, two held, so that the third may find the ring full. `MCPureCalls`: the ends of each type's range and a value between, matrices up to two by
two, three ports; widths 8, 12 and 14 keep the exact results within TLC's integers. Up to two of eleven arguments, seven of
them in error, each in a way of its own (empty, no `=`, nothing after it, a comma before it, one at the end, a second `=`,
an underscore).

**Fairness.** `FairSpec` of `BusQueue`: a thread inside `flex_bus_read` that could enter the
mutex does so in the end. No message needs to arrive, nobody needs to call. `FairSpec` of `FlexUsb`:
weak fairness of each reader thread, whose bulk read has a timeout of a second; weak fairness is enough
as `usb_link_mutex` is free for ever once the session is closed. `FairBusSpec`: weak fairness of the
reader threads and of the bus threads, never of the application or of the device. `FairSpec` of `Pic18Bridge`: the
main loop runs (nothing else runs on that processor) and an open session polls its endpoint, as the reader
thread does in a loop; neither the PC's calls nor the dsPIC's offers are fair.

`FairSpec` of `UsbDevice`: the firmware's loop runs, and the host goes on with a transfer or a reset that it has
begun; it need not begin one, and no cable need be put in. `Spec` of `SimBlocks`: Scicos goes on with its calls, and
an engine that SIGTERM was sent to ends; engines need not connect or answer (the waits have timeouts, `recv`
has none). `SerialSpec` of `SerialUdpGateway`: the form's thread does the steps it has been asked for and the receiving
thread runs; the user, the board and the peer need not act, and the port's handler may block for ever in the message
box that a failing `Send` puts up, which is why closing a port need not end (the form's step `close_port` is only
fair while it can be done). `UdpGateway` and `PureCalls` claim no liveness.

**Deadlock** is checked in `ring_bytes`, `bus_queues`, `usb_sessions`, `pic18_bridge` and `usb_device`. The others may
stop: the bus when the application does nothing more and its threads wait for a packet or for a
condition that is never signalled; `sim_blocks` when the simulations are over; `easylab` when the form is closed;
`udp_gateway` when the process has ended or its signal handler waits for the mutex of the thread it
interrupted; `pure_calls` after its one call.

## 4. What is found

Two runs expect a violation:

* `usb_store`: the reader thread, between its bulk read and the next test
  of `stop_reader`, stores into the buffer that `flex_usb_close` has freed, although `flex_usb.c:597` says of
  the flag that it "terminates" the thread.
* `ring_full`: after the first packet for which there is no room, what is left to read is not the newest bytes, as
  `rx_held` is not capped (`flex_usb.c:130`) and a message that wraps copies a byte more than is left (`:126`);
  `flex_usb.h:17` promises "override oldest data, on RX queue full".

The following were met while modelling. The models keep them as the code has them, and the
properties say how far they reach, with a condition on what has happened:

* `flex_usb.c:178`: the length of a packet is not looked at: an empty one is written over the whole ring, one of 61 to 63 bytes
  takes what lies behind the payload (`faults` in `InStreamOrder`; `InPlace` holds all the same).
* `flex_usb.c:504`: a read that wraps writes one byte more into its caller's buffer than it was asked for.
* `flex_usb.c:628`: the counters of the ring outlive the buffer, so a session may begin with bytes nobody wrote.
* `flex_usb.c:619`: `flex_usb_close` gives `usb_link_mutex` back before it releases and closes the device, so a reader thread that
  has tested `stop_reader` before transfers on a device that is being closed, or is closed. `LinkExclusion` is about
  transfers only.
* `flex_usb.c:242`: a `flex_usb_init` soon after a close takes the order to stop back, and the reader thread of the last session
  goes on beside the new one; the `pthread_join` under "Wait the end of the thread reader before creating it
  again" is commented out. `usb_sessions` reaches both of these.
* `flex_usb.c:341`: the mutexes are made anew beside a reader thread that may hold one (`overlap` in `LinkExclusion`).
* `flex_usb.c:618`: after a `usb_close` that failed, `flex_usb_init` returns 0 for a session without a reader thread.
* `flex_bus.c:265`: `flex_bus_init` succeeds without a thread if `pthread_create` fails (`unseen` in `BusHasReader`), and `flex_usb_init` at line 410 does, too.
* `flex_bus.c:320`: the flag for the bus thread is raised when no packet will come any more: it waits for ever.
* `flex_usb.c:637`: a claim that fails leaves the bus initialised over a closed library (`unseen` in `BusOverUsb`).
* `main.c:241` of the bridge: a PC that leaves a session without DISCONNECT can leave the loop waiting for ever
  (`ClosedBridgeFree` speaks of the other sessions).
* `hid.c:178` of the bridge: the SET_CONFIGURATION that opens a session discards what an abandoned one left in the OUT endpoint,
  which the PC has counted as written (`discarded` in `DownExact`).
* `usbctrltrf.c:212` of the bridge: a device that has not heard the acknowledge of a SET_ADDRESS status keeps the address 0 and takes
  no SETUP (`AddressPending` in `HostAgrees`): only the host's reset ends it (`TransferEnds`).
* `flex_blocks.c:182`: a board's number is taken for the position of its entry (`Numbered` in `NothingLeft`).
* `process_utils_linux.c:153`: a wait that a signal interrupts leaves the child that was killed (`abandoned` in `NothingLeft`).
* `flex_usbscicos.c:196` of the gateway: a `flex_usbscicos_init` that fails before one succeeds leaves blocks uncounted, for
  ever out of step, or a division by zero if no reading block was counted (`AllCounted`, `Trap`).
* `app_flex_scicos.c:148`: nothing paces the board: the fifth packet that waits puts all later reads out of step
  (`overrun` in `PacketsUp`).
* `EasylabSerialUDPGateway.cs:83`: the form does not look whether `Connect` made its clients: the port is opened, and its packets
  are dropped (`refused` in `SerialToUdp`). A packet whose `Send` throws is dropped (`:277`, `unsent`).
* `EasylabSerialUDPGateway.cs:107`: a port whose `Close` throws is forgotten, though it may be open (`unclosed` in `NothingLeaks`).
* `app_flex_scicos.c:41`: the handler of SIGINT may wait for a mutex that the thread it interrupted holds.
* `StreamParserEncoder.cs:96`: the checksum of `EncodeBytes` covers a byte more than the packet, so a reader that checks as
  `ParseBytes` does accepts a packet only if that byte is zero (`UdpToSerial` states exactly that).
* `nat_gainblk_i32n.c:59`: a semicolon ends the loop over the rows: a matrix gain assigns one row only, for the last
  column outside of the array (`GainExact` leaves this case out).

## 5. What is proved

All theorems hold for every value of the constants that satisfies the module's assumption.

* **RxRing.** `RingTyping`: types, for any lengths of packets. `StreamOrder`: `Consistent`, `InPlace` and `InStreamOrder`
  (`IndicesAgree` and `BytesInPlace` are the first two alone), for a device that sends packets of any length whether
  there is room or not. The inductive invariant is their conjunction with the types, each byte named by its place (`RingInv`): the
  bytes are not inductive without the indices, as a packet goes where `rx_last` is, and the byte too many must fall on a free slot,
  or be the only one that is spoilt. `RingIsAQueue`: until the first packet that the ring does not bear each step is one of
  `ShiftQueue`, from the same invariant; the heart is that contents after a store are
  the old contents followed by the packet.
* **BusQueue.** `BusTyping`; `NobodyStranded`: the strengthening says that a
  thread waits at a channel of its own, and that an empty lone channel is the only place to wait, whatever
  the spurious wakeups; `NewestHeld`; `ChannelIsAQueue`: each channel implements `ShiftQueue`.
* **FlexUsb.** `Typing`; `Sessions`: `SessionIntact`, strengthened by what the application
  has obtained at each place of init and close; `DeviceShared`: `LinkExclusion`, which is inductive as it stands, once
  `overlap` says when the mutex was made anew beside a thread that may hold the old one; `CallersServed`:
  `NoStrandedCaller`, from the count of threads that are awake in `flex_usb_read`. All are proved of
  `LibrarySpec`, that is for callers at any time, and so hold of `Spec`.
* **FlexBus.** `BusUsesLibrary`: every behaviour of the bus is one of `LibrarySpec`, by cases on the
  actions; with it `BusCallersServed` and half of `BusTyping` are the library's theorems. `BusReaderRuns`:
  `BusHasReader`, whatever calls fail: a bus thread that runs is there, unless its `pthread_create` failed unseen, as the
  flag that ends a thread is never up while the bus is initialised (lemma `BusReaderKept`). `BusAgrees`: `BusOverUsb`,
  strengthened by what `init` and `app` are at each `bus_app`.
* **Pic18Bridge.** `BridgeTyping`. `DownstreamExact`: `DownExact`. Each number that the endpoint took is in one of four
  places, endpoint, SPI buffer, dsPIC or discarded (`Placed`), and nothing waits for SPI when the loop takes a report
  (`SpiServed`); that a SET_CONFIGURATION finds a report only after an abandoned session comes from the invariant of a
  session's end (`Ended`), which the last theorem rests on, too.
  `UpstreamOrder` and `UpstreamSound` from one invariant: what the dsPIC requests to send is newer than
  all on its way, so a rejected packet is none of them. `SessionReleasesBridge`: after `DISCONNECT` a firmware that
  takes itself for connected has that report waiting, and after the last read its next packet finds the
  endpoint free.
* **UsbDevice.** `DeviceTyping`; `TransfersIntact`: `TransferIntact`; `HostAndDeviceAgree`: `HostAgrees`; for any packet
  size, descriptors, registers and address, and any number of events that disturb the bus. One inductive invariant: while
  the host takes the device for ready, or its reset has been served, the transfer is in one of six phases (`Idle`,
  `Requested`, `Checked`, `Reading`, `Writing`, `Stalling`), each of which says what the firmware's state, the buffer descriptors, the
  queue of transactions and the host's side are together; its heart is `Sending`: what is due is what the host has got,
  followed by the packet prepared unless the host has it already, followed by what is left. After a write the status is due
  (`Acknowledging`), heard by both (`Acknowledged`), or by the host alone (`Unheard`), which only a reset ends. Neither property is
  inductive alone: a late transaction, or a stall served after the next SETUP, would break both.
* **UdpGateway.** `GatewayTyping`. `PacketsInTurn`: `PacketsUp`, from two invariants: `Following` (until the ring
  has overflowed, what it holds are the packets after the one in `rx_buffer_scicos`) and `Collected` (what a round has collected so far is one packet, the one
  sent last or the next, and the counter says how far the round is). `DatagramsInTurn`: `DatagramsDown`, from
  `Distributed` in the same way. For any number of channels, packets and any room: TLC checks three channels.

* **SerialUdpGateway.** `FormHolds`: `NothingLeaks`. The invariant `FormInv` is `Planned` (the steps that the form still has
  to do are the end of one of its five plans, and the fields are what the steps before have made of them) and `Held` (which
  clients and ports are open, and who refers to each, or that its `Close` threw): a client may leak only between two steps of a plan, which only a
  plan can exclude. `StreamIsSaid`: `SerialToUdp`, for a stream of any bytes cut anywhere. The scan over what is left of the last
  read and the new bytes is shown to find the packets that a scan over the whole would (`Continued`), and then that those
  are what `Says` states without an order of reading. `EchoIsRead`: `UdpToSerial`, from the checksum of what `EncodeChunk` makes.
* **PureCalls.** `GainIsExact`: `GainExact`; `SumIsExact`: `SumExact`: for any width, any size of the matrices and any number of
  ports, a wrap at every assignment equals one wrap of the exact sum. By induction over the index of the loops,
  from the congruence of `Wrap`; `CallInv` says that the arguments are those of a call. `LinesRoundTrip`: `RoundTrip`, for any
  arguments, any number of variables and configurations. What is cut at the commas is joined to what it was
  (`CutJoins`), so a proper argument is its variable written again (`ArgumentRead`). The line number of an assignment is
  unfolded from the last variable on: each is in the range of its round, two assignments that differ from a variable on differ in
  theirs (`PlaceDepends`), each line has an assignment (`PlaceFound`), and on the line stand its words (`LineInPlace`). What comes after an even
  number of underscores is taken apart as if by itself (`DemuxConcat`), and a word before another holds two (`LineDemuxed`).
* **SimBlocks.** `NothingIsLeft`: `NothingLeft`, interrupted waits included; `UpdatesAreInStep`: `InStep`; for any diagrams (with boards numbered
  in order where the property asks for it) and any number of simulations, engines and descriptors. One inductive invariant, `SimInv`, in three parts.
  `PlaceInv`: where a call may be, which entry it works on, and which entries flag 5 has still to end (`Kept`). The owners:
  with boards numbered in order, each engine that is neither reaped nor abandoned and each descriptor that is open belongs to a kept entry
  (`EnginesKept`, `FilesKept`); the handler of SIGCHLD is registered only while a kept entry has an engine (`Handled`). The answers: an engine has bytes
  to send only for the call that reads from it, and all of them are of its request (`Idle`, `Inboxes`, `Reading`). Neither
  property is inductive: a wait for one engine may reap another's, a descriptor's number is given again, an entry
  moves when one before it is removed, and an engine may die between any two reads.

The proofs use the lemmas of `Modular`: `%` is not in the reach of the SMT backend beyond
constants, so wrapping is reduced there to cases of addition and subtraction. The library's induction theorem takes an
operator as its parameter, which the provers cannot instantiate; `SetInduction` of `Modular` states it of a set of naturals instead, from
the well-foundedness of `<` on them, and with it a recursive function over an interval is unfolded
(`Iteration` and, from its end, `Backwards`; `Climb`, `Descend`). That is what the loops of the gateway's parser, of the
fixed-width blocks and of confparser need.

The assumptions on the constants are those of the modules: sizes are positive, a diagram has at least one block. The guards that
are bounds are part of what is proved: `Launch` needs an unused process number, `accept` and `socket` a free descriptor
(`HasFree`).

Only model-checked: liveness under fairness, which is out of the prover's reach (`ReaderServed`, `CloseEndsReaders`,
`BusDelivers`, `DownDelivered`, `WakesUp`, `TransferEnds`, `ThreadFollows`, `SimulationEnds`), and the violations. Every
invariant and every action property of the passing runs is a theorem.

## 6. Not modelled

The repository is far larger than its control logic: most of its lines are build files, Scilab scripts, headers of
other libraries and copies. By far the greater part of what is left out has no state to check:

* the code generator, palettes and installers, which transform text; the Misc blocks (host time and formatting);
* the Windows wrappers (`SerialGateway`, `RS232`, `MCP2200`, `Flex-UDP`, the pipes of `comm_channel_win.c`,
  `process_utils_win.c`): one system call each; the headers of `pthread`, `libusb` and Scicos;
* copies: `flex2pc_usb/pc/windows_old`, `pic18_old` (with the vendor's `pickit.c`), everything in `ee/contrib` that
  `ee_scicoslab` has again, the gateway's own `flex_usb.c` and `flex_bus.c`, and `Flex-iSim/flex_blocks.c`, which is `Flex-Sim`'s
  with the simulator compiled out;
* stub blocks that return at once.

Left out of a component that is modelled:

* `flex_bus`: the framing of its 36-byte messages in the ring, of which `RxRing` shows that it is a stream in
  order, and the channels that `flex_bus_init` allocates anew;
* `flex_usbscicos`: the build with threads, which nothing in the repository uses;
* the USB device stack: GET_STATUS, the halt of other endpoints, a transfer that the host abandons by its next SETUP;
* the dsPIC's echo task, whose driver is not in the repository;
* `comm_channel`: the client side, which the blocks do not call, and the text of errors;
* `data_model`: the layout of a block's ports in memory; a `BLOCK_PUSH` that fails for want of memory;
* `nat_product_i32n.c`, which does not compile; the sizes of the arrays of `confparser_mux`.
