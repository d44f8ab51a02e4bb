# Verification of the smart-car firmware

TLA+ models of the C firmware in this repository: a line-following car on an
NXP i.MX RT1064. `src/demo/user/src` is the program (main loop, interrupt
handlers, image processing, PID), `src/demo/code` its motor and servo code,
`src/libraries/zf_*` the SeekFree library it is built on, and
`src/libraries/sdk` the vendor's SDK, whose camera driver `fsl_csi.c` this
repository has changed. TLC checks the models on small instances; TLAPS proves
the main results for every value of the constants.

## 1. The system

One core, no operating system. `main` initialises the peripherals and loops;
interrupt handlers preempt it. Code in the two contexts meets in global
variables without locks.

| Component | State | Operations | Meets | What is hard |
|---|---|---|---|---|
| CSI transfer driver, `fsl_csi.c`, `zf_driver_csi.c` | `csi_handle_t`: list of empty buffers, queue of full ones, two active buffers; two DMA address registers | start, stop, submit, get, interrupt | DMA, camera callback | DMA and interrupt between any two steps; late interrupts; both done flags; empty list dry; queue full |
| Camera pipeline, `zf_device_mt9v03x.c`, `main.c` | `mt9v03x_image`, `mt9v03x_finish_flag`, the copy `image` | finished callback; test flag, copy, process, clear | the driver, main | pointer and memory change under the copy; flag erased without a look |
| Ring buffer, `zf_common_fifo.c` | `fifo_struct` | clear, write, read, discard, read tail | every serial device | wrap; interrupt writes while main reads |
| Camera configuration over UART, `zf_device_mt9v03x.c` | camera fifo, callback of UART5, timeout counter, reply read | version, set and get configuration, exposure time, register; main's retry | receive interrupt, the camera | timeouts, lost, broken and late replies, a head byte that clears the fifo during a read |
| Debug port, `zf_common_debug.c` | debug fifo | read, receive interrupt, assertion handler | isr.c | as the ring buffer |
| Wireless UART, CH9141 | receive fifo, flow control | send with timeout, read | interrupt | busy module |
| WiFi over SPI or UART | receive fifo, transmit and buffer states | commands, wait for an answer | handshake interrupt on the same bus | shared bus and state |
| GPS, `zf_device_gps_tau1201.c` | receive fifo, two sentence buffers with a state each, the fix | receive interrupt, parse | interrupt, main | state tested and then overwritten; no lock, nothing volatile; checksum failure half way |
| Detector protocol, `zf_device_detector.c` | packet fifo, parameters by channel | receive a byte or a block, analyse | any transport's fifo | resynchronisation after a false head; chunks that do not fit; an interrupt in the middle of the analysis; a channel without a parameter |
| Motor control, `isr.c`, `pid.c` | encoder counts, PID sums | PIT interrupt | main's display | counts lost; integrator |
| Image processing, `img_process.c` | threshold, border lines | Otsu, border search | main | numerical |
| Keys, flash store, displays, sensors, other cameras, wrappers, vendor code | | | | see `PROJECT.json` |

What makes each part correct: the driver must keep every buffer in one place
and the DMA out of finished frames; the pipeline must give the main loop the
newest frame, whole, in order and for ever; the ring buffer must be a bounded
queue, also under an interrupt; protocols must match replies with commands;
the GPS must not mix sentences or stop taking them; the PID must stay within its limits.

`PROJECT.json` lists every component with its status, and under `hazards` each
place in the code where one of these can go wrong, with the properties that
cover it or the reason why none does.

## 2. Modules

| Module | What it is |
|---|---|
| `CsiHandle` | `csi_handle_t` as a record and the driver's helpers as operators |
| `CsiController` | the CSI peripheral: address registers, DMA, done flags, frame memory (external hardware) |
| `FramePipeline` | camera, CSI interrupt with the callback, main loop |
| `FrameMailbox` | abstract specification of the pipeline |
| `CsiTransfer` | the driver with an application that polls instead of a callback |
| `FrameQueue` | abstract specification of that: buffers that go round, frames that come out oldest first |
| `FifoStruct` | `fifo_struct` as a record, and one uninterrupted call of every function as operators |
| `FifoCalls` | one caller of the fifo |
| `FifoQueue` | abstract specification of the fifo: a bounded queue |
| `FifoPreempt` | `fifo_read_buffer` in the main loop, split at its memory accesses, with the receive interrupt |
| `CameraConfig` | the camera's configuration over the UART: main with its retries, the receive interrupt, the camera |
| `GpsReceiver` | the GPS interrupt and `gps_data_parse` on the buffers and states they share |
| `Detector` | reception of parameter packets from a transport or from an interrupt |
| `MCFramePipeline`, `MCCsiTransfer` | what only model checking needs: renumbering of frames and fairness; symmetry |
| `*_proofs` | theorems, one module for each of the modules above that has any |

`FramePipeline` and `CsiTransfer` both EXTEND `CsiController`, which EXTENDS
`CsiHandle`, so that the two uses of the driver share one translation of it;
`FifoCalls` and `FifoPreempt` share `FifoStruct` in the same way. `CameraConfig`
and `Detector` take an INSTANCE of `FifoStruct` for the fifo they work on, so their
reads, writes and clears are the translated ones, composed with the protocol.

### Correspondence with the code

*Camera.* `FrameBegins` latches the address register of the frame, as
`CSI_TransferStart` selects ("DMA base addr switch at the edge of the first
data of each frame"); `LineArrives` writes one line and, after the last, sets
the done flag and turns to the other register. Pixels are abstracted to the
number of the frame they belong to, so that a mix of frames, or an old frame in
the place of a new one, shows. What the peripheral does is read off the
driver's comments and register use; it is marked external in the map.

*CSI interrupt.* `FrameDone(idx)` is the whole of `CSI_TransferHandleIRQ` for
one done flag, including `mt9v03x_finished_callback`, which it calls between
queueing the frame and rearming the register; `SkipFrames` is the branch for
two flags. A handler is one step: nothing preempts it but the DMA, which works
on what was latched before.

*Main loop.* The program counter `pc` stands for the points where an interrupt
makes a difference: the flag test (`SeeFlag`), the evaluation of
`mt9v03x_image` (`LoadPointer`), each line of memcpy (`CopyLine`), and the
clearing of the flag after the processing (`FinishImage`). Main takes no step
while an enabled interrupt is pending, since there is one core.

*Polling application* (`CsiTransfer`). `csi_get_full_buffer`,
`csi_add_empty_buffer`, `csi_start` and `csi_stop` in any legal order: the
application submits only buffers in its hands. Calls are split where the
critical section begins, between the store and the count of an empty buffer,
and where it ends; the emptiness test of `CSI_TransferGetFullBuffer` is a step of
its own, outside the section.

*Fifo.* `FifoCalls` has one action per function and the result codes of each.
`Offset` stands for the head and end offset loops, `Used` keeps the unsigned
wrap of `fifo_used`. The tail read keeps the code's index, below 0 included:
`Outside` is what memory before the array holds. Element widths (8, 16, 32
bits) differ only in the size of the memcpy and are one. `CheckedSpec` is the
caller the code is written for (see the module's header); it does not include
the calls of the two WiFi modules on a wrapped fifo, which `TailSpec` adds.
`FifoPreempt` splits the read at `CleanEnd`, `SizeLoad`, `SizeStore` and
`ReadEnd`, because `fifo->size += *length` is a load and a store.

*Camera configuration.* Main's position is `pc` and `call`: `Start` is
`set_camera_type` and the clear with which an attempt begins, `Send` a command
from the transmit buffer, `Poll` to `Delay` one turn of the `do ... while` that
all calls share, with the read split as in `FifoPreempt`, `Take` what the call
does with the reply, `GiveUp` what it does on a timeout (a failed attempt
installs the empty callback; main shows "mt9v03x reinit." and starts again).
`ByteArrives` is `LPUART5_IRQHandler` with the callback that is installed;
`Replies` and `Loses` are the camera: a command may be carried out or not, and
the reply may be lost, break off, or contain another byte 0xA5. A byte is the
command it answers, its place in the reply and whether it is 0xA5: enough to
tell a command's own reply from any other. The commands of
`mt9v03x_set_config` are one, because only the last is answered, and so are the
two of `mt9v03x_set_reg`. The attempt over SCCB fails (the camera does not
answer there, which is what brings the UART into play), and the limits that
`mt9v03x_set_exposure_time` puts on its argument are left to `Value`. `Late`
names the calls whose reply may come after they gave up; `InTime` is the
assumption that every other reply comes before the last but one poll, and
`Quiet` that the camera is silent again when a new attempt begins, a second
later. A copy of three bytes out of the fifo is one step. `Word` stands for 2 to
the width of `size`; it is taken smaller than 2^32, and no value between is
reached but by the wrap below 0.

*GPS.* A sentence is a kind, a content and the checksum it carries; it is intact
when the checksum is that of its content, and checksums of different contents
are taken to differ. `SentenceEnds` and `SentenceMissed` are the interrupt, with
the line end as the last byte received or not; in the second case what follows
is gathered behind the first sentence and never looked at. `gps_data_parse` is
split where the interrupt makes a difference. Its accesses to state and buffer
are not volatile, so `ReadOrigin` may come before `Mark`. Other stores stay
where they are: PARSING is stored before the call of `func_str_to_hex`, a
function of another file, and RECEIVING is taken not to move up over the calls
that parse. The fields of a fix are their first and their last, each taken
from the buffer when it is written.

*Detector.* `Base` values stand for the 256 of a byte and the last byte of the
packet for the four of its data; the sum is taken modulo `Base`. With a transport
the bytes come in chunks of any size. With `DETECTOR_CUSTOM` a receive interrupt
writes a byte (`detector_custom_receive_byte`) or `BurstSize` bytes
(`detector_custom_receive`) straight into `detector_fifo`, between any two steps of
the analysis: the loop's test with the start of the read that takes nothing
(`Look`), each byte of its memcpy (`CopyByte`), the decision with the start of the
discard up to the load of `size` (`Decide`), and the store of `size` (`Discard`). An
interrupt between the last two is counted out by the store (`lost`), as in finding 3.
The model has the analysis in the main loop, where the receive interrupt can preempt
it; called from the PIT interrupt, as its comment also allows, it must not preempt
the write of a receive interrupt, which the code leaves to the priorities.

`detector_parameter` has one entry for each `Channel`, and the code stores the data
of a valid packet at `channel - 1` without comparing the channel with
`DETECTOR_SET_PARAMETR_COUNT`. A packet for any other channel is therefore stored
outside the array. What that overwrites is the linker's choice, so the model ends a
behaviour with the store (`outside`): what the properties and theorems say of the
detector holds up to it, and nothing is said of the program after it.

*Frame queue.* `CsiTransfer` maps to `FrameQueue` by reading arrays, indices and
registers as sets: the list below `emptyBufferCnt`, the two registers while a
transfer runs, the queue between its indices, each full buffer with the number
of the frame in it. `SubmitCount`, `GetTake`, `Start` and `Stop` are `Submit`,
`Take`, `Start` and `Stop`; an interrupt is `Deliver`, `Refill` or nothing.

## 3. Runs

| Run | Bounds | Result |
|---|---|---|
| `pipeline_late` | 3 lines, 9 frames, interrupts late by any number of frames | 147,530 states, holds |
| `pipeline_timed` | 3 lines, frames renumbered without end, interrupts within a frame | 2,369 states, holds, liveness included |
| `csi_polled` | 3 buffers, queue of 2, 2 lines, 5 frames, late interrupts | 441,859 states, holds, refinement included |
| `csi_overflow` | 6 buffers for 5 slots | violated: finding |
| `fifo_checked` | capacity 3, lengths 0 to 4, 2 values | 5,700 states, holds |
| `fifo_tail` | same, lengths 1 to 3 | violated: finding |
| `fifo_shared` | capacity 3, lengths 1 to 4, 8 bytes | 61,976 states, holds |
| `fifo_lost_update` | same | violated: finding |
| `gps` | 2 contents, one of them without a fix; any checksum, any order of sentences | 192,850 states, holds, liveness included |
| `detector` | bytes of 2 values, 1 parameter, packets of 5, fifo of 8, bursts of 2, streams of 12 bytes | 2,310,848 states, holds |
| `camera_init` | timeout of 2, fifo of 8, 2 settings, 2 values, 2 calls by the user, late answers to the version command | 136,548 states, holds, liveness included |
| `camera_storm` | same without the user, late answers to the configuration too | violated: finding |

- `pipeline_late` makes no assumption on time. `DriverNeverStarves` and
  `PublishedFrameKept` say that the callback's swap of two buffers is right
  although it returns a buffer that is still active in the other register;
  `ImageNeverGoesBack` that the copy never mixes backwards;
  `MailboxSpec` that every image taken is new and the newest. In this run a copy
  *can* mix two frames: the DMA overtakes memcpy.
- `pipeline_timed` adds the assumption `BlankingCoversCopy`: no frame begins
  between a done interrupt and the end of the memcpy that follows it. Then
  `CopiedFrameIsWhole` holds, as main's comment wants ("save the image
  elsewhere, so that no read and write conflict arises"). The size of a frame
  (188 x 120 bytes, 50 frames a second by `MT9V03X_FPS_DEF`) against the speed
  of a 600 MHz core makes it plausible; the code does not enforce it.
  `CameraKeepsServed` is the liveness property.
- `csi_polled` covers what the demo program does not use but the driver offers:
  one buffer may be active twice, the empty list may be dry, the queue of full
  buffers may be full, transfers may be stopped and started again.
  `FrameQueueSpec` says that all of it together is the frame queue. With no more buffers than the arrays have
  slots, a full queue and two active buffers cannot meet: frames are dropped for
  want of a second active buffer, never for want of room, and no property shows
  that the interrupt's test for room works. The run's symmetry in
  the buffers is sound for it: it is a safety property that treats them alike.
- `fifo_checked` covers every state of a fifo of three elements; the run
  evaluates the refinement of `FifoQueue` on each call.
- `fifo_shared` shows that the lost update of `fifo_lost_update` is
  one-sided: a byte may be forgotten, but none is invented.
- `gps` shows that the states do their work without a lock: nothing but a whole,
  checked sentence reaches the fix (`ExtractsChecked`, `InfoIsOneSentence`), and
  although the parser overwrites the state the interrupt has just set, and
  leaves a sentence with a wrong checksum behind, no buffer is blocked for good
  (`WaitingIsParsed`, `NeverStuckParsing`). `WaitingIsParsed` is about
  sentences that wait when no call is in progress; one that arrives between the
  test and the last store of a call may be forgotten. So is a sentence that a late
  interrupt finds run together with the one before (`SentenceMissed`): that is what
  the code does, and no property is about it.
- `detector`: `ParametersFollowStream` compares the parameters with those of the
  packets found in the whole stream at once (`PacketStarts`), for every stream,
  every division into chunks and every place where an interrupt preempts the
  analysis, until a count is lost or a packet is stored outside the array: after
  the first the parser no longer sees a byte that is there, after the second
  anything may have been overwritten, and the property says so in its premise.
  `SmallChunkFits` bounds the chunk that cannot be lost.
- `camera_init`: an attempt succeeds only on this attempt's acknowledgement
  (`InitMeansConfigured`), replies are matched with their commands as long as no
  call gave up on one that was still to come (`AnswerIsOwn`), success reported
  is a setting made (`SuccessMeansSet`, under the same condition), and once the
  camera answers in time
  the initialisation succeeds (`InitSucceedsOnceHealthy`). A late answer to the
  version command does no harm, because a call that times out on it goes on with
  the callback in place; so `InitIsRetried` holds here, and it fails in
  `camera_storm`, where the answer to the configuration may be late. Of replies that
  come after their call gave up, and of a fifo cleared in the middle of a read,
  `AnswerIsOwn` and `SuccessMeansSet` say nothing: there it is `InitMeansConfigured`
  that shows the harm is bounded, and, for the clear, `InitSucceedsOnceHealthy`.

*Why the bounds are enough.* Two lines are the least that let a copy or a DMA
transfer be half done, three let both be at different places. The driver's
behaviour depends on two registers, on the numbers 0, 1, 2 of active buffers
and on empty or full queues: three buffers with a queue of two reach all of
them, and five frames wrap the queue's three slots. Nine frames let main miss
several frames during one copy and two interrupts be late. A fifo of three
elements wraps at every position; length 4 is one more than it holds; eight
bytes take the indices around twice with a read preempted in between. Two
contents let a buffer be replaced by another sentence and a checksum be wrong;
the GPS model needs no bound on time. Twelve bytes are two packets with two
bytes around them, or a packet behind false heads, in a fifo that wraps; with
two values a head is found at every place, and of the two one is a channel that has
a parameter and one is a channel that has none. A burst of two bytes is the least
that differs from single bytes. A timeout of two has polls before
the last, and the last one, whose reply is no longer counted; the fifo of eight
wraps under replies of three bytes. Every bound is a constant: `MaxFrame`,
`MaxBytes`, `BurstSize`, `MaxUser`, `Lines`, `Max`, `Lengths`. Where a bound stops the model
the cfg sets `CHECK_DEADLOCK FALSE` (`PipelineLate`, `CsiPolled`, `Detector`, whose
behaviours also end with a store outside `detector_parameter`, and `CameraInit`,
where main has made all its calls and the camera is silent).

*Fairness* (`MCFramePipeline`). Weak for the camera, which keeps sending, and
for a pending interrupt, which the hardware takes. Strong for the main loop:
interrupts disable it again and again, but each returns, and the processor then
runs the main loop until the next. `Renumber` subtracts `Shift` from every frame
number at the bound, so that the camera has no last frame; no guard but the
bound looks at a number.

`GpsReceiver`: weak for main, whose loop calls the parser whenever the flag is
set and waits for nothing in it, and weak for an interrupt that finds the line
end as the last byte, since the receiver sends a burst every period and pauses
after it. Nothing is assumed about which sentence that is or whether it is
intact. `CameraConfig`: weak for main, for bytes on the wire, and for the camera,
which answers a command or loses it. Main's steps are disabled for good only by
the interrupt that never ends; that the camera becomes healthy is not assumed
but the premise of `InitSucceedsOnceHealthy`.

## 4. Findings

1. `csi_overflow`: `CSI_TransferSubmitEmptyBuffer` never refuses a buffer; its
   comment promises `kStatus_CSI_QueueFull`. The demo submits two and is not
   affected.
2. `fifo_tail`: `fifo_read_tail_buffer` reads before the array when the newest
   elements wrap. The WiFi modules wait for answers with it.
3. `fifo_lost_update`: a receive interrupt inside `fifo->size += *length` makes
   `size` exceed the room left, until the fifo is cleared. A fifo that is full but
   for the error then accepts a byte that overwrites an unread one.
4. `camera_storm`: after a failed attempt `mt9v03x_init` installs the empty
   callback and leaves the receive interrupt of the UART enabled
   (`zf_device_mt9v03x.c:449`, `zf_device_type.c:78`). `LPUART5_IRQHandler` does
   not read the byte itself (`isr.c:166`), so an answer that comes then keeps the
   interrupt pending, and the retry main announces never begins.

One more weakness was met that no run violates a property for, since no document
says which channels may come: `detector_data_analysis` stores the data of a valid
packet for channel 0, or for one above `DETECTOR_SET_PARAMETR_COUNT`, outside
`detector_parameter` (`zf_device_detector.c:557`, `zf_device_detector.h:49`). It is
among the hazards, and the model ends where it happens.

## 5. Proofs

All theorems hold for every value of the constants that satisfies the named
ASSUMEs of the modules (`QueueAssumption`, `BufferAssumption`,
`ControllerAssumption`, `PipelineAssumption`, `FifoAssumption`,
`LengthsAssumption`, `PreemptAssumption`, `GpsAssumption`,
`CameraAssumption`, `DetectorAssumption`): any queue size, number of lines,
capacity, set of lengths, timeout, packet size, byte stream or set of sentence
contents. The hypotheses beyond them are
`BlankingCoversCopy` in `CopyIsWhole` and `BuffersFit` in the theorems about
`CsiTransfer`.

*`FramePipeline_proofs`.* `TypeOK` is not inductive: that an index stays in its
array depends on how many buffers the driver holds. The invariant is

    IInv == TypeOK /\ HandleInv /\ ControllerInv /\ ImageInv

`HandleInv`: between interrupts two buffers are active, nothing is queued and
no buffer is in reserve, and both registers hold a frame buffer. It is kept
because the callback takes the one queued frame and submits the other buffer,
which the handler then puts into the register at once. `ControllerInv`: the frame
under way goes into the buffer its register still names, the lines the DMA has
written carry its number and none in memory carries a later one; a single done
flag belongs to the register the DMA does not use, and no line of that
register's buffer is older than the completed frame. `ImageInv`: `taken <=
published <= completed`, an image that waits to be copied is newer than every
line of the copy, and during the copy no line of the copy is newer than its
source. From it follow `TypeCorrect`, `NeverStarves`,
`PublishedKept`, the action property `NeverGoesBack` and the refinement
`ImplementsMailbox` (initial states map to initial states, every step to a step
or a stutter of `FrameMailbox`). `CopyIsWhole` needs the assumption
`BlankingCoversCopy` and a further invariant, `BlankingInv`: while a copy may be
under way no frame is, no done flag is set, the published buffer is whole and
the lines copied so far equal its lines. TLC checked `IInv` on the instance of
`pipeline_late` before the proof.

*`FifoCalls_proofs`.* `CallsInv` joins the type, `IndicesAgree` and the fact
that no call returns with `FIFO_CLEAR` or `FIFO_WRITE` set; it gives
`CallsTypeCorrect` and `IndicesAlwaysAgree`. `ImplementsQueue` is the refinement
of `FifoQueue`, the queue being what lies between `end` and `head`: one lemma for
each operation on the contents (`WriteAppends`, whose two `memcpy` of a write that
wraps put every byte where a read that wraps will look for it; `FrontIsOldest`,
`TailIsNewest`, `CleanRemovesOldest`), then one for each call
(`WriteIsQueue`, `ReadElementIsQueue` and so on). Two sequences are equal when
they have one length and the same elements, so no induction over the contents
is needed; that the writes reach exactly the free slots is arithmetic on
distances in the ring (`DistanceWalked`). A careful caller is one that does not
wrap when it reads the tail, does not read an element from an empty fifo and does
not discard more than there is; `fifo_tail` shows the first is needed.

*`FifoPreempt_proofs`.* `PreemptInv` bounds, at each point of the read, the
length to be given back by the room missing (`length <= Max - size`, and for the
loaded copy `room`), and, once the copy is loaded, the bytes that copy announces
(`Max - room`) by those unread. It gives
`PreemptTypeCorrect` and `NeverInvents`.

*`CsiTransfer_proofs`.* Every theorem has the hypothesis

    BuffersFit == IsFiniteSet(Buffer) /\
                  Cardinality(Buffer) <= CSI_DRIVER_ACTUAL_QUEUE_SIZE

It is a hypothesis and no ASSUME of the module, because the code does not enforce
it: `csi_overflow` is what happens without it. The invariant is

    IInv == TypeOK /\ PhaseInv /\ PlacesInv /\ FrameInv /\ QueueInv

`PhaseInv` ties the interrupt enable to the transfer and says what a call in
progress relies on: the buffer it submits is still its own, the full buffer it
found is still there. `PlacesInv`: no buffer is twice in the list or in the queue,
the registers name one active buffer or two as `activeBufferNum` says, and the
four places share no buffer and make up all of them. `FrameInv` is the state of
the DMA, with the buffer that waits for its interrupt whole unless both registers
name it. `QueueInv` orders the frames: taken, queued, waiting. That a store into
the list is in range needs a count (`EmptyHasRoom`: distinct buffers in the list,
one buffer elsewhere, so fewer than the slots), which is where `BuffersFit`
enters. From it follow `TypeCorrect`, `DmaStaysOut`, `FramesInOrder`,
`NoBufferIsLost` (with the cardinalities of the four places) and
`ImplementsFrameQueue`: initial states map to initial states and each of the
twelve actions to a step of `FrameQueue` or a stutter.

*`CameraConfig_proofs`.* The invariant is

    IInv == TypeOK /\ FifoType /\ CallInv /\ FreshInv /\ InitMeansConfigured

`FreshInv`: wherever a byte of an acknowledgement is (on the
wire, in any slot of the fifo, read or not, or in `uart_buffer`), it is this
attempt's and the camera has carried the configuration out. It has to speak of
every slot, not of those between the indices, because a clear in the middle of a
read makes `size` pass `max` and lets the fifo announce old bytes; and it holds
from attempt to attempt because `Start` clears the fifo while the camera is
silent. It gives `TypeCorrect` and `AcknowledgementIsFresh`.

A second invariant follows the bytes of one reply, as long as no call has given
up on a reply still to come (`~overtaken`):

    OwnInv == UserInv /\ (~overtaken => OwnSteps) /\ SuccessMeansSet

`OwnSteps` says for each step of main where the reply to the command just sent is:
not asked for, the camera silent and fewer than three bytes in the fifo
(`Over`); still owed (`Awaited`); wholly under way (`Begins`); or received up to
byte `p`, with the fifo holding nothing but its bytes up to `p` and the wire its
bytes from `p + 1` on (`Arrived(p)`). Old bytes cannot make up three with
new ones, since the first new byte is a head byte and clears the fifo; a data byte
0xA5 clears it once more, and then the reply stays too short to be read. When
three bytes are there, nothing is under way, so the interrupt cannot clear the
fifo in the middle of that read, which gives `fifo.size = Size` at its end. From
it follow `AnswersAreOwn` and, as the camera has carried out a command before it
replies and a call that times out returns 1 (`timeout_count` has passed the limit
by then, part of `UserInv`), `SuccessIsReal`. TLC checked `OwnInv` on the
instance of `camera_init` before the proof.

*`Detector_proofs`.* The invariant is

    DetectorInv == BytesInv /\ StepInv /\ (~lost => StreamInv)

`BytesInv` bounds the bytes on their way and says that with a transport less than a
packet is left when the analysis is over. `StepInv` is what each step of the analysis relies on
after an interrupt: a packet that was there still is, and `size` is at most what was
loaded, so that the size stored stays in range. `StreamInv` has three parts.
`Holds(Settled(fifo, read_length), accepted)`: the fifo, with the discard under way
brought to its end (`Settled`), is the end of the stream of all bytes accepted,
wherever it has wrapped. `Parsed(accepted, Taken, parameter)`: no packet of the
stream reaches across the point the parser has come to, every position before it was
decided on with a whole packet's length at hand, and each parameter is the data of the
last packet for its channel. And the bytes copied so far are the stream's next ones.
A lost count ends `StreamInv` but not the rest, which is why `DetectorTypeCorrect` holds
for preempted analyses too. All three theorems are about behaviours that end with a
store outside the array. The reference,
`PacketStarts`, is a recursive function over the stream, and two facts about
it need induction: that it exists (`StartSetExists`) and that what it says
of a position does not change as the stream grows (`StartsGrow`). The induction
theorems of the library cannot be used here, but a least counterexample can:
`LeastNumber`, from `WFMin` and `NatLessThanWellFounded`, gives every non-empty
set of numbers its least element, and the set is that of the counterexamples. From
the invariant follow `DetectorTypeCorrect`, `ParametersAlwaysFollow` and, since
between two chunks the fifo holds less than a packet, `SmallChunksFit`. TLC
checked `DetectorInv` on the instance of `detector` before the proof.

*`GpsReceiver_proofs`.* `IInv == TypeOK /\ StateInv /\ ExtractInv`. `StateInv`: the
state of the buffer at hand is RECEIVED before and PARSING during the parsing,
and a buffer that is not RECEIVING holds a sentence; so the interrupt keeps out
of it. `ExtractInv`: the checksum read and the
fields written so far agree with that buffer. It gives `TypeCorrect`,
`AlwaysExtractsChecked` and `InfoAlwaysOneSentence`.

*Only model-checked.* Liveness and anything with ENABLED: `CameraKeepsServed`,
`WaitingIsParsed`, `NeverStuckParsing`, `InitSucceedsOnceHealthy` and
`InitIsRetried`. Every invariant, action property and refinement of the passing
runs is also a theorem.

## 6. Not modelled

The notes in `PROJECT.json` give the reason for each component. In short:

- register configuration and other pure I/O: displays, sensors, bit-banged I2C,
  the wrappers in `zf_driver`;
- numerical work: the PID of the motors (floating point, in one interrupt handler
  that shares only displayed values), Otsu threshold, border search, the GPS
  distance and azimuth;
- the SPI WiFi module: its handshake interrupt and the main loop share the bus,
  but when the interrupt comes is decided by firmware the repository does not
  hold, and a model of it would be invented; the AT commands are string work;
- wireless sending, the keys and the flash page: sequential code whose state does
  not outlive the call, is not started by the program, or is never written by it;
- the other camera drivers, which the program does not use; `ov7725` and `scc8660`
  swap buffers as `FramePipeline` does;
- third-party code (SDK, CMSIS, USB, FatFs, SD/MMC) other than the CSI driver.

The map covers a small share of the repository's lines for that last reason: by
far the most of them are vendor headers, tables and drivers.

Compiler reordering is modelled where it matters (`GpsReceiver`) and not in the
pipeline, whose flag is volatile; neither is the cache, since the frame buffers
lie in tightly coupled memory (`AT_DTCM_SECTION_ALIGN`).

## 7. State of the plan

Done, in this order: the CSI driver, the image pipeline, the ring buffer; the
polling application with its proofs; `GpsReceiver`, `Detector` and
`CameraConfig`; the refinements of `FrameQueue` and `FifoQueue`; the proofs about
`Detector` and about the replies in `CameraConfig`. What would come next, and what
it waits for:

1. The SPI WiFi module, when a description of its handshake is at hand.
2. Sending in `Detector` and the wireless modules, if a program comes to depend on
   what remains after a timeout; the flash page, if a program writes it.
3. The motor control in fixed-point numbers, if the integrator comes into use
   (`speed_KI` is 0 in the demo).
