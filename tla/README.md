# A TLA+ model of the CCD clock simulator and its drivers

The repository holds an FPGA design and the software that reads it. An FPGA
plays the clock waveform of a CCD over a serial link (`clocksim.vhdl`); a second
one takes the words off the link into a FIFO behind a Wishbone bus; an ARM
processor running Linux reads the FIFO, by polling from user space or by an
interrupt handler in a driver, with a demultiplexer for the interrupts of the
FPGA. Beside it is the design it was made from, a button and an LED on the same
bus with drivers and small programs of their own. The modules here model the
path from the waveform to the reader, and the life of the drivers from `insmod`
to `rmmod` with their users.

Paths without another prefix are below `src/wishbone_CCD_simulator/`; `example/`
stands for `src/wishbone_example/`.

## The parts and their state

| Part | State | Operations | What makes it correct |
|---|---|---|---|
| `vhdl/clocksim.vhdl`, `state_proc` | a stack of modes, its index, a parameter, return points, loop counters, the outputs | one branch per mode, one step per SCLK period | the stack never overflows; every counter belongs to a call; the outputs follow the nested loops of `test/clocksim.c`; it never stops |
| `vhdl/clocksim.vhdl`, `sclocker`, `strober`, `A_and_B` | SCLK, STROBE, a bit index, a counter | one step per edge of SCLK | the receiver can tell where a word ends |
| `vhdl/sclk_data_acq.vhdl`, `data_bridge.vhdl` | the last levels seen, two shift registers, a write pulse | one step per clock | each word is taken whole and once |
| `vhdl/fifo.vhdl` | memory, two pointers, a counter, empty, full, wr_ack | read, write, both, none, reset | it is a bounded queue; flags and counter agree with the pointers |
| `vhdl/wb_fifo.vhdl`, `intercon.vhdl`, `wishbone_wrapper.vhdl` | the read value, the read enable, the interrupt pulse | one step per clock | a read takes one word, and no other read takes any |
| `user/sxi_clocks_mmio.c` | the place in the program, the words read | poll the count, read a word | every word once, in order; it goes on reading |
| `modules/sxi_sim_driver.c` | a circular buffer with head, tail and an overflow counter | `read`, `write`, the handler; probe, remove | no word lost uncounted; a blocked reader is woken; a failed probe leaves nothing |
| `vhdl/irq_mngr.vhdl` | edge detector, pending, mask and acknowledge words | latch, read, write | a request is held until acknowledged |
| `modules/irq_mngr.c`, `example/wb_irq_mngr/main.c` | none of their own between calls | probe, remove, suspend, resume, acknowledge, mask, unmask, demultiplex | every request gets a run of its handler; the mask follows the requests |
| `example/wb_button/gbutton.c`, `button.c` | a flag `read_in_wait`, a semaphore, what the probe took | probe, remove, open, read, release, handler | a change wakes the reader; nothing is reached before it is ready or after it is freed |
| `example/wb_led/g_led.c` | the register of the LED, what the probe took | probe, remove, open, read, write, release | as for the button |
| `board_buttons.c`, `board_leds.c`, `s_led.c`, `sxi_sim_device.c` | whether the device is registered | `insmod`, `rmmod` | the driver is told in either order of loading |
| `example/push-led.c`, `testbutton.c`, `testled.c` | the place in the program, the value read | read the button, write the LED | the LED shows the button |

The parts meet in six ways. The sender and the receiver share three wires and
no clock. The bridge and the reader share the FIFO at one clock edge. The
processor and the slaves share a bus whose accesses last a number of clocks that
the repository does not fix. The handlers and the processes share a buffer, or a
flag and a semaphore, without a lock on one processor. The demultiplexer and
`irq_mngr` share the pending word, which one side sets and the other clears. The
driver core calls probe and remove between whatever users hold open.

What is hard: two actors in one clock (`fifo.vhdl:61`), a registered read that
takes effect an edge later (`wb_fifo.vhdl:90`), a counter that wraps
(`fifo.vhdl:86`), shared counters used as locals (`clocksim.vhdl`), a handler
between any two steps of a process (`sxi_sim_driver.c`, `gbutton.c`), a check of
a status and an action on it (`irq_mngr.c:86`), lines that are seen a clock
apart, a pulse that comes once (`wb_fifo.vhdl:74`), a probe that fails half-way
with users already inside (`gbutton.c:240-255`). The list with its lines is under
"hazards" in `PROJECT.json`.

## The modules

| Module | Models | Composes |
|---|---|---|
| `BoundedQueue` | what a FIFO of a capacity promises, with no memory or flags | |
| `Fifo` | `fifo.vhdl`: `ReadWrite`, `ReadOnly`, `WriteOnly`, `Hold`, `Reset` are the branches of its process | refines `BoundedQueue` |
| `FifoProofs` | theorems about `Fifo` | |
| `Clocksim` | `state_proc`: `Frame`, `Readout`, `Row`, `Down`, `PixelMaybe`, `Pixel` are the branches of its `case` | |
| `Waveform` | the order of output changes that `test/clocksim.c` prints | |
| `ClocksimWaveform` | `Clocksim` with a history variable that says how far the waveform is | refines `Waveform` |
| `ClocksimProofs` | theorems about `Clocksim` and `ClocksimWaveform` | |
| `WbFifo` | the process of `wb_fifo.vhdl` | extends `Fifo` |
| `SxiMmio` | the bus, `data_bridge`'s pulse and `sxi_clocks_mmio.c` | extends `WbFifo` |
| `SxiMmioProofs` | theorems about `SxiMmio` | extends `FifoProofs` |
| `AcqChain` | sender, wires, `sclk_data_acq.vhdl` and `data_bridge.vhdl` | |
| `AcqFifo` | `wb_fifo_chain.vhdl`: the bridge's pulse and register are `wr_en` and `din` of the FIFO | extends `AcqChain`, instantiates `Fifo` |
| `AcqProofs` | theorems about `AcqChain` and `AcqFifo` | instantiates `FifoProofs` |
| `SxiBuffer` | the buffer, `read`, `write` and handler of `sxi_sim_driver.c` | refines `BoundedQueue` |
| `SxiBufferProofs` | theorems about `SxiBuffer` | |
| `IrqPath` | `irq_mngr.vhdl`, the GPIO, the registers and handlers of `irq_mngr.c` | |
| `FifoIrq` | the half-full pulse of `wb_fifo.vhdl` as source 0, with `sxi_interrupt` as its handler, which reads a status and a word in turn | extends `IrqPath` |
| `IrqProofs` | theorems about `IrqPath` and `FifoIrq` | |
| `PlatDriver` | `insmod`, probe, error labels, remove, suspend, resume, open and release of six drivers: `sxi_sim_driver.c`, `gbutton.c`, `g_led.c`, `button.c`, `irq_mngr.c`, `main.c` | |
| `PushLed` | `button_read`, the handlers, `g_led.c`'s read and write, and the programs | extends `PlatDriver`, and is shown to implement it |
| `PlatDriverProofs`, `PushLedProofs` | theorems about `PlatDriver` and `PushLed` | |
| `MCFifo`, `MCSxiMmio` | values of the constants for TLC | |

Operators whose name has an underscore and a few words after the name of
another one (`Inc_noWrap`, `Rmmod_noOwner`) are mutants: what that definition
would be with a plausible mistake. Nothing uses them; they show that a property
depends on the code being as it is.

**How state maps to code.** In the VHDL modules a variable is a register or a
process variable of the same name, and one action is one clock edge of the
process. Wires and ports that only carry a register are not variables. In
`Fifo`, `Clk(rd_en, wr_en, din)` is the rising edge; the counters wrap because
they are `addrdepth` bits wide. In `SxiMmio`, `Edge` is one clock edge of FIFO,
slave and bridge together, each with the values the others had before the edge.
In the C modules an action is the code between two points where another actor
can interfere: a bus access in `SxiMmio` and `IrqPath`, one look at or one
change of the shared buffer or of its overflow count in `SxiBuffer`, one step of a probe or one release
in `PlatDriver`, one touch of the flag, the semaphore or a register in
`PushLed`. Locals of a call are reset when it returns.

**Probe tables.** The six probes are the same program with other steps, so each
is a sequence of steps: what the step takes, what `result` is when it fails
(assigned by the driver, returned by the call, or left as it was), and the label
control goes to. A remove function is the order in which it releases; the error
part of a probe is that list entered at a label, which is how the code is
written (compare `gbutton.c:253-264` with `267-285`). Actions interpret the
tables: `ProbeTakes`, `ProbeGoesOn`, `ProbeFails`, `Release`, `ErrorReturns`,
`RemoveReturns`. The driver core runs one of these functions at a time; users
open and close in between. In one behaviour one driver is followed (`driver`).

**Data.** Words are numbers in the order they were sent, so that a lost, repeated
or reordered word shows. In `AcqChain` a bit is the pair of its word and its
position. In `IrqPath` a word of 16 bits is the set of the bits that are one. In
`PushLed` the button is the parity of its changes.

**What is outside.** The processor's bus timing (`MaxBeats`: how many clock edges
an access can last; `MinGap`: how many lie between two), the GPIO block, the
kernel's `handle_edge_irq`, driver core, module references and wait queues, and
`circ_buf.h` are modelled from how the code uses them and are marked external in
the map where they are definitions of their own. The variable `latches`, chosen
once, says whether the GPIO bit latches rising edges or follows the line: the
repository does not fix it. `wait_event_interruptible` and `down_interruptible`
test and sleep in one step, which is what the kernel promises.

## The runs

| Run | Shows | Bounds |
|---|---|---|
| `fifo` | flags and counter agree with the pointers and the FIFO is a bounded queue, under every request and reset; a word that is stored is acknowledged, and what `wr_ack` says beyond that is named | 4 words of memory, 3 data words: every occupancy at every pointer position, and a swap of any two words shows |
| `clocksim` | call chains, counters, waveform order, the length of every phase, as the code has it, and progress | 3 downs, 2 rows, 4 pixels instead of 1280 each: every loop goes round more than once and every exit is taken, over several scans |
| `clocksim_readout` | `test/clocksim.c:112`: a readout shifts its rows; from the second scan on it shifts none, because `readout_rows` is never cleared | the same |
| `mmio` | the words read are the words sent, in order; a word is lost only to a full FIFO or to a slow data access; the program goes on reading unless the FIFO is full, and once it polls a full one it does so for ever | 4 words of memory, 6 sent: pointers wrap and the FIFO can fill; accesses of 1 to 3 clocks, at least 1 between two: three are needed for a slow read to empty the FIFO and go on |
| `mmio_full` | `Addressing.txt:31` "representing the current size of the queue": a full FIFO shows 0 and the program polls for ever | the same, accesses of 1 clock |
| `buffer` | a queue up to a put of the writer that the handler interrupts; up to there words lost are counted; a reader asleep over words has somebody who will wake it, and returns | 4 slots, 2 words of the device, 4 of the writer, calls of up to 3 words: the buffer wraps, fills and overflows |
| `buffer_two` | the "mutex" of `sxi_sim_driver.c:65` is never taken: two readers get the same word | 2 readers, 4 words |
| `irq` | the mask follows the requests; a request is cleared only in front of its own handler; each run of the demultiplexer finds work; no edge that is owed a handler is forgotten, and every one is handled; a remove ends; the one pulse of a half full FIFO is always on its way to the handler or the handler still reads, and the FIFO is drained word by word | 2 sources (two are enough for one to come during the other's access), a FIFO of 4 words, accesses of 1 or 2 clocks with 1 between; up to 2 words come during one run of the handler (`Coming`), which fill the FIFO again and raise its pulse amid the reads, and a FIFO that was full raises it a second time; probe, remove and a second probe |
| `acq` | each word of the format is taken whole and once, whichever line comes late; unless the FIFO refused one, the words come out of it in the order sent, whenever it is read; no single word of either sender goes without a write of its own | words are numbered modulo 3, so one out of order shows, and words sent and not yet given to the FIFO are counted (`behind`, up to `MaxBehind` = 2: a count that never falls shows one that was skipped); a line may be seen one clock late; a FIFO of 2 words, which fills, wraps and is read while empty |
| `acq_clocksim` | `test/clocksim.c:35`: `clocksim.vhdl` does not keep that format, and what is taken straddles two words | no skew |
| `device` | whichever step of whichever probe fails, nothing is left and nothing is freed that was not taken; nobody reaches a structure that is not ready; files lose their structure only to the board module or a late failure; a change wakes the reader, and the LED is stale only over a dropped change | six drivers, 2 users (one of push-led, one of testbutton), 3 changes of the button: one to be read, one to be latched behind it and one to come when the flag is down |
| `push_led` | `example/push-led.c:1` "Enable or disable led when button is pressed": a change between two reads is dropped and the program sleeps over it | the button, 1 user, 2 changes |

**Fairness.** `Clocksim` and `AcqChain` assume that their clocks run. In `SxiMmio`
the clock runs, an access of the kernel ends, and the program is scheduled
again and again (strong fairness, as the kernel can hold the bus each time).
In `SxiBuffer` the handler ends and a process that can run again and again does
so (strong fairness, as the handler stops it in between); an interrupt, a
signal, or another call need never come. In `IrqPath` and `FifoIrq` the clock and
the driver run, and an asserted interrupt is taken before a process goes on
(`Process`); nobody need load, request, free or unload. That a handler ends is
assumed in `IrqPath` alone, where it may be any; in `FifoIrq` it follows from what
the handler does and from `Coming`. In `PushLed` a latched
interrupt is delivered (weak fairness), a program calls `read` again (weak, as
both loops do nothing else), and a process that can go on in its read again and
again does (strong, as another reader may take the semaphore each time). No
fairness is asked of the button, of a signal, of the device, of the sender's data,
or of a user who opens.

**What the properties take for granted.** An exception is a history variable that
names the steps that raise it, or a condition; the run shows that nothing
else is needed.

- `AckMeansStored` excepts a write that meets a read on an empty FIFO, which is
  acknowledged and dropped (`fifo.vhdl:61`), and a write that a full FIFO refuses
  right after one it took, which leaves `wr_ack` up (`fifo.vhdl:78-88`). `fifo.vhdl:5`
  says "wr_ack now pulses upon successful write". The history `accepted` says of
  each edge whether it stored a word; without it the refused write would change no
  variable and no property of steps could see it.
- `NothingLost` excepts a full FIFO and a data access of more than one clock.
  Such an access can empty the FIFO and then read the 0 that `dout` shows, which
  `getem` stores: `InOrder` excepts that value after one (`slow`).
  With `MinGap = 0` the count can be read before the word just taken has left,
  and an empty FIFO is read: the gap of one clock is a real requirement on the
  bus.
- The properties of `SxiBuffer` stop at the first put of the writer that the
  handler interrupts (`raced`). There are two such windows in `cb_put`: from the
  test for room to the new head (lines 102-109, `WriteStore`, `WriteAdvance`), where a
  slot is written twice, and inside `overflow += 1` (line 103, `WriteCount`), where the
  writer has read the count (`wover`), the handler counts a word of its own, and one
  of the two is lost. The handler itself is not interrupted by the writer. `ReaderReturns` also excepts a write that faulted,
  which wakes nobody (`sxi_sim_driver.c:169`).
- `EventsHandled` is about edges seen while their source is unmasked: `irq_mngr`
  forgets the others by design. It excepts a request that raised the line of an
  edge-latching GPIO between the last status read and the acknowledge of the
  GPIO (`lost`, `irq_mngr.c:86`). Nothing in `irq_mngr.c` closes that window.
- `MaskFollowsRequests` excepts sources that other drivers had requested when a
  second probe masked everything (`remasked`, `irq_mngr.c:203`): they stay masked.
- `DemuxFindsWork` needs `MinGap >= 1` as well: with no clock between two
  accesses a status read still shows the request just acknowledged, and TLC
  finds a run of the demultiplexer without work.
- `RemoveEnds` is about a remove with no source requested. With one requested,
  an edge between the two steps of remove comes back for ever.
- `HalfFullKnown` and `HalfFullServed` except a pulse that was masked or
  acknowledged for nobody (`missed`): a FIFO that was half full before the driver
  was loaded is never emptied by its interrupt. `HalfFullServed` needs the words to
  come more slowly than the handler reads them, which `Coming` bounds: otherwise
  `sxi_interrupt` has no end. The sender here takes eight periods of SCLK for a word,
  of 202 clocks each (`clocksim.vhdl`), and a turn of the handler is two accesses.
- `FreesWhatItHolds` excepts a binding after a failure that went unnoticed
  (`hollow`): a name that cannot be allocated leaves `result` at 0
  (`gbutton.c:193-196`), `button.c` goes on without a number or a cdev, and resume
  ignores what `pdata->init` returns. `NothingLeft` excepts `main.c`, whose remove
  does not call `pdata->exit`.
- `OnlyBoardPullsFiles` names the two ways in which a structure goes under an
  open file: the board module is unloaded (`leaving = "board"`), or the request of
  the interrupt fails after the device went live.
- `SleeperHasFlag`, `LedStaleOnlyIfMissed` and `ChangeWakesReader` except states
  after two users were in `button_read` at once (`overlap`): the first to leave
  takes the flag down under the other.

## The proofs

TLAPS proves, for every value of the constants that the named assumptions allow:

- `FifoProofs` (any word type, any memory of two words or more):
  `FifoTypeCorrect`, `FifoFlagsCorrect`, `FifoCountCorrect`,
  `FifoImplementsQueue`, `FifoAckMeansStored`. The invariant is the
  conjunction of the type, the flags and the count. The flags are inductive
  only with the type (a pointer in range is needed to compare it after its
  increment), and the count only with the flags, since `Occupancy` reads `full`
  to tell a full memory from an empty one. There is one step per branch of the
  process. For the refinement each branch is shown to append to `Contents`, to
  take its head, to do both, to empty it, or to leave it (`WriteAppends`,
  `ReadTakesHead`, `ReadWriteExchanges`), slot by slot around the memory.
- `SxiMmioProofs` (any size, any number of words, accesses of any length, with
  `MinGap >= 1`): `MmioInOrder`, `MmioNothingLost`, `MmioNoReadOfEmpty`,
  `MmioPulseMeansHalfFull`, on top of the FIFO's invariant and its lemmas. `Bus` says
  who is on the bus and that the read enable is up from the first edge of a data
  access to the first edge after it, which is why a clock between two accesses is
  needed. `Enough` says that the program is about to read, or has seen a count
  that is not 0, only while the FIFO holds a word. `Flow` says that what was taken
  (`Seen`, with the word on its way) and what is still to be taken (`Waiting`) are
  ascending, the one below the other, and together as many as were sent.
  `MmioImplementsFifo`: with the bus, the bridge and the program around it the
  FIFO takes only steps of `Fifo` (`EdgeIsFifos`), so it is still the bounded queue
  (`MmioImplementsQueue`). `MmioFullForEver` is the finding of `mmio_full` for
  every size: no step leads out of polling a full FIFO. `MmioPulseOnRise` says of the
  slave what `FifoIrq` takes its source 0 to be: it is raised at exactly the edges
  at which the number of words stored comes to half the size.
- `SxiBufferProofs` (any size of two words or more, any counts and any number of
  words): `SxiTypeCorrect` for any readers, and for one reader `SxiCopyInside`,
  `SxiNoneLost`, `SxiWriterNeverOverflows`, `SxiWriterYieldsToAwake`,
  `SxiSleeperHasWaker`, `SxiImplementsQueue`. The masks of
  `circ_buf.h` are first shown to be counts around
  the array (`CircIs`). Up to the first interrupted put the invariant says that the
  writer has room and its slot is the head (`Placed`), that the reader's count is
  of words stored (`Counted`) and its copy the first of them (`Copied`), and that
  the words passed are ascending and, with those counted as overflow, all
  (`Ordered`); a writer amid its own count has read the count as it still is. A put into the free slot leaves `Contents` as it is
  (`StoreUnseen`), the new head appends the word (`HeadAppends`), a drop takes
  words off its front (`TailDrops`). `Undisturbed` is about an idle device, and `Awake` says
  that whoever fills the buffer wakes the readers before it leaves;
  `SxiSleeperHasWaker` follows for every step by
  which words come, a reader falls asleep, or a waker leaves. With two
  readers all but the type is false, which is the finding of `buffer_two`.
- `ClocksimProofs` (any frame, readout and row length): `ClocksimTypeCorrect`,
  `ClocksimCallChain`, `ClocksimCounters`. The type is not inductive without the
  call chain: that the index stays below four depends on `ft` being 0 when a row
  is on the stack, which `CallChain` states. The counters need the chain to know
  which calls are on the stack. There is one step per mode.
  `ClocksimPlaysWaveform` is the refinement of `Waveform`. `ProgramIs` says which
  group of signals is at each place of the program, a loop of loops written as one
  sequence. `Where` reads the place the machine has come to off its stack and
  counters: in a frame from `frame_downs`, `down_pixel`, `pm_step` and
  `pixel_step`, in a readout from `readout_rows`, `row_down` and `row_pixels`. All
  frames after the readout are at the same place (`Again`), whose end (`Last`) is
  also its beginning. Each mode then emits the group at that place or leaves the
  signals and the place alone (`FramePlays` to `PixelPlays`). It rests on
  `CallChain` and on the counters of calls not running being clear.
  `ClocksimPhaseCountsDown` says how long a phase lasts. `Left` adds up what every
  call on the stack has still to do; `LeftByChain` reduces it, for each of the call
  chains, to the counters of that chain, and one lemma per mode shows that its
  period takes one away. It is the measure by which the machine never stops in a
  phase: the part of `KeepsScanning` that does not depend on fairness.
- `AcqProofs` (any numbering of the words, lines of equal length or not):
  `AcqTypeCorrect` for both senders, `AcqWordsAligned` and `AcqNoneSkipped` for the
  format. `Lines` says
  that the receiver sees each level before it changes again (`fresh`; the first low
  half of SCLK too, from the serializer, which counts a half period after its reset). `Bits` counts:
  with `bit` on the line, and taken or not (`Untaken`), the register holds that many
  bits of the word behind the last of the word stored; between the rise of the
  strobe and its write (`Strobing`) it holds the whole word, whose place no bit of
  the next has taken. `AcqNoneSkipped` adds that a word is given to the FIFO before
  the next one is over, so no two are ever behind. With the FIFO behind it (any size of two words or
  more, read at any edge) `ChainWordsAligned` carries this over,
  `ChainImplementsQueue` shows that the FIFO of the chain is the one of `FifoProofs`
  (whose theorems are used through `INSTANCE`), and `ChainWordsFollow` is the order
  of the words from wire to bus. Its invariant `InOrder` says that what left the
  FIFO and what is in it are linked, each word to the next (`Linked`), that the
  newest of them is the last word given to the FIFO (`LastIsStored`), so
  that the one that comes in next is its successor, and that the empty register,
  which is written once when the strobe is up out of reset, cannot be written a
  second time (`BlankOnce`). `ClkOnContents` of `FifoProofs` says what an edge does to
  the contents in each case of read and write.
- `IrqProofs` (any number of sources, any `MaxBeats` and `MinGap`, any size of the
  FIFO, both kinds of GPIO; for `IrqPath` alone and with the FIFO):
  `IrqTypeCorrect`, `IrqMaskFollowsRequests`, `IrqClearedBeforeHandler`,
  `IrqNoneForgotten`, `FifoIrqTypeCorrect`, `FifoIrqHalfFullKnown`, and, for
  `MinGap >= 1`, `IrqDemuxFindsWork`. The invariant
  `IInv` says which function of the driver is where (`Callers`), what its access
  has read or written once an edge has seen it (`OnBus`), what the mask register
  holds apart from the bit being changed (`Masks`), and that an acknowledge lives
  from its write to the first edge after it and is that of the source at hand
  (`Acks`). Without `Masks` the read and the write back of `unmask` could be of
  different words; without `Acks` the latch could clear a source whose handler is
  not next. `Raised` adds that the line of the GPIO is up only over a pending
  request, except from an acknowledge to the end of `imx_fpga_ack_irq`; this is
  where the clock between two accesses is used. `IrqNoneForgotten` adds that an
  owed edge is pending or under its own acknowledge (`OwedPends`), and that the line
  of the GPIO is up while anything is owed (`LineUp`). `FifoIrqHalfFullKnown` (any
  size and any `Coming`) follows the pulse through the edge detector, the latch, the
  demultiplexer and the reads of the handler (`OnItsWay`, `Draining`). The hard steps
  are a pulse in the clock of an acknowledge of its own source, and the status that
  ends the handler: the FIFO was empty at the last edge that the read saw, so it
  comes to half its size only by an edge that raises the pulse again.
  `Running` ties the reads to the handler, and so to what the bus carries.
  `Separate` says that no source is up for two clocks, so the detector sees it. That
  a step of `FifoIrq` is one of `IrqPath` carries everything over.
- `PlatDriverProofs` (any set of the six drivers, any users): `PlatTypeCorrect`,
  `PlatNothingLeft`, `PlatFreesWhatItHolds`, `PlatLiveMeansReady`,
  `PlatBoardPullsFiles`. `TableOK` is computed for each driver (`AllTables`): the
  label of a step covers what the steps before it took and no more, that the
  structure and the semaphore come before cdev and interrupt, and that the remove
  releases in the opposite order; the rest of the proof uses only that. The
  invariant says that the driver holds no more than what the labels or the remove
  to come give back (`Covered`), no less unless a failure was ignored (`Owned`),
  that cdev and interrupt find what they need at every step (`Ready`), what is
  bound in which function (`Bindings`), and that the driver's module leaves only
  with every file closed (`Leaving`).
- `PushLedProofs` (any users and writers, any number of changes):
  `PushLedImplementsPlatDriver` (`PLSpec => Spec` of `PlatDriver`: every step is one
  of the driver core, an open, a close, or none), `PushLedTypeCorrect`,
  `PushLedSleeperHasFlag`, `PushLedStaleOnlyIfMissed`. On top of `PlatDriver`'s
  invariant: an open file has its structure (`Files`), each up of the semaphore and
  the latch stand for a change of their own (`Latched`, why the semaphore is
  bounded), a place in a read belongs to one open file (`Places`), and when no change
  was dropped either one is on its way or whoever is past the read carries the
  value of the button to the LED (`Shown`).

Every invariant, action property and refinement that a run checks is proved.
Type correctness is proved for every component and checked by no run of its own.

Model-checked only. Liveness is out of the prover's reach. For six of the eight
properties the half that no fairness helps with is proved: the state from which
the awaited step is still to come is never lost.

| Liveness, by TLC | Its safety half, proved |
|---|---|
| `KeepsScanning` | `PhaseCountsDown` |
| `ReaderReturns` | `SleeperHasWaker` |
| `EventsHandled` | `NoneForgotten` |
| `HalfFullServed` | `HalfFullKnown` |
| `ChangeWakesReader` | `SleeperHasFlag` |
| `EveryWordGiven`, for the format | `AcqNoneSkipped` |
| `ReadUnlessFull`, `RemoveEnds` | |

The findings are counterexamples and need no proof.

## Disagreements without a run of their own

Five are shown by runs (`clocksim_readout`, `mmio_full`, `buffer_two`,
`acq_clocksim`, `push_led`). These others were met on the way and are excepted or
stated in the properties named.

- `wr_ack` does not pulse upon successful write only, as `fifo.vhdl:5` says: it
  stays up over a refused write and comes up for a dropped one (`AckMeansStored`).
  Nothing in the repository reads it.
- `clocksim.vhdl` does not keep the durations of `test/clocksim.c`. In calls of
  `step()` a pixel is 9, `pixel_maybe` is 9 with or without a pixel, `down` is 18 and a
  row 18 + 9 for each pixel. In periods of SCLK a pixel with its call is 9 as well,
  but a `DOWN` of a frame is 24 and a row 22 + 9 for each pixel, as calls and returns
  take periods of their own (`CallsDown`, `CallsRow`). `PhaseCountsDown` is about the
  code's lengths, written as the program's with that difference, and is no evidence
  that the two agree.
- A `step()` sends the eight bits of one state, in eight periods of SCLK.
  `state_proc` goes on at every period, so what `clocksim.vhdl` plays is about eight
  times as fast, and the eight slots between two strobes carry bits of eight
  moments and not a snapshot of one state. `Waveform` compares the order of changes,
  with no time; in `AcqChain` a bit is a slot of the line, whatever state it is of.
- The second pulse that `wb_fifo.vhdl` raises when a full FIFO is read
  (`wb_fifo.vhdl:50,74`) costs a run of the handler that may find nothing.
  `FifoIrq` has it.

## Not modelled, and why

- `rstgen_syscon.vhdl`: three states; modules start after its reset.
- `src/mask`: an image filter of its own, see the plan.
- `user/sxi_clocks.c`: one call of `read` and a print loop; its caller is the
  reader of `SxiBuffer`. Its comment that the driver reads all the data asked for
  is not what `sxi_read` does, which returns what is there.
- The register offsets of the driver (status at 2, FIFO at 4,
  `modules/sxi_driver_sim.h:80-82`) are not those of the FPGA, whose `wb_fifo` has
  the word at its third register and answers 0xBAD2 at the fourth
  (`Addressing.txt`, `wb_fifo.vhdl:80-99`); `modules/README` says these modules are
  deprecated. `SxiBuffer` models the driver over the device it was written for.
  `FifoIrq` puts that device's status bit (there is a word) beside the word and the
  pulse of `wb_fifo`: of the two accesses of each turn of the loop, one sees the
  status at an edge, and one sets the read enable, by which the word leaves an edge
  later. On the FPGA there is no such status to read, so the handler would not
  work as it stands.
- `sxi_clocks_mmio.c:94` compares two constants instead of the word read, so
  `main` always exits; `SxiMmio` models it so (`CheckID`) and models `getem`
  from its call as well.
- The probe of `irq_mngr.c` reads the ID at offset 4 where the FPGA has it at 6,
  and logs a warning.
- In `PlatDriver`: a failing `platform_driver_register`, `strncpy`'s check, which
  cannot fail, and the region of memory that `free_all` releases unrequested have no
  effect on the rest. After `button.c`'s error label follows a null pointer the
  machine is started again. The use of a freed structure is undefined; the process
  that is left on one can only be killed.
- In `PushLed`: `lseek` offsets and counts of `read` have no effect on control (a
  read returns one value); `testled.c` is any sequence of accesses to the LED, with
  any values; the other device of `push-led.c` stays loaded, though it may fail to
  open; the latch of the interrupt is one bit (`pend`), whose detail is `IrqPath`.
- `example/wb_irq_mngr/test.c` prints a line per interrupt and frees it with another
  cookie than it requested it with; what the kernel does then is outside.
- `c_vhdl` (a third-party library), the hello-world module, `blink`, the example's
  bus, test benches, scripts and build files: no state of this system.

## Plan

1. Done: FIFO, waveform machine, bus and user reader, driver buffer, interrupt
   path, serial link; theorems about the FIFO and the waveform machine.
2. Done: the FIFO's pulse with the interrupt path; mask, free, remove and a second
   probe of the interrupt driver; probe and remove of every driver with each step
   failing; the button and LED drivers with their programs; theorems about the
   interrupt path, the drivers and the button; proofs of the FIFO as a queue, of
   the order of words in `SxiMmio`, of `SxiBuffer` with one reader, of the
   alignment of the serial link, and of the waveform machine as the nested loops.
3. Done: the serial link together with the FIFO, proved from wire to bus; theorems
   about every safety property of every run; the safety halves of five liveness
   properties.
4. Extend: the mask `src/mask/mask.vhdl` against a reference definition.
