# Verification of the S3C2440 (mini2440) platform support

The repository is a Linux 3.9 tree (`src/linux-3.9_g_rework/`) with notes
(`src/dev_docs/`) for running the kernel on the FriendlyARM mini2440 board. Almost
all of it is the upstream kernel. What this project specifies is the code that makes
the tree a *mini2440* kernel: the Samsung S3C24XX platform code and the drivers the
board configuration (`gs3c2440_defconfig`, `mach-mini2440.c`) builds. Paths below are
relative to `src/linux-3.9_g_rework/`.

The configuration fixes the execution model that every module uses: one ARM920T core
(no SMP), `CONFIG_PREEMPT=y`, `HZ=200`. On a uniprocessor a critical section with
interrupts off is one step, an interrupt handler is one step, a softirq is preempted
only by interrupts, and a task by everything.

## 1. Inventory

| Component | State | Operations | Talks to |
|---|---|---|---|
| ADC core `plat-samsung/adc.c` | `cur`, `ts_pend`, the `adc_pending` list, per client `nr_samples`, `result`, `convert_cb` | start, read (with a timeout), interrupt, register, release, suspend, resume | callbacks into its clients; wakes readers |
| Touchscreen `s3c2410_ts.c` | `pen_is_down`, `count`, sums, `touch_timer`, the ADCTSC mode | pen interrupt, timer softirq, select and conversion callbacks, suspend, resume, remove | ADC core in both directions |
| hwmon `s3c-hwmon.c` | one ADC client | sysfs reads, release | ADC core |
| DMA channel `mach-s3c24xx/dma.c` | chain `curr..end`, `next`, `state`, `load_state`, channel registers | enqueue, start, started, stop, flush, interrupt with client callback, suspend, resume | clients through callbacks; two-stage hardware |
| DMA allocation `mach-s3c24xx/dma.c`, `plat-samsung/dma.c`, `s3c-dma-ops.c`, `dma-s3c2440.c` | `in_use`, `client`, `irq_claimed`, `s3c_dma_chan_map`, `dma_list` | request, free, lookup, flush's stop | SD host, sound |
| I2C master `i2c-s3c2410.c` | `state`, `msg`, `msg_idx`, `msg_ptr`, the controller | xfer (retries, timeout), interrupt, suspend, resume | I2C core; slaves |
| SD host `s3cmci.c` | `complete_what`, `pio_active`, `dma_complete`, current request | request, interrupt, tasklet, PIO, DMA callback, card detect | MMC core, DMA |
| Interrupt controller `mach-s3c24xx/irq.c` | masks of parents and children, pending bits | demux, mask, unmask, ack, wake | every driver |
| Sound `sound/soc/samsung/dma.c`, `s3c24xx-i2s.c` | ring position, period, loaded count | hw_params, trigger, pointer, period callback | DMA, ALSA |
| Watchdog `s3c2410_wdt.c` | count, prescaler, open bit | start, stop, keepalive, heartbeat, cpufreq notifier | clocks |
| Serial `samsung.c`, SPI `spi-s3c24xx.c`, NAND `s3c2410.c`, UDC `s3c2410_udc.c`, clocks, cpufreq, PM, RTC, timers, framebuffer, OHCI glue, tables | see `PROJECT.json` | | |

### What is hard

* The converter, the DMA hardware and the I2C controller each interrupt a driver that
  also runs from tasks, timers and other interrupts, on shared fields.
* The DMA hardware has a *running* and a *next* slot, and the driver deduces from a
  count of interrupts which buffer is in which.
* Reads and transfers time out while the hardware, or another driver's queue, still
  refers to them.
* Suspend loses registers under a request in progress; release, free and remove race
  with completions.
* The order in which the DMA driver does two things (queue, start) is under the
  control of a peripheral that may be slow.
* An SD request is finished by whichever of response, data and PIO comes last, counted
  by an interrupt and acted on by a tasklet that softirq may delay.
* Sub-interrupts share a parent whose mask, pending and acknowledge bits are changed for
  each of them.
* The sound callback may find its stream stopped by ALSA in the middle of its work.

### What makes a component correct

* ADC: no lost request, no client linked twice or after its release, a reader gets its
  own channel, in order, and is woken only while it waits.
* Touchscreen: one activity at a time, exactly one set of samples per report, the panel
  mode untouched during a conversion, a lifted pen is reported, readers do not starve.
* DMA: what is reported done was moved once, what is flushed is not being written, a
  channel with work does not stop, a held channel is exclusive, and usable.
* I2C: success is reported exactly if the messages were on the bus as asked; a call
  always returns; nothing is stored outside a buffer or through a stale pointer.
* SD host: every request completes, once, with the result the bus saw, and nothing late
  acts on the next one.
* Interrupt controller: a request is not lost between the demultiplexer's reading, the
  acknowledges and the masks, and one that is enabled is handled.
* Sound: a running stream has a full ring and keeps reporting periods; a released channel
  is idle.

`PROJECT.json` lists the hazards line by line, with the properties that cover them.

## 2. Modules and their correspondence to the code

| Module | Models | EXTENDS |
|---|---|---|
| `S3CAdc` | ADC core, with hwmon-like readers | |
| `S3CTouch` | touchscreen driver composed with the core | `S3CAdc` |
| `S3CDma` | one DMA channel, its hardware and its client | |
| `S3CDmaQueue` | what a DMA channel promises (abstract) | |
| `S3CSound` | the sound ring on the promised channel | `S3CDmaQueue` |
| `S3CDmaMap` | allocation of channels to drivers | |
| `S3CI2c` | I2C master, controller and slave | |
| `S3CMci` | SD host with PIO, controller and card | |
| `S3CIrq` | one parent interrupt and its sub-interrupts | |
| `S3CAdcProofs`, `S3CDmaProofs`, `S3CDmaMapProofs`, `S3CI2cProofs`, `S3CMciProofs`, `S3CIrqProofs`, `S3CSoundProofs` | theorems | the module they are about |
| `S3CTouchProofs` | theorems | `S3CTouch`, `S3CAdcProofs` |
| `MC*` | constants and symmetry for TLC | the module they instantiate |

Definitions whose comment begins with *Mutation of* are altered forms of the definition
that follows; nothing uses them except the mutants of `PROJECT.json`, which
substitute them to see that a property can fail.

### S3CAdc

`cur`, `ts_pend`, `adc_pending`, `nr_samples`, `convert_cb`, `result` are the fields of
`struct adc_device` and `s3c_adc_client`. `hwconv` and `irqpend` are the hardware: the
client whose channel is being converted and the sample with its interrupt latched.
`reader[c]` is the program counter of `s3c_adc_read`, whose assignments before
`s3c_adc_start` run outside the lock (`ReadBegin`), as do its wait and its end
(`ReadDone`, `ReadTimeout`). `Start`, `Release`, `IrqMore`, `IrqLast`, `Suspend` and
`Resume` each include the `s3c_adc_try` they end in (`TryIfFree`). A sample is the
client it was converted for; -1 is `NULL`.

Three constants say what the environment does: when reads time out (`Timeouts`), if a
client is read again while its timed out request is still queued (`RereadStale`), and
when the system suspends (`SuspendWhen`).

### S3CTouch

Adds the driver's fields, the ADCTSC mode, the latched ADCUPDN bits and the stylus.
`TaskStep(A)` lifts an action of a task in the core; the core's callbacks are conjuncts of the
lifted actions (`TsSelect`, `TsConversion`). `touch_timer_fire` runs with interrupts
enabled, so it is split where an interrupt can change or observe what it uses (`tpc`):
read of the panel state, the `pen_is_down` and `count` tests, report, `s3c_adc_start`,
release, rearm. `s3c2410ts_remove` is two steps, `free_irq` and `del_timer_sync`. What is
still going on after that goes on in the model as if the registers were still mapped.

### S3CDma

One record `chan` holds the driver's fields and the registers, so that the driver's
functions are operators from channel to channel: `LoadBuffer`, `Waited`, `DmaStart`,
`DmaEnqueue`, `DoStop`, `DmaFlush`, `LastXfer`, `Popped`, `Callback`, `Reload`. Each action
is one entry point with interrupts off; `Irq` is `Reload(Callback(Popped(chan)))`, the
whole handler. `HwLoad` and `HwDone` are the two stages of the hardware. `status`,
`taken` and `done` are the client's view: what it was told about a buffer, how often the
hardware began it, whether it was moved to its end.

`Allow` names what may happen around the driver: a transfer that completes inside an
entry point ("race"), a peripheral slower than `load_timeout` ("slowload"), a callback
that refills an empty chain ("refill"), FLUSH of a running channel ("flushrunning").
`FlushHitsSelf` says if `s3c_dma_chan_map[chan->number]` is the channel itself: the
flush sends its STOP through that entry. It is for no channel of the board (it would be
for SDI on hardware channel 2), and both runs set it to FALSE. The model assumes that an interrupt is handled
before the next transfer ends, which the driver relies on (DMASKTRIG and DSTAT carry no
count of completions).

### S3CDmaQueue and S3CSound

`S3CDmaQueue` is the channel as a client sees it: a queue that a running channel moves in
order, completions reported in order and only once moved, FLUSH handing everything
back. `S3CDma` implements it (`ImplementsQueue`): `queue` is the chain, `moved` the buffers
of the chain that the hardware took to their end, `told` the client's view and `running`
the driver's state. Loads, the registers and `chan->next` are stutters.

`S3CSound` is built on the abstract channel. Positions are counted in periods.
`dma_prepare` runs in a task and is a flush followed by one step per queued buffer; the
other operations are single steps, `BuffDone` the whole of `audio_buffdone` including the
stop that `snd_pcm_period_elapsed` makes on an xrun and the `dma_enqueue` that follows it
either way. A stream is stopped before the system suspends.

### S3CDmaMap

`MapChannel` is the search of `s3c2410_dma_map_channel` (order table first, then any
free channel the source is wired to), `Lookup` that of `s3c_dma_lookup_channel`.
`Request` and `RequestDone` are the two halves of `s3c2410_dma_request` around
`request_irq`. A failure is two steps, since interrupts and other tasks are let in
between: `RequestIrqFailed` (or `RequestBusy`) gives the channel back and leaves the
client and the map entry, and `RequestUndo` is the `s3c2410_dma_free` by which
`s3c_dma_request` then frees what the virtual number resolves to, whoever has it by now;
`warned` keeps the channels for which that logged "possible free from different client".
`s3c_dma_request` returns 0 all the same, and `ReleaseFailed` is the release of that
number. The SD host keeps the low level number, the sound driver, through
`s3c-dma-ops.c` and its `dma_list`, the virtual one.

`Claims` are the virtual channels for which the tree has a driver on this SoC: the SD host,
I2S and AC97. Nobody requests XD0, XD1 or SPI0, so that the number 0, which is XD0,
resolves to nothing. `built` is the configuration, one of `Configs`; the board's is
SDI, I2S_IN and I2S_OUT (`OnBoard`). `FlushRunning` are the drivers that flush a channel
that runs: the SD host does.

### S3CI2c

The handler is a function on the pair of driver and controller (`NextByte`, over
`Started`, `Write`, `Read`, `PrepareRead`, `NextMessage`, `I2cStop`); the task is `Call`,
`DoXfer` or `BusBusy`, `Woken` or `Timeout`, and `WaitIdle`. `wire` is the sequence of
events the call put on the bus, which the properties compare with `Bytes`, an
independent definition of what the messages mean. The controller and the slave are
external: the controller does what the driver's register writes ask for, the slave
acknowledges or refuses each byte and may hold the bus. A handler that follows
`i2c->msg` after it was cleared is the state "OOPS".

### S3CMci

`host` holds the driver's fields, `hw` the SDI registers, FIFO and bus, `req` the request
with its error fields, and `seen`, what the card really did. The board's platform data
does not set `use_dma`, so data moves by PIO; it is counted in units of which the FIFO
holds `FifoSize`. `s3cmci_request` is two steps, set-up and command, because an interrupt
that was left enabled can come between. `s3cmci_irq` is four actions by its outcome.
`pio_tasklet` begins in a step of its own (softirq clears its scheduled bit), and then
runs as one step because its first statement disables the interrupt; `EarlyIrq` says
whether an interrupt may hit in between. The SDI interrupt is modelled as a level: it is taken
while an unmasked source is active. A tasklet may be left to ksoftirqd while a
task issues the next request; that both then run `do_pio_write` at the same time is left
out (the tasklet is not preempted by tasks here).

### S3CIrq

`subpnd` and `submsk` are the pending and mask registers of the sub-interrupts, `main` the
parent's bits of SRCPND, INTPND and INTMSK, `desc` and `resend` what the generic layer
remembers. `s3c_irq_demux` is entry (mask and acknowledge the parent, read the pending
bits), one step per child with its whole flow handler, and exit; devices may request
in between, tasks may not. An unmasked pending sub-interrupt keeps setting the parent's
bit of SRCPND, as the controller's manual describes. One instance mixes level and edge children; a real
parent has children of one kind (level: the UARTs; edge: INT_ADC, EINT8-23), and each is
a part of the mixed behaviour.

## 3. Runs

| Run | Shows | Bounds |
|---|---|---|
| `adc_core` | no work on an idle converter, no freed client, service in order, with timeouts, releases and suspends at any moment | touchscreen and 3 readers, 2 samples per request |
| `touch_core` | one activity, sample count, panel mode | 2 readers, 2 samples, timeouts and removal any time, suspend with no touch in progress |
| `touch_live` | pen up and held pen reported, readers served with their own samples, no stall, no double link | 2 readers, 2 samples, suspends on an idle converter; no read times out, as the converter does not stall |
| `dma_core` | buffers reported once and moved, no dangling `next`, the abstract queue implemented, completions inside entry points included | 4 buffers, AUTOSTART |
| `dma_live` | load state in step, no stall, nothing written after an abort, chains drain, for clients that stop before they flush | 4 buffers, explicit start |
| `dma_map` | exclusive, wired and undisturbed channels, on the board without exception; release finds its entry | two configurations: the board's drivers, and SD host, AC97 microphone and I2S playback, which compete; `request_irq` failing, the SD host flushing while it runs |
| `dma_flush_stops_other` (violation) | flushing one running channel stops another driver's | 3 drivers: the sound streams and the SD host, were it to use DMA |
| `i2c_core` | success and refusal exact, in bounds, own messages, every call returns | 1 to 3 messages of 0 to 2 bytes, reads last; any byte refused or stalled |
| `sound_core` | the ring full while the stream runs, the channel idle after release, periods keep elapsing | 3 periods, 4 buffers |
| `sound_pointer` (violation) | the reported position runs ahead of the hardware | 3 periods |
| `mci_core` | nothing acts on a finished request, results exact, every request completes | data of 1 to 3 units, FIFO of 2 |
| `irq_core` | enabled children reach the CPU, no request lost, each handled | 1 level and 2 edge children |

Why the bounds are enough. Three readers give a head, a middle and a tail of
`adc_pending`; with two samples the interrupt takes both its paths. Four
buffers are one running, one loaded, one linked and one being queued, and the driver
looks no further than the buffer after `next`. Lengths 0, 1 and 2 with three messages
reach every branch of `i2c_s3c_irq_nextbyte` (first, middle, last byte; first, middle,
last message). Three units through a FIFO of two
make the tasklet run at least twice, with the FIFO full, half full and empty. Three
children have one below and one above the one being handled, and masking all but one, or
all. Three periods tell the next place from the one after it and from the last. The four hardware channels are the real number. `CountCap` and `Retries`
are the named caps; `count` only passes `Samples` when a suspend interrupts a touch.

Deadlock is checked everywhere except in `mci_core`, where a request whose interrupt mask
was cut (see below) really waits for ever. With `EarlyIrq = FALSE` that cannot happen and
the run passes with the deadlock check.

### Fairness

`FairTouchSpec`: hardware finishes conversions, interrupts are taken, an armed timer
fires and its function ends, a suspended system resumes (weak fairness). Strong fairness
for `PenDetect`, because the driver leaves a jiffy in the detecting mode for exactly this,
and for runnable readers, because softirqs interrupt them again and again but leave most
of each jiffy. Nothing is assumed about the stylus or when reads are issued.
`S3CDma!FairSpec`: the peripheral keeps requesting and the interrupt is taken.
`S3CI2c!FairSpec`: interrupts, the task and its timer run; the bus moves *unless a slave
holds it*, so `CallReturns` rests on the timeout.
`FairSoundSpec`: the codec consumes and interrupts are taken. `FairMciSpec`: the task goes
on, interrupts are taken, softirqs run, and the bus moves or times out (the command timeout
and SDITIMER are hardware). `FairIrqSpec`: the controller latches, interrupts are taken and
their handlers end; strong fairness for the resend tasklet, which other interrupts hold up
but which runs when they have been handled, at the latest in ksoftirqd, and which walks
the whole bitmap. Nothing is assumed about devices or about tasks that enable and disable.

### Where the properties stop holding

Each passing run states its setting through the constants. Outside it the code fails, in
ways TLC shows when the constant is changed:

| Change | Fails | Because |
|---|---|---|
| `RereadStale = TRUE`, stalled timeouts, suspend any | `NoDoubleAdd` | a read repeated after its timeout links the client again |
| `SuspendWhen = "any"` in `touch_core` | `SampleSet` | resume does not reset `count` |
| `Timeouts = "any"` in `adc_core` with `SuspendWhen = "never"` | `WakeOnlyWaiting` | a read that times out leaves its request queued and its `convert_cb` set (adc.c:205-214); the completion wakes the wait queue of a task that has left |
| the same | `OwnSample` | a client whose read timed out is released while it is converted, and the sample goes to the next reader |
| `Allow = {"race"}` or `{"refill"}` in `dma_live` | `NoStall` | the buffer is put behind a transfer that is already over |
| `Allow = {"flushrunning"}` in `dma_live` | `AbortedNotMoving`, `InStep` | the STOP goes to another channel, and the buffers that are handed back are still written; dma.c:880 says "stop the channel, and remove all current and pending transfers" |
| `{SDI, MIC_IN, I2S_OUT}` counted as `OnBoard` | `SourceServed` | with channel 2 taken I2S_OUT gets channel 1, which its order list names and to which it is not wired |
| the same | `HeldExclusively`, `NoForeignStop` | after a failed request another driver is given the channel before `s3c_dma_request` frees it; plat/dma.h:63 says "request a dma channel exclusivley" |
| `SuspendWhen = "any"` in `touch_live`, with `ReadersServed` alone | `ReadersServed` | `s3c_adc_resume` does not restart the conversion of `cur`, and every later read waits behind it; adc.c:33-35 says the touchscreen "should not starve other requests" |
| `Allow = {"slowload"}`, `AutoStart = FALSE` | `ReportedOnceMoved` | `s3c2410_dma_start` gives up waiting, and auto-reload begins the first buffer again; dma.c:427-429 says "the code will deal with the re-loading of the next buffer when necessary" |
| `LateAnswer = TRUE` (answers after the timeout, the 5 ms wait for an idle bus included) | `TypeOK` of `S3CI2c` | a timed out transfer leaves the handler armed |
| a NOSTART read after a write | `TypeOK` of `S3CI2c` | `-EINVAL` clears `msg`, `retry_write` then reads it |
| a read that is not the last message | `ResultExact` of `S3CI2c` | the handler stays in STATE_READ, the next message gets no START and is received into its buffer; i2c-core.c:1348-1349 says "each message begins with a START" |

Seven formulas are stated in the modules and checked by no passing run, because the code
does not satisfy them: `S3CAdc!WakeOnlyWaiting`, as the table says;
`S3CTouch!QuietAfterRemove`, since `s3c2410ts_remove` withdraws no request: one that was made
before `free_irq` is converted, calls back and arms the timer after `del_timer_sync`, and
with the pen down that goes on for ever; `S3CDmaMap!ReadyForNext`, since
`s3c2410_dma_free` stops the channel and keeps its chain, although dma.c:776-778 promises
a flush; `S3CSound!PointerIsHardware` (the run `sound_pointer`);
`S3CSound!TransferInRing`, since each period is queued with the length of the whole ring
(`dma_info.len`, which `s3c_dma_prepare` takes for a slave transfer);
`S3CMci!NoSilentFault`, since a PIO read ends when its buffers are full, before the
response or the CRC status of its last block is looked at; and `S3CMci!IrqOffInIdle`: an
interrupt between the start of the tasklet and its `disable_irq` schedules it again, the second
run comes after the request is done and enables the interrupt, and while the next
write is set up its TX interrupt finds "nothing to complete" and clears the mask. That
request never ends, and `RequestCompletes` excepts it by name (`"cut"`).

The two violation runs are cases in which an interface description in the tree states the
opposite; `PROJECT.json` quotes it.

### Assumptions about callers

The I2C core holds the adapter lock around a transfer, and tasks are frozen before the
devices suspend, so no I2C call is in progress at suspend. The hwmon mutex admits one
reader per client. A DMA client that stopped a channel flushes it before it uses it
again, as the SD host and the sound driver do. (The SD host uses its channel only where the
platform data sets `use_dma`.) The MMC core has one request in progress per host. ALSA
calls a stream's operations one at a time and in the order of its state machine.

## 4. Proofs

TLAPS checks the following for every value of the constants that satisfies the named
assumptions (any number of clients, samples, buffers, messages, periods, children, and
any amount of data). Every invariant, every action property and the refinement that a
passing run checks on its instance is stated by a theorem whose setting includes that of the run.

### ADC core (`S3CAdcProofs`)

* `AdcTypeCorrect`, `AdcNeverIdleWithWork`: from the type invariant with
  `IdleImpliesEmpty`, which is inductive because each action ends in `s3c_adc_try`.
* `AdcServedInOrder`, in every setting, with double links and stalls. A step turns the line
  of readers into one that is `Thinned` from it (entries leave, the others keep their
  order) with at most one reader appended, and such a step overtakes nobody.
* `AdcNoDoubleAdd`, `AdcNoFreedClient`, under `Disciplined` (no read times out, or a
  timed out client is not read again while queued). `NoDoubleAdd` alone is not
  inductive: `Linkage(p)` adds that the current client is not also on the
  list and that everyone in line is at one of the points `p` of `s3c_adc_read`.
* `AdcOwnSample`, under `Patient`: reads do not time out, or only on
  a stalled converter in a system that does not suspend. It needs `HwInv`, the hardware
  works for `cur` or not at all, and `Fresh`, a queued request has not been answered and
  wants one sample.
* `AdcConversionUnderway`, without suspend. `Underway` and the rest depend on
  each other: a waiting reader is in line, so somebody is being converted, so no wait
  that needs a stalled converter to expire does expire (`NoTimeout`), so everyone in line
  waits.

### Touchscreen (`S3CTouchProofs`)

* `TouchUsesCore`: `TouchSpec` implies `Spec` of `S3CAdc`. The driver is one of the
  behaviours that the core's theorems allow for its touchscreen client, and these hold
  under it. `TouchTypeCorrect` is as unconditional.
* `TouchOneActivity`, `TouchSampleSet`, `TouchPanelMode`, with removal at any time, under
  `SleepsIdle` (the system sleeps only while the driver waits for the pen). The invariant `TouchGood` has six parts: the activity is a `Token`
  that is in the timer, the softirq, a request or nowhere (the driver then waits for the
  pen, `Waiting`); samples taken and `Owed` add up; the `Panel` mode goes with the place
  of the token; the latched pen `Events` can only start what is at rest; and the
  driver is `Asleep` only at rest.
* `TouchConversionUnderway`, `TouchNoDoubleAdd`, `TouchOwnSample`:
  the setting of `touch_live`, in which the system does suspend and clients are read again
  at will. The core alone does not have these (a touchscreen request on a sleeping ADC
  stalls it); with `TouchGood` a sleeping driver requests nothing (`NoneWhileAsleep`).

### DMA channel (`S3CDmaProofs`)

Three settings, each within the one before. `FlushStops`: a flush that finds the channel running
does stop it; anything else may happen. `Prompt`: also, the peripheral requests in time and the
callback refills only a chain that is not empty; transfers may end inside an entry
point. `Gentle`: they end outside. (The previous section shows what goes wrong otherwise.)

* `DmaTypeCorrect`, `DmaNextInChain` under `FlushStops`, from `Chained`: `chan->next` is
  at a place of the chain that the load state determines, the second or later while an
  interrupt is latched.
* `DmaReportedOnceMoved`: what `s3c2410_dma_irq` reports done was begun once and moved;
  `DmaAbortedNotMoving`: a flushed buffer is not under transfer; `DmaImplementsQueue`: the
  channel implements `S3CDmaQueue`, one lemma per action with the abstract step it takes
  or its stutter; under `Prompt`.
* `DmaInStep`: the load state agrees with the registers between two interrupts;
  `DmaNoStall`: a running channel with buffers is on, or has its interrupt coming; under
  `Gentle`.

None of these is inductive. `DmaInv` says what the driver's picture of the hardware is in
every state of the gentle setting: the channel is stopped and off; or it runs with `One` buffer, in the
registers or running out of them, reload off; or with `Two` or more, the second in the
registers behind the first, reload on; each with its form while an interrupt is
latched. `Distinct` chains make `buf->next` a function, and `Books` ties the client's
view to it: buffers of the chain are outstanding, those that run or have run were begun
once, the others never. A transfer that ends inside an entry point can lead out of
`DmaInv` in two ways, and `RaceInv` is the three together: a buffer was queued or the channel
stopped behind a transfer that is over (`LateInv`, until its interrupt is handled), or the
channel stalled for that reason (`StalledInv`, until it is stopped). The refinement adds
`Moved`: of the chain only the head has been moved, and only while its interrupt is
latched. One lemma per driver function says what it does to such a
channel, one lemma per action that the invariant is kept. TLC checked the invariants on the
instances of `dma_live` and `dma_core` before they were proved.

### Channel allocation (`S3CDmaMapProofs`)

For any configuration of the drivers, with `request_irq` failing at any time. `MapGood` is
inductive: from the moment `s3c2410_dma_request` lets interrupts in, the channel is found
under the driver's number and carries the driver's marks or was freed with the
warning (`OwnChannel`), and the numbers that nobody claims resolve to nothing
(`Unclaimed`). It gives `MapTypeCorrect`, with the entries of `dma_list`.

On the board `FirstChoice` is inductive besides: each driver finds the first entry of its
order list free, the first entries differ, and a failed request is undone on a channel
that still bears its driver's name, so that nothing is ever warned of. With it
`MapHeldExclusively` has no exception on the board; elsewhere it excepts the channels that
were warned of. `MapSourceServed` uses it for I2S_OUT, whose order list names a
channel it is not wired to; for the other sources but PCM_IN the lists stay within the
wiring (`OrderedIsWired`, `Connected`) in every configuration. `MapNoForeignStop` assumes
that only the SD host and AC97 playback flush running channels: `XferRuns` says that a
transfer under way is on a running channel, and `FlushStops` that the misdirected STOP of
dma.c:896 then reaches the flushing driver's own channel or none. For I2S_OUT
`dma_flush_stops_other` shows the opposite.

### I2C master (`S3CI2cProofs`)

`I2cTypeCorrect`, `I2cInBounds`, `I2cResultExact` for transfers of any number and length of
messages, empty ones and NOSTART writes included, slaves that refuse or hold the bus at any
byte, and retries. Assumed: `ReadsLast`, only the last message is a read and it has its
START, and `Timely`, a slave that held the bus into the timeout stays silent, also in
the wait for an idle bus that follows it
(the previous section shows what happens without them). The invariant `I2cGood` is `Shape`
(types, the cursor), `Held` (bytes move only for a call that waits) and `Progress`: the
bytes on the bus are the first so many of `Bytes(msgs)`, and the handler's state, message
and pointer say how many. `Bytes` flattens the messages by a recursive definition. What it
computes is needed at every message boundary; it is derived from the well-ordering of the
naturals, as a least index at which the claim would fail (`UpTo`), first for the
existence of the recursive function (`FlatUnfolds`), then for the `Offsets` of messages and for
the `Stretch` of empty messages that the handler skips. One lemma per function of the
handler then says where it leaves the cursor.

### SD host (`S3CMciProofs`)

`MciOwnRequest` (`MciInv`) and `MciResultExact`, for any amount of data, any FIFO of two
units or more, and either value of `EarlyIrq`. `MciGood` adds to the types that `complete_what` is
set exactly while a command is out (`Staged`), that PIO conserves the data between
buffers, FIFO and bus (`PioConserved`), that the bus belongs to the request (`BusOwned`),
and that status bits, results and errors have their cause on the bus (`BitsSeen`,
`OutcomeSeen`, `ErrorCaused`). It is kept by the interrupt before, after and within the
tasklet, so also by the second tasklet run that acts on nothing.

### Interrupt controller (`S3CIrqProofs`)

For any finite set of sub-interrupts and any choice of level ones: `IrqEnabledIsOpen`
(`IrqInv`) and `IrqNoneLost`. Their conjunction is inductive. The parent can be masked by a
child's mask only when every child is masked, and then, by the invariant itself, none is
enabled; a flow handler forgets a request only when its handler has seen it (`FlowKnows`).
That `__ffs` picks a pending bit rests on the well-foundedness of the naturals.

### Sound ring (`S3CSoundProofs`)

`SoundRing` (`SoundInv`), for any number of periods and buffers. `RingCounted` makes it
inductive: from `dma_prepare`'s flush to the start `dma_loaded` is the number of buffers
queued and none of them has moved, and the channel runs exactly while ALSA's stream does.

### Only model-checked

Liveness: `PenReported`, `ReadersServed`, `Drains`, `CallReturns`, `KeepsElapsing`,
`RequestCompletes`, `RequestHandled`. Temporal properties under fairness are beyond the
proof system. So are the two violation runs, which show behaviours.

## 5. Not modelled

The components with status `not_modelled` in `PROJECT.json`, each with its reason. Within
modelled components: coordinates and their filtering, hwmon scaling, DMA addresses, sizes
and configuration calls, PAUSE and RESUME (sent by no driver of the board), the circular
flag (off on this SoC), the I2C clock divider with its cpufreq notifier, the SD host's DMA
path (no board file sets `use_dma`), SDIO interrupts, card detect and clock, the I2S
registers, trigger types, FIQ routing, wake-up masks and suspend of the interrupt
controller, probe and most of remove. The drivers' models take their interrupts from a
latch; `S3CIrq` is what justifies it and is not composed with them.

## 6. Plan

Theorems that would add most: the safety part of the liveness properties, that a step
towards the goal is enabled in every state that waits (`ConversionUnderway` and `NoStall`
are of this kind; the same for a request in `S3CMci` that was not cut, and for a pending child in
`S3CIrq`); `DmaInStep` in a form that holds with completions inside entry points, for the
states in which no such buffer is outstanding.

Modules that would come after: the watchdog's 32 bit heartbeat arithmetic, and its start,
stop and cpufreq on the shared control register; serial transmit and receive; the SPI byte
counter; clock use counts.
