# The urban noise monitor in TLA+

Formal models, model checking and proofs for the firmware in
`src/urbanNoiseMonitor/firmware/src`: a PIC32MZ that samples a microphone over
I2S, computes the level of each octave band, and transmits the levels over LoRa
through an RN2903 modem on a UART. Paths below are relative to that directory;
`default/` stands for `system_config/default/`.

## The system

There is one thread, the loop of `main.c`: `SYS_Tasks` calls `APP_Tasks`, which
calls the handler of the current application state; the handler runs to its end
and returns the next state. Handlers wait by spinning. The only interrupt the
application enables is the timer's, whose handler increments
`appData.periods_elapsed`. The other actors are outside: the modem, the serial
line, the microphone's I2S words, the flash controller, the button, the power.
All of them act between any two instructions, and the code has no queue, lock
or retry: whatever goes wrong is recorded in `appData.error`, which most
handlers look at once, when they return.

| component | state | operations | what makes it correct |
|---|---|---|---|
| Application state machine (`app.c`, `init.c`, `wait_for_button_press.c`, `calibrate.c`, `join.c`, `idle.c`, `measure.c`, `process.c`, `transmit.c`, `errorHandler.c`) | `state`, `error`, `joinProcedure`, `filterBank[].Leq` | one handler per state | phases follow each other in order; every recorded error is reported; measures and transmits only when joined; each measurement is sent once |
| Conversation with the modem (`sendMsg`, `joined` in `helper_fcns.c`; `join.c`, `transmit.c`) | `rx_buf`; the modem's session, live and saved parameters | one command at a time, one or two replies each | a reply is taken for the answer to the command that caused it; all parameters are in force when the network is joined |
| `waitForResponse` (`helper_fcns.c:25-52`) | `rx_buf`, `rx_count`, `periods_elapsed`, the UART FIFO | poll, store, test the length, test the clock | no store outside `rx_buf`; what is handed over is one line, a C string; giving up is recorded |
| Timer services (`pause_s`, `TimerSetup`, `TimerCallback`) | timer running, `periods_elapsed` | start, stop, interrupt | the count starts from zero, the timer runs only while something waits |
| Calibration store (`saveToFlash`, `default/framework/driver/flash`, `APP_Initialize`) | a page of flash, `appFlashWriteString`, `flashStates`, addresses | erase page, program rows, verify; load at boot | a save without error is what the next boot loads; calibrations do not mix; saves end |
| Measurement (`measure.c`, `calibrate.c`, `updateFilterBank`) | sample count, channel parity, history ring, sums | sample, overflow, finish | every other word is the microphone's; a damaged measurement is not sent |
| USART driver (`default/framework/driver/usart`) | FIFO, error bits, baud and line settings of two instances | dispatch by handle, read, write, clear errors | handle and instance agree; an overrun can be recovered from |
| Clock (`default/framework/system/clk`) | divisors of the buses, reference clocks, secondary oscillator | set up at boot; frequencies told to the drivers | what callers are told is what runs; no write is lost to the lock |
| Device control (`default/framework/system/devcon`) | SYSKEY, wait states, prefetch, power mode, debug ports | unlock, change, lock | locks and interrupts are left as they were found |
| Cache maintenance (`sys_devcon_cache_pic32mz.S`) | the lines of two caches | clean, flush, invalidate, sync, lock, by lines | no store is lost, no stale code is fetched |
| GPIO (`default/framework/system/ports`) | latches, directions, analog and change-notice bits, pin selection | set up at boot; one register per call | no pin glitches at boot; a call changes its own pins only |
| ADC driver (`default/framework/driver/adc`) | the converter | set up at boot, with three waits; open, start, read | the waits end |
| System initialisation and exceptions (`system_init.c`, `system_exceptions.c`) | which drivers are ready, the interrupt enable | `SYS_Initialize` | interrupts come last; boot ends |

How they interact: `join` and `transmit` call `sendMsg`, which calls
`waitForResponse`; `calibrate` calls `saveToFlash`, which starts flash
operations and polls them; everything timed starts and stops the one timer;
everything shares `appData.error`, and `rx_buf` carries a reply from one command
to the next (`get hweui` to `set deveui`, and `get status` to `joined`). Below
them, `SYS_Initialize` sets up the clocks, the flash wait states that go with
them, the pins and the drivers, and then enables interrupts; the services it
uses share SYSKEY and the interrupt enable with whoever calls them later.

The hard behaviours are listed, line by line, under `hazards` in
`PROJECT.json`. They are: replies that arrive after their wait gave up;
commands with two replies; a receive FIFO of eight bytes with an overrun that
nothing clears; the boundary of `rx_buf`, behind which `appData.error` lies;
errors that have to survive 150 further commands; power lost between erase and
write; the arithmetic of rows; waiting for a timer that never started; an
interrupt inside an unlock sequence; cache lines shared with neighbours.

## Modules

| module | models | lines of source |
|---|---|---|
| `Rn2903` | the modem, external: a record and a map from commands to possible answers, as `join.c`, `transmit.c` and `joined` use it | `join.c`, `helper_fcns.c:54-95` |
| `NoiseMonitor` | the superloop, every handler, `sendMsg`, `waitForResponse` a line at a time, `joined`, the timer, the serial line; EXTENDS `Rn2903` | `app.c:299-379` and all handlers |
| `MonitorLifecycle` | abstract: the order of phases and what a fault does | |
| `WaitForResponse` | `waitForResponse` a byte at a time, with interrupts and the FIFO | `helper_fcns.c:25-52, 76-90` |
| `LineReader` | abstract: bytes handed over in order up to the first CR LF, or the call gives up | |
| `SaveToFlash` | `saveToFlash`, calibrate's eleven saves, the flash controller, loss of power, loading at boot | `helper_fcns.c:286-407` |
| `CalibrationStore` | abstract: a word is as it was, wanted, blank or broken; a save without error stored every word wanted | |
| `Sampling` | the loops of calibrate and measure word by word, SPI2 with its one-word buffer and its overflow, the ring of the history | `calibrate.c:3-49`, `measure.c:3-43`, `helper_fcns.c:411-435` |
| `FilterBank` | `updateFilterBank` over integers, with difference equations as the reference | `helper_fcns.c:97-145`, the tables of `app.c:5-283` |
| `UsartDriver` | the two instances behind the handles, `sendMsg`'s loop, one poll, error clearing, baud and line settings, initialise and deinitialise, and the USARTs | `default/framework/driver/usart/src` |
| `Board` | registers, SYSKEY, the interrupt enable, one foreground program whose accesses are separate steps, and interrupts between them | `IfFlagEnable` and the waits; the rest is external |
| `Devcon`, `Clock`, `Ports`, `AdcDriver` | each service as the sequence of its accesses; EXTEND `Board` (`Clock` by way of `Devcon`) | `default/framework/system`, `default/framework/driver/adc` |
| `SystemInit` | `SYS_Initialize`, then any calls of those services; composes the four | `default/system_init.c:178-214` |
| `CacheOps` | the cache services as sequences of cache operations, and two caches that fill and evict by themselves | `sys_devcon_cache_pic32mz.S`, `sys_devcon_pic32mz.c:145-581` |
| `MCNoiseMonitor`, `MCFilterBank`, `MCUsartDriver`, `MCSystemInit`, `MCCacheOps` | values for TLC | |
| `NoiseMonitor_proof`, `WaitForResponse_proof`, `SaveToFlash_proof`, `Sampling_proof`, `FilterBank_proof`, `UsartDriver_proof`, `CacheOps_proof`, `SystemInit_proof` | theorems and proofs about the module they are named for; the second half of `NoiseMonitor_proof` is about what the superloop and the modem say to each other | |

Correspondence of state. In `NoiseMonitor`, `appState`, `error`,
`joinProcedure`, `rxBuf`, `periods` are the fields of `appData`; `pc` is the
place inside the handler (`dispatch` is the `switch` of `APP_Tasks`); `script`
is what is left of the handler's sequence of `sendMsg` calls; `timerOpen` and
`timerOn` are the handle and the timer; `fifo`, `rxDead` the UART's FIFO and its
overrun bit; `wire` the lines the modem has said and the UART has not received.
Every line carries `fresh`, a history variable: whether it answers the command
sent last. In `WaitForResponse`, `outcome` records which `break` left the loop.
In `SaveToFlash` addresses count words, `buffer` is `bufferAddress` as an index
into the string, and a result carries the boot in which it was measured, so
that two calibrations can be told apart.

In `Sampling` words are numbered from `myI2S_init()`, the microphone's being the
even ones, and a sum is the sequence of words that were added to it, so that a
word counted twice, missed or taken from the other channel shows. In
`UsartDriver`, `on` and `stopping` together are what `PLIB_USART_ModuleIsBusy`
reports; `due`, `pending` and `baud` are history: the bytes a line still owes,
the bytes it received that were not read, the rate last accepted. The driver
has one copy of its code per instance; the model has one definition, indexed by
the instance, and mutants in which the copies are confused.

In `SystemInit`, `todo` is what the foreground program is still to do, `reg` the
registers under the names of what they control (`pbDiv`, `lat`, `ansel`, ...), and
`int_flag` the local of that name in whichever function has one: they never nest.
`asked` is history: the registers as they would be had every call done at once
what its comment says it is for. In `CacheOps` a store is known by its number;
`last` is the last store to each address, `given` are the addresses whose stores
a client gave up by invalidating them, and `promise` is what the call in
progress, or just ended, is for.

Correspondence of actions. In `Board` every access is one action, as an
interrupt can come between any two. Each handler is an action if it cannot be
interrupted in a way that matters, and otherwise one action per stretch between
two waits: `JoinBegin`, then for each command `SendMsg`, `WaitLine` or
`WaitTimeout` or `WaitOverlong`, `WaitAgain`, `SendMsgReturn`, then
`JoinReturn`. `PROJECT.json` maps every definition to its lines. Definitions
marked `mutant:` are wrong on purpose; nothing uses them, except to show that
the property they belong to can fail.

## Modelling decisions

- `joined()` takes `rx_buf[7] % 2`, the parity of a character code. That is the
  parity of the hexadecimal digit for 0 to 9 only. `Rn2903Assumption` keeps the
  nibble below ten; with a nibble of ten or more `IdleMeansJoined` is false.
- `mac set deveui` is sent with what `rx_buf` holds after `get hweui`. If that is
  not the reply to it, the modem is taken to answer `invalid_param`.
- The FIFO has eight bytes while nobody polls: an unread `ok` and another fit,
  or a `denied`; anything else sets the overrun bit, and since
  `_DRV_USART1_ErrorConditionClear` is called by nobody the receiver stays off.
- A failed wait can leave part of a line in `rx_buf`, and the rest of it in the
  FIFO: `Remains` and `PartlyRead` cover every such state by their effect on
  `rx_buf[7]` and on comparisons.
- What the modem says unasked is its banner after a restart, at most
  `MaxRestarts` times. Other unsolicited downlinks are left out, since the code
  asks only for unconfirmed uplinks on port 1 and expects none.
- The debug console is written and never read; `sendMsg` to it waits for
  nothing. It is left out, with the wording of all messages.
- Timer interrupts after a deadline are cut off: a loop that has reached its
  deadline does the same however far the count goes on.
- The store of the NUL behind a line of exactly `MAX_STR_LEN` bytes falls, by the
  layout of `APP_DATA`, on the low byte of `appData.error`, and is modelled so
  (`Terminate`). The line-level module leaves that store out, because the modem
  has no line of 999 or 1000 bytes.
- `appFlashReserveArea` lies in one page (`FlashAssumption`): 44 bytes at
  0x9D020000. The erase loop steps by a page from the area's start, not from a
  page's start; an area that straddled pages would lose its last one.
- A flash operation may be refused or spoiled (`OperationFails`); a loss of power
  may leave each word it works on as it was, done, or neither (`Torn`).
- SPI2 runs without its enhanced buffer, so it holds one word. A word that finds
  it full sets the overflow, and as `myI2S_init` leaves `IGNROV` 0, reception
  stops until the flag is cleared; after that it goes on with either channel.
- The filters compute in floats. `FilterBank` has integers: the recurrences, their
  order and their shortcuts are the code's, the rounding is not there.
  `FilterAssumption` states what `updateBiQuad` relies on (`a[0] = 1`,
  `b[0] = b[2]`, `b[0] = 1` behind the first section); the tables of `app.c` have it.
- Whether `PLIB_USART_ExistsModuleBusyStatus` is defined depends on a header that is
  not in the repository: `hasBusyStatus` takes both values.
- One client calls the USART driver at a time (there is one thread), and it does
  not send on an instance it has deinitialised. A rate of zero is not asked for.
- Register values are encoded as the program means them: `pbDiv` holds a divisor
  and not divisor - 1, a mask is a set of bits, frequencies are in kHz. The order
  and number of the accesses are the code's.
- A write to a protected register takes only while SYSKEY is open; an interrupt
  between the two keys spoils the sequence, since its handler accesses the bus.
  The services that turn interrupts off for the keys lose no protected write. The two
  that remap pins leave them on, and clear IOLOCK, a protected register, behind them
  (`sys_ports_static.c:1111-1113`): that write can be lost, and no property says it
  cannot. `iolock` is a register of the model, the pin selection takes no write while
  it is set, and `SettingsTake` shows that the loss does no harm: IOLOCK is clear
  from reset, and nothing in the repository sets it.
- What a part or build has (`PLIB_*_Exists*`, `DEVADC0`) is not in the repository:
  `exists` is everything or nothing.
- At reset the latches (`Latches`) and divisors are unknown and independent; all pins
  are inputs, SYSKEY is locked and IOLOCK clear, as the part's reset leaves them. A boot
  loader that hands over with outputs, or with IOLOCK set, is outside the model.
- `SYS_DEVCON_PowerModeEnter` ends in the instruction `wait`: the processor falls
  asleep (`Sleep`) although an interrupt may have come and been handled just before, and
  goes on when one is requested, whether it can be taken (`Interrupt`) or not (`Wake`).
- The loops of the cache routines are sequences computed at the call: their
  bounds depend on nothing that changes meanwhile. Lengths of 2^31 and more,
  which the code takes for negative, are left out with addresses that wrap.
- `SYS_DEVCON_CacheInit` clears all tags: its clients have nothing in the cache
  that they need. `SYS_DEVCON_DataCacheInvalidate` promises nothing; that it harms no
  store but those given up is `LoadsSeeStores`. `SYS_DEVCON_CacheCoherencySet` maintains no cache, and is called
  here by clients who do not turn caching off with lines cached.
- A lock of a line whose set is all locked goes on (`sys_devcon_cache_pic32mz.S:529,
  581` does not look): some locked line makes room, or the line stays out. Which of the
  two is the processor's affair, and `MaintenanceDone` promises such a line nothing.
- A client that invalidates gives up the stores to all the lines its range
  touches, also those of neighbours: aligning the range is its duty.
- calibrate runs at most once per boot, as only `init` leads to
  `wait_for_button_press`.

## Runs

| run | configuration | what it shows |
|---|---|---|
| `monitor_join` | `MonitorJoin.cfg` | The program as configured. Types; the timer is quiet when nobody waits; replies are fresh; idle means joined; levels are sent once; errors are reported; it keeps monitoring; it implements `MonitorLifecycle`. |
| `monitor_provision` | `MonitorProvision.cfg` | From `FACTORY_RESET` through `SET_ALL_PARAMS_AND_SAVE`: all parameters are in force when the network is joined, though `sys reset` comes in between. |
| `wait_for_response` | `MCWaitForResponse.cfg` | The loop byte by byte: stores in bounds, replies are C strings, errors are kept, it implements `LineReader`. |
| `flash_one_row` | `FlashAligned.cfg` | Three boots with the area at the start of a row, as configured: calibrations stay apart, the next boot loads what was kept. |
| `flash_rows` | `FlashRows.cfg` | An area that starts and ends in the middle of rows and takes three of them: types, no spurious failure, saves end and calibrate does unless samples stop, it implements `CalibrationStore`. |
| `sampling` | `Sampling.cfg` | Sums are made of all samples of the microphone and nothing else, the ring holds the latest, an overflow that is reported happened, the loops end. |
| `filter_bank` | `MCFilterBank.cfg` | Section by section in place is the response of the filters to everything heard since boot. |
| `usart_bytes` | `UsartBytes.cfg` | Bytes leave and arrive on the line they belong to, in order, and the transfer status says so; every call returns. |
| `usart_settings` | `UsartSettings.cfg` | Each instance runs at the rate last accepted for it, is enabled between calls, and is changed only at rest. |
| `system` | `SystemInit.cfg` | Boot and up to three calls, with an interrupt between any two accesses: every setting takes and no other register changes; clocks run as the drivers are told; interrupts are off where they must be and otherwise as the client left them; no pin glitches; boot and every call end. |
| `system_lock` | `SystemLock.cfg` | A counterexample: remapping a pin leaves SYSKEY open. |
| `cache` | `Cache.cfg` | Loads see the last store whatever maintenance goes on; when a service returns, memory and fetches have what it is for. |

A run is `tlc -config <configuration> <module>`, with the module that
`PROJECT.json` names; proofs are checked with `tlapm <module>_proof.tla`.

Two runs for the superloop, because the two join procedures are different
programs; two for the flash, because power losses multiply with rows; two for
the USARTs, because bytes and settings are independent but for the stop, which
both have. `SystemInit.cfg` and `Cache.cfg` turn the deadlock check off: a
converter that refuses a selection or reports a fault does stop the program
(`drv_adc_static.c:75-98, 123`), and with the bounds used up and caching off
nothing is left to happen in `CacheOps`.

Bounds, and why they are enough:

- `TIMER_FREQ = 2`, `RESPONSE_TIMEOUT = 1` (40000 and 10 in the code):
  every wait can end before, at and after its deadline, and half a second is a
  whole number of ticks, so a short press can be seen before the first
  interrupt that is too early, and after.
- `NUM_CHANNELS` 1 or 2 (64): the loop of `join.c` sends two commands per
  channel and treats all alike; two show that one is not confused with another.
- `NUM_FILTERS` 1 in the superloop (10): two saves, so that the first may fail
  and the second succeed. 2 and 3 in the flash: a first, a middle and a last word.
- `MacBits = {0, 4}`: the digit after the join bit is 0/1 or 8/9.
- `MaxLate = 1`: of the lines still on their way one survives a new command.
  One is enough to shift all answers; with more on the way all are lost, which
  is one of the outcomes that one may have too.
- `MaxRestarts = 1`: a restart in any state, and none after it or before it.
- `MAX_STR_LEN = 4`, `FIFO_DEPTH = 2`, one kind of text byte: lines shorter than,
  exactly as long as, and longer than the buffer; CR LF in any position, across
  two polls; overruns.
- Rows of 4 in a page of 4 with the area at offset 0 (the configured case), and
  rows of 2 in a page of 6 with the area at offset 1: a shifted first row, a
  full one, and one cut at the end.
- `MaxBoots = 3`: a calibration, one cut off, and the next. `MaxFaults = 1`: a
  fault in any operation, with everything after it healthy.

- `PAIRS = 4`, `HORIZON = 3` (400000 and 100000): the ring wraps and stops in the
  middle. Words may be lost anywhere, and loops follow each other in every
  order the program has.
- Two bands of three sections (ten of six), five samples: a first section, one
  in the middle and one at the end, and more samples than a section remembers.
- FIFOs of two bytes and a message of three: sending has to wait, an overrun
  and a FIFO of bad bytes happen. In `usart_settings` a clock of 100 and
  divisors up to 3 give rates that need four clocks to a bit, sixteen, and
  neither, on both sides; no bytes are on the lines there.

- `MAX_CALLS = 3` after `SYS_Initialize`: one call to change interrupts or leave a
  setting behind, one that is disturbed, and one that meets what it left. Pins 0
  and 12 of port B, alone and together: `RN2903_MCLR` and a neighbour. `Latches` at reset:
  all ones, which is the worst case for a pin that must be low, all zeros, and a mixture
  that differs from port to port.
- Three lines of two addresses, in caches of two sets with one slot each: the outer
  lines share a set, so that a range over all three is one line too long to be locked,
  and the middle line has a neighbour on either side. `MAX_STORES = 2` and two calls: a
  store before a call and one in the middle of it, a line refilled in between. With one
  store nothing could be newer than what is written back. Sets of several slots are left
  to the proofs, which are for every geometry.

## Fairness

- `WF(Processor)`: the loop of `main.c` never stops and no handler disables
  itself. `Processor` leaves out whatever needs somebody else: the button, a
  line's arrival, an overflow. `MeasureReturn` is in it because SPI2 is the I2S
  master: its own clock delivers the words whatever the microphone does.
- `WF(TimerCallback)`: a running timer interrupts.
- `WF(OperationEnds)`: the flash controller's operations take bounded time. In
  `SaveToFlash` the program's own fairness leaves out its two measurements
  (`Measuring`), which wait for samples that may never come; `CalibrationEnds` has that
  as its exception, and says that every save, and what follows it, ends.
- `WF(WordArrives)` in `Sampling`, for the same reason; `WF(Handlers)` is the loop's
  own progress.
- `WF(ByteLeaves)`, `WF(ComesToRest)` in `UsartDriver`: a USART that is enabled shifts
  out what it has, one that was disabled stops. Nothing is promised of what it
  receives. `WF(Continue)`: a call that has begun goes on.
- `WF(Runs)`, `WF(Handler)`, `WF(Converter)` in `SystemInit`: the processor goes on,
  takes an interrupt that is enabled and requested, and a converter that works
  comes up. The timer need not interrupt, nor a client call. `CacheOps` has
  safety only.
- Nothing is promised of the modem, the line, the button or the power, so
  liveness holds with all of them silent. `ErrorReported` and `KeepsMonitoring`
  say where the program may rest instead: in `while(1)` of the error handler,
  waiting for the button, in `pause_s` when the timer could not be opened
  (`init.c:14` notes that failure and then waits for that timer), or in
  `calibrate` when an overflow has stopped SPI2 (`myI2S_init` leaves `IGNROV` 0,
  and only `measure` clears the overflow).

## Proofs

All for every value of the constants that the named assumptions allow. Each
module proves `Init => IInv` and `IInv /\ [Next]_vars => IInv'`, one case per
action, and derives its theorems from `IInv`.

- `NoiseMonitor_proof`, from `MonitorAssumption` and `Rn2903Assumption`:
  `IInv == TypeOK /\ Place /\ TimerQuiet`. `Place` ties the place in the code to
  the application state; without it nothing says that, for instance, a wait in
  `JOIN` has a command to return from, and `TypeOK` is not inductive (`Head` and
  `Tail` of an empty script). Theorems: `TypeCorrect`, `TimerIsQuiet`,
  `PlaceCorrect`, and `LifecycleImplemented`, the safety part of
  `ImplementsLifecycle`: every step is a step of `MonitorLifecycle` or leaves it
  alone.
- The second half of `NoiseMonitor_proof`: `CInv` adds to that `IInv`
  - `Order`: `script` is the end of what the handler is to say (`Asked`), and `cmd`
    the last command of the rest;
  - `Conversation`: as long as no error is recorded and the modem has not
    restarted by itself, all lines in the FIFO and on their way answer the
    command sent last, so does `rxBuf` once it was read, and there are never more
    of them than the reply awaited (`Count`): none between two commands, at most
    one where a command has one reply, two only if the next one is the "ok" of
    `mac join` or `mac tx`. `ReplyIsFresh` is not inductive without the count: it is
    the silence of the line when a command goes out that makes the next line an
    answer to it. A wait that gives up breaks the silence, and records an error;
  - `Configured`: after each prefix of `SET_ALL_PARAMS_AND_SAVE`, what it has set is in
    force. It needs what the modem has saved when the reset comes, and that
    `rx_buf` holds the answer to `sys get hweui` when `mac set deveui` goes out, which
    `Conversation` gives;
  - `Levels`: from `measure` to `transmit`, `Leq` holds levels that were not sent; and
    `Boot`, `IdleMeansJoined` as they stand.

  The lemmas say what each command may answer (`RepliesTo`) and do (`EffectOf`), and
  where in the script of any number of channels each command is (`SetAllCases`,
  `SetAllCovers`). Theorems: `RepliesAreFresh`, `IdleIsJoined`, `LevelsAreSentOnce`,
  `JoinIsConfigured`.
- `WaitForResponse_proof`, from `WaitAssumption`: `IInv` adds to `TypeOK` and
  `StoreInBounds` that during a call no prefix of what was read ends a line
  (`NoLineYet`), that no NUL was read, and that the loop is left by one `break`
  (`Control`). `ReplyIsString` speaks of the end of a call only and is not
  inductive without them. Theorems: `TypeCorrect`, `StoresInBounds`,
  `RepliesAreStrings`, `ErrorsKept`, and `ReaderImplemented`, the safety part of
  `ImplementsLineReader`.
- `SaveToFlash_proof`, from `FlashAssumption`: lemmas on division give the row
  arithmetic (`Row`, `Page`) and `RowIsRight`: what the row buffer holds, which
  words of the area it covers, and where `flashAddress` goes. `IInv` then says
  where the state machine is (`Place`), what an operation under way does to the
  area (`Operation`), what a verification has found (`Verified`), that RAM and
  the string agree (`Kept`), and how far the area has been written (`Healthy`:
  erased from `flashAddress` on, equal to the string before it). Theorems:
  `TypeCorrect`, `HealthyNeverFails`, `CalibrationKept`, `CalibrationsApart` and
  `StoreImplemented`, the whole of `ImplementsCalibrationStore`, which states no
  fairness. `FlashAssumption` keeps the area inside one page, so `HealthyNeverFails` says
  nothing of the loop over several pages, which the configured area does not use.

- `Sampling_proof`, from `SamplingAssumption`: `IInv` adds to `TypeOK` where a loop
  is (`Place`), that the words read and the one in the buffer are never more
  than those that came (`Behind`), that as long as none is lost the count, the
  buffer and the sum are in step with the words' numbers (`InStep`), and which
  word each entry of the ring holds (`Ring`). Without `InStep` nothing ties the
  parity of the count to the channel. Four lemmas on remainders carry the ring.
  Theorems: `TypeCorrect`, `SumsAreMicrophones`, `HistoryIsRight`,
  `OverflowIsReal`.
- `UsartDriver_proof`, from `UsartAssumption`: `IInv` adds to `TypeOK` that what a line
  owes is its FIFO and then the rest of the message (`SentInOrder`), that what was
  received and not read is what its FIFO holds (`ReceivedInOrder`), that each
  divisor gives the rate last accepted (`RunsAtBaud`, with lemmas on the rounding
  division of `BaudSet`), which USARTs are on (`Enabled`, `AtRest`), and what each
  place in a call may assume (`Place`). Theorems: `TypeCorrect`, `BytesKeepOrder`,
  `UsartsKeepWorking`, `SettingsAreQuiet`.
- `CacheOps_proof`, from `CacheAssumption`: `IInv` adds to `TypeOK` that a clean line
  agrees with memory (`Backed`), that what a load would return is the last store,
  unless it was given up (`Newest`), and what a call in progress still owes, its locks
  included
  (`Promised`): an address of its range is either done already or an operation of
  `todo` covers it, and nothing the caches do by themselves undoes it.
  `LoadsSeeStores` holds at every moment of every call only because of `Newest`,
  and `MaintenanceDone` is the case `todo = <<>>` of `Promised`. A lock once made stays
  through the call, on its line or, in a set that is all locked, on another
  (`StaysHeld`). Lemmas on division
  show that the loops, from an address rounded down to a line, reach every line of
  the range. Theorems: `TypeCorrect`, `LoadsAreFresh`, `MaintenanceIsDone`.
- `SystemInit_proof`, from `SystemAssumption`. One notion carries it all: a program `q`
  (a sequence of accesses) *leads* from `x` to `y` when each of its operations moves
  what is watched. It is used for three things, each closed under concatenation, so
  that what a service does follows from what its parts do:
  - the control (`Takes`): inside a section with interrupts off, interrupts enabled by
    `SYS_Initialize`, drivers ready, the first key just written, SYSKEY open; with
    every access of its type and allowed where it stands. Every service is `Steady`:
    it leads from a state with SYSKEY not known to be open back to it;
  - one place of one register (`Turns`): its value before and after;
  - the latches of one channel (`Settles`): clear, or no pin of it an output yet.

  `IInv` says of what is left in `todo` that it leads from a control that agrees with
  `ie`, `int_flag`, `ready` and `key` to the end of the call, every setting of `reg`
  to that of `asked` (`Does`), and, before the application is ready, no latch to a pin
  too early (`Settling`). None of the three properties is inductive without what is in
  between: `int_flag` holds the client's enable from `PLIB_INT_GetStateAndDisable` to
  `IfFlagEnable`; a first key is trusted only inside such a section, since an
  interrupt may undo it elsewhere; and a register half-way through a call is neither
  what was asked nor what it was. `Sealed` are the protected registers
  written with SYSKEY open only, all but IOLOCK; that one is clear whether its write took
  or not, so that the pin selection always takes. `Means` then ties each service to what the client
  is said to want of it. Theorems: `TypeCorrect`, `InterruptsDisciplined`,
  `SettingsAreTaken`, `PinsAreSettled`.

  The proof of `SettingsAreTaken` failed first for
  `SYS_PORTS_ChangeNotificationEnable`: a part may have the pull-ups and not the
  notice of a pin, or the reverse (`sys_ports_static.c:517-542` asks for each by
  itself), and what was wanted of the call had them together. Parts with all
  features or none, which TLC has, do not tell; `Noticed` now asks for each where it
  exists.

- `FilterBank_proof`, from `FilterAssumption`: `IInv == TypeOK /\ Listening /\ LeqIsEnergy`.
  `Listening` says of every section of every band that `x` and `y` hold the last two
  of all that came into it and of all that left it, as the reference computes
  them; `LeqIsEnergy` alone speaks of the past outputs only and not of the registers
  the next one is made of. `Cascade` and the reference are recursive functions, so
  first come the equations they satisfy (`CascadeRuns`, `SignalsRun`, `FilteredRuns`,
  `EnergySum`, each by way of `Iterates`, the existence of the function), then what
  one more sample changes: no output before it (`FilteredAppend`), and the next output
  of a section is what `updateBiQuad` leaves in `y` (`SectionSteps`, where `Tabulated`
  pays for the coefficients the code leaves out), from section to section
  (`CascadeSteps`). The inductions over data are over a set of numbers (`Induction`,
  from the well-foundedness of `<` on `Nat`): that needs no operator as a parameter.
  What of the tables the proof needs is `Tabulated` and that they are integers.
  Theorem: `LeqMeasures`.

Model-checked only: all liveness (`ErrorReported`, `KeepsMonitoring`, `CalibrationEnds`,
`LoopsEnd`, `CallsReturn`, `Progress`, the fairness of `MonitorLifecycle` and `LineReader`),
which is beyond the prover.

## What the models show of the code

One statement of a comment does not hold, and the run `system_lock` shows it:

- "A system lock sequence is required after performing the action that required
  a system lock sequence" (`sys_devcon.c:262-264`), but `SYS_PORTS_RemapInput` and
  `SYS_PORTS_RemapOutput` (`sys_ports_static.c:1111, 1140`) open SYSKEY and never
  lock it. They also write the keys with interrupts on.

The other properties hold. Things a maintainer should know are visible in the
models:

- A late reply is harmless only because a timeout is recorded first:
  `ReplyIsFresh` has `error = NO_ERROR` as its condition. Any handler that
  cleared `appData.error` and went on would take every later reply for the answer
  to the wrong command.
- A calibration that is cut off leaves zeros or erased words for the gains it
  had not reached, in place of the previous ones (`helper_fcns.c:6`: the string
  is not loaded from flash). Calibrations never mix, but the old one is lost
  with the first save.
- `OneCalibrationAtATime` and `HealthyFlashNeverFails` need a healthy flash: a
  refused erase leaves words of an older calibration, over which only the
  verification stands.
- A word lost while `calibrate` samples stops SPI2, and calibrate, for good;
  `LoopsEnd` has that as its exception. `measure` goes on after one.
- A USART that was deinitialised counts as busy until it has come to rest;
  `BaudSet` or `LineControlSet` called before that enables it again. `UsartsWork`
  therefore speaks of initialised instances only.
- `transmit` does not look at the modem's answer; a `no_free_ch`, `mac_err` or
  `not_joined` loses the measurement silently.

- `SYS_Initialize` waits for the ADC's voltage reference and its channel without a
  limit, although nothing measures with it: a converter that fails keeps the
  device from starting, and `Progress` has that as its exception.
- `SYS_DEVCON_Deinitialize` changes the status and nothing else, and every call
  works afterwards; `SYS_DEVCON_Initialize` does not look whether it already ran.
- `DRV_USART_ErrorGet` returns a field nothing sets, and `DRV_USART_Status` is always
  ready: an overrun cannot be seen through the driver, nor be cleared through it.
- The pull-ups of `SYS_PORT_A_CNPU` are on pins that are outputs (two LEDs), where
  they do nothing.

## Not modelled, and why

- The rounding of the filters, and the logarithms and powers of levels and
  gains: floating point.
- The exception handler: it reports and stops. It indexes a table of 19 causes
  with a code of five bits.
- Port functions that only assert, because this family has no such register, and
  those that only read a port.
- How the cache geometry is decoded from CP0: `CacheOps` has it as constants. On a
  part without a cache `_pic32_get_dcache_linesize` and its like return what the
  register happened to hold.
- `SYS_DEVCON_PowerModeEnter` beyond "the processor waits for an interrupt".
- Timer driver, NVM, SPI, USART, ports and interrupt peripheral libraries: not in
  the repository; modelled as external where the code depends on them.

## Plan

1. Done: `Rn2903`, `NoiseMonitor` with `MonitorLifecycle`; `WaitForResponse` with
   `LineReader`; `SaveToFlash` with `CalibrationStore`; `Sampling`; their proofs.
   `FilterBank`, `UsartDriver`, `SystemInit` with its services, and `CacheOps`,
   checked.
2. Done: `UsartDriver_proof`, for every depth, message and clock; `CacheOps_proof`, for
   every geometry; the conversation in `NoiseMonitor_proof`, for every number of
   channels; `FilterBank_proof`, for every table and input;
   `SystemInit_proof`, every safety property, for any calls.
3. `WaitForResponse`'s FIFO as a refinement of one instance of `UsartDriver`.
