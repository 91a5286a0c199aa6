# Verification of the DDS function generator

TLA+ models of the firmware (`src/fpga/software/DDS_FunctionGen_20Mhz/src`, called
SW below) and of the FPGA logic (`src/fpga/verilog`), the TLC runs that check them on
small instances, and theorems checked by TLAPS for every value of the constants.

## 1. The system

A soft-core CPU without an operating system runs one endless loop (`main.c:54-67`):
`menu_draw` (handle inputs, redraw), `updateVariablesOnFpga` (write the parameter
registers, reset the generators, write the IRQ mask), `UpdateRamLookups` (regenerate
the look-up RAMs whose waveform changed).  Five interrupt handlers preempt it; they do
not preempt each other.  Everything is shared through global variables without locks.

| component | state | operations | interacts with |
|---|---|---|---|
| wave file player (`wavPlayer.c`) | `wavFile`, `fp`, `isFileValid`, `isOpen`, `endOfFile`, position | `ram_wav_update` (open, read a half buffer, rewind, stop) | called by the refill interrupt; flags written by the SD page; reads the card through FatFs |
| refill interrupt (`hardware.c:229-279`) | `previusValue`; PIO edge capture and mask | `ISR_lookupRam` | phase bits of six generators; look-up RAMs; the player |
| parameter registers (`hardware.c:41-150`) | FPGA registers, `resetDDS`, IRQ mask | `updateVariablesOnFpga`, `ResetDDSModules` | `DDS_Variables`, written by the menu |
| RAM regeneration (`ramLookupTables.c`) | six RAMs and the waveform each holds | `UpdateRamLookups`, `UpdateRam`, sample functions | preempted by the refill interrupt |
| front panel (`hardware.c:179-226`) | `btnEncoder`, `encoder`, `btnDisplay`, `keypad`, `resetDDS`, output relays | four input interrupts | read and cleared by `menu_draw` |
| menu (`menu.c`, `menu_pages/*`) | current page, page stack, typing screen, selections | `menu_draw`, push, pop, handlers of eight pages | `DDS_Variables`, `sweepVariables`, LCD |
| sweep (`menu_sweep.c`) | `sweepVariables`, saved copy of `DDS_Variables` | `Compute` | overwrites and restores a channel's settings |
| SD page (`menu_sd.c`) | selected file, path, mount flag | list, enter, load, stop | FatFs in the main loop, the player's flags |
| SD driver (`SD.c`, `SPI.c`, `diskio.c`) | card type, chip select | initialise, read one or several blocks | SPI DMA module, card |
| FatFs (`fat_fs/ff.c`, vendored) | volume, sector window, the player's `FIL` | `f_open`, `f_read`, `f_lseek`, directories | the player, the SD page, the SD driver |
| LCD driver (`GLCD.c`, `lcd_NHD_C128128.c`) | screen buffer | clear, draw, `GLCD_Update` | LCD DMA module, which never tells that it is done |
| keypad scanner (`Keypad.v`) | column counter, active key | scan | keypad PIO |
| DMA interfaces (`LCD_DMA_Interface.v`, `SPI_DMA_Interface.v`) | counters, handshake | transfer bytes | bus master, LCD, SPI core |
| DDS core (`DDS_*.v`) | phase accumulators | generate, modulate | RAMs, parameter registers |
| delay (`delay.c`) | 32-bit down counter | elapsed time, busy wait | all drivers |

Hard behaviours: preemption of every multi-step assignment by handlers that read the
same globals; edges lost between the read of the bits and the clearing of the capture
register; service delayed by a masked interrupt; a non-reentrant FatFs used in two
contexts; inputs latched in one word and cleared after their handler; handlers that run
before their page is initialised; pointers kept across pages; 32-bit timer wrap; card
timeouts and retries.

What makes each component correct, in one line: the player writes only the half that is
not being read, in file order, and stops when told; the refill interrupt serves every
edge of an armed generator; the registers never arm a generator that is not slow; the
regenerated RAMs hold one waveform; an input is handled once, or again only by being held,
and by a page that is ready for it; the typing screen edits what the user sees; the sweep gives back what it
took; the driver returns the sector asked for or an error, and always returns; a byte is made
of eight consecutive bits; the display ends up showing what was drawn; a key press is
reported once; channels set alike run in phase after a reset; the delay lasts its ticks.

## 2. The modules

| module | models | theorems in |
|---|---|---|
| `WavePlayback` | player, refill interrupt, edge capture and mask, reset, RAM regeneration, the SD page's use of the card, the main loop they preempt | `WavePlaybackProofs` |
| `DoubleBuffer` | abstract: what playing through one RAM promises; implemented by `WavePlayback` | `WavePlaybackProofs` |
| `FrontPanel` | input interrupts, `menu_draw`, page stack, handlers of all pages, typing screen, sweep, reset flag | `FrontPanelProofs` |
| `TypingScreen` | one value edited: digits, point, unit, `#`; the digit the encoder changes | `PageProofs` |
| `SdPage` | cursor, directory, path and selected file | `PageProofs` |
| `SDCard` | `SD.c` against a card that is late, refuses, is taken out | `SDCardProofs` |
| `BlockDevice` | abstract: what a card promises to the file system; implemented by `SDCard` | `SDCardProofs` |
| `CardFile` | EXTENDS `SDCard`: FatFs as the player calls it, and the player's reads, on that card | `CardFileProofs` |
| `WaveStream` | abstract: what the player promises to the RAM, whatever the card does; implemented by `CardFile` | `CardFileProofs` |
| `SpiDma` | `SPI_DMA_Interface.v`, clock by clock | `PeripheralProofs` |
| `LcdDma` | screen buffer, DMA controller, `LCD_DMA_Interface.v`, the display's memory | `PeripheralProofs` |
| `Keypad` | `Keypad.v`, clock by clock, with contacts that bounce | `PeripheralProofs` |
| `DdsCore` | carrier and FM phases of both channels, the writing of their registers, the reset pulse | `SignalProofs` |
| `Samples` | sample functions, clamping, the sample read from a stereo file, the AM product | `SignalProofs` |
| `Delay` | the down counter and `delay_us` | `PeripheralProofs` |
| `MCDevices` | nine of these parts side by side | `DevicesProofs` |
| `MCWavePlayback`, `MCFrontPanel` | the other modules of the runs | |

Definitions marked `mutant:` are plausible bugs, used by no specification: replacing the
definition below them by one must violate a property (`PROJECT.json`, "mutants").

### WavePlayback

*State.* `bank[g]` is the phase MSB of generator g, that is the half of its RAM being
read; `edges` and `mask` are the PIO's edge capture and IRQ mask; `tuned` are the
generators whose hardware step is below 500 Hz; `ram[g][h]` is what half h was last
written from (one value for 512 samples: a sampled shape, chunk k of a file, zeroes).
`want`, `slow`, `modulated`, `resetDDS` are the fields of `DDS_Variables`; `shape` is
`ramLookupDDS[].waveType` and its AM and FM siblings; the variables of `wavPlayer.c` and
`menu_sd.c` keep their names, `playing` and `chunk` are the open `fp` and its position.
`prompt` and `unplayed` are histories that no action reads, except through `Pace`.

*Actions.* The interrupt is `EnterIsr` (the bits are read), one `Check` per test of
`ISR_lookupRam` with the whole of `ram_wav_update` in it, and `LeaveIsr` (the bits
remembered, the edges cleared): the generators run on between these steps, the main loop
does not.  The main loop is one step per assignment wherever the interrupt reads what is
assigned: the stop (`StopFile`, `StopValid`), the selection of a file (`LoadFile`,
`LoadCopy`, `LoadValid`, `LoadEof`), the three groups of registers (`WriteParams`,
`ResetDDSModules`, `WriteMask`), the two halves of a regeneration and its tag.  Each has
the guard `At`, which says no interrupt is served or deliverable.

*Abstractions.* Pages other than the SD page are one page "other".  An encoder stage and
a display stage are kept of each pass; the keypad only tunes, as the encoder does.  The
list of files is a nondeterministic choice (its detail is `SdPage`).  The card never
fails: chunks come in their order, as `WaveStream` promises of a trusted card.  How they
come, and what comes when the card fails, is in `CardFile`.  After a reset the carrier's bit is free, since its phase
offset is; a carrier deviated by FM does not become fast.  `Torn` is `wavFile` while the
struct is copied.

*Pace.* `"free"`: nothing is assumed.  `"prompt"`: a generator below 500 Hz does not
complete a half-period (1 ms or more) during a refill that was begun at its edge.
`"full"`: neither while the edge waited for the mask.  Between the phase step and the mask
of one pass (`hardware.c:43-104`) a generator already runs at its new frequency under the old
mask.  The properties speak of generators whose step is slow (`tuned`), or whose edge was taken
at once (`prompt`): what is torn in that window is excused, and nothing here bounds it.

### FrontPanel

*State.* `turn`, `pushed`, `button`, `key` are the latches `encoder`, `btnEncoder`,
`btnDisplay` and `keypad`; `page`, `initialized` and `stack` are `menuPage` and its call
stack; `typing` is `typingScreen` without the number being typed; `val` maps each
editable value to its value in `0 .. Max`; `on`, `savedValid`, `saved` are the sweep's.
Pointers to editable values are pairs of a setting and a channel; `Wild` is an address
off the null `selectedDDS`.  A write through it is taken to change nothing that is
modelled.  `held` are the ports with a button down, `enables` the ENABLE buttons that are.
`unhandled`, `wanted` and `asked` are histories.

*Actions.* The input interrupts are actions of their own and, for the kinds in `AnyTime`,
enabled between any two steps of the main loop.  They come at falling edges but read levels:
`EncoderEdge` latches every button of the encoder that is down, also at an edge of the knob
(`hardware.c:180-181`); `PressDisplay` the buttons of the display that are; `PressEnable`
toggles the relay of each channel whose button is down (`hardware.c:217-221`), of one or
both.  The button whose edge it was is still down when its level is read, microseconds
later.  `Release` and `ReleaseEnable` are no interrupts: a button is up again.
`menu_draw` is, for each latch, the handler
and then the clearing: a press in between is lost, as in the code.  The handlers are the
`case`s of `btn_display` grouped by what they do, with the page as parameter;
`menu_ProcessKeypadPress` is one action per kind of key.  `DrawPage` is init and draw of
the page, with `Compute` on the sweep page.  `PulseReset` and `ClearReset` are the two
halves of `ResetDDSModules`.

*Abstractions.* A setting stands for the values one page edits alike.  Whether the
typed number fits is a choice; `TypingScreen` has the arithmetic.  The steps the encoder
latches add up within `Turns`.  Sweep arithmetic is over integers, `/ 2` rounds down.
Two display buttons, pressed before the latch is handled or one while another is held, are
the value `"many"`, which matches no case.  The buttons of the encoder are one, and a port's
buttons are released together.  `Pressed` are the display buttons and keys that occur, `Holds` the
kinds of input whose buttons may stay down while something else happens.  Before its first
init the settings page follows a null pointer of its own: nothing it can reach is
modelled.

### TypingScreen and SdPage

`TypingScreen` is `menu_ProcessKeypadPress` on one value: `entered`, `decimalPoint`,
`numDecimalValues` and `measuringUnitIndex` are what it accumulates, in exact numbers
(parts of `Power[Decimals]`, the power of `Base`).  Of a kind of value only its range and its multipliers
matter.  The third multiplier of an amplitude is 0, and keys B and C of a percentage
read behind its one-element array (`dataStructure.c:27-32`): `beyond` is the memory
there, any of `Words`.

`Encoder` is `menu_ProcessEncoder`: the steps latched since the last pass (`Turns`) change
the digit under the cursor, then the button moves the cursor, and every handler ends in
`menu_ClampSelectedDigit` with the value it leaves: `TypingTypeOK` says that the cursor is
on a digit the value shows and the value in its range, whoever changed it last.  Observed
and not a property: a step that clears the last decimal moves the cursor to the units, so
1.9 turned up by tenths is 2.0 and then 3.0.

`SdPage` handles inputs by what the last redraw left (`selectedFile`, `fileCount`) and
then redraws: the list may end early when the card fails, and an entry may be stale.
Observed and not a property: the program opens `wavFile.fname` without its directory
(`wavPlayer.c:57`, `:260`), so a file chosen inside a directory is looked for in the root.

### SDCard, BlockDevice, CardFile, WaveStream

In `SDCard` one action is one command or one polled byte; `sdpc` is the place in
`SD_Initialize` (`reset` to `capacity`, `block1`..`blockH`) or in a read (`token`,
`data`).  The card chooses whether it answers a poll, takes a command while it has a
block to send, is taken out or put in, and is one of three kinds.  Contents of a sector
are its number; what is read with no card is `Garbage`.  `Tries` and `Polls` stand for
the 100 and 500 of the loops; `Wrap` is 2^32, to which `sector * 512` is reduced.
`trusted` is a history: since its reset the card was never late with a block nor by two bytes
or more with the capacity bits (their place is then read as ones, and it passes for a card of
high capacity), never out, and is addressed by bytes.

That history is where the code's weak points meet: a token that comes at the very last
poll is dropped (`SD.c:369` tests the counter, not the token); after a timeout the card
still has a block to send; a high-capacity card is addressed by blocks but is given byte
addresses (`SD.c:122`); `sdStatus` stays 0 when the card is taken out.  A multiple block
read does not wait for the second token (`SD.c:407`); `OneSectorAtATime` shows that a
playing file never uses it.

`CardFile` runs the player on it: `at` is the place reached in `ram_wav_update` or in
the FatFs function it called, and a call of the driver is over when `sdpc` is "idle"
again.  Of FatFs there is the volume's window, the file's own sector buffer, its error
flag and position; a volume is one boot sector, a file lies in one piece, a directory is
a list of sectors.  `half` is what the RAM was last filled with, byte by byte, and
`start` where in the file those bytes should come from.

`WaveStream` says what the player owes to the RAM: a file is opened when it is wanted, each
refill is the chunk at `place`, the last one is followed by the first, and a file no
longer wanted is closed to silence.  From a card that can not be trusted a refill may be
anything, but never comes from a file that is not wanted.  The refinement (`Stream` in
`CardFile`) maps `place` to the position of the open file, or to where the refill under
way began; behind the last chunk, and while no file is open, to the first chunk.

### SpiDma, LcdDma, Keypad, DdsCore, Delay, Samples

One step of `SpiDma` is one clock of all its registers.  The card is the position of the
bit it shows.  Between two bytes the DMA controller holds the bus or lets it go.

`LcdDma` tells bytes apart by picture and index.  The main loop clears, draws and calls
`GLCD_Update` without knowing of the transfer; a request during a transfer makes the
controller start anew while the interface counts on (`overlapped`), and the picture is
shifted: this is what the code does, and the properties except it.  `GLCD_Update` is
possible only before the interface's counter is full (bound `byteCounter < Size`).

`Keypad` is both `always` blocks of `Keypad.v`; `Finger` moves one key, `Contacts` are
the readings possible while it bounces.  Two keys in one column read as none.

`DdsCore` writes the registers in the order of `hardware.c:43-84` while both channels
run, then gives the reset pulse.  A modulator's address register lags its phase, so the
pulse must last two clocks (`PulseClocks`, an assumption; two writes of the CPU to a PIO
are farther apart).

`Delay` is `delay_us` with a poll at most every `Gap` clocks.  `Samples` has as state the
inputs of one computation, and the definitions compute it in words of their width.

### MCDevices

The nine parts - card with file and player, keypad, LCD, SPI, DDS, samples, delay, typing
screen and SD page - share no state with each other, so one run checks them side by side:
`focus` says which one moves, the others stay where they start.  Its states are the sum, not
the product, of theirs.

## 3. The runs

| run | question | bounds |
|---|---|---|
| `playback_one` | with every input, are card, RAM and stop protected? | one carrier, a playable and an unplayable file of 2 chunks, `prompt` |
| `playback_two` | do two generators sharing the handler overwrite, tear or mix? | a carrier and an AM modulator, 1 chunk, `prompt` |
| `playback_stream` | does playback implement `DoubleBuffer`, and does a stop close the file? | one carrier, two files of 3 chunks, every input but `tuneUp`, `full`, fairness |
| `playback_stereo` | finding: both carriers on ARB | violated |
| `playback_edges` | finding: edges of two generators | violated |
| `playback_mask` | finding: frequencies the mask tests | violated |
| `panel_inputs` | inputs at any time, buttons of the encoder held: stack, typing screen, what a latch holds | one channel, all pages but the SD page, three display buttons and two keys, values of one element |
| `panel_values` | do values stay in range over typing, turning and sweeping? | one channel, sweep and FM page, all buttons, those of the display held, values 0 and 1, one input per pass |
| `panel_enable` | ENABLE at any time, held or not: sweep, relays and resets | both channels, sweep page, three display buttons and the encoder's, one of them per pass |
| `panel_uninit` | finding: a handler before its page's init | violated |
| `devices` | the drivers, interfaces and computations, each with its properties | see below |
| `delay` | finding: the length of a microsecond | violated |

Why the bounds are enough.  *Playback:* two generators give every race on the shared
handler, capture register and file, since the handler's tests differ only in their bit;
two chunks tell rewind from continuation, three a skipped chunk from a rewind; ARB = 1
keeps one other shape; two files tell a switch from a rewind.  `tuneUp` is left out
where a generator that becomes fast is still armed until the mask is written: it then
outruns any CPU.  *Panel:* two values give a range with an inside step, a sweep downwards
and a negative deviation; `AnyTime` is what the races need, values are not, so the two
are in different runs.  Only the ENABLE buttons make a channel depend on the other, so two
channels are in their run alone, where ENABLE comes at any time and the display buttons, in
turn, once per pass.  The three buttons of `panel_inputs` are RETURN, the one that opens the
menu or selects the channel, and one that opens an icon's page or starts an edit; the
other cases edit another value in the same way.  Its keys are a digit and `#`, which may find
the number valid or not; a step of the knob up stands for both directions, as no value can
follow either.

*devices* (376,374 states in all).  Card and file: `Tries` = 1 and `Polls` = 1 reach both
ends of every loop; a sector of 2 bytes and a cluster of 4 sectors let one stereo chunk
begin and end inside a sector, cross sectors, a cluster and the end of the file; two
directory sectors.  Keypad: the code's 10 and 20, bounces of 8 clocks (4 ms at the 2 kHz
scan clock), 24 clocks between two moves (at 16 a second press within one debounce is
missed); with bounces of 9 a press in the first dozen clocks after power-up can be
reported twice.  LCD: two pages of two columns.  SPI: three bytes, a
counter that wraps at 16.  DDS: a phase of 4 steps, a square modulation, two settings.
Delay: a period of 64 against delays of 0, 25 and 50 ticks meets the wrap.  Samples: the
program's own constants for the tables and the limits of 16 bits; the AM product for
every operand of words of F = 8.  Typing: numbers to the base 2 in halves, two digits and the point,
up to two steps of the encoder either way, three kinds of value.  SD page: a directory in a directory, and an empty one.

*Fairness.*  In `playback_stream`: the interrupt is served (weak fairness of `Isr`); the
generators run (weak fairness of each `Toggle`); the main loop, though preempted again
and again, advances (strong fairness): a half-period of a slow generator is 1 ms or more,
and a refill, which the product is built on, shorter.  In `devices`: the program is
synchronous, so the driver and the player go on whatever the card does (`Driver`,
`Player`); refills do not cease while a file is open (`Update`: an armed generator
oscillates); the clocks of the scanner and of the LCD interface run (`KeypadClock`,
`Transfer`).  Nothing is assumed of the card, the user or the fingers.

*Findings.*
1. `playback_stereo`: with both carriers on ARB the edge of DDS0 refills the same half of
   both RAMs; DDS1 may be reading it.  The repository's README says the consumed half is
   replaced.
2. `playback_edges`: an edge of another generator captured while the handler runs is
   cleared unserved, because any write clears the whole register (`hardware.c:278`).
3. `playback_mask`: the modulators of channel 1 are armed by the frequencies of channel 0
   (`hardware.c:99`, `:101`), against the comment at `:88`.
4. `panel_uninit`: the encoder button opens the FM page and a display button latched in
   the meantime reaches its handler before its init; the typing screen is then enabled
   on an address off a null pointer (`menu.c:42`).
5. `delay`: `delay_us` counts 25 ticks for a microsecond of a timer that counts 100 (the
   BSP's `system.h:1468`); the formula is right at 50 MHz only.  Delays are a quarter of what
   their callers ask for: the wait of the counterexample starts far from the timer's end, and
   with the right number of ticks the property holds.  That a wait is shorter still when the
   timer wraps meanwhile is the other part, and in `DelayWindow`.

Some properties hold but name a flaw of the code and bound it: the one window in which a
stop or a reset is lost (`StopForgottenOnlyInWindow`, `ResetLostOnlyInWindow`), the sweep
and the held button that undo a relay (`RelayUndoneOnlyBySweepOrHold`: with ENABLE of one
channel down, pressing the other's switches both), the button of the encoder that is handled
again at each detent of the knob while it is held (`NoReplay`), the pages whose values another page can
still edit (`TypingOwner`), the deviation that may be negative (`ValuesInRange`), the
RAM that keeps half a chunk of the file because its generator leaves ARB while another
one is armed (`MixedOnlyByOthers`), the `#` that closes the "INVALID VALUE!" window and
sets the value to 0 where 0 is legal, so that `menu.c:163` is never reached
(`EnterStoresTheEntry`), the sample louder than 16 bits less 1200 that changes its sign
(`BoostKeepsSign`), the carrier inverted where AM is off (`AmFollowsFormula`,
`DDS_Modulator.v:64`), the path two names too long (`PathNearTheCard`).

## 4. The proofs

Each theorem is of the module's specification, for every value of the constants, from
the module's own named assumption only - and the hypotheses named below, where a
theorem has one.  50 theorems are listed in `PROJECT.json`; the
arguments:

**WavePlaybackProofs** (any active generators, files, chunks, inputs; any `Pace` but
where said)
- `TypeCorrect`: `TypeOK` alone is not inductive: the RAM regenerated next is a `CHOOSE`
  from the stale ones, so `Regenerating` (half-way through, one is stale) is carried along.
- `FatFsNotReentered`, from `Disarmed`: in FatFs the mask is empty and the handler idle,
  hence nothing is deliverable until `WriteMask`.
- `StopKept`, with `Selecting`: when a selection is about to clear `endOfFile`, the
  selection is valid or no file is open.
- `NothingOverwritten`: `WaitingInv` says when a half may wait to be played: it is the
  one the generator is not in, and either the edge that led there was the last one seen,
  or it is in the check that was just made.  The order of the checks (`Unchecked`)
  enters, since a half is written by one check and must not be a target of a later one.
- `TearsAreLate`, from `PromptSeen`: who moved after its bit was read is not prompt.
- `RegeneratedWhole`: `ArmedOnArb` (without a mask no handler runs; after `WriteMask`
  only generators on ARB are in it), `UpToDate` (buttons are handled when all RAMs are)
  and `HalvesWritten` (what UpdateRam wrote stays, unless ...).  The exception was found
  by trying to prove the property without it.
- `PlaysThroughDoubleBuffer`: with one generator, a CPU that keeps up and no tuning
  upwards (`OneInTime`), `WavePlayback` implements `DoubleBuffer`.  `Still` keeps the
  other generators out of the handler, `SlowWhenServed` shows that whoever is served is
  slow, `SeenWhereItIs` that it is still in the half it was seen in, and `WaitingInv`
  that this half has been played.  Every step then is a swap, a refill, a stop, a skip, a
  regeneration or a stutter.  `ConsumedHalfReplaced` follows from the same invariant.

**FrontPanelProofs** (any channels, pages, range of values, inputs): all nine properties
of the panel's runs.  `TypeCorrect` rests on the arithmetic of two values (the middle and
half the distance stay in the range), `PagesNest` on `Nested` (the depth of the stack is
the page's), `TypingHasValue` on NULL being no value (an assumption), `SweepFollowsSwitch`
on `Pending` (switch and saved settings differ only on the sweep page before its redraw).
The others are inductive together with `TypeOK`.  `InputsHandledOnce` and
`RelaysFollowEnable` state what the levels leave: only a button of the encoder that was down
at an edge since is handled again, and only one's own ENABLE, still down when the other
channel's is pressed, or the end of a sweep takes back what ENABLE switched.

**SDCardProofs**: `DriverIsBlockDevice`, `SDCard` implements `BlockDevice`.  `HonestCard`
says what a trusted card is about to send; lemma `AddressFits` that a trusted card's
sectors are reached by their 32-bit address.  `StatusIsTruthful`, from `InitializedCard`:
from which step of `SD_Initialize` on a trusted card is ready, and that it is one
addressed by bytes.

**CardFileProofs** (any file, sector and cluster size, directory and format; on any card):
one invariant, `FileInv`, over the lemmas about the driver.  `Control` says what FatFs has
found out by each place.  `Requests` ties the running command to the sector wanted there,
and a trusted answer to it; the driver's part of that comes from `SDCardProofs` by the
lemma that a step of `CardFile` is a step of the driver or leaves it alone.  `Buffers`
says that the window and the file's buffer hold the sectors they are labelled with.
`Positions`: between two calls of `f_read` the position is as far in a sector as the
samples' first byte, or at the end of the file; as that is not the sector's first byte,
a call crosses at most two borders and a direct read is one sector
(`ReadsOneSectorAtATime`).  `Contents`: the buffer holds the file from `start` to the
position.  `OpenFileIsReadable` follows.
- `PlayerIsStream`, `CardFile` implements `WaveStream`: `Selected` says that a file is read
  only while it is wanted; `ChunkRead`, from `Contents` and `Positions`, that what is
  stored is the chunk at `start` and the position then is the one behind it.  Every step
  is then one of the stream's, or leaves its state alone.
- `UpdateIsBounded`: `StepsLeft` is a tuple of six natural numbers - the stage of
  `ram_wav_update`, the directory sectors or calls of `f_read` to go, the bytes to go, the
  steps of FatFs for a sector, those of the driver, its polls - and every step inside an
  update makes it less in the order of tuples, except that the card may be moved.
  `Counting` is needed for the polls and for the bytes: a sector goes through the file's
  buffer only when less than all of it is wanted, so the copy that follows takes at least
  a byte.  There is then no endless loop in player, FatFs or driver.  That the next step
  is always possible, hence that the update returns (`UpdateReturns`), is liveness and
  checked by TLC.
- `DriverServesFatFs`: if the sectors of the file, of its directory and of the FAT are
  among those of the card (`AsksForTheFile`, which the run's constants meet), FatFs uses
  the driver only as `SDSpec` allows; so `DriverIsBlockDevice` and `StatusIsTruthful` hold
  of the driver under FatFs.

**SignalProofs**: `ResetAlignsChannels`, from `PulseClears` (what a pulse of n clocks
has zeroed) and `CarriedPhase` (equal settings carry equal phases on).  `TablesAreWellFormed`
reduces each shape to a line of known slope and its clamping.  `AMFollowsItsFormula`, for
words of any width: the quotients are bounded one by one, and no sum leaves the signed
register but for index 0.

**PeripheralProofs**
- `ScreenSettles`, for any screen and pictures, from `Handshake` (controller and interface
  agree whose turn it is), `InStep` (as long as no transfer cuts into another one, both
  count the same bytes and the display's address is that of the byte) and `Content` (what
  has been written since the transfer was begun is the picture).
- `BytesAreInOrder`, for any length of a transfer and any even width of the divider, from
  the position of the card (`BitPosition`), the divider against the clock line
  (`ClockPhase`) and the bits taken so far (`BitsTaken`).
- `DelayLength`, from `Elapsing` (timer, snapshot and elapsed time agree up to periods).
- `ReportedKeysWereMet`.  `CodeWasMet`: the code is a key sampled since a scan met none,
  or that of power-up, which is gone before the press delay is over.
- `PressesAreReportedOnce`, for any keys, columns and debounce delays, under `FingersRest`:
  contacts bounce at most 8 clocks, one scan, and fingers rest 12 clocks after that, a scan
  and its 4 columns.  At the 2 kHz scan clock these are 4 ms and 6 ms: a hypothesis about
  hands and contacts, not about the code.  Neither number can be weakened: TLC finds a
  press reported twice with bounces of 9, however long the rest, and with rests of 11
  after bounces of 5 (keys of columns 0 and 2, the code's delays).  `OnceInv` says what the scan
  under way and the last one know of the keys that are down (`ThisScan`, `LastScan`), and
  that a key reported is waited for or can no longer be met (`ReportedOnce`).

**PageProofs**
- `PathStaysNear`.  `CursorCaught`: one name too deep the list is empty or about to be
  read anew, two too deep the cursor is at "..".
- `WhatIsTypedIsStored`, for entries of any length.  `Accumulated`: number, point and
  flags are those of the digits typed since the last `#`.  `Worth` and `Power` are
  recursive functions; what they compute is proved without an induction theorem, by the
  least argument at which a claim fails (`LeastMember`, from `WFMin` on the order of `Nat`).

**DevicesProofs**: the nine parts of `MCDevices` side by side.  `PartsStep`: a step of the
whole is a step of each part or leaves it alone; what a part keeps alone it keeps there.
The specifications of card, keypad and LCD are fair to them at any time, that of the whole
only while they have the `focus`; so for these three the lemmas about steps are used, which
need no fairness, and not the theorems of their own specifications.  Of the run's properties
all invariants (`DevicesKeepTypes`, `DevicesKeepInvariants`) and all but liveness of the others
(`DevicesKeepPromises`; `DevicesKeepTheDevice` and `DevicesReportOnce` under the hypotheses
named above) are theorems for every value of the constants.

Type correctness is proved for each module that models code.

*Only model-checked:* liveness (`StopCloses`, `UpdateReturns`, `ScreenCatchesUp`,
`KeyReported`), which is beyond the prover.  Every invariant and every action property or
refinement that a passing run checks is also a theorem, those of the playback and panel
runs under the hypotheses named above.

## 5. Not modelled

- *Parameter conversions* (`ComputePhaseStep` and the like): single expressions in
  floating point.  The sine samples for the same reason.
- *FatFs* but for what the player calls: vendored (with the 15,597 lines of character
  tables in `ffunicode.c`).  Writing, names, several partitions and fragmented files are
  left out.
- *Fonts, bitmaps, drawing; initialisation of the display*: data and pure output.
- *PWM* (a free-running counter and a comparator), *top level and PLL* (wiring), *sine
  table in Verilog* (instantiated by no file).
- *Board support package and Qsys system*: generated; with the C library's headers and
  the vendored tables they are the greater part of the repository's lines, so the share
  of all lines that is modelled stays small.
- *Timing of the DAC and of the AM phase, truncation of phase offsets.*
- *The values of the settings page* (brightness and the like), which nothing else reads.

What is left to do: `WavePlayback` on a card that fails, that is with `WaveStream` in the
place of its own chunks; the two are now checked and proved apart.
