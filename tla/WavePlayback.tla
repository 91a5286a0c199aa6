---------------------------- MODULE WavePlayback ----------------------------
(***************************************************************************)
(* Playing a wave file through the look-up RAMs.                           *)
(*                                                                         *)
(* Six wave generators (carrier, AM and FM of two channels) read their     *)
(* look-up RAM all the time.  The most significant phase bit of each is an *)
(* input of one PIO; both edges are captured, and an enabled captured edge *)
(* interrupts the CPU.  ISR_lookupRam compares the six bits with those it  *)
(* saw last and refills the half that is not being read from the one open  *)
(* wave file.  The main loop (menu_draw, updateVariablesOnFpga,            *)
(* UpdateRamLookups) is preempted by it: it starts and stops the file,     *)
(* reads the card's directory, regenerates RAMs and owns the IRQ mask.     *)
(*                                                                         *)
(* A half is one value: what its 512 samples were last written from.       *)
(***************************************************************************)
EXTENDS Naturals

CONSTANTS
  Active,     \* generators whose settings the user touches; they oscillate
  Files,      \* files on the card
  Playable,   \* files whose header wave_ReadHeader accepts
  Supported,  \* files whose sample format ramUpdate knows
  Torn,       \* what wavFile is while the struct copy is under way
  Chunks,     \* half-buffer reads in every file (bound)
  Arb,        \* e_WAVE_ARB: the last of the selectable shapes 0 .. Arb
  Inputs,     \* which user inputs occur (bound)
  Pace        \* what is assumed of the CPU's speed: "free", "prompt" or "full"

\* Carrier, AM and FM generator of channels 0 and 1
Generators == {"D0", "A0", "F0", "D1", "A1", "F1"}
Carriers   == {"D0", "D1"}
AllInputs  == {"wave", "modulation", "tuneDown", "tuneUp", "load", "stop",
               "browse", "enable"}

ASSUME PlaybackAssumption ==
  /\ Active \subseteq Generators
  /\ Playable \subseteq Files /\ Supported \subseteq Files
  /\ Torn \notin Files
  /\ Chunks \in Nat \ {0}
  /\ Arb \in Nat \ {0}
  /\ Inputs \subseteq AllInputs
  /\ Pace \in {"free", "prompt", "full"}

VARIABLES
  \* the wave generators and the PIO
  bank,       \* [generator -> MSB of its phase]: the half being read
  tuned,      \* generators whose hardware phase step is below 500 Hz
  edges,      \* edge capture register
  mask,       \* IRQ mask register
  prompt,     \* generators whose last edge was taken by the CPU at once
  ram,        \* [generator -> [half -> contents]]
  unplayed,   \* {<<generator, half>>}: refilled and not read since (history)
  \* DDS_Variables, written by the handlers
  want, modulated, slow, resetDDS,
  \* ramLookupDDS[].waveType, AM_waveType, FM_waveType
  shape,
  \* ISR_lookupRam
  isr, value, previous,
  \* wavPlayer.c
  isFileValid, isOpen, endOfFile, wavFile, playing, chunk,
  \* main loop and menu_sd.c
  pc, stage, redraw, page, initialized, listed

hwVars     == <<bank, tuned, edges, mask, prompt, ram, unplayed>>
ddsVars    == <<want, modulated, slow, resetDDS>>
isrVars    == <<isr, value, previous>>
playerVars == <<isFileValid, isOpen, endOfFile, wavFile, playing, chunk>>
menuVars   == <<pc, stage, redraw, page, initialized, listed>>
vars == <<hwVars, ddsVars, shape, isrVars, playerVars, menuVars>>

Half == {0, 1}
NoWave == Arb + 1                       \* e_WAVE_NONE
Wave == 0 .. NoWave

\* The contents of a half
Blank == <<"blank">>                    \* RAM before the first UpdateRam
Zero  == <<"zero">>
Samples(w) == IF w = Arb THEN Zero ELSE <<"shape", w>>
Chunk(f, k) == <<"chunk", f, k>>
Content == {Blank, Zero} \cup {<<"shape", w>> : w \in Wave}
             \cup {Chunk(f, k) : f \in Files, k \in 0 .. Chunks}

MainPC == {"input", "stopValid", "loadCopy", "loadValid", "loadEof", "redraw",
           "mount", "list", "params", "reset", "mask", "ram", "ramHigh",
           "ramTag"}

\* The main loop is inside FatFs
InFatFs == pc \in {"mount", "list"}

Init ==
  /\ bank = [g \in Generators |-> 0]
  /\ tuned = {} /\ edges = {} /\ mask = {} /\ prompt = {}
  /\ ram = [g \in Generators |-> [h \in Half |-> Blank]]
  /\ unplayed = {}
  /\ want = [g \in Generators |-> 0]
  /\ modulated = Carriers        \* a carrier needs no modulation switch
  /\ slow = {}
  /\ resetDDS = TRUE
  /\ shape = [g \in Generators |-> NoWave]
  /\ isr = "idle"
  /\ value = [g \in Generators |-> 0]
  /\ previous = [g \in Generators |-> 0]
  /\ isFileValid = FALSE /\ isOpen = FALSE /\ endOfFile = FALSE
  /\ wavFile = Torn /\ playing = Torn /\ chunk = 0
  /\ pc = "input" /\ stage = "encoder" /\ redraw = TRUE
  /\ page = "other" /\ initialized = TRUE /\ listed = FALSE

-----------------------------------------------------------------------------
(* The generators and the PIO *)

\* The CPU takes an interrupt as soon as an enabled edge is captured.
Deliverable == edges \cap mask # {}

\* With "prompt", a refill begun at the edge of a slow generator is over before
\* its next edge; with "full", so is one the mask delayed.
InTime(g) ==
  g \in tuned =>
    CASE Pace = "free"   -> TRUE
      [] Pace = "prompt" -> g \notin prompt
      [] Pace = "full"   -> /\ g \notin edges \cap mask
                            /\ isr # "idle" => value[g] = previous[g]

\* A generator enters its other half: it starts reading it, and the edge is
\* captured whatever the mask.
Toggle(g) ==
  /\ g \in Active /\ InTime(g)
  /\ bank' = [bank EXCEPT ![g] = 1 - @]
  /\ edges' = edges \cup {g}
  /\ unplayed' = unplayed \ {<<g, 1 - bank[g]>>}
  /\ prompt' = IF g \in mask /\ isr = "idle" THEN prompt \cup {g}
                                             ELSE prompt \ {g}
  /\ UNCHANGED <<tuned, mask, ram, ddsVars, shape, isrVars, playerVars, menuVars>>

-----------------------------------------------------------------------------
(* ram_wav_update: one call, on the halves `targets` *)

\* ramUpdate: the next chunk of the file, or nothing in an unknown format
Filled(f, k, targets) ==
  IF f \in Supported
  THEN [g \in Generators |-> [h \in Half |->
          IF <<g, h>> \in targets THEN Chunk(f, k) ELSE ram[g][h]]]
  ELSE ram

Silenced(targets) ==
  [g \in Generators |-> [h \in Half |->
     IF <<g, h>> \in targets THEN Zero ELSE ram[g][h]]]

\* A half written while idle stays unplayed until the generator enters it.
Refilled(targets) == unplayed \cup {t \in targets : bank[t[1]] # t[2]}

\* The header of a newly selected file is rejected: the selection is dropped.
RejectFile ==
  /\ isFileValid /\ ~isOpen /\ wavFile \notin Playable
  /\ endOfFile' = FALSE /\ isFileValid' = FALSE /\ isOpen' = FALSE
  /\ UNCHANGED <<ram, unplayed, wavFile, playing, chunk>>

NextChunkNoRewind(f, k) == k + 1                      \* mutant: no rewind at the end
NextChunkSkips(f, k) == IF k + 2 >= Chunks THEN 0 ELSE k + 2     \* mutant: two reads

\* At the end of the data (or when endOfFile was set meanwhile) the file is
\* rewound: isFileValid holds, so it is not closed.
NextChunk(f, k) ==
  IF f \notin Supported \/ k + 1 >= Chunks \/ endOfFile THEN 0 ELSE k + 1

\* A chunk is read, from the first one when the file is opened by this call.
PlayChunk(targets) ==
  LET f == IF isOpen THEN playing ELSE wavFile
      k == IF isOpen THEN chunk ELSE 0
  IN /\ isFileValid /\ (isOpen \/ wavFile \in Playable)
     /\ playing' = f /\ isOpen' = TRUE
     /\ ram' = Filled(f, k, targets)
     /\ unplayed' = IF f \in Supported THEN Refilled(targets) ELSE unplayed
     /\ chunk' = NextChunk(f, k)
     /\ endOfFile' = FALSE
     /\ UNCHANGED <<isFileValid, wavFile>>

\* mutant: f_close without isOpen = false
CloseFileLeavesOpen(targets) ==
  /\ ~isFileValid /\ endOfFile /\ isOpen
  /\ ram' = Silenced(targets)
  /\ unplayed' = Refilled(targets)
  /\ endOfFile' = FALSE
  /\ UNCHANGED <<isFileValid, isOpen, wavFile, playing, chunk>>

\* A stop is noticed: this half is silenced and the file closed; endOfFile stays.
CloseFile(targets) ==
  /\ ~isFileValid /\ endOfFile /\ isOpen
  /\ ram' = Silenced(targets)
  /\ unplayed' = Refilled(targets)
  /\ isOpen' = FALSE
  /\ UNCHANGED <<isFileValid, endOfFile, wavFile, playing, chunk>>

\* Nothing to play: a left-over endOfFile is cleared (f_lseek fails, no file).
NothingToPlay ==
  /\ ~isFileValid /\ ~(endOfFile /\ isOpen)
  /\ endOfFile' = FALSE
  /\ UNCHANGED <<ram, unplayed, isFileValid, isOpen, wavFile, playing, chunk>>

ram_wav_update(targets) ==
  \/ RejectFile
  \/ PlayChunk(targets)
  \/ CloseFile(targets)
  \/ NothingToPlay

-----------------------------------------------------------------------------
(* ISR_lookupRam *)

\* The checks the handler makes, in order
Checks == {"carriers", "A0", "F0", "A1", "F1"}
After == [carriers |-> "A0", A0 |-> "F0", F0 |-> "A1", A1 |-> "F1", F1 |-> "leave"]

BusyHalf(bit) == bit                                  \* mutant: halves swapped

\* A high bit: the upper half is being read, the lower one is refilled.
IdleHalf(bit) == 1 - bit

AnyEdge(g) == TRUE                                    \* mutant: no comparison

Changed(g) == value[g] # previous[g]

\* The halves of the carriers to refill (an if - else if chain): with both on
\* ARB the edge of DDS0 refills both RAMs and the edge of DDS1 refills neither.
CarrierTargets ==
  LET arb(g) == shape[g] = Arb
  IN IF Changed("D0") /\ arb("D0") /\ arb("D1")
       THEN {<<g, IdleHalf(value["D0"])>> : g \in Carriers}
     ELSE IF Changed("D0") /\ arb("D0") THEN {<<"D0", IdleHalf(value["D0"])>>}
     ELSE IF Changed("D1") /\ arb("D1") /\ ~arb("D0")
       THEN {<<"D1", IdleHalf(value["D1"])>>}
     ELSE {}

ModulatorTargets(g) ==
  IF Changed(g) /\ shape[g] = Arb /\ g \in modulated
    THEN {<<g, IdleHalf(value[g])>>} ELSE {}

\* What ram_wav_update is called for at this check; {} when it is not called
Targets(check) ==
  IF check = "carriers" THEN CarrierTargets ELSE ModulatorTargets(check)

\* The interrupt is taken: the six bits are read.
EnterIsr ==
  /\ isr = "idle" /\ Deliverable
  /\ isr' = "carriers"
  /\ value' = bank
  /\ UNCHANGED <<hwVars, ddsVars, shape, previous, playerVars, menuVars>>

\* One check, with the call it makes
Check ==
  /\ isr \in Checks
  /\ isr' = After[isr]
  /\ IF Targets(isr) = {}
       THEN UNCHANGED <<ram, unplayed, playerVars>>
       ELSE ram_wav_update(Targets(isr))
  /\ UNCHANGED <<bank, tuned, edges, mask, prompt, ddsVars, shape, value, previous,
                 menuVars>>

\* The bits become the last ones seen; any write clears the whole register.
LeaveIsr ==
  /\ isr = "leave"
  /\ isr' = "idle"
  /\ previous' = value
  /\ edges' = {}
  /\ prompt' = {}
  /\ UNCHANGED <<bank, tuned, mask, ram, unplayed, ddsVars, shape, value,
                 playerVars, menuVars>>

-----------------------------------------------------------------------------
(* The main loop: runs only when no interrupt is served or deliverable *)

At(label) == pc = label /\ isr = "idle" /\ ~Deliverable
Goto(label) == pc' = label /\ UNCHANGED <<stage, redraw, page, initialized, listed>>

\* menu_draw dispatches the encoder, then the display buttons, then redraws.
EndHandler ==
  IF stage = "encoder" THEN pc' = "input" /\ stage' = "display"
                       ELSE pc' = "redraw" /\ stage' = "encoder"

NoInput ==
  /\ At("input")
  /\ EndHandler
  /\ UNCHANGED <<redraw, page, initialized, listed, hwVars, ddsVars, shape,
                 isrVars, playerVars>>

Handled(input) ==
  /\ At("input") /\ input \in Inputs
  /\ EndHandler /\ redraw' = TRUE
  /\ UNCHANGED <<hwVars, isrVars, shape, playerVars>>

\* WAVE button of the main, AM and FM pages
NextWave(g) ==
  /\ Handled("wave") /\ stage = "display" /\ page = "other" /\ g \in Active
  /\ want' = [want EXCEPT ![g] = (@ + 1) % (Arb + 1)]
  /\ UNCHANGED <<modulated, slow, resetDDS, page, initialized, listed>>

\* FM's ON button puts the channels in phase, AM's does not.
Resyncing == {"F0", "F1"}

\* ON button of the AM and FM pages
ToggleModulation(g) ==
  /\ Handled("modulation") /\ stage = "display" /\ page = "other"
  /\ g \in Active \ Carriers
  /\ modulated' = IF g \in modulated THEN modulated \ {g} ELSE modulated \cup {g}
  /\ resetDDS' = (resetDDS \/ g \in Resyncing)
  /\ UNCHANGED <<want, slow, page, initialized, listed>>

\* A frequency crosses 500 Hz (encoder; the keypad has the same effect)
Tune(g) ==
  /\ stage = "encoder" /\ page = "other" /\ g \in Active
  /\ IF g \in slow THEN Handled("tuneUp") /\ slow' = slow \ {g}
                   ELSE Handled("tuneDown") /\ slow' = slow \cup {g}
  /\ UNCHANGED <<want, modulated, resetDDS, page, initialized, listed>>

\* menu_PushPage(&menu_sd); without "browse", only while nothing is on ARB
OpenSD ==
  /\ Handled("load") /\ page = "other"
  /\ "browse" \in Inputs \/ \A g \in Generators : Arb \notin {want[g], shape[g]}
  /\ page' = "sd" /\ initialized' = FALSE
  /\ UNCHANGED <<ddsVars, listed>>

\* UP, DOWN, the encoder, a directory: only the list is redrawn.
MoveSelection ==
  /\ Handled("load") /\ page = "sd"
  /\ UNCHANGED <<ddsVars, page, initialized, listed>>

ReturnFromSD ==
  /\ Handled("load") /\ stage = "display" /\ page = "sd"
  /\ page' = "other" /\ initialized' = TRUE
  /\ UNCHANGED <<ddsVars, listed>>

\* LEFT: endOfFile = true; then isFileValid = false
StopFile ==
  /\ At("input") /\ "stop" \in Inputs /\ stage = "display" /\ page = "sd"
  /\ endOfFile' = TRUE
  /\ redraw' = TRUE /\ pc' = "stopValid"
  /\ UNCHANGED <<stage, page, initialized, listed, hwVars, ddsVars, shape, isrVars,
                 isFileValid, isOpen, wavFile, playing, chunk>>

StopValid ==
  /\ At("stopValid")
  /\ isFileValid' = FALSE
  /\ EndHandler
  /\ UNCHANGED <<redraw, page, initialized, listed, hwVars, ddsVars, shape, isrVars,
                 isOpen, endOfFile, wavFile, playing, chunk>>

\* OK or the encoder button, on a file: wavFile is copied member by member, then
\* isFileValid is set, then endOfFile cleared.  A file was listed before.
LoadFile ==
  /\ At("input") /\ "load" \in Inputs /\ page = "sd" /\ listed
  /\ wavFile' = Torn
  /\ redraw' = TRUE /\ pc' = "loadCopy"
  /\ UNCHANGED <<stage, page, initialized, listed, hwVars, ddsVars, shape, isrVars,
                 isFileValid, isOpen, endOfFile, playing, chunk>>

LoadCopy(f) ==
  /\ At("loadCopy")
  /\ wavFile' = f
  /\ Goto("loadValid")
  /\ UNCHANGED <<hwVars, ddsVars, shape, isrVars, isFileValid, isOpen, endOfFile,
                 playing, chunk>>

LoadValid ==
  /\ At("loadValid")
  /\ isFileValid' = TRUE
  /\ Goto("loadEof")
  /\ UNCHANGED <<hwVars, ddsVars, shape, isrVars, isOpen, endOfFile, wavFile,
                 playing, chunk>>

LoadEof ==
  /\ At("loadEof")
  /\ endOfFile' = FALSE
  /\ EndHandler
  /\ UNCHANGED <<redraw, page, initialized, listed, hwVars, ddsVars, shape, isrVars,
                 isFileValid, isOpen, wavFile, playing, chunk>>

\* Redraw of a page that leaves the card alone, or no redraw at all
DrawPage ==
  /\ At("redraw") /\ ~(redraw /\ page = "sd")
  /\ redraw' = FALSE /\ initialized' = TRUE
  /\ pc' = "params"
  /\ UNCHANGED <<stage, page, listed, hwVars, ddsVars, shape, isrVars, playerVars>>

StayArmed == mask' = mask                             \* mutant: mask not cleared

\* menu_sd.init and menu_sd.draw disarm the interrupt before they use FatFs.
DisarmForFatFs == mask' = {}

InitSD ==
  /\ At("redraw") /\ redraw /\ page = "sd" /\ ~initialized
  /\ DisarmForFatFs
  /\ pc' = "mount" /\ initialized' = TRUE
  /\ UNCHANGED <<stage, redraw, page, listed, bank, tuned, edges, prompt, ram,
                 unplayed, ddsVars, shape, isrVars, playerVars>>

DrawSD ==
  /\ At("mount") \/ (At("redraw") /\ redraw /\ page = "sd" /\ initialized)
  /\ DisarmForFatFs
  /\ pc' = "list"
  /\ UNCHANGED <<stage, redraw, page, initialized, listed, bank, tuned, edges,
                 prompt, ram, unplayed, ddsVars, shape, isrVars, playerVars>>

EndList ==
  /\ At("list")
  /\ listed' = TRUE /\ redraw' = FALSE /\ pc' = "params"
  /\ UNCHANGED <<stage, page, initialized, hwVars, ddsVars, shape, isrVars, playerVars>>

\* updateVariablesOnFpga: phase steps, then the reset, then the IRQ mask
WriteParams ==
  /\ At("params")
  /\ tuned' = slow
  /\ Goto("reset")
  /\ UNCHANGED <<bank, edges, mask, prompt, ram, unplayed, ddsVars, shape, isrVars,
                 playerVars>>

\* ResetDDSModules: all phases restart at 0.  A carrier's phase offset may put
\* its bit at 1 all the same.  A bit that changes is an edge.
ResetDDSModules ==
  /\ At("reset")
  /\ resetDDS' = FALSE
  /\ IF resetDDS
       THEN \E high \in SUBSET (Active \cap Carriers) :
              LET new == [g \in Generators |-> IF g \in high THEN 1 ELSE 0]
                  moved == {g \in Generators : new[g] # bank[g]}
              IN /\ bank' = new
                 /\ edges' = edges \cup moved
                 /\ prompt' = (prompt \ moved) \cup (moved \cap mask)
                 /\ unplayed' = unplayed \ {<<g, new[g]>> : g \in Generators}
       ELSE UNCHANGED <<bank, edges, prompt, unplayed>>
  /\ Goto("mask")
  /\ UNCHANGED <<tuned, mask, ram, want, modulated, slow, shape, isrVars, playerVars>>

\* The frequency each mask bit is tested on: channel 1's modulators use channel 0's
FrequencyTested(g) == IF g = "A1" THEN "A0" ELSE IF g = "F1" THEN "F0" ELSE g

\* mutant: tests the shape the RAM still has, not the one asked for
ArmedForShape == {g \in Generators : /\ shape[g] = Arb
                                     /\ g \in modulated
                                     /\ FrequencyTested(g) \in slow}

Armed == {g \in Generators : /\ want[g] = Arb
                             /\ g \in modulated
                             /\ FrequencyTested(g) \in slow}

WriteMask ==
  /\ At("mask")
  /\ mask' = Armed
  /\ Goto("ram")
  /\ UNCHANGED <<bank, tuned, edges, prompt, ram, unplayed, ddsVars, shape, isrVars,
                 playerVars>>

-----------------------------------------------------------------------------
(* UpdateRamLookups: the first generator, in order, whose RAM is out of date *)

Order == <<"D0", "A0", "F0", "D1", "A1", "F1">>
Stale == {i \in 1 .. 6 : want[Order[i]] # shape[Order[i]]}
NextStale == Order[CHOOSE i \in Stale : \A j \in Stale : i <= j]

\* UpdateRam writes one half
Regenerate(g, h) ==
  /\ ram' = [ram EXCEPT ![g][h] = Samples(want[g])]
  /\ unplayed' = unplayed \ {<<g, h>>}
  /\ UNCHANGED <<bank, tuned, edges, mask, prompt, ddsVars, shape, isrVars, playerVars>>

RamLow  == At("ram") /\ Stale # {} /\ Regenerate(NextStale, 0) /\ Goto("ramHigh")
RamHigh == At("ramHigh") /\ Regenerate(NextStale, 1) /\ Goto("ramTag")

RamTag ==
  /\ At("ramTag")
  /\ shape' = [shape EXCEPT ![NextStale] = want[NextStale]]
  /\ Goto("ram")
  /\ UNCHANGED <<hwVars, ddsVars, isrVars, playerVars>>

RamDone ==
  /\ At("ram") /\ Stale = {}
  /\ Goto("input")
  /\ UNCHANGED <<hwVars, ddsVars, shape, isrVars, playerVars>>

\* ISR_btnEnable: an ENABLE button asks for a reset of the generators.
PressEnable ==
  /\ "enable" \in Inputs /\ isr = "idle"
  /\ resetDDS' = TRUE
  /\ UNCHANGED <<hwVars, want, modulated, slow, shape, isrVars, playerVars, menuVars>>

-----------------------------------------------------------------------------
Isr == EnterIsr \/ Check \/ LeaveIsr

Handler ==
  \/ NoInput \/ OpenSD \/ MoveSelection \/ ReturnFromSD \/ StopFile \/ StopValid
  \/ LoadFile \/ LoadValid \/ LoadEof
  \/ \E f \in Files : LoadCopy(f)
  \/ \E g \in Active : NextWave(g) \/ ToggleModulation(g) \/ Tune(g)

MainStep ==
  \/ DrawPage \/ InitSD \/ DrawSD \/ EndList
  \/ WriteParams \/ ResetDDSModules \/ WriteMask
  \/ RamLow \/ RamHigh \/ RamTag \/ RamDone

Next ==
  \/ \E g \in Active : Toggle(g)
  \/ Isr \/ Handler \/ MainStep \/ PressEnable

Spec == Init /\ [][Next]_vars
-----------------------------------------------------------------------------
(* Properties *)

HwType ==
  /\ bank \in [Generators -> Half]
  /\ tuned \subseteq Generators /\ edges \subseteq Generators
  /\ mask \subseteq Generators /\ prompt \subseteq Generators
  /\ ram \in [Generators -> [Half -> Content]]
  /\ unplayed \subseteq Generators \X Half

DdsType ==
  /\ want \in [Generators -> 0 .. Arb]
  /\ modulated \subseteq Generators /\ slow \subseteq Generators
  /\ resetDDS \in BOOLEAN

IsrType ==
  /\ isr \in Checks \cup {"idle", "leave"}
  /\ value \in [Generators -> Half] /\ previous \in [Generators -> Half]

PlayerType ==
  /\ isFileValid \in BOOLEAN /\ isOpen \in BOOLEAN /\ endOfFile \in BOOLEAN
  /\ wavFile \in Files \cup {Torn} /\ playing \in Files \cup {Torn}
  /\ isOpen => playing \in Files
  /\ chunk \in 0 .. Chunks - 1

MenuType ==
  /\ pc \in MainPC /\ stage \in {"encoder", "display"}
  /\ redraw \in BOOLEAN /\ initialized \in BOOLEAN /\ listed \in BOOLEAN
  /\ page \in {"other", "sd"}

\* The types of all state; besides, an open file has been named, and a read
\* position is one of a chunk of the file (it is rewound at the end of the data).
TypeOK ==
  /\ HwType /\ DdsType /\ shape \in [Generators -> Wave]
  /\ IsrType /\ PlayerType /\ MenuType

\* FatFs keeps one window and one SPI bus and is not reentrant: the interrupt,
\* which reads the file, never runs while the main loop reads the directory.
FatFsExclusive == InFatFs => isr = "idle"

\* A chunk that waits to be heard is never overwritten by a later one, however
\* slow the CPU is.  The RAM of DDS1 is excepted: the edges of DDS0 refill it.
NoOverwriteUnplayed ==
  isr \in Checks =>
    \A t \in Targets(isr) : t[1] # "D1" => t \notin unplayed

\* The half a refill writes is not the one being read, unless the interrupt was
\* kept waiting by a closed mask (or is meant for DDS0).
TearOnlyWhenLate ==
  isr \in Checks =>
    \A t \in Targets(isr) :
      t[1] \in tuned \cap prompt /\ t[1] # "D1" => bank[t[1]] # t[2]

\* README: "When half of the samples are consumed an interrupt is triggered and
\* the CPU replaces that half with new data": never the half in use.
ReplacesConsumedHalf ==
  isr \in Checks =>
    \A t \in Targets(isr) : t[1] \in tuned => bank[t[1]] # t[2]

\* README, the same sentence: once no interrupt of an armed generator is pending
\* or being served, the handler has seen the half the generator is in.
EveryEdgeSeen ==
  isr = "idle" =>
    \A g \in tuned \cap mask : g \notin edges => previous[g] = bank[g]

\* hardware.c:88: "Enable Ram Interrupt only if wave is ARB and frequency is less
\* than 500Hz": of the generator the bit belongs to.
EnabledOnlyIfSlow == pc = "ram" => \A g \in mask : want[g] = Arb /\ g \in slow

\* A RAM whose waveform is up to date and is not ARB, but does not hold it
Mixed(g) ==
  /\ shape[g] = want[g] /\ shape[g] # Arb
  /\ ram[g] # [h \in Half |-> Samples(shape[g])]

\* UpdateRam calculates "samples for the entire lookup ram" (ramLookupTables.c:85),
\* but the interrupt may write a chunk of the file into a half of it meanwhile.
\* That happens only to a generator that leaves ARB while another one is armed:
\* the handler goes by the shape the RAM had, and looks at every bit that moved.
MixedOnlyByOthers ==
  [][\A g \in Generators :
       Mixed(g)' => \/ Mixed(g)
                    \/ pc = "ramTag" /\ shape[g] = Arb /\ mask \ {g} # {}]_vars

\* A file left open with nobody about to close it (the stop was forgotten) comes
\* only from an interrupt between the two assignments of the LEFT button.
StopForgotten == isOpen /\ ~isFileValid /\ ~endOfFile
StopForgottenOnlyInWindow ==
  [][StopForgotten' => StopForgotten \/ pc = "stopValid"]_vars

\* Playback through the RAM of DDS0 is a double buffer.
Halves(g) == {h \in Half : <<g, h>> \in unplayed}
Buffer == INSTANCE DoubleBuffer WITH
  Tapes <- Files, Waveforms <- {<<"shape", w>> : w \in Wave}, Silence <- Zero,
  reading <- bank["D0"], buf <- ram["D0"], unplayed <- Halves("D0"),
  tape <- <<playing, chunk>>
PlaysInOrder == Buffer!Spec

\* The generators never stop.  The interrupt has priority over the main loop, but
\* does not take all of the CPU: a half-period is longer than a refill.
Fairness ==
  /\ WF_vars(Isr) /\ SF_vars(Handler \/ MainStep)
  /\ \A g \in Active : WF_vars(Toggle(g))
FairSpec == Spec /\ Fairness

StopPending == isOpen /\ ~isFileValid /\ endOfFile

\* If the user finally leaves the SD page with DDS0 slow and on ARB, a stop that
\* was not forgotten closes the file, unless a new selection revokes it.
Listening == page = "other" /\ want["D0"] = Arb /\ "D0" \in slow
StopCloses ==
  <>[]Listening => (StopPending ~> (~isOpen \/ isFileValid))
=============================================================================
