------------------------- MODULE WavePlaybackProofs -------------------------
(* Invariants of WavePlayback, for all generators, files and user inputs. *)
EXTENDS WavePlayback, TLAPS

-----------------------------------------------------------------------------
(* Operators *)

\* Waveform samples and file chunks are contents of a half.
LEMMA SamplesContent == \A w \in Wave : Samples(w) \in Content
  BY DEF Samples, Content

LEMMA ChunkContent ==
  \A f \in Files : \A k \in 0 .. Chunks - 1 : Chunk(f, k) \in Content
  BY PlaybackAssumption DEF Content

\* The position after a chunk is a position in the file.
LEMMA NextChunkBound ==
  ASSUME NEW f, NEW k \in 0 .. Chunks - 1
  PROVE  NextChunk(f, k) \in 0 .. Chunks - 1
  BY PlaybackAssumption DEF NextChunk

\* What ram_wav_update is called for is a set of halves of generators.
LEMMA TargetsType ==
  ASSUME TypeOK, NEW c \in Checks
  PROVE  Targets(c) \subseteq Generators \X Half
  BY DEF TypeOK, Checks, Targets, CarrierTargets, ModulatorTargets, IdleHalf,
         IsrType, Generators, Carriers, Half

\* The generator regenerated next is one of the six, and out of date.
LEMMA NextStaleIsStale ==
  Stale # {} => NextStale \in Generators /\ want[NextStale] # shape[NextStale]
<1> DEFINE Least(i) == \A j \in Stale : i <= j
<1>1. Stale \subseteq 1 .. 6
  BY DEF Stale
<1>2. ASSUME Stale # {}
      PROVE  \E i \in Stale : Least(i)
  <2>1. CASE 1 \in Stale BY <2>1, <1>1
  <2>2. CASE 2 \in Stale /\ 1 \notin Stale BY <2>2, <1>1
  <2>3. CASE 3 \in Stale /\ 1 \notin Stale /\ 2 \notin Stale BY <2>3, <1>1
  <2>4. CASE 4 \in Stale /\ 1 \notin Stale /\ 2 \notin Stale /\ 3 \notin Stale
    BY <2>4, <1>1
  <2>5. CASE 5 \in Stale /\ Stale \subseteq {5, 6} BY <2>5
  <2>6. CASE 6 \in Stale /\ Stale \subseteq {6} BY <2>6
  <2>7. \/ 1 \in Stale \/ 2 \in Stale \/ 3 \in Stale \/ 4 \in Stale
        \/ Stale \subseteq {5, 6}
    BY <1>1
  <2>8. Stale \subseteq {5, 6} =>
          5 \in Stale \/ (6 \in Stale /\ Stale \subseteq {6})
    BY <1>2
  <2> HIDE DEF Least
  <2> QED BY <2>1, <2>2, <2>3, <2>4, <2>5, <2>6, <2>7, <2>8
<1>3. ASSUME Stale # {}
      PROVE  (CHOOSE i \in Stale : Least(i)) \in Stale
  <2> HIDE DEF Least
  <2> QED BY <1>2, <1>3
<1>4. \A i \in 1 .. 6 : Order[i] \in Generators
  BY DEF Order, Generators
<1>5. ASSUME Stale # {} PROVE \E i \in Stale : NextStale = Order[i]
  BY <1>3, <1>5 DEF NextStale
<1> QED
  BY <1>1, <1>4, <1>5 DEF Stale

LEMMA NextStaleType == Stale # {} => NextStale \in Generators
  BY NextStaleIsStale
-----------------------------------------------------------------------------
(* Type correctness *)

\* Each part of the state keeps its type when it is unchanged.
LEMMA Frames ==
  /\ HwType /\ UNCHANGED hwVars => HwType'
  /\ DdsType /\ UNCHANGED ddsVars => DdsType'
  /\ IsrType /\ UNCHANGED isrVars => IsrType'
  /\ PlayerType /\ UNCHANGED playerVars => PlayerType'
  /\ MenuType /\ UNCHANGED menuVars => MenuType'
<1>1. HwType /\ UNCHANGED hwVars => HwType'
  BY DEF HwType, hwVars
<1>2. DdsType /\ UNCHANGED ddsVars => DdsType'
  BY DEF DdsType, ddsVars
<1>3. IsrType /\ UNCHANGED isrVars => IsrType'
  BY DEF IsrType, isrVars
<1>4. PlayerType /\ UNCHANGED playerVars => PlayerType'
  BY DEF PlayerType, playerVars
<1>5. MenuType /\ UNCHANGED menuVars => MenuType'
  BY DEF MenuType, menuVars
<1> QED BY <1>1, <1>2, <1>3, <1>4, <1>5

\* A step of the main loop to a label of it
LEMMA GotoType ==
  ASSUME MenuType, NEW label \in MainPC, Goto(label)
  PROVE  MenuType'
  BY DEF MenuType, Goto

LEMMA EndHandlerType ==
  ASSUME MenuType, EndHandler
  PROVE  pc' \in MainPC /\ stage' \in {"encoder", "display"}
  BY DEF MenuType, EndHandler, MainPC

\* The call of ram_wav_update keeps the types of what it changes.
LEMMA UpdateType ==
  ASSUME HwType, PlayerType, NEW T \in SUBSET (Generators \X Half),
         ram_wav_update(T)
  PROVE  /\ ram' \in [Generators -> [Half -> Content]]
         /\ unplayed' \subseteq Generators \X Half
         /\ PlayerType'
<1>1. Refilled(T) \subseteq Generators \X Half
  BY DEF HwType, Refilled
<1>2. Silenced(T) \in [Generators -> [Half -> Content]]
  BY DEF HwType, Silenced, Content
<1>3. CASE RejectFile
  BY <1>3 DEF HwType, PlayerType, RejectFile
<1>4. CASE PlayChunk(T)
  <2> DEFINE f == IF isOpen THEN playing ELSE wavFile
             k == IF isOpen THEN chunk ELSE 0
  <2>1. f \in Files /\ k \in 0 .. Chunks - 1
    BY <1>4, PlaybackAssumption DEF PlayChunk, PlayerType
  <2>2. Filled(f, k, T) \in [Generators -> [Half -> Content]]
    <3>1. Chunk(f, k) \in Content
      BY <2>1, ChunkContent
    <3> HIDE DEF f, k
    <3> QED BY <3>1 DEF HwType, Filled
  <2>3. NextChunk(f, k) \in 0 .. Chunks - 1
    BY <2>1, NextChunkBound
  <2>4. /\ playing' = f /\ isOpen' = TRUE /\ ram' = Filled(f, k, T)
        /\ unplayed' \in {Refilled(T), unplayed}
        /\ chunk' = NextChunk(f, k) /\ endOfFile' = FALSE
        /\ UNCHANGED <<isFileValid, wavFile>>
    BY <1>4 DEF PlayChunk
  <2> HIDE DEF f, k
  <2>5. PlayerType'
    BY <2>1, <2>3, <2>4 DEF PlayerType
  <2> QED BY <1>1, <2>2, <2>4, <2>5 DEF HwType
<1>5. CASE CloseFile(T)
  BY <1>1, <1>2, <1>5 DEF PlayerType, CloseFile
<1>6. CASE NothingToPlay
  BY <1>6 DEF HwType, PlayerType, NothingToPlay
<1> QED BY <1>3, <1>4, <1>5, <1>6 DEF ram_wav_update

LEMMA InitType == Init => TypeOK
<1> SUFFICES ASSUME Init PROVE TypeOK
  OBVIOUS
<1>1. Blank \in Content
  BY DEF Content
<1>2. Carriers \subseteq Generators
  BY DEF Carriers, Generators
<1>3. 0 \in 0 .. Arb /\ NoWave \in Wave /\ 0 \in 0 .. Chunks - 1
  BY PlaybackAssumption DEF Wave, NoWave
<1>4. HwType
  BY <1>1 DEF Init, HwType, Half
<1>5. DdsType /\ shape \in [Generators -> Wave]
  BY <1>2, <1>3 DEF Init, DdsType
<1>6. IsrType
  BY DEF Init, IsrType, Half
<1>7. PlayerType
  BY <1>3 DEF Init, PlayerType
<1>8. MenuType
  BY DEF Init, MenuType, MainPC
<1> QED BY <1>4, <1>5, <1>6, <1>7, <1>8 DEF TypeOK

LEMMA IsrStepType == TypeOK /\ Isr => TypeOK'
<1> SUFFICES ASSUME TypeOK, Isr PROVE TypeOK'
  OBVIOUS
<1> USE Frames DEF TypeOK
<1>1. CASE EnterIsr
  <2>1. IsrType'
    BY <1>1 DEF EnterIsr, IsrType, HwType, Checks
  <2> QED BY <1>1, <2>1 DEF EnterIsr
<1>2. CASE Check
  <2> DEFINE T == Targets(isr)
  <2>1. T \in SUBSET (Generators \X Half)
    BY <1>2, TargetsType DEF Check
  <2>2. IsrType'
    BY <1>2 DEF Check, Checks, After, IsrType
  <2>3. CASE T = {}
    <3>1. HwType'
      BY <1>2, <2>3 DEF Check, HwType
    <3> QED BY <1>2, <2>2, <2>3, <3>1 DEF Check
  <2>4. CASE ram_wav_update(T)
    <3>1. HwType' /\ PlayerType'
      BY <1>2, <2>1, <2>4, UpdateType DEF Check, HwType
    <3> QED BY <1>2, <2>2, <3>1 DEF Check
  <2> QED BY <1>2, <2>3, <2>4 DEF Check
<1>3. CASE LeaveIsr
  <2>1. HwType' /\ IsrType'
    BY <1>3 DEF LeaveIsr, HwType, IsrType
  <2> QED BY <1>3, <2>1 DEF LeaveIsr
<1> QED BY <1>1, <1>2, <1>3 DEF Isr

LEMMA HandlerType == TypeOK /\ Handler => TypeOK'
<1> SUFFICES ASSUME TypeOK, Handler PROVE TypeOK'
  OBVIOUS
<1> USE Frames, EndHandlerType DEF TypeOK
<1>1. CASE NoInput
  BY <1>1 DEF NoInput, MenuType
<1>2. CASE OpenSD
  BY <1>2 DEF OpenSD, Handled, MenuType
<1>3. CASE MoveSelection
  BY <1>3 DEF MoveSelection, Handled, MenuType
<1>4. CASE ReturnFromSD
  BY <1>4 DEF ReturnFromSD, Handled, MenuType
<1>5. CASE StopFile
  BY <1>5 DEF StopFile, MainPC, MenuType, PlayerType
<1>6. CASE StopValid
  BY <1>6 DEF StopValid, MenuType, PlayerType
<1>7. CASE LoadFile
  BY <1>7 DEF LoadFile, MainPC, MenuType, PlayerType
<1>8. CASE LoadValid
  BY <1>8, GotoType DEF LoadValid, MainPC, PlayerType
<1>9. CASE LoadEof
  BY <1>9 DEF LoadEof, MenuType, PlayerType
<1>10. ASSUME NEW f \in Files, LoadCopy(f) PROVE TypeOK'
  BY <1>10, GotoType DEF LoadCopy, MainPC, PlayerType
<1>11. ASSUME NEW g \in Active, NextWave(g) PROVE TypeOK'
  <2>1. \A w \in 0 .. Arb : (w + 1) % (Arb + 1) \in 0 .. Arb
    BY PlaybackAssumption
  <2>2. DdsType'
    BY <1>11, <2>1, PlaybackAssumption DEF NextWave, DdsType
  <2> QED BY <1>11, <2>2 DEF NextWave, Handled, MenuType
<1>12. ASSUME NEW g \in Active, ToggleModulation(g) PROVE TypeOK'
  <2>1. DdsType'
    BY <1>12, PlaybackAssumption DEF ToggleModulation, DdsType
  <2> QED BY <1>12, <2>1 DEF ToggleModulation, Handled, MenuType
<1>13. ASSUME NEW g \in Active, Tune(g) PROVE TypeOK'
  <2>1. DdsType'
    BY <1>13, PlaybackAssumption DEF Tune, DdsType
  <2> QED BY <1>13, <2>1 DEF Tune, Handled, MenuType
<1> QED BY <1>1, <1>2, <1>3, <1>4, <1>5, <1>6, <1>7, <1>8, <1>9, <1>10, <1>11,
           <1>12, <1>13 DEF Handler

\* UpdateRam is entered only for a generator whose RAM is out of date, and that
\* generator stays the first such one until its shape is set.
Regenerating == pc \in {"ramHigh", "ramTag"} => Stale # {}

\* Writing a half with the samples of a waveform
LEMMA RegenerateType ==
  ASSUME HwType, DdsType, NEW g \in Generators, NEW h \in Half, Regenerate(g, h)
  PROVE  HwType'
<1>1. want[g] \in Wave
  BY PlaybackAssumption DEF DdsType, Wave, NoWave
<1>2. Samples(want[g]) \in Content
  BY <1>1, SamplesContent
<1> QED BY <1>2 DEF HwType, Regenerate

LEMMA MainStepType == TypeOK /\ Regenerating /\ MainStep => TypeOK'
<1> SUFFICES ASSUME TypeOK, Regenerating, MainStep PROVE TypeOK'
  OBVIOUS
<1> USE Frames, GotoType DEF TypeOK
<1>1. CASE DrawPage
  BY <1>1 DEF DrawPage, MenuType, MainPC
<1>2. CASE InitSD
  <2>1. HwType' /\ MenuType'
    BY <1>2 DEF InitSD, DisarmForFatFs, HwType, MenuType, MainPC
  <2> QED BY <1>2, <2>1 DEF InitSD
<1>3. CASE DrawSD
  <2>1. HwType' /\ MenuType'
    BY <1>3 DEF DrawSD, DisarmForFatFs, HwType, MenuType, MainPC
  <2> QED BY <1>3, <2>1 DEF DrawSD
<1>4. CASE EndList
  BY <1>4 DEF EndList, MenuType, MainPC
<1>5. CASE WriteParams
  <2>1. HwType'
    BY <1>5 DEF WriteParams, HwType, DdsType
  <2> QED BY <1>5, <2>1 DEF WriteParams, MainPC
<1>6. CASE ResetDDSModules
  <2>1. HwType'
    <3>1. CASE resetDDS
      <4>1. PICK high \in SUBSET (Active \cap Carriers) :
              LET new == [g \in Generators |-> IF g \in high THEN 1 ELSE 0]
                  moved == {g \in Generators : new[g] # bank[g]}
              IN /\ bank' = new
                 /\ edges' = edges \cup moved
                 /\ prompt' = (prompt \ moved) \cup (moved \cap mask)
                 /\ unplayed' = unplayed \ {<<g, new[g]>> : g \in Generators}
        BY <1>6, <3>1 DEF ResetDDSModules
      <4>2. bank' \in [Generators -> Half]
        BY <4>1 DEF Half
      <4> QED BY <1>6, <4>1, <4>2 DEF ResetDDSModules, HwType
    <3> QED BY <1>6, <3>1 DEF ResetDDSModules, HwType
  <2>2. DdsType'
    BY <1>6 DEF ResetDDSModules, DdsType
  <2>3. MenuType'
    BY <1>6 DEF ResetDDSModules, MainPC
  <2> QED BY <1>6, <2>1, <2>2, <2>3 DEF ResetDDSModules
<1>7. CASE WriteMask
  <2>1. HwType'
    BY <1>7 DEF WriteMask, Armed, HwType
  <2> QED BY <1>7, <2>1 DEF WriteMask, MainPC
<1>8. CASE RamLow
  <2>1. NextStale \in Generators
    BY <1>8, NextStaleType DEF RamLow
  <2>2. HwType'
    BY <1>8, <2>1, RegenerateType DEF RamLow, Half
  <2> QED BY <1>8, <2>2 DEF RamLow, Regenerate, MainPC
<1>9. CASE RamHigh
  <2>1. NextStale \in Generators
    BY <1>9, NextStaleType DEF RamHigh, At, Regenerating
  <2>2. HwType'
    BY <1>9, <2>1, RegenerateType DEF RamHigh, Half
  <2> QED BY <1>9, <2>2 DEF RamHigh, Regenerate, MainPC
<1>10. CASE RamTag
  <2>1. NextStale \in Generators
    BY <1>10, NextStaleType DEF RamTag, At, Regenerating
  <2>2. want[NextStale] \in Wave
    BY <2>1, PlaybackAssumption DEF DdsType, Wave, NoWave
  <2>3. shape' \in [Generators -> Wave]
    BY <1>10, <2>2 DEF RamTag
  <2> QED BY <1>10, <2>3 DEF RamTag, MainPC
<1>11. CASE RamDone
  BY <1>11 DEF RamDone, MainPC
<1> QED BY <1>1, <1>2, <1>3, <1>4, <1>5, <1>6, <1>7, <1>8, <1>9, <1>10, <1>11
        DEF MainStep

LEMMA ToggleType == \A g \in Active : TypeOK /\ Toggle(g) => TypeOK'
<1> SUFFICES ASSUME NEW g \in Active, TypeOK, Toggle(g) PROVE TypeOK'
  OBVIOUS
<1>1. g \in Generators
  BY PlaybackAssumption
<1>2. HwType'
  BY <1>1 DEF TypeOK, HwType, Toggle, Half
<1> QED
  BY <1>2, Frames DEF TypeOK, Toggle

LEMMA PressEnableType == TypeOK /\ PressEnable => TypeOK'
<1> SUFFICES ASSUME TypeOK, PressEnable PROVE TypeOK'
  OBVIOUS
<1>1. DdsType'
  BY DEF TypeOK, DdsType, PressEnable
<1> QED BY <1>1, Frames DEF TypeOK, PressEnable

\* Only the tag (RamTag) ends a regeneration, and a button changes the waveform
\* asked for only between two of them.
LEMMA NextRegenerating == Regenerating /\ [Next]_vars => Regenerating'
<1> SUFFICES ASSUME Regenerating, [Next]_vars PROVE Regenerating'
  OBVIOUS
<1> USE DEF Regenerating
<1>1. CASE UNCHANGED <<pc, want, shape>>
  BY <1>1 DEF Stale
<1>2. CASE pc' \notin {"ramHigh", "ramTag"}
  BY <1>2
<1>3. CASE \E g \in Active : Toggle(g)
  BY <1>1, <1>3 DEF Toggle, ddsVars, menuVars
<1>4. CASE Isr
  BY <1>1, <1>4 DEF Isr, EnterIsr, Check, LeaveIsr, ddsVars, menuVars
<1>5. CASE Handler
  BY <1>2, <1>5 DEF Handler, At, Goto, EndHandler, Handled, NoInput, OpenSD,
     MoveSelection, ReturnFromSD, StopFile, StopValid, LoadFile, LoadValid, LoadEof,
     LoadCopy, NextWave, ToggleModulation, Tune
<1>6. CASE MainStep
  <2>1. CASE RamLow
    BY <1>1, <2>1 DEF RamLow, Regenerate, Stale, ddsVars
  <2>2. CASE RamHigh
    BY <1>1, <2>2 DEF RamHigh, At, Regenerate, Stale, ddsVars
  <2> QED
    BY <1>2, <1>6, <2>1, <2>2 DEF MainStep, Goto, DrawPage, InitSD, DrawSD, EndList,
       WriteParams, ResetDDSModules, WriteMask, RamTag, RamDone
<1>7. CASE PressEnable
  BY <1>1, <1>7 DEF PressEnable, menuVars
<1>8. CASE UNCHANGED vars
  BY <1>1, <1>8 DEF vars, ddsVars, menuVars
<1> QED BY <1>3, <1>4, <1>5, <1>6, <1>7, <1>8 DEF Next

LEMMA NextType == TypeOK /\ Regenerating /\ [Next]_vars => TypeOK'
<1>1. TypeOK /\ UNCHANGED vars => TypeOK'
  BY Frames DEF TypeOK, vars
<1> QED
  BY <1>1, ToggleType, IsrStepType, HandlerType, MainStepType, PressEnableType DEF Next

\* Every variable of the playback path keeps its type; in particular the file
\* position never leaves the file and an open file is one of the card.
THEOREM TypeCorrect == Spec => []TypeOK
<1>1. Init => TypeOK /\ Regenerating
  BY InitType DEF Init, Regenerating
<1>2. TypeOK /\ Regenerating /\ [Next]_vars => (TypeOK /\ Regenerating)'
  BY NextType, NextRegenerating
<1> QED BY <1>1, <1>2, PTL DEF Spec

-----------------------------------------------------------------------------
(* FatFs is used by one context at a time *)

\* While the main loop is in FatFs no interrupt is enabled: the mask was cleared
\* before, and only updateVariablesOnFpga, after, writes it again.
Disarmed == InFatFs => mask = {} /\ isr = "idle"

LEMMA NextDisarmed == Disarmed /\ [Next]_vars => Disarmed'
<1> SUFFICES ASSUME Disarmed, [Next]_vars PROVE Disarmed'
  OBVIOUS
<1> USE DEF Disarmed, InFatFs
<1>1. CASE \E g \in Active : Toggle(g)
  BY <1>1 DEF Toggle, isrVars, menuVars
<1>2. CASE Isr
  <2>1. CASE EnterIsr
    BY <2>1 DEF EnterIsr, Deliverable, menuVars
  <2>2. CASE Check
    BY <2>2 DEF Check, Checks, menuVars
  <2>3. CASE LeaveIsr
    BY <2>3 DEF LeaveIsr, menuVars
  <2> QED BY <1>2, <2>1, <2>2, <2>3 DEF Isr
<1>3. CASE Handler
  BY <1>3 DEF Handler, At, Goto, EndHandler, Handled, NoInput, OpenSD,
     MoveSelection, ReturnFromSD, StopFile, StopValid, LoadFile, LoadValid, LoadEof,
     LoadCopy, NextWave, ToggleModulation, Tune
<1>4. CASE MainStep
  <2>1. CASE InitSD
    BY <2>1 DEF InitSD, At, DisarmForFatFs, isrVars
  <2>2. CASE DrawSD
    BY <2>2 DEF DrawSD, At, DisarmForFatFs, isrVars
  <2> QED
    BY <1>4, <2>1, <2>2 DEF MainStep, Goto, DrawPage, EndList, WriteParams,
       ResetDDSModules, WriteMask, RamLow, RamHigh, RamTag, RamDone
<1>5. CASE PressEnable
  BY <1>5 DEF PressEnable, hwVars, isrVars, menuVars
<1>6. CASE UNCHANGED vars
  BY <1>6 DEF vars, hwVars, isrVars, menuVars
<1> QED BY <1>1, <1>2, <1>3, <1>4, <1>5, <1>6 DEF Next

\* ISR_lookupRam never runs while menu_sd mounts the card or lists a directory.
THEOREM FatFsNotReentered == Spec => []FatFsExclusive
<1>1. Init => Disarmed
  BY DEF Init, Disarmed, InFatFs
<1>2. Disarmed => FatFsExclusive
  BY DEF Disarmed, FatFsExclusive
<1> QED BY <1>1, <1>2, NextDisarmed, PTL DEF Spec

-----------------------------------------------------------------------------
(* A stop is not forgotten *)

\* Between isFileValid = true and endOfFile = false of a selection, only the
\* rejection of the new file can drop it, and then no file is open.
Selecting == pc = "loadEof" => isFileValid \/ ~isOpen

LEMMA UpdateSelecting ==
  ASSUME NEW T, ram_wav_update(T)
  PROVE  /\ (isFileValid \/ ~isOpen) => (isFileValid' \/ ~isOpen')
         /\ StopForgotten' => StopForgotten
<1>1. CASE RejectFile
  BY <1>1 DEF RejectFile, StopForgotten
<1>2. CASE PlayChunk(T)
  BY <1>2 DEF PlayChunk, StopForgotten
<1>3. CASE CloseFile(T)
  BY <1>3 DEF CloseFile, StopForgotten
<1>4. CASE NothingToPlay
  BY <1>4 DEF NothingToPlay, StopForgotten
<1> QED BY <1>1, <1>2, <1>3, <1>4 DEF ram_wav_update

LEMMA NextSelecting ==
  Selecting /\ [Next]_vars =>
    Selecting' /\ (StopForgotten' => StopForgotten \/ pc = "stopValid")
<1> SUFFICES ASSUME Selecting, [Next]_vars
             PROVE  /\ Selecting'
                    /\ StopForgotten' => StopForgotten \/ pc = "stopValid"
  OBVIOUS
<1>1. CASE UNCHANGED <<playerVars, pc>>
  BY <1>1 DEF Selecting, StopForgotten, playerVars
<1>2. CASE UNCHANGED playerVars /\ pc' # "loadEof"
  BY <1>2 DEF Selecting, StopForgotten, playerVars
<1>3. CASE \E g \in Active : Toggle(g)
  BY <1>1, <1>3 DEF Toggle, menuVars
<1>4. CASE Isr
  <2>1. CASE EnterIsr
    BY <1>1, <2>1 DEF EnterIsr, menuVars
  <2>2. CASE Check
    <3>1. UNCHANGED pc
      BY <2>2 DEF Check, menuVars
    <3>2. CASE ram_wav_update(Targets(isr))
      BY <3>1, <3>2, UpdateSelecting DEF Selecting
    <3> QED BY <1>1, <2>2, <3>1, <3>2 DEF Check
  <2>3. CASE LeaveIsr
    BY <1>1, <2>3 DEF LeaveIsr, menuVars
  <2> QED BY <1>4, <2>1, <2>2, <2>3 DEF Isr
<1>5. CASE Handler
  <2>1. CASE StopFile
    BY <2>1 DEF StopFile, Selecting, StopForgotten
  <2>2. CASE StopValid
    BY <2>2 DEF StopValid, At, EndHandler, Selecting, StopForgotten
  <2>3. CASE LoadFile
    BY <2>3 DEF LoadFile, Selecting, StopForgotten
  <2>4. ASSUME NEW f \in Files, LoadCopy(f)
        PROVE  Selecting' /\ (StopForgotten' => StopForgotten)
    BY <2>4 DEF LoadCopy, Goto, Selecting, StopForgotten
  <2>5. CASE LoadValid
    BY <2>5 DEF LoadValid, Selecting, StopForgotten
  <2>6. CASE LoadEof
    BY <2>6 DEF LoadEof, At, EndHandler, Selecting, StopForgotten
  <2>7. CASE NoInput \/ OpenSD \/ MoveSelection \/ ReturnFromSD
    BY <1>2, <2>7 DEF NoInput, OpenSD, MoveSelection, ReturnFromSD, Handled, EndHandler
  <2>8. ASSUME NEW g \in Active, NextWave(g) \/ ToggleModulation(g) \/ Tune(g)
        PROVE  UNCHANGED playerVars /\ pc' # "loadEof"
    BY <2>8 DEF NextWave, ToggleModulation, Tune, Handled, EndHandler
  <2> QED
    BY <1>2, <1>5, <2>1, <2>2, <2>3, <2>4, <2>5, <2>6, <2>7, <2>8 DEF Handler
<1>6. CASE MainStep
  BY <1>2, <1>6 DEF MainStep, Goto, DrawPage, InitSD, DrawSD, EndList, WriteParams,
     ResetDDSModules, WriteMask, RamLow, RamHigh, RamTag, RamDone, Regenerate
<1>7. CASE PressEnable
  BY <1>1, <1>7 DEF PressEnable, menuVars
<1>8. CASE UNCHANGED vars
  BY <1>1, <1>8 DEF vars, menuVars
<1> QED BY <1>3, <1>4, <1>5, <1>6, <1>7, <1>8 DEF Next

\* A file is left open with nobody to close it only through the window between
\* the two assignments of the LEFT button, where an interrupt consumes endOfFile.
THEOREM StopKept == Spec => StopForgottenOnlyInWindow
<1>1. Init => Selecting
  BY DEF Init, Selecting
<1>2. Selecting /\ [Next]_vars =>
        [StopForgotten' => StopForgotten \/ pc = "stopValid"]_vars
  BY NextSelecting
<1>3. Selecting /\ [Next]_vars => Selecting'
  BY NextSelecting
<1> QED BY <1>1, <1>2, <1>3, PTL DEF Spec, StopForgottenOnlyInWindow

-----------------------------------------------------------------------------
(* No chunk is lost to a second refill *)

\* The generators whose check this run of the handler has still to make
Unchecked == [idle |-> Generators, carriers |-> Generators,
              A0 |-> {"A0", "F0", "A1", "F1"}, F0 |-> {"F0", "A1", "F1"},
              A1 |-> {"A1", "F1"}, F1 |-> {"F1"}, leave |-> {}]

\* While a refilled half waits, its generator is in the other one, a handler under
\* way read that bit, and the handler has the same bit as the last one seen, but
\* for the time between the check that refilled the half and the end of the run.
Waiting(g, h) ==
  /\ bank[g] = 1 - h
  /\ isr # "idle" => value[g] = 1 - h
  /\ g \in Unchecked[isr] => previous[g] = 1 - h

WaitingInv == \A g \in Generators \ {"D1"} : \A h \in Half :
                <<g, h>> \in unplayed => Waiting(g, h)

\* A check refills only the idle half, by the bit read at entry, of generators
\* whose bit changed and whose check is this one.
LEMMA TargetOfCheck ==
  ASSUME TypeOK, isr \in Checks,
         NEW g \in Generators \ {"D1"}, NEW h \in Half, <<g, h>> \in Targets(isr)
  PROVE  /\ value[g] = 1 - h /\ Changed(g)
         /\ g \in Unchecked[isr] /\ g \notin Unchecked[After[isr]]
<1>1. CASE isr = "carriers"
  <2>1. g = "D0" /\ Changed(g) /\ h = IdleHalf(value[g])
    BY <1>1 DEF Targets, CarrierTargets, Carriers, Generators
  <2>2. value[g] \in Half
    BY DEF TypeOK, IsrType
  <2> QED BY <1>1, <2>1, <2>2 DEF IdleHalf, Half, Unchecked, After, Generators
<1>2. CASE isr \in Checks \ {"carriers"}
  <2>1. g = isr /\ Changed(g) /\ h = IdleHalf(value[g])
    BY <1>2 DEF Targets, ModulatorTargets
  <2>2. value[g] \in Half
    BY DEF TypeOK, IsrType
  <2> QED BY <1>2, <2>1, <2>2 DEF IdleHalf, Half, Unchecked, After, Checks
<1> QED BY <1>1, <1>2

\* The invariant rules out a second refill.
LEMMA WaitingSafe == TypeOK /\ WaitingInv => NoOverwriteUnplayed
<1> SUFFICES ASSUME TypeOK, WaitingInv, isr \in Checks,
                    NEW t \in Targets(isr), t[1] # "D1", t \in unplayed
             PROVE  FALSE
  BY DEF NoOverwriteUnplayed
<1>1. PICK g \in Generators, h \in Half : t = <<g, h>>
  BY TargetsType
<1>2. g # "D1" /\ <<g, h>> \in Targets(isr) /\ <<g, h>> \in unplayed
  BY <1>1
<1>3. value[g] = 1 - h /\ Changed(g) /\ g \in Unchecked[isr]
  BY <1>2, TargetOfCheck
<1>4. Waiting(g, h)
  BY <1>2 DEF WaitingInv
<1> QED BY <1>3, <1>4 DEF Waiting, Changed

\* What a call of ram_wav_update adds to the unplayed halves
LEMMA UpdateUnplayed ==
  ASSUME NEW T, ram_wav_update(T)
  PROVE  unplayed' \subseteq Refilled(T)
  BY DEF ram_wav_update, RejectFile, PlayChunk, CloseFile, NothingToPlay, Refilled

LEMMA IsrWaiting == TypeOK /\ WaitingInv /\ Isr => WaitingInv'
<1> SUFFICES ASSUME TypeOK, WaitingInv, Isr,
                    NEW g \in Generators \ {"D1"}, NEW h \in Half,
                    <<g, h>> \in unplayed'
             PROVE  Waiting(g, h)'
  BY DEF WaitingInv
<1>1. CASE EnterIsr
  <2>1. /\ UNCHANGED <<bank, unplayed, previous>>
        /\ isr = "idle" /\ isr' = "carriers" /\ value' = bank
    BY <1>1 DEF EnterIsr, hwVars
  <2>2. Waiting(g, h)
    BY <2>1 DEF WaitingInv
  <2>3. Unchecked["idle"] = Unchecked["carriers"]
    BY DEF Unchecked
  <2> QED BY <2>1, <2>2, <2>3 DEF Waiting
<1>2. CASE Check
  <2>1. /\ isr \in Checks /\ isr' = After[isr]
        /\ UNCHANGED <<bank, value, previous>>
    BY <1>2 DEF Check
  <2>2. CASE <<g, h>> \in unplayed
    <3>1. Waiting(g, h)
      BY <2>2 DEF WaitingInv
    <3>2. isr # "idle" /\ Unchecked[After[isr]] \subseteq Unchecked[isr]
      BY <2>1 DEF Checks, After, Unchecked, Generators
    <3> QED BY <2>1, <3>1, <3>2 DEF Waiting
  <2>3. CASE <<g, h>> \notin unplayed
    <3>1. ram_wav_update(Targets(isr))
      BY <1>2, <2>3 DEF Check
    <3>2. <<g, h>> \in Targets(isr) /\ bank[g] # h
      BY <2>3, <3>1, UpdateUnplayed DEF Refilled
    <3>3. value[g] = 1 - h /\ g \notin Unchecked[After[isr]]
      BY <2>1, <3>2, TargetOfCheck
    <3>4. bank[g] = 1 - h
      BY <3>2 DEF TypeOK, HwType, Half
    <3> QED BY <2>1, <3>3, <3>4 DEF Waiting
  <2> QED BY <2>2, <2>3
<1>3. CASE LeaveIsr
  <2>1. /\ UNCHANGED <<bank, unplayed, value>>
        /\ isr = "leave" /\ isr' = "idle" /\ previous' = value
    BY <1>3 DEF LeaveIsr
  <2>2. Waiting(g, h)
    BY <2>1 DEF WaitingInv
  <2> QED BY <2>1, <2>2 DEF Waiting
<1> QED BY <1>1, <1>2, <1>3 DEF Isr

LEMMA NextWaiting == TypeOK /\ WaitingInv /\ [Next]_vars => WaitingInv'
<1> SUFFICES ASSUME TypeOK, WaitingInv, [Next]_vars PROVE WaitingInv'
  OBVIOUS
\* A step that keeps the bits and adds no unplayed half keeps the invariant.
<1>1. CASE unplayed' \subseteq unplayed /\ UNCHANGED <<bank, isrVars>>
  BY <1>1 DEF WaitingInv, Waiting, isrVars
\* A generator that enters a half takes it from the unplayed ones.
<1>2. ASSUME NEW k \in Active, Toggle(k) PROVE WaitingInv'
  <2>1. k \in Generators /\ bank[k] \in Half
    BY PlaybackAssumption DEF TypeOK, HwType
  <2>2. /\ bank' = [bank EXCEPT ![k] = 1 - bank[k]]
        /\ unplayed' = unplayed \ {<<k, 1 - bank[k]>>}
        /\ UNCHANGED <<isr, value, previous>>
    BY <1>2 DEF Toggle, isrVars
  <2> SUFFICES ASSUME NEW g \in Generators \ {"D1"}, NEW h \in Half,
                      <<g, h>> \in unplayed'
               PROVE  Waiting(g, h)'
    BY DEF WaitingInv
  <2>3. <<g, h>> \in unplayed /\ Waiting(g, h)
    BY <2>2 DEF WaitingInv
  <2>4. g # k
    BY <2>2, <2>3 DEF Waiting, Half
  <2>5. bank'[g] = bank[g]
    BY <2>2, <2>4 DEF TypeOK, HwType
  <2> QED BY <2>2, <2>3, <2>5 DEF Waiting
\* So does one that the reset moves.
<1>3. CASE ResetDDSModules
  <2>1. CASE ~resetDDS
    BY <1>1, <1>3, <2>1 DEF ResetDDSModules
  <2>2. CASE resetDDS
    <3>1. PICK new \in [Generators -> Half] :
            bank' = new /\ unplayed' = unplayed \ {<<g, new[g]>> : g \in Generators}
      <4>1. PICK high \in SUBSET (Active \cap Carriers) :
              LET new == [g \in Generators |-> IF g \in high THEN 1 ELSE 0]
              IN /\ bank' = new
                 /\ unplayed' = unplayed \ {<<g, new[g]>> : g \in Generators}
        BY <1>3, <2>2 DEF ResetDDSModules
      <4> QED BY <4>1 DEF Half
    <3>2. UNCHANGED <<isr, value, previous>>
      BY <1>3 DEF ResetDDSModules, isrVars
    <3> SUFFICES ASSUME NEW g \in Generators \ {"D1"}, NEW h \in Half,
                        <<g, h>> \in unplayed'
                 PROVE  Waiting(g, h)'
      BY DEF WaitingInv
    <3>3. <<g, h>> \in unplayed /\ Waiting(g, h) /\ h # new[g]
      BY <3>1 DEF WaitingInv
    <3>4. bank'[g] = 1 - h
      BY <3>1, <3>3 DEF Half
    <3> QED BY <3>2, <3>3, <3>4 DEF Waiting
  <2> QED BY <2>1, <2>2
<1>4. CASE Isr
  BY <1>4, IsrWaiting
<1>5. CASE Handler
  BY <1>1, <1>5 DEF Handler, Handled, NoInput, OpenSD, MoveSelection, ReturnFromSD,
     StopFile, StopValid, LoadFile, LoadValid, LoadEof, LoadCopy, NextWave,
     ToggleModulation, Tune, hwVars
<1>6. CASE MainStep
  BY <1>1, <1>3, <1>6 DEF MainStep, DrawPage, InitSD, DrawSD, EndList, WriteParams,
     WriteMask, RamLow, RamHigh, RamTag, RamDone, Regenerate, hwVars
<1>7. CASE PressEnable
  BY <1>1, <1>7 DEF PressEnable, hwVars
<1>8. CASE UNCHANGED vars
  BY <1>1, <1>8 DEF vars, hwVars
<1> QED BY <1>2, <1>4, <1>5, <1>6, <1>7, <1>8 DEF Next

\* A chunk read from the card that waits to be heard is never overwritten by the
\* next one, whatever the speed of the CPU and however often the mask delays it.
THEOREM NothingOverwritten == Spec => []NoOverwriteUnplayed
<1>1. Init => TypeOK /\ Regenerating /\ WaitingInv
  BY InitType DEF Init, Regenerating, WaitingInv
<1>2. TypeOK /\ Regenerating /\ WaitingInv /\ [Next]_vars =>
        (TypeOK /\ Regenerating /\ WaitingInv)'
  BY NextType, NextRegenerating, NextWaiting
<1> QED BY <1>1, <1>2, WaitingSafe, PTL DEF Spec
-----------------------------------------------------------------------------
(* A RAM is regenerated as a whole *)

\* Only armed interrupts are served, and from WriteMask to the end of the
\* regenerations they are those of generators on ARB.
ArmedOnArb ==
  /\ mask = {} => isr = "idle"
  /\ pc \in {"ram", "ramHigh", "ramTag"} => \A g \in mask : want[g] = Arb

\* A button is handled when every RAM is up to date, or was never written.
UpToDate ==
  pc \in {"input", "stopValid", "loadCopy", "loadValid", "loadEof"} =>
    \A g \in Generators : want[g] = shape[g] \/ shape[g] = NoWave

\* The halves UpdateRam has written stay as they are, unless the generator was on
\* ARB and another one is armed.
HalvesWritten ==
  LET g == NextStale
      kept == want[g] # Arb /\ (shape[g] # Arb \/ mask = {})
  IN  /\ pc \in {"ramHigh", "ramTag"} /\ kept => ram[g][0] = Samples(want[g])
      /\ pc = "ramTag" /\ kept => ram[g][1] = Samples(want[g])

\* The handler writes only into RAMs whose shape is ARB, if it is entered at all.
LEMMA CheckWritesArb ==
  ASSUME TypeOK, Check, NEW g \in Generators, NEW h \in Half, shape[g] # Arb
  PROVE  ram'[g][h] = ram[g][h]
<1>1. <<g, h>> \notin Targets(isr)
  BY DEF Check, Checks, Targets, CarrierTargets, ModulatorTargets, Carriers
<1>2. CASE ram_wav_update(Targets(isr))
  <2> DEFINE T == Targets(isr)
  <2>1. ram' \in {ram, Silenced(T)} \/ \E f, k : ram' = Filled(f, k, T)
    BY <1>2 DEF ram_wav_update, RejectFile, PlayChunk, CloseFile, NothingToPlay
  <2>2. Silenced(T)[g][h] = ram[g][h]
    BY <1>1 DEF Silenced
  <2>3. \A f, k : Filled(f, k, T)[g][h] = ram[g][h]
    BY <1>1 DEF Filled
  <2> QED BY <2>1, <2>2, <2>3
<1> QED BY <1>2 DEF Check

LEMMA NextArmedOnArb == ArmedOnArb /\ [Next]_vars => ArmedOnArb'
<1> SUFFICES ASSUME ArmedOnArb, [Next]_vars PROVE ArmedOnArb'
  OBVIOUS
<1> USE DEF ArmedOnArb
<1>1. CASE \E g \in Active : Toggle(g)
  BY <1>1 DEF Toggle, isrVars, menuVars, ddsVars
<1>2. CASE Isr
  <2>1. CASE EnterIsr
    BY <2>1 DEF EnterIsr, Deliverable, menuVars, hwVars, ddsVars
  <2>2. CASE Check
    BY <2>2 DEF Check, Checks, menuVars, ddsVars
  <2>3. CASE LeaveIsr
    BY <2>3 DEF LeaveIsr, menuVars, ddsVars
  <2> QED BY <1>2, <2>1, <2>2, <2>3 DEF Isr
<1>3. CASE Handler
  BY <1>3 DEF Handler, At, Goto, EndHandler, Handled, NoInput, OpenSD,
     MoveSelection, ReturnFromSD, StopFile, StopValid, LoadFile, LoadValid, LoadEof,
     LoadCopy, NextWave, ToggleModulation, Tune, hwVars, isrVars
<1>4. CASE MainStep
  <2>1. CASE WriteMask
    BY <2>1 DEF WriteMask, At, Armed, Goto, isrVars, ddsVars
  <2>2. CASE InitSD \/ DrawSD
    BY <2>2 DEF InitSD, DrawSD, At, isrVars
  <2>3. CASE RamLow \/ RamHigh \/ RamTag
    BY <2>3 DEF RamLow, RamHigh, RamTag, Regenerate, At, Goto, isrVars, hwVars, ddsVars
  <2> QED
    BY <1>4, <2>1, <2>2, <2>3 DEF MainStep, At, Goto, DrawPage, EndList, WriteParams,
       ResetDDSModules, RamDone, hwVars, isrVars
<1>5. CASE PressEnable
  BY <1>5 DEF PressEnable, hwVars, isrVars, menuVars
<1>6. CASE UNCHANGED vars
  BY <1>6 DEF vars, hwVars, isrVars, menuVars, ddsVars
<1> QED BY <1>1, <1>2, <1>3, <1>4, <1>5, <1>6 DEF Next

\* With no RAM out of date, the one asked for and the one held are the same.
LEMMA NoneStale == Stale = {} => \A g \in Generators : want[g] = shape[g]
  BY DEF Stale, Order, Generators

LEMMA NextUpToDate == UpToDate /\ [Next]_vars => UpToDate'
<1> SUFFICES ASSUME UpToDate, [Next]_vars PROVE UpToDate'
  OBVIOUS
<1> USE DEF UpToDate
<1>1. CASE UNCHANGED <<pc, want, shape>>
  BY <1>1
<1>2. CASE \E g \in Active : Toggle(g)
  BY <1>1, <1>2 DEF Toggle, menuVars, ddsVars
<1>3. CASE Isr
  BY <1>1, <1>3 DEF Isr, EnterIsr, Check, LeaveIsr, menuVars, ddsVars
<1>4. CASE Handler
  <2>1. ASSUME NEW g \in Active, NextWave(g) PROVE pc' = "redraw"
    BY <2>1 DEF NextWave, Handled, EndHandler
  <2> QED
    BY <1>4, <2>1 DEF Handler, At, Goto, EndHandler, Handled, NoInput, OpenSD,
       MoveSelection, ReturnFromSD, StopFile, StopValid, LoadFile, LoadValid,
       LoadEof, LoadCopy, ToggleModulation, Tune, ddsVars
<1>5. CASE MainStep
  <2>1. CASE RamDone
    BY <2>1, NoneStale DEF RamDone, Goto, ddsVars
  <2> QED
    BY <1>5, <2>1 DEF MainStep, Goto, DrawPage, InitSD, DrawSD, EndList, WriteParams,
       ResetDDSModules, WriteMask, RamLow, RamHigh, RamTag
<1>6. CASE PressEnable
  BY <1>1, <1>6 DEF PressEnable, menuVars
<1>7. CASE UNCHANGED vars
  BY <1>1, <1>7 DEF vars, menuVars, ddsVars
<1> QED BY <1>2, <1>3, <1>4, <1>5, <1>6, <1>7 DEF Next

LEMMA NextHalvesWritten ==
  TypeOK /\ Regenerating /\ ArmedOnArb /\ HalvesWritten /\ [Next]_vars => HalvesWritten'
<1> SUFFICES ASSUME TypeOK, Regenerating, ArmedOnArb, HalvesWritten, [Next]_vars
             PROVE  HalvesWritten'
  OBVIOUS
<1>1. CASE UNCHANGED <<want, shape, mask, ram, pc>>
  BY <1>1 DEF HalvesWritten, NextStale, Stale
<1>2. CASE pc' \notin {"ramHigh", "ramTag"}
  BY <1>2 DEF HalvesWritten
<1>3. CASE \E g \in Active : Toggle(g)
  BY <1>1, <1>3 DEF Toggle, menuVars, ddsVars
<1>4. CASE Isr
  <2>1. CASE EnterIsr \/ LeaveIsr
    BY <1>1, <2>1 DEF EnterIsr, LeaveIsr, menuVars, ddsVars, hwVars
  <2>2. CASE Check
    <3>1. /\ UNCHANGED <<want, shape, mask, pc>> /\ isr # "idle"
      BY <2>2 DEF Check, Checks, menuVars, ddsVars
    <3>2. NextStale' = NextStale
      BY <3>1 DEF NextStale, Stale
    <3>3. CASE Stale # {}
      <4>1. NextStale \in Generators
        BY <3>3, NextStaleType
      <4>2. mask # {}
        BY <3>1 DEF ArmedOnArb
      <4>3. \A h \in Half : shape[NextStale] # Arb => ram'[NextStale][h] = ram[NextStale][h]
        BY <2>2, <4>1, CheckWritesArb
      <4> QED BY <3>1, <3>2, <4>2, <4>3 DEF HalvesWritten, Samples, Half
    <3> QED BY <1>2, <3>1, <3>3 DEF Regenerating
  <2> QED BY <1>4, <2>1, <2>2 DEF Isr
<1>5. CASE Handler
  BY <1>2, <1>5 DEF Handler, At, Goto, EndHandler, Handled, NoInput, OpenSD,
     MoveSelection, ReturnFromSD, StopFile, StopValid, LoadFile, LoadValid, LoadEof,
     LoadCopy, NextWave, ToggleModulation, Tune
<1>6. CASE MainStep
  <2>1. CASE RamLow
    <3>1. NextStale \in Generators
      BY <2>1, NextStaleType DEF RamLow
    <3>2. /\ ram' = [ram EXCEPT ![NextStale][0] = Samples(want[NextStale])]
          /\ pc' = "ramHigh" /\ UNCHANGED <<want, shape>>
      BY <2>1 DEF RamLow, Regenerate, Goto, ddsVars
    <3>3. NextStale' = NextStale
      BY <3>2 DEF NextStale, Stale
    <3>4. ram'[NextStale][0] = Samples(want[NextStale])
      BY <3>1, <3>2 DEF TypeOK, HwType, Half
    <3> QED BY <3>2, <3>3, <3>4 DEF HalvesWritten, Samples
  <2>2. CASE RamHigh
    <3>1. pc = "ramHigh" /\ NextStale \in Generators
      BY <2>2, NextStaleType DEF RamHigh, At, Regenerating
    <3>2. /\ ram' = [ram EXCEPT ![NextStale][1] = Samples(want[NextStale])]
          /\ pc' = "ramTag" /\ UNCHANGED <<want, shape, mask>>
      BY <2>2 DEF RamHigh, Regenerate, Goto, ddsVars
    <3>3. NextStale' = NextStale
      BY <3>2 DEF NextStale, Stale
    <3>4. /\ ram'[NextStale][1] = Samples(want[NextStale])
          /\ ram'[NextStale][0] = ram[NextStale][0]
      BY <3>1, <3>2 DEF TypeOK, HwType, Half
    <3> QED BY <3>1, <3>2, <3>3, <3>4 DEF HalvesWritten, Samples
  <2> QED
    BY <1>2, <1>6, <2>1, <2>2 DEF MainStep, Goto, DrawPage, InitSD, DrawSD, EndList,
       WriteParams, ResetDDSModules, WriteMask, RamTag, RamDone
<1>7. CASE PressEnable
  BY <1>1, <1>7 DEF PressEnable, menuVars, hwVars
<1>8. CASE UNCHANGED vars
  BY <1>1, <1>8 DEF vars, menuVars, ddsVars, hwVars
<1> QED BY <1>3, <1>4, <1>5, <1>6, <1>7, <1>8 DEF Next

Regenerated == TypeOK /\ Regenerating /\ ArmedOnArb /\ UpToDate /\ HalvesWritten

\* A RAM comes to hold something else only when it is tagged, and only if ...
LEMMA NextMixed ==
  ASSUME Regenerated, [Next]_vars, NEW g \in Generators, Mixed(g)'
  PROVE  \/ Mixed(g)
         \/ pc = "ramTag" /\ shape[g] = Arb /\ mask \ {g} # {}
<1> USE DEF Regenerated
<1>1. CASE UNCHANGED <<want, shape, ram>>
  BY <1>1 DEF Mixed, Samples
<1>2. CASE \E k \in Active : Toggle(k)
  BY <1>1, <1>2 DEF Toggle, ddsVars
<1>3. CASE Isr
  <2>1. CASE EnterIsr \/ LeaveIsr
    BY <1>1, <2>1 DEF EnterIsr, LeaveIsr, ddsVars, hwVars
  <2>2. CASE Check
    <3>1. UNCHANGED <<want, shape>> /\ shape[g] # Arb
      BY <2>2 DEF Check, ddsVars, Mixed
    <3>2. \A h \in Half : ram'[g][h] = ram[g][h]
      BY <2>2, <3>1, CheckWritesArb
    <3>3. ram' \in [Generators -> [Half -> Content]]
      BY <2>2, IsrStepType DEF Isr, TypeOK, HwType
    <3>4. ram'[g] = ram[g]
      BY <3>2, <3>3 DEF TypeOK, HwType
    <3> QED BY <3>1, <3>4 DEF Mixed, Samples
  <2> QED BY <1>3, <2>1, <2>2 DEF Isr
<1>4. CASE Handler
  <2>1. ASSUME NEW k \in Active, NextWave(k) PROVE Mixed(g)
    <3>1. /\ pc = "input" /\ want' = [want EXCEPT ![k] = (want[k] + 1) % (Arb + 1)]
          /\ UNCHANGED <<shape, ram>>
      BY <2>1 DEF NextWave, Handled, At, hwVars
    <3>2. want[g] \in 0 .. Arb /\ Arb \in Nat \ {0}
      BY PlaybackAssumption DEF TypeOK, DdsType
    <3>3. (want[g] + 1) % (Arb + 1) # want[g] /\ (want[g] + 1) % (Arb + 1) # NoWave
      BY <3>2 DEF NoWave
    <3>4. want[g] = shape[g] \/ shape[g] = NoWave
      BY <3>1 DEF UpToDate
    <3>5. want'[g] = shape[g] /\ want'[g] \in {want[g], (want[g] + 1) % (Arb + 1)}
      BY <3>1 DEF Mixed, TypeOK, DdsType
    <3>6. want'[g] = want[g]
      BY <3>2, <3>3, <3>4, <3>5 DEF NoWave
    <3> QED BY <3>1, <3>6 DEF Mixed, Samples
  <2> QED
    BY <1>1, <1>4, <2>1 DEF Handler, Handled, NoInput, OpenSD, MoveSelection,
       ReturnFromSD, StopFile, StopValid, LoadFile, LoadValid, LoadEof, LoadCopy,
       ToggleModulation, Tune, hwVars, ddsVars
<1>5. CASE MainStep
  <2>1. ASSUME NEW h \in Half, Stale # {}, Regenerate(NextStale, h)
        PROVE  Mixed(g)
    <3>1. NextStale \in Generators /\ want[NextStale] # shape[NextStale]
      BY <2>1, NextStaleType, NextStaleIsStale
    <3>2. /\ ram' = [ram EXCEPT ![NextStale][h] = Samples(want[NextStale])]
          /\ UNCHANGED <<want, shape>>
      BY <2>1 DEF Regenerate, ddsVars
    <3>3. g # NextStale
      BY <3>1, <3>2 DEF Mixed
    <3>4. ram'[g] = ram[g]
      BY <3>2, <3>3 DEF TypeOK, HwType
    <3> QED BY <3>2, <3>4 DEF Mixed, Samples
  <2>2. CASE RamLow
    BY <2>1, <2>2 DEF RamLow, Half
  <2>3. CASE RamHigh
    BY <2>1, <2>3 DEF RamHigh, At, Regenerating, Half
  <2>4. CASE RamTag
    <3>1. /\ pc = "ramTag" /\ Stale # {} /\ UNCHANGED <<want, ram, mask>>
          /\ shape' = [shape EXCEPT ![NextStale] = want[NextStale]]
      BY <2>4 DEF RamTag, At, Regenerating, hwVars, ddsVars
    <3>2. CASE g # NextStale
      BY <3>1, <3>2 DEF Mixed, Samples, TypeOK
    <3>3. CASE g = NextStale
      <4>1. want[g] # Arb
        BY <3>1, <3>3 DEF Mixed, TypeOK
      <4>2. g \notin mask
        BY <3>1, <4>1 DEF ArmedOnArb
      <4>3. ASSUME shape[g] # Arb \/ mask = {} PROVE FALSE
        <5>1. ram[g][0] = Samples(want[g]) /\ ram[g][1] = Samples(want[g])
          BY <3>1, <3>3, <4>1, <4>3 DEF HalvesWritten
        <5>2. ram[g] = [h \in Half |-> Samples(want[g])]
          BY <5>1 DEF TypeOK, HwType, Half
        <5> QED BY <3>1, <5>2 DEF Mixed, Samples
      <4> QED BY <3>1, <4>2, <4>3
    <3> QED BY <3>2, <3>3
  <2> QED
    BY <1>1, <1>5, <2>2, <2>3, <2>4 DEF MainStep, DrawPage, InitSD, DrawSD, EndList,
       WriteParams, ResetDDSModules, WriteMask, RamDone, hwVars, ddsVars
<1>6. CASE PressEnable
  BY <1>1, <1>6 DEF PressEnable, hwVars
<1>7. CASE UNCHANGED vars
  BY <1>1, <1>7 DEF vars, hwVars, ddsVars
<1> QED BY <1>2, <1>3, <1>4, <1>5, <1>6, <1>7 DEF Next

\* A regenerated RAM holds its waveform in both halves, whatever interrupts come
\* in between, unless it leaves ARB while another generator is armed.
THEOREM RegeneratedWhole == Spec => MixedOnlyByOthers
<1>1. Init => Regenerated
  BY InitType DEF Init, Regenerated, Regenerating, ArmedOnArb, UpToDate, HalvesWritten
<1>2. Regenerated /\ [Next]_vars => Regenerated'
  BY NextType, NextRegenerating, NextArmedOnArb, NextUpToDate, NextHalvesWritten
     DEF Regenerated
<1>3. Regenerated /\ [Next]_vars =>
        [\A g \in Generators :
           Mixed(g)' => \/ Mixed(g)
                        \/ pc = "ramTag" /\ shape[g] = Arb /\ mask \ {g} # {}]_vars
  BY NextMixed
<1> QED BY <1>1, <1>2, <1>3, PTL DEF Spec, MixedOnlyByOthers
-----------------------------------------------------------------------------
(* A tear needs a late service *)

\* A generator that moves after its bit was read is no longer one whose last
\* edge was taken at once.
PromptSeen == isr # "idle" => \A g \in prompt : bank[g] = value[g]

LEMMA NextPromptSeen == TypeOK /\ PromptSeen /\ [Next]_vars => PromptSeen'
<1> SUFFICES ASSUME TypeOK, PromptSeen, [Next]_vars PROVE PromptSeen'
  OBVIOUS
<1> USE DEF PromptSeen
<1>1. CASE UNCHANGED <<bank, prompt, isrVars>>
  BY <1>1 DEF isrVars
<1>2. CASE isr = "idle" /\ UNCHANGED isr
  BY <1>2
<1>3. ASSUME NEW k \in Active, Toggle(k), isr # "idle" PROVE PromptSeen'
  <2>1. /\ bank' = [bank EXCEPT ![k] = 1 - bank[k]] /\ prompt' = prompt \ {k}
        /\ UNCHANGED value
    BY <1>3 DEF Toggle, isrVars
  <2> QED BY <1>3, <2>1 DEF TypeOK, HwType
<1>4. CASE Isr
  <2>1. CASE EnterIsr
    BY <2>1 DEF EnterIsr, hwVars
  <2>2. CASE Check
    BY <2>2 DEF Check, Checks
  <2>3. CASE LeaveIsr
    BY <2>3 DEF LeaveIsr
  <2> QED BY <1>4, <2>1, <2>2, <2>3 DEF Isr
<1>5. CASE Handler
  BY <1>1, <1>5 DEF Handler, Handled, NoInput, OpenSD, MoveSelection, ReturnFromSD,
     StopFile, StopValid, LoadFile, LoadValid, LoadEof, LoadCopy, NextWave,
     ToggleModulation, Tune, hwVars
<1>6. CASE MainStep
  <2>1. CASE ResetDDSModules
    BY <1>2, <2>1 DEF ResetDDSModules, At, isrVars
  <2> QED
    BY <1>1, <1>6, <2>1 DEF MainStep, DrawPage, InitSD, DrawSD, EndList, WriteParams,
       WriteMask, RamLow, RamHigh, RamTag, RamDone, Regenerate, hwVars
<1>7. CASE PressEnable
  BY <1>1, <1>7 DEF PressEnable, hwVars
<1>8. CASE UNCHANGED vars
  BY <1>1, <1>8 DEF vars, hwVars
<1>9. \A k \in Active : Toggle(k) => UNCHANGED isr
  BY DEF Toggle, isrVars
<1> QED BY <1>2, <1>3, <1>4, <1>5, <1>6, <1>7, <1>8, <1>9 DEF Next

\* The handler chooses the half that is not being read, for every generator but
\* DDS1, as long as the generator did not move on before it was served.
THEOREM TearsAreLate == Spec => []TearOnlyWhenLate
<1>1. Init => TypeOK /\ Regenerating /\ PromptSeen
  BY InitType DEF Init, Regenerating, PromptSeen
<1>2. TypeOK /\ Regenerating /\ PromptSeen /\ [Next]_vars =>
        (TypeOK /\ Regenerating /\ PromptSeen)'
  BY NextType, NextRegenerating, NextPromptSeen
<1>3. TypeOK /\ PromptSeen => TearOnlyWhenLate
  <2> SUFFICES ASSUME TypeOK, PromptSeen, isr \in Checks, NEW t \in Targets(isr),
                      t[1] \in tuned \cap prompt, t[1] # "D1"
               PROVE  bank[t[1]] # t[2]
    BY DEF TearOnlyWhenLate
  <2>1. PICK g \in Generators, h \in Half : t = <<g, h>>
    BY TargetsType
  <2>2. value[g] = 1 - h
    BY <2>1, TargetOfCheck
  <2>3. bank[g] = value[g]
    BY <2>1 DEF PromptSeen, Checks
  <2> QED BY <2>1, <2>2, <2>3 DEF Half
<1> QED BY <1>1, <1>2, <1>3, PTL DEF Spec

-----------------------------------------------------------------------------
(* Playing through one RAM is a double buffer *)

\* What the refinement rests on: one generator, that stays slow once it is, and
\* a CPU that refills a half before the other one is over.
OneInTime == Active = {"D0"} /\ Pace = "full" /\ "tuneUp" \notin Inputs

Others == Generators \ {"D0"}

\* The other generators stand still and are not on ARB.
Still == \A g \in Others : bank[g] = 0 /\ value[g] = 0 /\ previous[g] = 0 /\ want[g] = 0

\* The interrupt is armed only for a slow DDS0.
SlowWhenServed ==
  /\ slow \subseteq {"D0"} /\ tuned \subseteq slow
  /\ pc \in {"reset", "mask"} => tuned = slow
  /\ mask \subseteq tuned
  /\ isr # "idle" => "D0" \in tuned

\* While the handler has a refill to make DDS0 stays where it was seen.
SeenWhereItIs == isr # "idle" /\ Changed("D0") => bank["D0"] = value["D0"]

Alone == Still /\ SlowWhenServed /\ SeenWhereItIs

LEMMA InitAlone == Init => Alone
  BY DEF Init, Alone, Still, SlowWhenServed, SeenWhereItIs, Others

LEMMA NextStill == OneInTime /\ TypeOK /\ Still /\ [Next]_vars => Still'
<1> SUFFICES ASSUME OneInTime, TypeOK, Still, [Next]_vars PROVE Still'
  OBVIOUS
<1> USE DEF Still, Others
<1>1. CASE UNCHANGED <<bank, value, previous, want>>
  BY <1>1
<1>2. ASSUME NEW g \in Active, Toggle(g) PROVE Still'
  BY <1>2 DEF OneInTime, Toggle, isrVars, ddsVars, TypeOK, HwType
<1>3. CASE Isr
  BY <1>3 DEF Isr, EnterIsr, Check, LeaveIsr, hwVars, ddsVars
<1>4. CASE Handler
  <2>1. ASSUME NEW g \in Active, NextWave(g) PROVE Still'
    BY <2>1 DEF OneInTime, NextWave, Handled, hwVars, isrVars, TypeOK, DdsType
  <2> QED
    BY <1>1, <1>4, <2>1 DEF Handler, Handled, NoInput, OpenSD, MoveSelection,
       ReturnFromSD, StopFile, StopValid, LoadFile, LoadValid, LoadEof, LoadCopy,
       ToggleModulation, Tune, hwVars, ddsVars, isrVars
<1>5. CASE MainStep
  <2>1. CASE ResetDDSModules
    <3>1. CASE resetDDS
      <4>1. PICK high \in SUBSET {"D0"} :
              bank' = [g \in Generators |-> IF g \in high THEN 1 ELSE 0]
        BY <2>1, <3>1 DEF ResetDDSModules, OneInTime
      <4> QED BY <2>1, <4>1 DEF ResetDDSModules, isrVars
    <3> QED BY <2>1, <3>1 DEF ResetDDSModules, isrVars
  <2> QED
    BY <1>1, <1>5, <2>1 DEF MainStep, DrawPage, InitSD, DrawSD, EndList, WriteParams,
       WriteMask, RamLow, RamHigh, RamTag, RamDone, Regenerate, hwVars, ddsVars, isrVars
<1>6. CASE PressEnable
  BY <1>1, <1>6 DEF PressEnable, hwVars, isrVars
<1>7. CASE UNCHANGED vars
  BY <1>1, <1>7 DEF vars, hwVars, ddsVars, isrVars
<1> QED BY <1>2, <1>3, <1>4, <1>5, <1>6, <1>7 DEF Next

LEMMA NextSlowWhenServed ==
  OneInTime /\ TypeOK /\ Still /\ SlowWhenServed /\ [Next]_vars => SlowWhenServed'
<1> SUFFICES ASSUME OneInTime, TypeOK, Still, SlowWhenServed, [Next]_vars
             PROVE  SlowWhenServed'
  OBVIOUS
<1> USE DEF SlowWhenServed
<1>1. CASE UNCHANGED <<slow, tuned, mask, isr, pc>>
  BY <1>1
\* A step of the main loop that leaves the settings alone and arms nothing
<1>2. CASE /\ UNCHANGED <<slow, tuned, isr>> /\ mask' \in {mask, {}}
           /\ pc' \notin {"reset", "mask"}
  BY <1>2
<1>3. CASE \E g \in Active : Toggle(g)
  BY <1>1, <1>3 DEF Toggle, isrVars, ddsVars, menuVars
<1>4. CASE Isr
  <2>1. CASE EnterIsr
    BY <2>1 DEF EnterIsr, Deliverable, hwVars, ddsVars, menuVars
  <2>2. CASE Check
    BY <2>2 DEF Check, Checks, After, ddsVars, menuVars
  <2>3. CASE LeaveIsr
    BY <2>3 DEF LeaveIsr, ddsVars, menuVars
  <2> QED BY <1>4, <2>1, <2>2, <2>3 DEF Isr
<1>5. CASE Handler
  <2>1. ASSUME NEW g \in Active, Tune(g) PROVE SlowWhenServed'
    <3>1. slow' = slow \cup {"D0"} /\ UNCHANGED <<tuned, mask, isr>>
      BY <2>1 DEF OneInTime, Tune, Handled, hwVars, isrVars
    <3>2. pc' \notin {"reset", "mask"}
      BY <2>1 DEF Tune, Handled, EndHandler
    <3> QED BY <3>1, <3>2
  <2> QED
    BY <1>2, <1>5, <2>1 DEF Handler, At, Goto, EndHandler, Handled, NoInput, OpenSD,
       MoveSelection, ReturnFromSD, StopFile, StopValid, LoadFile, LoadValid,
       LoadEof, LoadCopy, NextWave, ToggleModulation, hwVars, ddsVars, isrVars
<1>6. CASE MainStep
  <2>1. CASE WriteParams
    <3>1. tuned' = slow /\ UNCHANGED <<slow, mask, isr>> /\ isr = "idle"
      BY <2>1 DEF WriteParams, At, ddsVars, isrVars
    <3> QED BY <3>1
  <2>2. CASE ResetDDSModules
    BY <2>2 DEF ResetDDSModules, At, Goto, isrVars
  <2>3. CASE WriteMask
    <3>1. /\ mask' = Armed /\ tuned = slow /\ isr = "idle" /\ pc' = "ram"
          /\ UNCHANGED <<slow, tuned, isr>>
      BY <2>3 DEF WriteMask, At, Goto, ddsVars, isrVars
    <3>2. Armed \subseteq slow
      <4> SUFFICES ASSUME NEW g \in Armed PROVE g \in slow
        OBVIOUS
      <4>1. want[g] # 0 /\ g \in Generators
        BY PlaybackAssumption DEF Armed
      <4>2. g = "D0"
        BY <4>1 DEF Still, Others
      <4> QED BY <4>2 DEF Armed, FrequencyTested
    <3> QED BY <3>1, <3>2
  <2> QED
    BY <1>2, <1>6, <2>1, <2>2, <2>3 DEF MainStep, Goto, DrawPage, InitSD, DrawSD,
       DisarmForFatFs, EndList, RamLow, RamHigh, RamTag, RamDone, Regenerate,
       hwVars, ddsVars, isrVars
<1>7. CASE PressEnable
  BY <1>1, <1>7 DEF PressEnable, hwVars, isrVars, menuVars
<1>8. CASE UNCHANGED vars
  BY <1>1, <1>8 DEF vars, hwVars, ddsVars, isrVars, menuVars
<1> QED BY <1>3, <1>4, <1>5, <1>6, <1>7, <1>8 DEF Next

LEMMA NextSeenWhereItIs ==
  OneInTime /\ TypeOK /\ SlowWhenServed /\ SeenWhereItIs /\ [Next]_vars => SeenWhereItIs'
<1> SUFFICES ASSUME OneInTime, TypeOK, SlowWhenServed, SeenWhereItIs, [Next]_vars
             PROVE  SeenWhereItIs'
  OBVIOUS
<1> USE DEF SeenWhereItIs, Changed
<1>1. CASE UNCHANGED <<bank, isrVars>>
  BY <1>1 DEF isrVars
<1>2. CASE isr' = "idle"
  BY <1>2
<1>3. ASSUME NEW g \in Active, Toggle(g) PROVE SeenWhereItIs'
  <2>1. g = "D0" /\ UNCHANGED <<isr, value, previous>>
    BY <1>3 DEF OneInTime, Toggle, isrVars
  <2>2. isr # "idle" => value["D0"] = previous["D0"]
    BY <1>3, <2>1 DEF OneInTime, Toggle, InTime, SlowWhenServed
  <2> QED BY <2>1, <2>2
<1>4. CASE Isr
  <2>1. CASE EnterIsr
    BY <2>1 DEF EnterIsr, hwVars
  <2>2. CASE Check
    BY <2>2 DEF Check, Checks
  <2>3. CASE LeaveIsr
    BY <1>2, <2>3 DEF LeaveIsr
  <2> QED BY <1>4, <2>1, <2>2, <2>3 DEF Isr
<1>5. CASE Handler
  BY <1>1, <1>5 DEF Handler, Handled, NoInput, OpenSD, MoveSelection, ReturnFromSD,
     StopFile, StopValid, LoadFile, LoadValid, LoadEof, LoadCopy, NextWave,
     ToggleModulation, Tune, hwVars
<1>6. CASE MainStep
  <2>1. CASE ResetDDSModules
    BY <1>2, <2>1 DEF ResetDDSModules, At, isrVars
  <2> QED
    BY <1>1, <1>6, <2>1 DEF MainStep, DrawPage, InitSD, DrawSD, EndList, WriteParams,
       WriteMask, RamLow, RamHigh, RamTag, RamDone, Regenerate, hwVars
<1>7. CASE PressEnable
  BY <1>1, <1>7 DEF PressEnable, hwVars
<1>8. CASE UNCHANGED vars
  BY <1>1, <1>8 DEF vars, hwVars
<1> QED BY <1>3, <1>4, <1>5, <1>6, <1>7, <1>8 DEF Next
\* One refill by the handler, seen at DDS0
LEMMA CheckRefines ==
  ASSUME OneInTime, TypeOK, WaitingInv, Alone, Check
  PROVE  [Buffer!Next]_(Buffer!dbVars)
<1> DEFINE T == Targets(isr)
           i == 1 - bank["D0"]
<1>1. isr \in Checks /\ UNCHANGED bank
  BY DEF Check
<1>2. bank["D0"] \in Half /\ i \in Half /\ i # bank["D0"]
  BY DEF TypeOK, HwType, Generators, Half
<1>3. T \subseteq {<<"D0", i>>} \cup {t \in T : t[1] # "D0"}
  <2> SUFFICES ASSUME NEW t \in T, t[1] = "D0" PROVE t = <<"D0", i>>
    OBVIOUS
  <2>1. PICK g \in Generators, h \in Half : t = <<g, h>>
    BY <1>1, TargetsType
  <2>2. g = "D0" /\ value["D0"] = 1 - h /\ Changed("D0")
    BY <1>1, <2>1, TargetOfCheck
  <2>3. bank["D0"] = value["D0"]
    BY <1>1, <2>2 DEF Alone, SeenWhereItIs, Checks
  <2> QED BY <2>1, <2>2, <2>3 DEF Half
<1>4. T # {} => <<"D0", i>> \in T
  <2>1. \A g \in Others : ~Changed(g)
    BY DEF Alone, Still, Changed
  <2>2. CASE isr = "carriers"
    <3>1. ~Changed("D1")
      BY <2>1 DEF Others, Generators
    <3>2. T # {} => <<"D0", IdleHalf(value["D0"])>> \in T
      BY <2>2, <3>1 DEF Targets, CarrierTargets, Carriers
    <3> HIDE DEF T
    <3>3. <<"D0", IdleHalf(value["D0"])>> \in T => IdleHalf(value["D0"]) = i
      BY <1>3
    <3> QED BY <3>2, <3>3
  <2>3. CASE isr # "carriers"
    BY <1>1, <2>1, <2>3 DEF Targets, ModulatorTargets, Checks, Others, Generators
  <2> QED BY <2>2, <2>3
<1>5. CASE T = {}
  BY <1>1, <1>5 DEF Check, Halves, playerVars, Buffer!dbVars
<1>6. CASE T # {} /\ ram_wav_update(T)
  <2>1. i \notin Halves("D0")
    BY <1>1, <1>4, <1>6, WaitingSafe DEF NoOverwriteUnplayed, Halves
  <2>2. Refilled(T) = unplayed \cup {t \in T : bank[t[1]] # t[2]}
    BY DEF Refilled
  <2>3. ASSUME unplayed' = Refilled(T)
        PROVE  Halves("D0")' = Halves("D0") \cup {i}
    <3>1. \A h \in Half : <<"D0", h>> \in T => h = i
      BY <1>3
    <3>2. \A h \in Half :
            <<"D0", h>> \in unplayed' <=> <<"D0", h>> \in unplayed \/ h = i
      BY <1>2, <1>4, <1>6, <2>2, <2>3, <3>1
    <3> QED BY <1>2, <3>2 DEF Halves
  <2>4. ram["D0"] \in [Half -> Content]
    BY DEF TypeOK, HwType, Generators
  <2>5. \A h \in Half : <<"D0", h>> \in T <=> h = i
    BY <1>2, <1>3, <1>4, <1>6
  <2>6. CASE RejectFile \/ NothingToPlay
    BY <1>1, <2>6 DEF RejectFile, NothingToPlay, Halves, Buffer!dbVars
  <2>7. CASE CloseFile(T)
    <3>1. ram'["D0"] = [ram["D0"] EXCEPT ![i] = Zero]
      <4>1. ram'["D0"] = [h \in Half |-> IF <<"D0", h>> \in T THEN Zero ELSE ram["D0"][h]]
        BY <2>7 DEF CloseFile, Silenced, Generators
      <4> HIDE DEF T, i
      <4>2. \A h \in Half : ram'["D0"][h] = IF h = i THEN Zero ELSE ram["D0"][h]
        BY <2>5, <4>1
      <4> QED BY <1>2, <2>4, <4>1, <4>2
    <3>2. Halves("D0")' = Halves("D0") \cup {i} /\ UNCHANGED <<playing, chunk>>
      BY <2>3, <2>7 DEF CloseFile
    <3> QED
      BY <1>1, <2>1, <3>1, <3>2
         DEF Buffer!Next, Buffer!Stop, Buffer!Put, Buffer!Idle
  <2>8. CASE PlayChunk(T)
    <3> DEFINE f == IF isOpen THEN playing ELSE wavFile
               k == IF isOpen THEN chunk ELSE 0
    <3>1. f \in Files /\ (k = 0 \/ (f = playing /\ k = chunk))
      BY <2>8, PlaybackAssumption DEF PlayChunk, TypeOK, PlayerType
    <3>2. /\ playing' = f /\ ram' = Filled(f, k, T) /\ chunk' = NextChunk(f, k)
          /\ unplayed' = IF f \in Supported THEN Refilled(T) ELSE unplayed
      BY <2>8 DEF PlayChunk
    <3> HIDE DEF f, k
    <3>3. chunk' \in {k + 1, 0} /\ (f \notin Supported => chunk' = 0)
      BY <3>2 DEF NextChunk
    <3>4. CASE f \notin Supported
      <4>1. UNCHANGED <<ram, unplayed>>
        BY <3>2, <3>4 DEF Filled
      <4> QED
        BY <1>1, <3>1, <3>2, <3>3, <3>4, <4>1
           DEF Buffer!Next, Buffer!Skip, Halves
    <3>5. CASE f \in Supported
      <4>1. ram'["D0"] = [ram["D0"] EXCEPT ![i] = Chunk(f, k)]
        <5>1. ram'["D0"] = [h \in Half |-> IF <<"D0", h>> \in T THEN Chunk(f, k)
                                                                ELSE ram["D0"][h]]
          BY <3>2, <3>5 DEF Filled, Generators
        <5> HIDE DEF T, i
        <5>2. \A h \in Half : ram'["D0"][h] = IF h = i THEN Chunk(f, k)
                                                        ELSE ram["D0"][h]
          BY <2>5, <5>1
        <5> QED BY <1>2, <2>4, <5>1, <5>2
      <4>2. Halves("D0")' = Halves("D0") \cup {i}
        BY <2>3, <3>2, <3>5
      <4>3. Buffer!Put(Chunk(f, k))
        BY <1>1, <2>1, <4>1, <4>2 DEF Buffer!Put, Buffer!Idle
      <4>4. k \in {0} \cup (IF f = <<playing, chunk>>[1] THEN {<<playing, chunk>>[2]} ELSE {})
        BY <3>1
      <4>5. <<playing, chunk>>' \in {<<f, k + 1>>, <<f, 0>>}
        BY <3>2, <3>3
      <4> QED BY <3>1, <4>3, <4>4, <4>5 DEF Buffer!Next, Buffer!Refill
    <3> QED BY <3>4, <3>5
  <2> QED BY <1>6, <2>6, <2>7, <2>8 DEF ram_wav_update
<1> QED BY <1>5, <1>6 DEF Check

\* A half written by UpdateRam, seen at DDS0
LEMMA RegenerateRefines ==
  ASSUME TypeOK, NEW g \in Generators, NEW h \in Half, Regenerate(g, h)
  PROVE  [Buffer!Next]_(Buffer!dbVars)
<1>1. /\ ram' = [ram EXCEPT ![g][h] = Samples(want[g])]
      /\ unplayed' = unplayed \ {<<g, h>>} /\ UNCHANGED <<bank, playing, chunk>>
  BY DEF Regenerate, playerVars
<1>2. CASE g # "D0"
  <2>1. ram'["D0"] = ram["D0"] /\ Halves("D0")' = Halves("D0")
    BY <1>1, <1>2 DEF TypeOK, HwType, Generators, Halves
  <2> QED BY <1>1, <2>1 DEF Buffer!dbVars
<1>3. CASE g = "D0"
  <2>1. Samples(want[g]) \in {<<"shape", w>> : w \in Wave} \cup {Zero}
    BY PlaybackAssumption DEF TypeOK, DdsType, Samples, Wave, NoWave
  <2>2. ram'["D0"] = [ram["D0"] EXCEPT ![h] = Samples(want[g])]
    BY <1>1, <1>3 DEF TypeOK, HwType
  <2>3. Halves("D0")' = Halves("D0") \ {h}
    BY <1>1, <1>3 DEF Halves
  <2>4. Buffer!Regenerate(h)
    BY <1>1, <2>1, <2>2, <2>3 DEF Buffer!Regenerate
  <2> QED BY <2>4 DEF Buffer!Next, Half
<1> QED BY <1>2, <1>3

\* DDS0 enters a half that a step takes from the unplayed ones.
LEMMA EnterRefines ==
  ASSUME TypeOK, WaitingInv, bank'["D0"] \in Half,
         Halves("D0")' = Halves("D0") \ {bank'["D0"]},
         UNCHANGED <<ram, playing, chunk>>
  PROVE  [Buffer!Next]_(Buffer!dbVars)
<1>1. bank["D0"] \in Half /\ "D0" \in Generators \ {"D1"}
  BY DEF TypeOK, HwType, Generators
<1>2. CASE bank'["D0"] = bank["D0"]
  <2>1. \A h \in Half : <<"D0", h>> \in unplayed => bank["D0"] = 1 - h
    BY <1>1 DEF WaitingInv, Waiting
  <2>2. bank["D0"] \notin Halves("D0")
    BY <1>1, <2>1 DEF Halves, Half
  <2> QED BY <1>2, <2>2 DEF Buffer!dbVars
<1>3. CASE bank'["D0"] # bank["D0"]
  <2>1. bank'["D0"] = 1 - bank["D0"]
    BY <1>1, <1>3 DEF Half
  <2> QED BY <2>1 DEF Buffer!Next, Buffer!Swap, Buffer!Idle
<1> QED BY <1>2, <1>3

LEMMA NextRefines ==
  ASSUME OneInTime, TypeOK, Regenerating, WaitingInv, Alone, [Next]_vars
  PROVE  [Buffer!Next]_(Buffer!dbVars)
<1>1. CASE UNCHANGED <<bank, ram, unplayed, playing, chunk>>
  BY <1>1 DEF Halves, Buffer!dbVars
<1>2. ASSUME NEW g \in Active, Toggle(g) PROVE [Buffer!Next]_(Buffer!dbVars)
  <2>1. /\ bank' = [bank EXCEPT !["D0"] = 1 - bank["D0"]]
        /\ unplayed' = unplayed \ {<<"D0", 1 - bank["D0"]>>}
        /\ UNCHANGED <<ram, playing, chunk>>
    BY <1>2 DEF OneInTime, Toggle, playerVars
  <2>2. bank'["D0"] = 1 - bank["D0"] /\ bank'["D0"] \in Half
    BY <2>1 DEF TypeOK, HwType, Generators, Half
  <2>3. Halves("D0")' = Halves("D0") \ {bank'["D0"]}
    BY <2>1, <2>2 DEF Halves
  <2> QED BY <2>1, <2>2, <2>3, EnterRefines
<1>3. CASE Isr
  BY <1>1, <1>3, CheckRefines DEF Isr, EnterIsr, LeaveIsr, hwVars, playerVars
<1>4. CASE Handler
  BY <1>1, <1>4 DEF Handler, Handled, NoInput, OpenSD, MoveSelection, ReturnFromSD,
     StopFile, StopValid, LoadFile, LoadValid, LoadEof, LoadCopy, NextWave,
     ToggleModulation, Tune, hwVars, playerVars
<1>5. CASE MainStep
  <2>1. CASE ResetDDSModules
    <3>1. CASE resetDDS
      <4>1. PICK high \in SUBSET (Active \cap Carriers) :
              LET new == [g \in Generators |-> IF g \in high THEN 1 ELSE 0]
              IN /\ bank' = new
                 /\ unplayed' = unplayed \ {<<g, new[g]>> : g \in Generators}
        BY <2>1, <3>1 DEF ResetDDSModules
      <4>2. bank' \in [Generators -> Half]
        BY <4>1 DEF Half
      <4>3. unplayed' = unplayed \ {<<g, bank'[g]>> : g \in Generators}
        BY <4>1
      <4>4. Halves("D0")' = Halves("D0") \ {bank'["D0"]}
        BY <4>3 DEF Halves, Generators
      <4> QED
        BY <2>1, <4>2, <4>4, EnterRefines DEF ResetDDSModules, playerVars, Generators
    <3> QED BY <1>1, <2>1, <3>1 DEF ResetDDSModules, playerVars
  <2>2. CASE RamLow
    BY <2>2, NextStaleType, RegenerateRefines DEF RamLow, Half
  <2>3. CASE RamHigh
    BY <2>3, NextStaleType, RegenerateRefines DEF RamHigh, At, Regenerating, Half
  <2> QED
    BY <1>1, <1>5, <2>1, <2>2, <2>3 DEF MainStep, DrawPage, InitSD, DrawSD, EndList,
       WriteParams, WriteMask, RamTag, RamDone, hwVars, playerVars
<1>6. CASE PressEnable
  BY <1>1, <1>6 DEF PressEnable, hwVars, playerVars
<1>7. CASE UNCHANGED vars
  BY <1>1, <1>7 DEF vars, hwVars, playerVars
<1> QED BY <1>2, <1>3, <1>4, <1>5, <1>6, <1>7 DEF Next

\* With one generator and a CPU that keeps up, the player, the interrupt, the
\* menu and the regenerations together implement the double buffer, for any files
\* and any user who does not tune upwards.
THEOREM PlaysThroughDoubleBuffer == OneInTime => (Spec => PlaysInOrder)
<1> DEFINE Inv == OneInTime /\ TypeOK /\ Regenerating /\ WaitingInv /\ Alone
<1>1. OneInTime /\ Init => Inv
  BY InitType, InitAlone DEF Init, Regenerating, WaitingInv
<1>2. Inv /\ [Next]_vars => Inv'
  BY NextType, NextRegenerating, NextWaiting, NextStill, NextSlowWhenServed,
     NextSeenWhereItIs DEF Alone, OneInTime
<1>3. Init => Buffer!Init
  BY DEF Init, Buffer!Init, Halves, Half, Generators
<1>4. Inv /\ [Next]_vars => [Buffer!Next]_(Buffer!dbVars)
  BY NextRefines
<1> QED BY <1>1, <1>2, <1>3, <1>4, PTL DEF Spec, PlaysInOrder, Buffer!Spec
\* Under the same conditions the half replaced is always the consumed one.
THEOREM ConsumedHalfReplaced == OneInTime => (Spec => []ReplacesConsumedHalf)
<1> DEFINE Inv == OneInTime /\ TypeOK /\ Regenerating /\ Alone
<1>1. OneInTime /\ Init => Inv
  BY InitType, InitAlone DEF Init, Regenerating
<1>2. Inv /\ [Next]_vars => Inv'
  BY NextType, NextRegenerating, NextStill, NextSlowWhenServed, NextSeenWhereItIs
     DEF Alone, OneInTime
<1>3. Inv => ReplacesConsumedHalf
  <2> SUFFICES ASSUME Inv, isr \in Checks, NEW t \in Targets(isr), t[1] \in tuned
               PROVE  bank[t[1]] # t[2]
    BY DEF ReplacesConsumedHalf
  <2>1. PICK g \in Generators, h \in Half : t = <<g, h>>
    BY TargetsType
  <2>2. g = "D0"
    BY <2>1 DEF Alone, SlowWhenServed
  <2>3. value[g] = 1 - h /\ Changed(g)
    BY <2>1, <2>2, TargetOfCheck
  <2>4. bank[g] = value[g]
    BY <2>2, <2>3 DEF Alone, SeenWhereItIs, Checks
  <2> QED BY <2>1, <2>3, <2>4 DEF Half
<1> QED BY <1>1, <1>2, <1>3, PTL DEF Spec
=============================================================================
