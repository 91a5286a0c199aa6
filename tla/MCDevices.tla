----------------------------- MODULE MCDevices -----------------------------
(***************************************************************************)
(* The parts that touch each other only through the program, each with its *)
(* own state: `focus` is the one that runs, the others stay where they     *)
(* start.                                                                  *)
(***************************************************************************)
EXTENDS CardFile, Keypad, LcdDma, SpiDma, DdsCore, Samples, Delay,
        TypingScreen, SdPage, TLC

\* A sector of 2 bytes: the header is 1 byte, a stereo chunk 8 bytes in two
\* f_reads, the file 11 bytes in 6 sectors and 2 clusters.
Directory == <<1, 2>>

\* Three keys, two of them in one column
KeyColumn == [k \in Keys |-> IF k = Zero THEN 2 ELSE 1]

Alike == [step |-> 1, fmStep |-> 1, fmDev |-> 1]
Other == [step |-> 3, fmStep |-> 1, fmDev |-> 0]
ChannelSettings == {Alike, Other}

\* A square wave modulates.
SquareModulation == [p \in 0 .. PhaseRange - 1 |-> IF 2 * p < PhaseRange THEN 1 ELSE -1]

\* Quiet samples and those at the limits
Loudness == {-32768, -31569, -31568, -1, 1, 31567, 31568, 32767}

\* Numbers in halves and to the base 2: a frequency, an amplitude, whose third
\* multiplier is 0, and a percentage, whose array ends behind the first
EditedValues ==
  { [min |-> 0, max |-> 5, multipliers |-> <<1, 2, 4>>],
    [min |-> 1, max |-> 5, multipliers |-> <<1, 2, 0>>],
    [min |-> 0, max |-> 3, multipliers |-> <<1>>] }

EncoderSteps == -2 .. 2

\* A directory in a directory, and an empty one
CardListing ==
  (<<>> :> <<"A", "file">>) @@ (<<"A">> :> <<"B">>) @@ (<<"A", "B">> :> <<>>)

-----------------------------------------------------------------------------
VARIABLE focus

Parts == {"card", "keypad", "lcd", "spi", "dds", "samples", "delay", "typing",
          "sdpage"}

allVars == <<vars, keypadVars, lcdVars, spiVars, ddsVars, sampleVars, delayVars,
             typingVars, sdPageVars, focus>>

Init ==
  /\ focus \in Parts
  /\ FileInit /\ KeypadInit /\ LcdInit /\ SpiInit /\ DdsInit /\ SampleInit
  /\ DelayInit /\ TypingInit /\ SdPageInit
  /\ focus # "card"  => slot = "none"
  /\ focus # "dds"   => desired = Both(Alike)
  /\ focus # "delay" => timer = 0
  /\ focus # "typing" => Len(value.multipliers) = 1
  /\ Len(value.multipliers) # 1 \/ focus # "typing" => beyond = [u \in 1 .. UnitsCount |-> 0]
  /\ beyond[UnitsCount] = 0      \* never read: an array is never empty

\* The others stay where they are.
Only(part) ==
  /\ focus = part /\ UNCHANGED focus
  /\ part # "card"    => UNCHANGED vars
  /\ part # "keypad"  => UNCHANGED keypadVars
  /\ part # "lcd"     => UNCHANGED lcdVars
  /\ part # "spi"     => UNCHANGED spiVars
  /\ part # "dds"     => UNCHANGED ddsVars
  /\ part # "samples" => UNCHANGED sampleVars
  /\ part # "delay"   => UNCHANGED delayVars
  /\ part # "typing"  => UNCHANGED typingVars
  /\ part # "sdpage"  => UNCHANGED sdPageVars

Next ==
  \/ Only("card")    /\ FileNext
  \/ Only("keypad")  /\ KeypadNext
  \/ Only("lcd")     /\ LcdNext
  \/ Only("spi")     /\ SpiNext
  \/ Only("dds")     /\ DdsNext
  \/ Only("samples") /\ SampleNext
  \/ Only("delay")   /\ DelayNext
  \/ Only("typing")  /\ TypingNext
  \/ Only("sdpage")  /\ SdPageNext

\* Each part with the fairness of its own specification
Spec ==
  /\ Init /\ [][Next]_allVars
  /\ WF_vars(focus = "card" /\ (Driver \/ Player))
  /\ WF_vars(focus = "card" /\ Update)
  /\ WF_keypadVars(focus = "keypad" /\ KeypadClock)
  /\ WF_lcdVars(focus = "lcd" /\ Transfer)

\* The types of every part
DevicesTypeOK ==
  /\ FileTypeOK /\ KeypadTypeOK /\ LcdTypeOK /\ SpiTypeOK /\ DdsTypeOK
  /\ SampleTypeOK /\ DelayTypeOK /\ TypingTypeOK /\ SdPageTypeOK

=============================================================================
