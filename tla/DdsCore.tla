------------------------------- MODULE DdsCore -------------------------------
(***************************************************************************)
(* The phases of the two channels (DDS_PhaseReg, DDS_WaveGenerator and     *)
(* DDS_FM_Modulator), whose parameter registers updateVariablesOnFpga      *)
(* writes one after the other while the generators run.                    *)
(***************************************************************************)
EXTENDS Integers, Sequences

CONSTANTS
  PhaseRange,   \* 2^32
  Settings,     \* [step, fmStep, fmDev] a channel may be set to
  Modulation,   \* [0 .. PhaseRange - 1 -> Int]: what the FM RAM adds to the
                \* phase step for a deviation of 1, at each phase
  PulseClocks   \* clocks between the two writes of ResetDDSModules, at least

Fields   == {"step", "fmStep", "fmDev"}
Channel  == 0 .. 1

ASSUME DdsCoreAssumption ==
  /\ PhaseRange \in Nat \ {0}
  /\ Settings \subseteq [Fields -> 0 .. PhaseRange - 1] /\ Settings # {}
  /\ Modulation \in [0 .. PhaseRange - 1 -> Int]
  /\ PulseClocks \in Nat \ {0, 1}

\* The registers in the order they are written (hardware.c:43-84)
Registers ==
  << <<0, "step">>, <<0, "fmStep">>, <<0, "fmDev">>,
     <<1, "step">>, <<1, "fmStep">>, <<1, "fmDev">> >>

VARIABLES
  desired, phaseReset,          \* DDS_Variables, resetDDS
  writing,                      \* next of Registers; 0: the pass is over
  pulse,                        \* clocks since 0xFF was written, or Off
  register,                     \* the PIOs: [channel -> setting]
  phase, fmPhase, fmAddress,    \* each channel's registers
  inPhase,                      \* history: no pass has changed a register
                                \* since one reset the generators
  changed, cleared              \* history: what this pass did

ddsSoftware == <<desired, phaseReset, writing, register>>
ddsHardware == <<phase, fmPhase, fmAddress>>
ddsHistory  == <<inPhase, changed, cleared>>
ddsVars     == <<ddsSoftware, pulse, ddsHardware, ddsHistory>>

Off == -1
Both(x) == [c \in Channel |-> x]

\* resetDDS is true at power-up.
DdsInit ==
  /\ desired \in [Channel -> Settings] /\ phaseReset = TRUE
  /\ writing = 0 /\ pulse = Off
  /\ register = Both([f \in Fields |-> 0])
  /\ phase = Both(0) /\ fmPhase = Both(0) /\ fmAddress = Both(0)
  /\ inPhase = FALSE /\ changed = FALSE /\ cleared = FALSE

-----------------------------------------------------------------------------
(* The generators *)

\* o_ModulatedPhaseStep
ModulatedStep(c) == register[c].step + register[c].fmDev * Modulation[fmAddress[c]]

Advanced(old, add) == (old + add) % PhaseRange

\* mutant: the modulators are not reset
ClockResetsCarriers ==
  /\ fmAddress' = fmPhase
  /\ fmPhase' = [c \in Channel |-> Advanced(fmPhase[c], register[c].fmStep)]
  /\ IF pulse = Off
     THEN /\ phase' = [c \in Channel |-> Advanced(phase[c], ModulatedStep(c))]
          /\ UNCHANGED pulse
     ELSE /\ phase' = Both(0)
          /\ pulse' = IF pulse < PulseClocks THEN pulse + 1 ELSE pulse
  /\ UNCHANGED <<ddsSoftware, ddsHistory>>

\* A clock of both channels; the RAM's address is a clock behind the phase.
Clock ==
  /\ fmAddress' = fmPhase
  /\ IF pulse = Off
     THEN /\ phase'   = [c \in Channel |-> Advanced(phase[c], ModulatedStep(c))]
          /\ fmPhase' = [c \in Channel |-> Advanced(fmPhase[c], register[c].fmStep)]
          /\ UNCHANGED pulse
     ELSE /\ phase' = Both(0) /\ fmPhase' = Both(0)
          /\ pulse' = IF pulse < PulseClocks THEN pulse + 1 ELSE pulse
  /\ UNCHANGED <<ddsSoftware, ddsHistory>>

-----------------------------------------------------------------------------
(* The program *)

\* A menu handler changes a channel, between two passes.
SetChannel(c) ==
  /\ writing = 0
  /\ \E s \in Settings : desired' = [desired EXCEPT ![c] = s]
  /\ UNCHANGED <<phaseReset, writing, register, pulse, ddsHardware, ddsHistory>>

\* ENABLE (hardware.c:223), or the button of the FM page
RequestReset ==
  /\ ~phaseReset /\ phaseReset' = TRUE
  /\ UNCHANGED <<desired, writing, register, pulse, ddsHardware, ddsHistory>>

BeginPass ==
  /\ writing = 0 /\ writing' = 1 /\ changed' = FALSE /\ cleared' = FALSE
  /\ UNCHANGED <<desired, phaseReset, register, pulse, ddsHardware, inPhase>>

WriteRegister ==
  /\ writing \in DOMAIN Registers
  /\ LET c == Registers[writing][1]
         f == Registers[writing][2]
     IN  /\ register' = [register EXCEPT ![c][f] = desired[c][f]]
         /\ changed' = (changed \/ register'[c][f] # register[c][f])
  /\ writing' = writing + 1
  /\ UNCHANGED <<desired, phaseReset, pulse, ddsHardware, inPhase, cleared>>

EndPass ==
  /\ writing' = 0 /\ inPhase' = (cleared' \/ (inPhase /\ ~changed))
  /\ UNCHANGED <<desired, register, ddsHardware, changed>>

\* ResetDDSModules: nothing to do, ...
NoReset ==
  /\ writing = Len(Registers) + 1 /\ ~phaseReset
  /\ UNCHANGED <<phaseReset, pulse, cleared>> /\ EndPass

\* ... or 0xFF, which resets both channels, ...
AssertReset ==
  /\ writing = Len(Registers) + 1 /\ phaseReset
  /\ pulse' = 0 /\ writing' = writing + 1
  /\ UNCHANGED <<desired, phaseReset, register, ddsHardware, ddsHistory>>

\* ... and 0x00 some clocks later; then resetDDS is false.
ReleaseReset ==
  /\ writing = Len(Registers) + 2 /\ pulse = PulseClocks
  /\ pulse' = Off /\ phaseReset' = FALSE /\ cleared' = TRUE
  /\ EndPass

UpdateRegisters ==
  BeginPass \/ WriteRegister \/ NoReset \/ AssertReset \/ ReleaseReset

DdsNext ==
  Clock \/ RequestReset \/ UpdateRegisters \/ \E c \in Channel : SetChannel(c)

DdsSpec == DdsInit /\ [][DdsNext]_ddsVars

-----------------------------------------------------------------------------
(* Properties *)

\* The registers have their types.
DdsTypeOK ==
  /\ desired \in [Channel -> Settings] /\ phaseReset \in BOOLEAN
  /\ writing \in 0 .. Len(Registers) + 2
  /\ pulse \in {Off} \cup 0 .. PulseClocks
  /\ register \in [Channel -> [Fields -> 0 .. PhaseRange - 1]]
  /\ phase \in [Channel -> 0 .. PhaseRange - 1]
  /\ fmPhase \in [Channel -> 0 .. PhaseRange - 1]
  /\ fmAddress \in [Channel -> 0 .. PhaseRange - 1]
  /\ inPhase \in BOOLEAN /\ changed \in BOOLEAN /\ cleared \in BOOLEAN

\* "resets the phase difference between channels" (hardware.h:40): between two
\* passes, channels that are set alike run in phase, carrier and modulator, if
\* no register has changed since a pass that reset them - changes of that pass
\* itself included, although channel 0 runs with its new step before channel 1
\* does.  A change in a pass without a reset puts them out of phase for good.
ChannelsInPhase ==
  writing = 0 /\ inPhase /\ register[0] = register[1] =>
    phase[0] = phase[1] /\ fmPhase[0] = fmPhase[1] /\ fmAddress[0] = fmAddress[1]
=============================================================================
