---------------------------- MODULE System22Board ----------------------------
(* The System 22 main bus as a game drives it: the interrupt controller of    *)
(* both boards, the switches of the MCU and the DSPs, the cabinet inputs, and *)
(* the frame that runs the processors in turn.                                *)
EXTENDS Integers, FiniteSets, FiniteSetsExt

CONSTANTS
    UsedSources,    \* the interrupt sources the game programs
    UsedLevels,     \* the levels it gives them
    MaxPresses      \* bound: times a coin is put in

ASSUME S22Assumption == UsedSources \subseteq 0..4 /\ UsedLevels \subseteq 0..7 /\ MaxPresses \in Nat

VARIABLES
    s22super,       \* m_super_system22
    s22link,        \* m_c139_link_enabled
    s22level,       \* the level bits of m_syscontrol, by source
    s22enabled,     \* m_irq_enabled: a set of sources
    s22pending,     \* m_irq_state: a set of sources
    s22asserted,    \* m_asserted_irq_level
    s22mcu,         \* m_enabled of the MCU
    s22mcuLines,    \* external: interrupt lines raised at the MCU core
    s22slice,       \* how far the frame is: "between", "early", "late"
    s22coin,        \* external: the coin switch is held
    s22presses,     \* external: times it was pressed
    s22previous,    \* m_coin1_previous: "open", "closed", "unknown" until initialised
    s22credits      \* m_credits1

s22irq == << s22level, s22enabled, s22pending, s22asserted >>
s22mcuState == << s22mcu, s22mcuLines >>
s22coinage == << s22coin, s22presses, s22previous, s22credits >>
s22kind == << s22super, s22link >>
s22vars == << s22kind, s22irq, s22mcuState, s22slice, s22coinage >>

Sources == 0..4
CountedSources == IF s22super THEN 0..3 ELSE Sources      \* source_count
Vblank == IF s22super THEN 0 ELSE 4
Sci == 2

S22Init ==
    /\ s22super \in BOOLEAN /\ s22link \in BOOLEAN
    /\ s22level = [s \in Sources |-> 0] /\ s22enabled = {} /\ s22pending = {} /\ s22asserted = 0
    /\ s22mcu = FALSE /\ s22mcuLines = {}
    /\ s22slice = "between"
    /\ s22coin = FALSE /\ s22presses = 0 /\ s22previous = "unknown" /\ s22credits = 0

-----------------------------------------------------------------------------
(* The interrupt controller. *)

Highest(level, enabled, pending) ==
    Max({0} \cup {level[s] : s \in (enabled \cap pending) \cap CountedSources})

(* update_irq_level, with the level registers as they are to be. *)
UpdateLevelSlip(level, enabled, pending) == s22asserted' = Highest(s22level, enabled, pending)
UpdateLevel(level, enabled, pending) == s22asserted' = Highest(level, enabled, pending)

(* A level register: the source is enabled by bit 4, on Super System 22 by a  *)
(* level that is not zero; a source disabled loses what it had pending.       *)
WriteLevel(source, level, bit4) ==
    /\ s22slice # "between" /\ source \in CountedSources
    /\ LET on == IF s22super THEN level # 0 ELSE bit4
           levels == [s22level EXCEPT ![source] = level]
           enabled == IF on THEN s22enabled \cup {source} ELSE s22enabled \ {source}
           pending == IF on THEN s22pending ELSE s22pending \ {source}
       IN /\ s22level' = levels /\ s22enabled' = enabled /\ s22pending' = pending
          /\ UpdateLevel(levels, enabled, pending)
    /\ UNCHANGED << s22kind, s22mcuState, s22slice, s22coinage >>

Acknowledge(source) ==
    /\ s22slice # "between" /\ source \in s22pending
    /\ s22pending' = s22pending \ {source}
    /\ UpdateLevel(s22level, s22enabled, s22pending \ {source})
    /\ UNCHANGED << s22level, s22enabled >>
    /\ UNCHANGED << s22kind, s22mcuState, s22slice, s22coinage >>

(* signal_vblank and signal_c139_irq: a source that is not enabled hears      *)
(* nothing.                                                                  *)
Signalled(sources) == s22pending \cup (sources \cap s22enabled)
SciSignal == IF s22link /\ ~s22super THEN {Sci} ELSE {}

-----------------------------------------------------------------------------
(* The game switches the MCU on and off. *)
WriteMcuControl(on) ==
    /\ s22slice # "between"
    /\ s22mcu' = on
    /\ s22mcuLines' = IF on /\ ~s22mcu THEN {} ELSE s22mcuLines
    /\ UNCHANGED << s22kind, s22irq, s22slice, s22coinage >>

(* The MCU core takes an interrupt raised before. *)
McuTakes(line) ==
    /\ s22mcu /\ line \in s22mcuLines /\ s22mcuLines' = s22mcuLines \ {line}
    /\ UNCHANGED << s22kind, s22irq, s22mcu, s22slice, s22coinage >>

LineRaised(line) == IF s22mcu /\ s22super THEN s22mcuLines \cup {line} ELSE s22mcuLines

-----------------------------------------------------------------------------
(* update_coinage: the switch as the frame samples it. *)
Edge(held) == held /\ s22previous = "open"
PreviousSlip(held) == IF s22previous = "unknown" /\ held THEN "closed" ELSE "open"
Previous(held) == IF held THEN "closed" ELSE "open"
UpdateCoinage(held) ==
    /\ s22credits' = IF Edge(held) THEN s22credits + 1 ELSE s22credits
    /\ s22previous' = Previous(held)

(* run_frame up to its slices: the inputs, if anything on the board publishes *)
(* them, then the vertical blank.                                            *)
BeginFrame ==
    /\ s22slice = "between" /\ s22slice' = "early"
    /\ IF s22super \/ s22mcu THEN UpdateCoinage(s22coin) ELSE UNCHANGED << s22credits, s22previous >>
    /\ s22pending' = Signalled({Vblank} \cup SciSignal)
    /\ UpdateLevel(s22level, s22enabled, Signalled({Vblank} \cup SciSignal))
    /\ UNCHANGED << s22kind, s22level, s22enabled, s22mcuState, s22coin, s22presses >>

(* Half of the slices have run. *)
HalfFrame ==
    /\ s22slice = "early" /\ s22slice' = "late"
    /\ s22mcuLines' = LineRaised("irq2")
    /\ UNCHANGED << s22kind, s22irq, s22mcu, s22coinage >>

(* The last slice, the picture, and the exchange with the other cabinet,      *)
(* which may have received a frame.                                          *)
EndFrame(received) ==
    /\ s22slice = "late" /\ s22slice' = "between"
    /\ received => s22link
    /\ s22mcuLines' = LineRaised("irq0")
    /\ LET pending == IF received THEN Signalled(SciSignal) ELSE s22pending
       IN s22pending' = pending /\ UpdateLevel(s22level, s22enabled, pending)
    /\ UNCHANGED << s22kind, s22level, s22enabled, s22mcu, s22coinage >>

CoinSwitch ==
    /\ s22coin' = ~s22coin /\ (s22coin \/ s22presses < MaxPresses)
    /\ s22presses' = IF s22coin THEN s22presses ELSE s22presses + 1
    /\ UNCHANGED << s22kind, s22irq, s22mcuState, s22slice, s22previous, s22credits >>

S22Next ==
    \/ \E source \in UsedSources : \/ \E level \in UsedLevels, bit4 \in BOOLEAN : WriteLevel(source, level, bit4)
                                   \/ Acknowledge(source)
    \/ \E on \in BOOLEAN : WriteMcuControl(on)
    \/ \E line \in {"irq0", "irq2"} : McuTakes(line)
    \/ BeginFrame \/ HalfFrame \/ \E received \in BOOLEAN : EndFrame(received)
    \/ CoinSwitch
S22Spec == S22Init /\ [][S22Next]_s22vars

-----------------------------------------------------------------------------
(* The level at the processor's pins is that of the most urgent source which  *)
(* is enabled and waits, through every write, acknowledgement and signal.     *)
AssertedIsHighest == s22asserted = Highest(s22level, s22enabled, s22pending)

(* No coin is credited twice: not a switch held over many frames, nor over    *)
(* the MCU being switched off and on.                                        *)
NoFreeCredit == s22credits <= s22presses
=============================================================================
