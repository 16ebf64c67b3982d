----------------------------- MODULE Model2Sound -----------------------------
(* The sound board of Model 2: a 68000 and the SCSP, on the audio thread.  The *)
(* i960's bytes cross to it in a ring and reach the SCSP's FIFO.  MIDI and the *)
(* timers interrupt the 68000; the voices follow the key bits of their control *)
(* words when one of them executes a key.                                     *)
EXTENDS Naturals

CONSTANTS
    ScRing,     \* MIDI_CAPACITY: 1024
    ScFifo,     \* places of m_midi_fifo: 32
    ScSlots,    \* voices: 32
    ScTimers,   \* timers: "A", "B" and "C"
    ScTicks     \* counts of a timer before it expires: 255

ASSUME Model2SoundAssumption ==
    /\ ScRing \in Nat \ {0} /\ {ScFifo, ScTicks} \subseteq Nat \ {0} /\ ScTimers \subseteq {"A", "B", "C"}

VARIABLES
    scRing, scIn,           \* bytes in m_midi_transport and in m_midi_fifo
    scPending, scEnabled,   \* SCIPD and SCIEB
    scLine,                 \* the source m68k_set_irq was last called for
    scTimer,                \* m_timer_counter
    scKey,                  \* KYONB in the control word of each voice
    scVoice,                \* m_voices: "off" or the stage of the envelope
    scStruck                \* voices keyed on, and neither keyed off nor played out since

scMidi == << scRing, scIn >>
scIrq == << scPending, scEnabled, scLine, scTimer >>
scVoices == << scKey, scVoice, scStruck >>
scvars == << scMidi, scIrq, scVoices >>

ScSources == ScTimers \cup {"midi"}
Expired == ScTicks

(* update_irq: timer A before B and C, MIDI last. *)
Line(pending, enabled) ==
    LET active == pending \cap enabled
    IN IF "A" \in active THEN "A"
       ELSE IF active \cap {"B", "C"} # {} THEN "BC"
       ELSE IF "midi" \in active THEN "midi" ELSE "none"
Told(pending) == scPending' = pending /\ scLine' = Line(pending, scEnabled)

ScInit ==
    /\ scRing = 0 /\ scIn = 0
    /\ scPending = {} /\ scEnabled = {} /\ scLine = "none" /\ scTimer = [t \in ScTimers |-> Expired]
    /\ scKey = [s \in ScSlots |-> FALSE] /\ scVoice = [s \in ScSlots |-> "off"] /\ scStruck = {}

-----------------------------------------------------------------------------
(* MIDI.  A full ring refuses the byte, which nobody sends again. *)

EnqueueMidi ==
    /\ scRing' = (IF scRing + 1 < ScRing THEN scRing + 1 ELSE scRing)
    /\ UNCHANGED << scIn, scIrq, scVoices >>

(* Before every chunk of the 68000. *)
TransportMidi ==
    LET free == ScFifo - scIn
        moved == IF scRing < free THEN scRing ELSE free
    IN /\ scIn' = scIn + moved /\ scRing' = scRing - moved
       /\ Told(IF scIn' = 0 THEN scPending ELSE scPending \cup {"midi"})
       /\ UNCHANGED << scEnabled, scTimer, scVoices >>

AfterPopSlip(left) ==
    scPending' = (IF left = 0 THEN scPending \ {"midi"} ELSE scPending) /\ UNCHANGED scLine
AfterPop(left) == Told(IF left = 0 THEN scPending \ {"midi"} ELSE scPending)
PopMidi ==
    /\ scIn' = (IF scIn = 0 THEN 0 ELSE scIn - 1) /\ AfterPop(scIn')
    /\ UNCHANGED << scRing, scEnabled, scTimer, scVoices >>

-----------------------------------------------------------------------------
(* Interrupts.  Resetting the bit of an expired timer sets it again. *)

WriteEnable(sources) ==
    /\ scEnabled' = sources /\ scLine' = Line(scPending, sources)
    /\ UNCHANGED << scMidi, scPending, scTimer, scVoices >>
ResetPending(sources) ==
    /\ Told((scPending \ sources) \cup { t \in sources \cap ScTimers : scTimer[t] = Expired })
    /\ UNCHANGED << scMidi, scEnabled, scTimer, scVoices >>
ArmTimer(t, count) ==
    /\ scTimer' = [scTimer EXCEPT ![t] = count]
    /\ UNCHANGED << scMidi, scPending, scEnabled, scLine, scVoices >>
TickTimers ==
    /\ scTimer' = [t \in ScTimers |-> IF scTimer[t] = Expired THEN Expired ELSE scTimer[t] + 1]
    /\ Told(scPending \cup { t \in ScTimers : scTimer[t] # Expired /\ scTimer'[t] = Expired })
    /\ UNCHANGED << scMidi, scEnabled, scVoices >>

-----------------------------------------------------------------------------
(* Voices.  A write to a control word with KEYONEX executes the keys of all.  *)

StartsSlip(key, stage) == key /\ stage = "off"
Starts(key, stage) == key /\ stage \in {"off", "release"}
WriteSlotControl(slot, on, execute) ==
    LET key == [scKey EXCEPT ![slot] = on]
        released == { s \in ScSlots : ~key[s] /\ scVoice[s] # "off" }
    IN /\ IF ~execute THEN scKey' = key /\ UNCHANGED << scVoice, scStruck >>
          ELSE /\ scVoice' = [s \in ScSlots |-> IF Starts(key[s], scVoice[s]) THEN "attack"
                                                ELSE IF s \in released THEN "release" ELSE scVoice[s]]
               /\ scKey' = [s \in ScSlots |-> key[s] /\ s \notin released]
               /\ scStruck' = { s \in ScSlots : key[s] }
       /\ UNCHANGED << scMidi, scIrq >>

(* The envelope moves on; attack also ends at the loop's start.  A voice whose *)
(* sample does not loop ends with it, and its key bit goes.                   *)
NextStage(slot) ==
    /\ scVoice[slot] \in {"attack", "decay1", "release"}
    /\ scVoice' = [scVoice EXCEPT ![slot] =
           CASE @ = "attack" -> "decay1" [] @ = "decay1" -> "decay2" [] @ = "release" -> "off"]
    /\ UNCHANGED << scKey, scStruck, scMidi, scIrq >>
PlayedOut(slot) ==
    /\ scVoice[slot] # "off" /\ scVoice' = [scVoice EXCEPT ![slot] = "off"]
    /\ scKey' = [scKey EXCEPT ![slot] = FALSE] /\ scStruck' = scStruck \ {slot}
    /\ UNCHANGED << scMidi, scIrq >>

ScNext ==
    \/ EnqueueMidi \/ TransportMidi \/ PopMidi \/ TickTimers
    \/ \E sources \in SUBSET ScSources : WriteEnable(sources) \/ ResetPending(sources)
    \/ \E t \in ScTimers, count \in 0..(ScTicks - 1) : ArmTimer(t, count)
    \/ \E slot \in ScSlots : NextStage(slot) \/ PlayedOut(slot)
                             \/ \E on, execute \in BOOLEAN : WriteSlotControl(slot, on, execute)
ScSpec == ScInit /\ [][ScNext]_scvars

-----------------------------------------------------------------------------
(* update_slot: "A key-on landing inside that release tail must retrigger the  *)
(* slot from attack."  A note that was keyed on sounds, and is not fading,    *)
(* until it is keyed off or its sample ends: other voices' keys, late          *)
(* releases and stages in between do not silence it.                          *)
KeyedNotesSound == \A s \in scStruck : scVoice[s] \notin {"off", "release"}

(* The line the 68000 sees is always that of the highest source pending and    *)
(* enabled: none of the five places that change them leaves it behind.        *)
LineAsPending == scLine = Line(scPending, scEnabled)
=============================================================================
