---------------------------- MODULE System22Sound ----------------------------
(* The C352 of System 22 between two threads: the sound CPU writes registers   *)
(* into a snapshot, which it also reads, and into a ring of commands; the      *)
(* audio thread applies the commands to the chip, plays, and refreshes the     *)
(* flags in the snapshot.  One voice is modelled, by its flag register: the    *)
(* high byte has the keys and a mark of a loop taken, the low byte the          *)
(* direction of a loop that runs both ways, which the chip turns, and data.    *)
EXTENDS Integers, Sequences, FiniteSets

CONSTANTS
    Capacity,       \* COMMAND_CAPACITY: 2048
    MaxCommands     \* bound: registers written and executions

ASSUME C352Assumption == Capacity \in Nat \ {0, 1} /\ MaxCommands \in Nat

VARIABLES
    c352snapshot,   \* m_register_snapshot of the flag register
    c352chip,       \* flags of the voice in m_c352
    c352ring,       \* m_commands
    c352write, c352read,    \* m_command_write, m_command_read
    c352dropped,    \* m_dropped_commands
    c352cpu,        \* where the sound CPU is: "idle", "load", "store", "push"
    c352word,       \* the word its write_c352 carries, or the flags it loaded
    c352command,    \* the command to push
    c352audio,      \* where the audio thread is: "wait", "apply", "note", "play", "refresh"
    c352cursor, c352end,    \* read and write of process_commands
    c352written,    \* what the CPU has begun to write so far
    c352accepted    \* data of the last flag word that was accepted

c352cpuState == << c352cpu, c352word, c352command, c352written >>
c352audioState == << c352audio, c352cursor, c352end >>
c352queue == << c352ring, c352write, c352dropped, c352accepted >>
c352vars == << c352snapshot, c352chip, c352queue, c352read, c352cpuState, c352audioState >>

RingSlots == 0..(Capacity - 1)
Quiet == [high |-> {}, turned |-> FALSE, low |-> 0]
Execution == [kind |-> "execute", word |-> Quiet]
FlagWord(word) == [kind |-> "flags", word |-> word]

C352Init ==
    /\ c352snapshot = Quiet /\ c352chip = Quiet
    /\ c352ring = [s \in RingSlots |-> Execution] /\ c352write = 0 /\ c352read = 0 /\ c352dropped = 0
    /\ c352cpu = "idle" /\ c352word = Quiet /\ c352command = Execution
    /\ c352audio = "wait" /\ c352cursor = 0 /\ c352end = 0
    /\ c352written = 0 /\ c352accepted = 0

-----------------------------------------------------------------------------
(* The sound CPU. *)

(* A write of the flag register: of the word, or of a byte, which is merged    *)
(* with the other byte of the snapshot.                                       *)
BeginWord(word) ==
    /\ c352cpu = "idle" /\ c352written < MaxCommands /\ c352written' = c352written + 1
    /\ c352cpu' = "store" /\ c352word' = word /\ c352command' = FlagWord(word)
    /\ UNCHANGED << c352snapshot, c352chip, c352queue, c352read, c352audioState >>
WriteWord(high, turned, low) == BeginWord([high |-> high, turned |-> turned, low |-> low])
WriteHighByte(high) == BeginWord([c352snapshot EXCEPT !.high = high])
WriteLowByte(turned, low) == BeginWord([high |-> c352snapshot.high, turned |-> turned, low |-> low])

(* A write of 0x202 executes the keys: write_c352 first loads the flags and    *)
(* stores them as they will be.                                              *)
Keyed(high) ==
    LET on == IF "keyon" \in high THEN (high \cup {"busy"}) \ {"keyon", "looped"} ELSE high
    IN IF "keyoff" \in on THEN on \ {"busy", "keyoff"} ELSE on
BeginExecution ==
    /\ c352cpu = "idle" /\ c352written < MaxCommands /\ c352written' = c352written + 1
    /\ c352cpu' = "load" /\ c352command' = Execution
    /\ UNCHANGED << c352word, c352snapshot, c352chip, c352queue, c352read, c352audioState >>
LoadFlags ==
    /\ c352cpu = "load" /\ c352cpu' = "store"
    /\ c352word' = [c352snapshot EXCEPT !.high = Keyed(@)]
    /\ UNCHANGED << c352command, c352written, c352snapshot, c352chip, c352queue, c352read, c352audioState >>
StoreSnapshot ==
    /\ c352cpu = "store" /\ c352cpu' = "push" /\ c352snapshot' = c352word
    /\ UNCHANGED << c352word, c352command, c352written, c352chip, c352queue, c352read,
                    c352audioState >>

(* The command goes into the ring, unless it is full. *)
RingFullSlip(next) == FALSE
RingFull(next) == next = c352read
PushCommand ==
    /\ c352cpu = "push" /\ c352cpu' = "idle"
    /\ LET next == (c352write + 1) % Capacity
       IN IF RingFull(next)
          THEN /\ c352dropped' = c352dropped + 1
               /\ UNCHANGED << c352ring, c352write, c352accepted >>
          ELSE /\ c352ring' = [c352ring EXCEPT ![c352write] = c352command]
               /\ c352write' = next
               /\ c352accepted' = IF c352command.kind = "flags" THEN c352command.word.low ELSE c352accepted
               /\ UNCHANGED c352dropped
    /\ UNCHANGED << c352word, c352command, c352written, c352snapshot, c352chip, c352read, c352audioState >>

-----------------------------------------------------------------------------
(* The audio thread: process_commands, then a buffer of sound. *)

c352others == << c352queue, c352cpuState >>

BeginBuffer ==
    /\ c352audio = "wait" /\ c352audio' = "apply" /\ c352cursor' = c352read /\ c352end' = c352write
    /\ UNCHANGED << c352snapshot, c352chip, c352read, c352others >>

ApplyCommand ==
    /\ c352audio = "apply" /\ c352cursor # c352end /\ c352audio' = "note"
    /\ LET command == c352ring[c352cursor]
       IN /\ c352chip' = IF command.kind = "flags" THEN command.word
                         ELSE [c352chip EXCEPT !.high = Keyed(@)]
    /\ UNCHANGED << c352snapshot, c352read, c352cursor, c352end, c352others >>
(* The register is copied back after the chip has it. *)
NoteRegister ==
    /\ c352audio = "note" /\ c352audio' = "apply"
    /\ c352snapshot' = c352chip /\ c352cursor' = (c352cursor + 1) % Capacity
    /\ UNCHANGED << c352chip, c352read, c352end, c352others >>
ReleaseCommands ==
    /\ c352audio = "apply" /\ c352cursor = c352end /\ c352audio' = "play" /\ c352read' = c352cursor
    /\ UNCHANGED << c352snapshot, c352chip, c352cursor, c352end, c352others >>

(* A voice may come to the end of its sample while it plays: it stops there, or *)
(* loops, or, if its loop runs both ways, turns round at either end.          *)
AfterPlay(event) ==
    CASE event = "none" -> c352chip
      [] event = "ends" -> [c352chip EXCEPT !.high = (@ \ {"busy"}) \cup {"keyoff"}]
      [] event = "loops" -> [c352chip EXCEPT !.high = @ \cup {"looped"}]
      [] event = "turns" -> [c352chip EXCEPT !.turned = ~@]
Play(event) ==
    /\ c352audio = "play" /\ c352audio' = "refresh"
    /\ event # "none" => "busy" \in c352chip.high
    /\ c352chip' = AfterPlay(event)
    /\ UNCHANGED << c352snapshot, c352read, c352cursor, c352end, c352others >>
RefreshSnapshot ==
    /\ c352audio = "refresh" /\ c352audio' = "wait" /\ c352snapshot' = c352chip
    /\ UNCHANGED << c352chip, c352read, c352cursor, c352end, c352others >>

C352Cpu ==
    \/ \E high \in {{}, {"keyon"}, {"keyoff"}}, turned \in BOOLEAN, low \in {0, 1} :
           WriteWord(high, turned, low) \/ WriteHighByte(high) \/ WriteLowByte(turned, low)
    \/ BeginExecution \/ LoadFlags \/ StoreSnapshot \/ PushCommand
C352Audio ==
    \/ BeginBuffer \/ ApplyCommand \/ NoteRegister \/ ReleaseCommands
    \/ (\E event \in {"none", "ends", "loops", "turns"} : Play(event)) \/ RefreshSnapshot
C352Next == C352Cpu \/ C352Audio
C352Spec == C352Init /\ [][C352Next]_c352vars

-----------------------------------------------------------------------------
(* Once the ring is empty the chip holds the data accepted last, those bits of *)
(* the flags the chip does not change by itself: a full ring refuses a command *)
(* but never loses one it has taken, nor their order.                         *)
ChipFollows ==
    (c352read = c352write /\ c352audio = "wait") => c352chip.low = c352accepted

=============================================================================
