---------------------------- MODULE Model1IoBoard ----------------------------
(* The I/O boards of Model 1: two of their chips, and the settings file.       *)
(* The serial EEPROM on the I/O boards of Model 1, as their firmware drives it *)
(* through an output port of the 315-5338A: select, clock and data lines, one  *)
(* bit at every rising clock.  The lines may take any values, one after the    *)
(* other: a port that is made an input holds them back, no more.              *)
EXTENDS Integers, FiniteSets, Sequences

CONSTANTS
    AddressBits,    \* 6
    DataBits,       \* 16
    M1eMaxEdges     \* bound: rising edges of the clock, the chip being selected

ASSUME Model1EepromAssumption ==
    AddressBits \in Nat \ {0, 1} /\ DataBits \in Nat \ {0} /\ M1eMaxEdges \in Nat

VARIABLES
    m1eLines,       \* eeprom_cs, eeprom_clock, eeprom_di
    m1eData,        \* eeprom_do
    m1eWords,       \* eeprom: operator_eeprom, by word
    m1eEnabled,     \* eeprom_write_enabled
    m1eCommand,     \* eeprom_command, eeprom_command_bits: the bits so far
    m1eReading, m1eReadBits,    \* eeprom_read_shift, eeprom_read_bits
    m1eWriting, m1eWriteBits, m1eAddress, \* eeprom_write_shift, _bits and _address
    m1eBits,        \* the last bits clocked in since the chip was selected
    m1eEdges        \* edges so far

m1eShift == << m1eData, m1eWords, m1eEnabled, m1eCommand, m1eReading, m1eReadBits, m1eWriting,
               m1eWriteBits, m1eAddress, m1eBits >>
m1evars == << m1eLines, m1eShift, m1eEdges >>

Bit == {0, 1}
Lines == [cs : BOOLEAN, clock : BOOLEAN, di : Bit]
PinsLow == [cs |-> FALSE, clock |-> FALSE, di |-> 0]
Addresses == [1..AddressBits -> Bit]
Ones == [b \in 1..DataBits |-> 1]
LastBits(bits, n) == SubSeq(bits, IF n < Len(bits) THEN Len(bits) - n + 1 ELSE 1, Len(bits))

M1eInit ==
    /\ m1eLines = PinsLow /\ m1eData = 1
    /\ m1eWords = [a \in Addresses |-> Ones] /\ m1eEnabled = FALSE /\ m1eCommand = << >>
    /\ m1eReading = Ones /\ m1eReadBits = 0 /\ m1eWriting = << >> /\ m1eWriteBits = 0
    /\ m1eAddress = [b \in 1..AddressBits |-> 0] /\ m1eBits = << >> /\ m1eEdges = 0

-----------------------------------------------------------------------------
(* eeprom_rising_edge: a bit of the word read, of the word written, or of the  *)
(* command, which is a start bit, two bits of opcode and the address.         *)

ReadBit ==
    /\ m1eReadBits > 0 /\ m1eReadBits' = m1eReadBits - 1 /\ m1eData' = Head(m1eReading)
    /\ m1eReading' = Append(Tail(m1eReading), 0)
    /\ UNCHANGED << m1eWords, m1eEnabled, m1eCommand, m1eWriting, m1eWriteBits, m1eAddress >>
WriteBit(di) ==
    /\ m1eReadBits = 0 /\ m1eWriteBits > 0 /\ m1eWriteBits' = m1eWriteBits - 1
    /\ m1eWriting' = Append(m1eWriting, di)
    /\ m1eWords' = IF m1eWriteBits = 1 /\ m1eEnabled THEN [m1eWords EXCEPT ![m1eAddress] = m1eWriting']
                   ELSE m1eWords
    /\ UNCHANGED << m1eData, m1eEnabled, m1eCommand, m1eReading, m1eReadBits, m1eAddress >>

Obey(opcode, address) ==
    /\ IF opcode = << 1, 0 >>
       THEN m1eReading' = m1eWords[address] /\ m1eReadBits' = DataBits /\ m1eData' = Head(m1eWords[address])
       ELSE UNCHANGED << m1eReading, m1eReadBits, m1eData >>
    /\ IF opcode = << 0, 1 >>
       THEN m1eAddress' = address /\ m1eWriting' = << >> /\ m1eWriteBits' = DataBits
       ELSE UNCHANGED << m1eAddress, m1eWriting, m1eWriteBits >>
    /\ m1eWords' = IF opcode = << 1, 1 >> /\ m1eEnabled THEN [m1eWords EXCEPT ![address] = Ones] ELSE m1eWords
    /\ m1eEnabled' = IF opcode = << 0, 0 >> /\ address[1] = address[2] THEN address[1] = 1 ELSE m1eEnabled
CommandBit(di) ==
    /\ m1eReadBits = 0 /\ m1eWriteBits = 0
    /\ IF m1eCommand = << >> /\ di = 0 THEN UNCHANGED << m1eCommand, m1eWords, m1eEnabled, m1eReading,
                                            m1eReadBits, m1eData, m1eAddress, m1eWriting, m1eWriteBits >>
       ELSE IF Len(m1eCommand) < 2 + AddressBits
       THEN /\ m1eCommand' = Append(m1eCommand, di)
            /\ UNCHANGED << m1eWords, m1eEnabled, m1eReading, m1eReadBits, m1eData, m1eAddress, m1eWriting,
                            m1eWriteBits >>
       ELSE /\ m1eCommand' = << >>
            /\ Obey(SubSeq(m1eCommand, 2, 3), Append(SubSeq(m1eCommand, 4, 2 + AddressBits), di))
RisingEdge(di) == ReadBit \/ WriteBit(di) \/ CommandBit(di)

(* Without select the bits under way are forgotten.                           *)
WriteBitsLeftSlip == m1eWriteBits
WriteBitsLeft == 0
Deselect ==
    /\ m1eCommand' = << >> /\ m1eReadBits' = 0 /\ m1eWriteBits' = WriteBitsLeft /\ m1eData' = 1
    /\ m1eBits' = << >>
    /\ UNCHANGED << m1eWords, m1eEnabled, m1eReading, m1eWriting, m1eAddress >>
SetEepromLines(lines) ==
    /\ lines # m1eLines /\ m1eLines' = lines
    /\ CASE ~lines.cs -> Deselect /\ UNCHANGED m1eEdges
         [] lines.cs /\ ~m1eLines.clock /\ lines.clock ->
                /\ m1eEdges < M1eMaxEdges /\ m1eEdges' = m1eEdges + 1 /\ RisingEdge(lines.di)
                /\ m1eBits' = LastBits(Append(m1eBits, lines.di), 3 + AddressBits + DataBits)
         [] OTHER -> UNCHANGED << m1eShift, m1eEdges >>

M1eNext == \E lines \in Lines : SetEepromLines(lines)
M1eSpec == M1eInit /\ [][M1eNext]_m1evars

-----------------------------------------------------------------------------
(* The settings of a cabinet change only as one selection of the chip says:    *)
(* the bits just clocked in spell a write or an erasure of that word, while    *)
(* writing is enabled, and it is enabled only by its command.  A transfer cut  *)
(* short, or resumed after the chip was released, changes nothing.            *)
CommandJust(bits, opcode, address) ==
    Len(bits) >= 3 + AddressBits /\ LastBits(bits, 3 + AddressBits) = << 1 >> \o opcode \o address
Clocked ==
    /\ \A a \in Addresses : m1eWords'[a] # m1eWords[a] =>
           /\ m1eEnabled
           /\ \/ CommandJust(m1eBits', << 1, 1 >>, a) /\ m1eWords'[a] = Ones
              \/ /\ Len(m1eBits') > DataBits /\ m1eWords'[a] = LastBits(m1eBits', DataBits)
                 /\ CommandJust(SubSeq(m1eBits', 1, Len(m1eBits') - DataBits), << 0, 1 >>, a)
    /\ (~m1eEnabled /\ m1eEnabled') =>
           \E a \in Addresses : a[1] = 1 /\ a[2] = 1 /\ CommandJust(m1eBits', << 0, 0 >>, a)
\* Of every step of the chip.
OnlyAsClocked == [][Clocked]_m1evars

-----------------------------------------------------------------------------
(* The counter-timer of Virtua Cop's I/O board.  It is clocked at every cycle  *)
(* of the Z80, so a channel keeps the time at which it is due, and the chip    *)
(* the earliest of them: a tick before that looks at nothing else.            *)

CONSTANTS
    CtcChannels,    \* 0..3
    CtcConstants,   \* time constants a program writes
    CtcPrescales,   \* clocks of a prescaled count: 16 and 256
    CtcMaxTime      \* bound: clocks

ASSUME CtcAssumption == CtcChannels \subseteq Nat /\ CtcConstants \cup CtcPrescales \subseteq Nat \ {0} /\ CtcMaxTime \in Nat

VARIABLES
    ctcNow,         \* now
    ctcRunning, ctcDeadline, ctcCounter,    \* of each channel
    ctcConstant, ctcPrescale, ctcEnable, ctcFollows, ctcIntPending,
    ctcNextDeadline,    \* next_deadline
    ctcPendingMask,     \* pending_mask
    ctcInService        \* in_service, -1 for none

ctcRegisters == << ctcRunning, ctcDeadline, ctcCounter, ctcConstant, ctcPrescale, ctcEnable, ctcFollows >>
ctcInterrupts == << ctcIntPending, ctcPendingMask, ctcInService >>
ctcvars == << ctcNow, ctcRegisters, ctcNextDeadline, ctcInterrupts >>

Never == 3 * CtcMaxTime         \* later than any deadline of the instance
All(value) == [c \in CtcChannels |-> value]
CtcInit ==
    /\ ctcNow = 0 /\ ctcRunning = All(FALSE) /\ ctcDeadline = All(0) /\ ctcCounter = All(0)
    /\ ctcConstant = All(1) /\ ctcPrescale = All(1) /\ ctcEnable = All(FALSE) /\ ctcFollows = All(FALSE)
    /\ ctcNextDeadline = Never
    /\ ctcIntPending = All(FALSE) /\ ctcPendingMask = {} /\ ctcInService = -1

Remaining(channel) == IF ctcRunning[channel] THEN ctcDeadline[channel] - ctcNow ELSE ctcCounter[channel]

(* refresh_next_deadline, with the registers as they have become.             *)
RefreshedSlip(running, deadline) == ctcNextDeadline
Refreshed(running, deadline) ==
    LET due == { deadline[c] : c \in { d \in CtcChannels : running[d] } }
    IN IF due = {} THEN Never ELSE CHOOSE t \in due : \A u \in due : t <= u

(* A write is the time constant announced by the control word before it, a    *)
(* control word, or the vector.                                              *)
WriteConstant(channel, constant) ==
    /\ ctcFollows[channel] /\ ctcFollows' = [ctcFollows EXCEPT ![channel] = FALSE]
    /\ ctcConstant' = [ctcConstant EXCEPT ![channel] = constant]
    /\ ctcDeadline' = [ctcDeadline EXCEPT ![channel] = ctcNow + constant * ctcPrescale[channel]]
    /\ ctcRunning' = [ctcRunning EXCEPT ![channel] = TRUE]
    /\ ctcNextDeadline' = Refreshed(ctcRunning', ctcDeadline')
    /\ UNCHANGED << ctcNow, ctcCounter, ctcPrescale, ctcEnable, ctcInterrupts >>
WriteChannelControl(channel, enable, prescale, follows, resets) ==
    /\ ~ctcFollows[channel]
    /\ ctcEnable' = [ctcEnable EXCEPT ![channel] = enable]
    /\ ctcPrescale' = [ctcPrescale EXCEPT ![channel] = prescale]
    /\ ctcFollows' = [ctcFollows EXCEPT ![channel] = follows]
    /\ IF resets
       THEN /\ ctcCounter' = [ctcCounter EXCEPT ![channel] = Remaining(channel)]
            /\ ctcRunning' = [ctcRunning EXCEPT ![channel] = FALSE]
            /\ ctcIntPending' = [ctcIntPending EXCEPT ![channel] = FALSE]
            /\ ctcPendingMask' = ctcPendingMask \ {channel}
            /\ ctcNextDeadline' = Refreshed(ctcRunning', ctcDeadline)
       ELSE UNCHANGED << ctcCounter, ctcRunning, ctcIntPending, ctcPendingMask, ctcNextDeadline >>
    /\ UNCHANGED << ctcNow, ctcDeadline, ctcConstant, ctcInService >>

TickCtc ==
    /\ ctcNow < CtcMaxTime /\ ctcNow' = ctcNow + 1
    /\ IF ctcNow' < ctcNextDeadline
       THEN UNCHANGED << ctcDeadline, ctcNextDeadline, ctcIntPending, ctcPendingMask >>
       ELSE LET due == { c \in CtcChannels : ctcRunning[c] /\ ctcDeadline[c] <= ctcNow' }
                late == due \cap { c \in CtcChannels : ctcEnable[c] }
                Step(c) == ctcConstant[c] * ctcPrescale[c]
                After(c) == ctcDeadline[c] + ((ctcNow' - ctcDeadline[c]) \div Step(c) + 1) * Step(c)
            IN /\ ctcDeadline' = [c \in CtcChannels |-> IF c \in due THEN After(c) ELSE ctcDeadline[c]]
               /\ ctcIntPending' = [c \in CtcChannels |-> ctcIntPending[c] \/ c \in late]
               /\ ctcPendingMask' = ctcPendingMask \cup late
               /\ ctcNextDeadline' = Refreshed(ctcRunning, ctcDeadline')
    /\ UNCHANGED << ctcRunning, ctcCounter, ctcConstant, ctcPrescale, ctcEnable, ctcFollows, ctcInService >>

(* The Z80 takes the interrupt while none is in service, and later returns.   *)
AcknowledgeCtc ==
    /\ ctcInService = -1 /\ ctcPendingMask # {}
    /\ LET asking == { c \in CtcChannels : ctcIntPending[c] }
       IN IF asking = {} THEN UNCHANGED ctcInterrupts
          ELSE LET first == CHOOSE c \in asking : \A d \in asking : c <= d
               IN /\ ctcIntPending' = [ctcIntPending EXCEPT ![first] = FALSE]
                  /\ ctcPendingMask' = ctcPendingMask \ {first} /\ ctcInService' = first
    /\ UNCHANGED << ctcNow, ctcRegisters, ctcNextDeadline >>
ReturnFromInterrupt ==
    /\ ctcInService # -1 /\ ctcInService' = -1
    /\ UNCHANGED << ctcNow, ctcRegisters, ctcNextDeadline, ctcIntPending, ctcPendingMask >>

CtcNext ==
    \/ \E channel \in CtcChannels, constant \in CtcConstants : WriteConstant(channel, constant)
    \/ \E channel \in CtcChannels, enable, follows, resets \in BOOLEAN, prescale \in CtcPrescales :
           WriteChannelControl(channel, enable, prescale, follows, resets)
    \/ TickCtc \/ AcknowledgeCtc \/ ReturnFromInterrupt
CtcSpec == CtcInit /\ [][CtcNext]_ctcvars

-----------------------------------------------------------------------------
(* What is kept so that a tick need not walk the channels says what walking    *)
(* them would: no running channel is overdue, however its registers have been  *)
(* rewritten, and the chip asks for an interrupt exactly when a channel does.  *)
NoneOverdue ==
    /\ \A c \in CtcChannels : ctcRunning[c] => ctcDeadline[c] > ctcNow
    /\ ctcPendingMask = { c \in CtcChannels : ctcIntPending[c] }

-----------------------------------------------------------------------------
(* The operator EEPROM of a Model 1 cabinet: the image in memory, which the    *)
(* V60 changes through the dual-port RAM, the I/O board's firmware by itself,  *)
(* and the operator menu; and the file it is kept in.                         *)
CONSTANTS
    M1nValues,      \* settings; a record is one of them with the checksum of one
    M1nMaxChanges   \* bound: changes and starts

ASSUME Model1NvramAssumption ==
    M1nValues # {} /\ {"none", "torn"} \cap M1nValues = {} /\ M1nMaxChanges \in Nat

VARIABLES
    m1nBoard,       \* the set has a program for the I/O board: m_io_board runs it
    m1nOn,          \* the machine exists
    m1nImage,       \* m_operator_nvram
    m1nDirty,       \* m_operator_nvram_dirty
    m1nFile,        \* what the file holds, NoFile or Torn
    m1nMailbox,     \* the status byte of the command mailbox
    m1nSaved,       \* the image came from the file or was saved when it was loaded
    m1nChanges

m1nvars == << m1nBoard, m1nOn, m1nImage, m1nDirty, m1nFile, m1nMailbox, m1nSaved, m1nChanges >>

NoFile == [body |-> "none", sum |-> "none"]
Torn == [body |-> "torn", sum |-> "torn"]      \* a part of an image
Sealed(value) == [body |-> value, sum |-> value]
M1nInit ==
    /\ m1nBoard \in BOOLEAN /\ m1nOn = FALSE /\ m1nDirty = FALSE /\ m1nMailbox = "idle"
    /\ m1nSaved = FALSE /\ m1nChanges = 0
    /\ m1nImage = NoFile /\ m1nFile \in {NoFile} \cup { Sealed(v) : v \in M1nValues }

OneMore == m1nChanges < M1nMaxChanges /\ m1nChanges' = m1nChanges + 1

(* save_operator_nvram: beside the file, then over it.  It may fail, and if    *)
(* the file could not be replaced it has been removed before the second try.  *)
(* The stream is asked before it is closed: a disc that refuses the bytes when *)
(* they are flushed leaves a part of them in the file, and nobody hears of it. *)
Save(image, works) ==
    IF works THEN m1nFile' \in {image, Torn} ELSE m1nFile' \in {m1nFile, NoFile}

(* load_operator_nvram: a file that cannot be read, or is too short, gives the *)
(* factory settings, and is written anew at once.                             *)
InitializeMachine(default, readable, works) ==
    /\ ~m1nOn /\ OneMore /\ m1nOn' = TRUE /\ m1nDirty' = FALSE /\ m1nMailbox' = "idle"
    /\ IF readable /\ m1nFile \notin {NoFile, Torn}
       THEN m1nImage' = m1nFile /\ m1nSaved' = TRUE /\ UNCHANGED m1nFile
       ELSE m1nImage' = Sealed(default) /\ Save(m1nImage', works) /\ m1nSaved' = works
    /\ UNCHANGED m1nBoard

(* The program writes a record byte by byte into the dual-port RAM.           *)
WriteBody(value) ==
    /\ m1nOn /\ OneMore /\ m1nImage' = [m1nImage EXCEPT !.body = value] /\ m1nDirty' = TRUE
    /\ UNCHANGED << m1nBoard, m1nOn, m1nFile, m1nMailbox, m1nSaved >>
WriteSum(value) ==
    /\ m1nOn /\ OneMore /\ m1nImage' = [m1nImage EXCEPT !.sum = value] /\ m1nDirty' = TRUE
    /\ UNCHANGED << m1nBoard, m1nOn, m1nFile, m1nMailbox, m1nSaved >>

(* Without the board's program the mailbox is answered at once; command 2     *)
(* saves the image.                                                           *)
StillDirtySlip(works) == FALSE
StillDirty(works) == m1nDirty /\ ~works
EepromCommand(code, works) ==
    /\ m1nOn /\ ~m1nBoard /\ m1nMailbox' = "done"
    /\ IF code = 2 THEN Save(m1nImage, works) /\ m1nDirty' = StillDirty(works)
       ELSE UNCHANGED << m1nFile, m1nDirty >>
    /\ m1nSaved' = (m1nSaved \/ (code = 2 /\ works))
    /\ UNCHANGED << m1nBoard, m1nOn, m1nImage, m1nChanges >>
ClearCommand ==
    /\ m1nOn /\ ~m1nBoard /\ m1nMailbox = "done" /\ m1nMailbox' = "idle"
    /\ UNCHANGED << m1nBoard, m1nOn, m1nImage, m1nDirty, m1nFile, m1nSaved, m1nChanges >>

(* The board's firmware writes a word of the EEPROM itself.                   *)
FirmwareWrite(value) ==
    /\ m1nOn /\ m1nBoard /\ OneMore
    /\ \/ m1nImage' = [m1nImage EXCEPT !.body = value]
       \/ m1nImage' = [m1nImage EXCEPT !.sum = value]
    /\ UNCHANGED << m1nBoard, m1nOn, m1nDirty, m1nFile, m1nMailbox, m1nSaved >>

SetAttractSound(value, works) ==
    /\ m1nOn /\ OneMore /\ m1nImage' = Sealed(value) /\ Save(m1nImage', works)
    /\ m1nDirty' = ~works /\ m1nSaved' = (m1nSaved \/ works)
    /\ UNCHANGED << m1nBoard, m1nOn, m1nMailbox >>

EndOfFrame(works) ==
    /\ m1nOn /\ m1nDirty /\ Save(m1nImage, works) /\ m1nDirty' = ~works
    /\ m1nSaved' = (m1nSaved \/ works)
    /\ UNCHANGED << m1nBoard, m1nOn, m1nImage, m1nMailbox, m1nChanges >>

(* The destructor saves whatever there is; a killed program does not.         *)
EndMachine(saves) ==
    /\ m1nOn /\ m1nOn' = FALSE /\ Save(m1nImage, saves)
    /\ UNCHANGED << m1nBoard, m1nImage, m1nDirty, m1nMailbox, m1nSaved, m1nChanges >>

M1nNext ==
    \/ \E default \in M1nValues, readable, works \in BOOLEAN : InitializeMachine(default, readable, works)
    \/ \E value \in M1nValues : WriteBody(value) \/ WriteSum(value) \/ FirmwareWrite(value)
    \/ \E code \in {1, 2}, works \in BOOLEAN : EepromCommand(code, works)
    \/ ClearCommand
    \/ \E value \in M1nValues, works \in BOOLEAN : SetAttractSound(value, works)
    \/ \E works \in BOOLEAN : EndOfFrame(works)
    \/ \E saves \in BOOLEAN : EndMachine(saves)
M1nSpec == M1nInit /\ [][M1nNext]_m1nvars

-----------------------------------------------------------------------------
(* Without a program of the I/O board, what is not marked as unsaved is in the *)
(* file: failing saves, and saves on command in the middle of a frame, leave no *)
(* older settings there that no later frame writes.  The file may be gone, or  *)
(* be torn by a save that was taken for a good one: neither is loaded again.   *)
UnmarkedIsSaved ==
    (m1nOn /\ ~m1nBoard /\ ~m1nDirty /\ m1nSaved) => m1nFile \in {m1nImage, NoFile, Torn}
=============================================================================
