------------------------------ MODULE Model2Board ------------------------------
(* The scheduler of the Model 2 board: the i960 and the TGP take turns, a       *)
(* fraction of a scanline each, and talk over two FIFOs.  Each finishes the    *)
(* instruction in which a FIFO filled, stops there, and waits until the other  *)
(* has made room; a reader of an empty FIFO tries again in its next turn.  The *)
(* board's devices are clocked by the slices, not by the cycles executed; one  *)
(* of them is the serial port to the sound board.                             *)
EXTENDS Integers

CONSTANTS
    MbSlices,   \* cycles of a slice: those of a quarter of a line, rounded up or down
    MbCosts,    \* cycles of an instruction of the i960
    MbBurst,    \* words a store may write: 4
    MbFifo,     \* tgp_fifo_capacity: 8
    MbTgpSteps, \* instructions of the TGP in a slice
    MbWords,    \* words of the TGP's program
    MbMaxFree   \* bound: cycles the stores at a full FIFO run over

ASSUME Model2BoardAssumption ==
    /\ MbSlices \subseteq Nat \ {0} /\ MbCosts \subseteq Nat \ {0}
    /\ {MbBurst, MbTgpSteps} \subseteq Nat \ {0} /\ {MbFifo, MbWords, MbMaxFree} \subseteq Nat

VARIABLES
    mbTurn,         \* "slice", "cpu", "devices" or "tgp"
    mbSlice,        \* cycles of this slice
    mbBudget,       \* cycles, or instructions of the TGP, left in the turn
    mbDebt,         \* i960_cycle_debt
    mbLead,         \* history: cycles the i960 is ahead of the board's clock
    mbFree,         \* history: those that stores at a full FIFO ran over, never reported
    mbIn, mbOut,    \* words in m_tgp_fifo_in and m_tgp_fifo_out
    mbUpload,       \* bit 31 of the first control register, and m_tgp_program_index
    mbBoot,         \* m_tgp_boot_request
    mbTgp           \* tgp_running

mbClock == << mbSlice, mbDebt, mbLead, mbFree >>
mbProgram == << mbUpload, mbBoot, mbTgp >>
mbvars == << mbTurn, mbBudget, mbClock, mbIn, mbOut, mbProgram >>

MbInit ==
    /\ mbTurn = "slice" /\ mbSlice = 0 /\ mbBudget = 0 /\ mbDebt = 0 /\ mbLead = 0 /\ mbFree = 0
    /\ mbIn = 0 /\ mbOut = 0
    /\ mbUpload = [on |-> FALSE, index |-> 0] /\ mbBoot = FALSE /\ mbTgp = FALSE

-----------------------------------------------------------------------------
(* A slice begins: a blocked i960 lets it pass, which also pays its debt.      *)
BlockedSlip == FALSE
Blocked == mbIn > MbFifo
Less(debt, c) == IF debt > c THEN debt - c ELSE 0
StartBoardSlice(c) ==
    /\ mbTurn = "slice" /\ mbSlice' = c
    /\ IF Blocked \/ mbDebt >= c
       THEN /\ mbDebt' = Less(mbDebt, c) /\ mbTurn' = "devices" /\ UNCHANGED mbBudget
            /\ mbLead' = (IF Blocked /\ mbLead - c < mbDebt' THEN mbDebt' ELSE mbLead - c)
       ELSE /\ mbBudget' = c - mbDebt /\ mbDebt' = 0 /\ mbTurn' = "cpu" /\ mbLead' = mbLead - c
    /\ UNCHANGED << mbIn, mbOut, mbProgram, mbFree >>

(* The i960 gives up the rest of its turn. *)
GiveUp == mbTurn' = "devices" /\ mbBudget' = 0 /\ mbLead' = mbLead + mbBudget
Spend(cost) ==
    /\ mbBudget' = mbBudget - cost /\ mbLead' = mbLead + cost
    /\ mbTurn' = (IF cost < mbBudget THEN "cpu" ELSE "devices")
OverrunSlip(budget) == 0
Overrun(budget) == IF budget < 0 THEN -budget ELSE 0
Spent == mbDebt' = Overrun(mbBudget') /\ UNCHANGED mbFree
(* i960_yield: the core sets the count of its cycles to zero after the store,   *)
(* so it reports the turn as used to the cycle, whether some of it was left or *)
(* the store ran over its end.                                                *)
Yield(cost) ==
    /\ mbTurn' = "devices" /\ mbBudget' = 0 /\ mbDebt' = 0
    /\ mbFree' = mbFree + Less(cost, mbBudget) /\ mbFree' <= MbMaxFree
    /\ mbLead' = mbLead + mbBudget + Less(cost, mbBudget)

CpuComputes(cost) ==
    /\ mbTurn = "cpu" /\ Spend(cost) /\ Spent
    /\ UNCHANGED << mbSlice, mbIn, mbOut, mbProgram >>
CpuStores(words, cost) ==
    /\ mbTurn = "cpu" /\ ~mbUpload.on /\ mbIn' = mbIn + words
    /\ IF mbIn' > MbFifo THEN Yield(cost) ELSE Spend(cost) /\ Spent
    /\ UNCHANGED << mbSlice, mbOut, mbProgram >>
CpuReads(cost) ==
    /\ mbTurn = "cpu"
    /\ IF mbOut = 0 THEN GiveUp /\ UNCHANGED mbOut ELSE Spend(cost) /\ mbOut' = mbOut - 1
    /\ Spent /\ UNCHANGED << mbSlice, mbIn, mbProgram >>

(* The program of the TGP: the rising bit starts an upload, the falling one    *)
(* asks for a boot.                                                           *)
CpuWritesControl(on, cost) ==
    /\ mbTurn = "cpu" /\ on # mbUpload.on /\ Spend(cost) /\ Spent
    /\ mbUpload' = [on |-> on, index |-> IF on THEN 0 ELSE mbUpload.index] /\ mbBoot' = (mbBoot \/ ~on)
    /\ UNCHANGED << mbSlice, mbIn, mbOut, mbTgp >>
CpuUploads(cost) ==
    /\ mbTurn = "cpu" /\ mbUpload.on /\ mbUpload.index < MbWords /\ Spend(cost) /\ Spent
    /\ mbUpload' = [mbUpload EXCEPT !.index = @ + 1]
    /\ UNCHANGED << mbSlice, mbIn, mbOut, mbBoot, mbTgp >>

-----------------------------------------------------------------------------
(* The devices have had their cycles; the TGP boots if asked, and runs unless  *)
(* its answers wait.                                                          *)
StartTgp ==
    /\ mbTurn = "devices" /\ mbTgp' = (mbTgp \/ mbBoot) /\ mbBoot' = FALSE
    /\ IF mbTgp' /\ mbOut <= MbFifo THEN mbTurn' = "tgp" /\ mbBudget' = MbTgpSteps
       ELSE mbTurn' = "slice" /\ mbBudget' = 0
    /\ UNCHANGED << mbClock, mbIn, mbOut, mbUpload >>

NextStep(stops) ==
    IF stops \/ mbBudget = 1 THEN mbTurn' = "slice" /\ mbBudget' = 0
    ELSE mbBudget' = mbBudget - 1 /\ UNCHANGED mbTurn
TgpComputes ==
    /\ mbTurn = "tgp" /\ NextStep(FALSE) /\ UNCHANGED << mbClock, mbIn, mbOut, mbProgram >>
TgpReads ==
    /\ mbTurn = "tgp" /\ NextStep(mbIn = 0) /\ mbIn' = (IF mbIn = 0 THEN 0 ELSE mbIn - 1)
    /\ UNCHANGED << mbClock, mbOut, mbProgram >>
TgpWrites ==
    /\ mbTurn = "tgp" /\ mbOut' = mbOut + 1 /\ NextStep(mbOut' > MbFifo)
    /\ UNCHANGED << mbClock, mbIn, mbProgram >>

MbNext ==
    \/ \E c \in MbSlices : StartBoardSlice(c)
    \/ \E cost \in MbCosts :
        \/ CpuComputes(cost) \/ CpuReads(cost) \/ CpuUploads(cost)
        \/ \E words \in 1..MbBurst : CpuStores(words, cost)
        \/ \E on \in BOOLEAN : CpuWritesControl(on, cost)
    \/ StartTgp \/ TgpComputes \/ TgpReads \/ TgpWrites
MbSpec == MbInit /\ [][MbNext]_mbvars

-----------------------------------------------------------------------------
(* run_cycles: the i960 finishes the instruction in which its turn ends; the    *)
(* extra cycles are carried "into the next quantum instead of letting          *)
(* thousands of small scheduler slices overclock the CPU".  After any number   *)
(* of turns, waits and stores it is ahead by no more than it owes and what its *)
(* stores at a full FIFO ran over: of these the core reports nothing, and      *)
(* nobody carries them.                                                       *)
NotOverclocked == mbTurn # "cpu" => mbLead <= mbDebt + mbFree

(* A FIFO goes past its eight words by one instruction of its writer, never    *)
(* by more: a store of several words, or one word of the TGP.                 *)
FifosBounded == mbIn <= MbFifo + MbBurst /\ mbOut <= MbFifo + 1

-----------------------------------------------------------------------------
(* The serial port between the i960 of Model 2 and its sound board.  Out: a     *)
(* byte on the wire and one behind it, timed by the scheduler's slices.  In:   *)
(* the SCSP's replies, paced in samples by the audio thread, into a latch of   *)
(* one byte that the i960 reads on a thread of its own.                       *)

CONSTANTS
    MuChar,     \* cycles of a character: 8000
    MuSlices,   \* cycles of a scheduler's slice, one after the other
    MuFifo,     \* places of m_midi_out_fifo: 32
    MuBurst,    \* bound: characters sent without a pause
    MuReplies   \* bound: replies

ASSUME Model2UartAssumption ==
    /\ {MuChar, MuFifo} \subseteq Nat \ {0} /\ MuSlices \subseteq Nat \ {0} /\ {MuBurst, MuReplies} \subseteq Nat

VARIABLES
    muLeft,             \* m_uart_tx_empty_cycles of the character on the wire, 0: idle
    muHolding,          \* m_uart_tx_holding_full
    muReady, muEmpty,   \* TXRDY and TXEMPTY
    muRequest, muEnable,\* bit 10 of the interrupt request and of its enable
    muBusy,             \* history: cycles since the wire was last idle
    muDone,             \* history: characters in that time
    muOut,              \* replies in m_midi_out_fifo, and the next one out
    muLatch,            \* m_uart_rx_pending and m_uart_rx_data
    muReading,          \* where the i960 is in reading the latch
    muRead              \* replies read, and the one read last

muTx == << muLeft, muHolding, muReady, muEmpty, muBusy, muDone >>
muIrq == << muRequest, muEnable >>
muRx == << muOut, muLatch, muReading, muRead >>
muvars == << muTx, muIrq, muRx >>

MuInit ==
    /\ muLeft = 0 /\ muHolding = FALSE /\ muReady = TRUE /\ muEmpty = TRUE /\ muBusy = 0 /\ muDone = 0
    /\ muRequest = FALSE /\ muEnable = FALSE
    /\ muOut = [held |-> 0, next |-> 1] /\ muLatch = [pending |-> FALSE, data |-> 0]
    /\ muReading = "idle" /\ muRead = [count |-> 0, last |-> 0]

-----------------------------------------------------------------------------
(* The i960.  Its program writes a byte only while TXRDY is up. *)

WriteData ==
    /\ muReading = "idle" /\ muReady /\ muDone < MuBurst
    /\ muEmpty' = FALSE
    /\ IF muLeft = 0
       THEN /\ muLeft' = MuChar /\ muBusy' = 0 /\ muDone' = 0 /\ muRequest' = muEnable
            /\ UNCHANGED << muHolding, muReady >>
       ELSE /\ muHolding' = TRUE /\ muReady' = FALSE /\ muRequest' = FALSE
            /\ UNCHANGED << muLeft, muBusy, muDone >>
    /\ UNCHANGED << muEnable, muRx >>
WriteIrqEnable(on) ==
    /\ muReading = "idle" /\ muEnable' = on /\ muRequest' = (muRequest \/ (on /\ muReady))
    /\ UNCHANGED << muTx, muRx >>
AcknowledgeIrq ==
    /\ muReading = "idle" /\ muRequest /\ muRequest' = FALSE /\ UNCHANGED << muTx, muEnable, muRx >>

(* tick, after a slice of c cycles.  What a character leaves of the slice is   *)
(* the next one's.                                                            *)
SurplusSlip(left) == 0
Surplus(left) == left
(* The end of a character puts the byte behind it on the wire; there are no    *)
(* more than the two, so a third end in one slice is not to be had.           *)
Ends(wire, c) == wire.left > 0 /\ c >= wire.left
NextOnWire(wire) ==
    [left |-> IF wire.holding THEN MuChar ELSE 0, holding |-> FALSE,
     out |-> wire.out + 1, refilled |-> wire.refilled \/ wire.holding]
Shortened(wire, c) == [wire EXCEPT !.left = IF @ = 0 THEN 0 ELSE @ - c]
Shifted(wire, c) ==
    LET next == NextOnWire(wire)
        surplus == Surplus(c - wire.left)
    IN IF ~Ends(wire, c) THEN Shortened(wire, c)
       ELSE IF ~Ends(next, surplus) THEN Shortened(next, surplus)
       ELSE NextOnWire(next)
TickUart(c) ==
    LET wire == Shifted([left |-> muLeft, holding |-> muHolding, out |-> 0, refilled |-> FALSE], c)
    IN /\ muReading = "idle"
       /\ muLeft' = wire.left /\ muHolding' = wire.holding
       /\ muReady' = (muReady \/ wire.refilled) /\ muEmpty' = (muEmpty \/ wire.left = 0)
       /\ IF wire.left = 0 THEN muBusy' = 0 /\ muDone' = 0
          ELSE muBusy' = muBusy + c /\ muDone' = muDone + wire.out
       /\ muRequest' = (muRequest \/ (muEnable /\ (muLatch.pending \/ wire.refilled)))
       /\ UNCHANGED << muEnable, muRx >>

(* Reading the data register: the flag, the flag again, the byte. *)
SeePending ==
    /\ muReading = "idle" /\ muLatch.pending /\ muReading' = "seen"
    /\ UNCHANGED << muTx, muIrq, muOut, muLatch, muRead >>
ClearPending ==
    /\ muReading = "seen" /\ muReading' = "cleared" /\ muLatch' = [muLatch EXCEPT !.pending = FALSE]
    /\ UNCHANGED << muTx, muIrq, muOut, muRead >>
ReadByte ==
    /\ muReading = "cleared" /\ muReading' = "idle"
    /\ muRead' = [count |-> muRead.count + 1, last |-> muLatch.data]
    /\ UNCHANGED << muTx, muIrq, muOut, muLatch >>

-----------------------------------------------------------------------------
(* The audio thread renders a sixtieth of a second at a time: two replies are  *)
(* apart in samples, whatever the i960 has done in between.                   *)

QueueMidiOut ==
    /\ muOut.next + muOut.held <= MuReplies /\ muOut.held < MuFifo
    /\ muOut' = [muOut EXCEPT !.held = @ + 1] /\ UNCHANGED << muTx, muIrq, muLatch, muReading, muRead >>
TickMidiOut ==
    /\ muOut.held > 0 /\ muOut' = [held |-> muOut.held - 1, next |-> muOut.next + 1]
    /\ muLatch' = [pending |-> TRUE, data |-> muOut.next]
    /\ UNCHANGED << muTx, muIrq, muReading, muRead >>

MuNext ==
    \/ WriteData \/ AcknowledgeIrq \/ SeePending \/ ClearPending \/ ReadByte
    \/ \E on \in BOOLEAN : WriteIrqEnable(on)
    \/ \E c \in MuSlices : TickUart(c)
    \/ QueueMidiOut \/ TickMidiOut
MuSpec == MuInit /\ [][MuNext]_muvars

-----------------------------------------------------------------------------
(* tick: "Preserve surplus cycles across character boundaries".  While the     *)
(* wire is busy its characters take MuChar cycles each, whatever the slices   *)
(* are and wherever in them the bytes were written.                           *)
WireKeepsTime == muLeft > 0 => muBusy + muLeft = (muDone + 1) * MuChar
=============================================================================
