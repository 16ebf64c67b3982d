----------------------------- MODULE Model1Sound -----------------------------
(* The sound board of Model 1 on a thread of its own.  The V60 sends command   *)
(* bytes over a serial line: each goes into a ring with the V60's cycle count, *)
(* and the sound thread hands it to the 68000 when its own clock has reached   *)
(* that count.  The sound clock advances by one frame for every frame the      *)
(* session signals, and the session waits when the sound is too far behind.   *)
EXTENDS Integers, Sequences

CONSTANTS
    M1FrameCycles,  \* cycles of the V60 in a frame: 656 * 424
    M1Slices,       \* slices of a frame: 512
    M1Instruction,  \* cycles of an instruction: 8
    M1RingSize,     \* UART_CAPACITY: 1024
    M1RxSize,       \* UART_RX_CAPACITY: 64
    M1PendingLimit, \* 8
    M1MaxFrames, M1MaxBytes \* bounds

ASSUME Model1SoundAssumption ==
    /\ { M1FrameCycles, M1Slices, M1Instruction, M1RxSize, M1PendingLimit } \subseteq Nat \ {0}
    /\ M1RingSize \in Nat \ {0, 1} /\ { M1MaxFrames, M1MaxBytes } \subseteq Nat

VARIABLES
    m1frame, m1slice,   \* the session's frame, the V60's slice in it
    m1remaining,        \* remaining of run_frame
    m1cycles,           \* m_total_v60_cycles
    m1sent,             \* bytes the V60 has written that the ring took
    m1ring, m1ringWrite, m1ringRead,    \* m_uart_transport with m_uart_timestamp; its ends
    m1pending,          \* m_pending_frames
    m1paused,           \* m_paused; the session runs no frame then
    m1sound,            \* the sound thread: "wait", "run", "deliver", "execute", "last"
    m1slot, m1elapsed,  \* the frame it plays, and total of execute_sound_cpu
    m1base,             \* m_sound_frame_base
    m1cursor, m1end,    \* read and write of deliver_uart
    m1rx, m1rxWrite, m1rxRead, m1rxCount,   \* m_uart_rx
    m1overrun,          \* m_uart_overrun
    m1heard             \* bytes the 68000 has read, and the one read last

m1v60 == << m1frame, m1slice, m1remaining, m1cycles >>
m1line == << m1sent, m1ring, m1ringWrite >>
m1fifo == << m1rx, m1rxWrite, m1rxRead, m1rxCount, m1overrun >>
m1thread == << m1sound, m1slot, m1elapsed, m1base, m1cursor, m1end >>
m1vars == << m1v60, m1line, m1ringRead, m1pending, m1paused, m1thread, m1fifo, m1heard >>

NoByte == [number |-> 0, frame |-> 0, at |-> 0]
M1SoundInit ==
    /\ m1frame = 0 /\ m1slice = 0 /\ m1remaining = M1FrameCycles /\ m1cycles = 0
    /\ m1sent = 0 /\ m1ring = [s \in 0..(M1RingSize - 1) |-> NoByte] /\ m1ringWrite = 0 /\ m1ringRead = 0
    /\ m1pending = 0 /\ m1paused = FALSE
    /\ m1sound = "wait" /\ m1slot = -1 /\ m1elapsed = 0 /\ m1base = 0 /\ m1cursor = 0 /\ m1end = 0
    /\ m1rx = [s \in 0..(M1RxSize - 1) |-> 0] /\ m1rxWrite = 0 /\ m1rxRead = 0 /\ m1rxCount = 0
    /\ m1overrun = FALSE /\ m1heard = [count |-> 0, last |-> 0]

-----------------------------------------------------------------------------
(* The session's thread: run_frame in slices, then signal_frame. *)

(* A byte carries the count of the slice's beginning; a full ring loses it.   *)
EnqueueUart ==
    /\ m1sent < M1MaxBytes
    /\ LET next == (m1ringWrite + 1) % M1RingSize
       IN IF next = m1ringRead THEN UNCHANGED m1line
          ELSE /\ m1sent' = m1sent + 1
               /\ m1ring' = [m1ring EXCEPT ![m1ringWrite] =
                                 [number |-> m1sent + 1, frame |-> m1frame, at |-> m1cycles]]
               /\ m1ringWrite' = next

(* The V60 runs whole instructions, so it may run past the end of its slice;  *)
(* only what the slice should have been is subtracted.                        *)
Executed(chunk) == ((chunk + M1Instruction - 1) \div M1Instruction) * M1Instruction
RunSlice(sends) ==
    /\ ~m1paused /\ m1frame < M1MaxFrames /\ m1slice < M1Slices
    /\ LET chunk == m1remaining \div (M1Slices - m1slice)
       IN m1cycles' = m1cycles + Executed(chunk) /\ m1remaining' = m1remaining - chunk
    /\ m1slice' = m1slice + 1
    /\ IF sends THEN EnqueueUart ELSE UNCHANGED m1line
    /\ UNCHANGED << m1frame, m1ringRead, m1pending, m1paused, m1thread, m1fifo, m1heard >>

SignalFrame ==
    /\ m1slice = M1Slices /\ m1pending < M1PendingLimit
    /\ m1pending' = m1pending + 1
    /\ m1frame' = m1frame + 1 /\ m1slice' = 0 /\ m1remaining' = M1FrameCycles
    /\ UNCHANGED << m1cycles, m1line, m1ringRead, m1paused, m1thread, m1fifo, m1heard >>

PauseMachine ==
    /\ m1slice = 0 /\ m1paused' = ~m1paused
    /\ UNCHANGED << m1v60, m1line, m1ringRead, m1pending, m1thread, m1fifo, m1heard >>

-----------------------------------------------------------------------------
(* The sound thread: one buffer a frame. *)

TakeFrame ==
    /\ m1sound = "wait" /\ m1pending > 0 /\ m1pending' = m1pending - 1
    /\ m1sound' = "run" /\ m1slot' = m1slot + 1 /\ m1elapsed' = 0
    /\ UNCHANGED << m1base, m1cursor, m1end, m1v60, m1line, m1ringRead, m1paused, m1fifo, m1heard >>

(* deliver_uart: what the ring held when it began, up to the given time and   *)
(* as far as there is room.  The slots are given back at the end.             *)
BeginDelivery(step) ==
    /\ m1cursor' = m1ringRead /\ m1end' = m1ringWrite /\ m1sound' = step
    /\ UNCHANGED << m1v60, m1line, m1ringRead, m1pending, m1paused, m1slot, m1fifo, m1heard >>
RoomSlip == TRUE
Room == m1rxCount < M1RxSize
Deliverable(time) == m1cursor # m1end /\ Room /\ m1ring[m1cursor].at <= time
TakeByte(time) ==
    /\ Deliverable(time)
    /\ m1rx' = [m1rx EXCEPT ![m1rxWrite] = m1ring[m1cursor].number]
    /\ m1rxWrite' = (m1rxWrite + 1) % M1RxSize /\ m1rxCount' = m1rxCount + 1
    /\ m1cursor' = (m1cursor + 1) % M1RingSize
    /\ UNCHANGED << m1v60, m1line, m1ringRead, m1pending, m1paused, m1sound, m1slot, m1elapsed, m1base,
                    m1end, m1rxRead, m1overrun, m1heard >>
EndDelivery(time, step) ==
    /\ ~Deliverable(time)
    /\ m1overrun' = (m1overrun \/ (m1cursor # m1end /\ m1rxCount = M1RxSize))
    /\ m1ringRead' = m1cursor /\ m1sound' = step
    /\ UNCHANGED << m1v60, m1line, m1pending, m1paused, m1slot, m1elapsed, m1base, m1cursor, m1end,
                    m1rx, m1rxWrite, m1rxRead, m1rxCount, m1heard >>

(* Paused, the clock passes over the frame and the 68000 does not run.        *)
PausedBuffer ==
    /\ m1sound = "run" /\ m1paused
    /\ m1base' = m1base + M1FrameCycles /\ m1elapsed' = 0 /\ BeginDelivery("last")
StartChunk ==
    /\ m1sound = "run" /\ ~m1paused /\ m1elapsed < M1FrameCycles
    /\ BeginDelivery("deliver") /\ UNCHANGED << m1elapsed, m1base >>
DeliverChunk ==
    /\ m1sound = "deliver"
    /\ TakeByte(m1base + m1elapsed) \/ EndDelivery(m1base + m1elapsed, "execute")
Execute ==
    /\ m1sound = "execute" /\ m1sound' = "run" /\ m1elapsed' = m1elapsed + M1Instruction
    /\ UNCHANGED << m1v60, m1line, m1ringRead, m1pending, m1paused, m1slot, m1base, m1cursor, m1end,
                    m1fifo, m1heard >>
EndBuffer ==
    /\ m1sound = "run" /\ ~m1paused /\ m1elapsed >= M1FrameCycles
    /\ m1base' = m1base + M1FrameCycles /\ BeginDelivery("last") /\ UNCHANGED m1elapsed
DeliverLast ==
    /\ m1sound = "last"
    /\ TakeByte(m1base) \/ EndDelivery(m1base, "wait")

(* The 68000 reads a byte, or the status, which clears the overrun.           *)
ReadUartData ==
    /\ m1sound = "execute" /\ m1rxCount > 0
    /\ m1heard' = [count |-> m1heard.count + 1, last |-> m1rx[m1rxRead]]
    /\ m1rxRead' = (m1rxRead + 1) % M1RxSize /\ m1rxCount' = m1rxCount - 1
    /\ UNCHANGED << m1v60, m1line, m1ringRead, m1pending, m1paused, m1thread, m1rx, m1rxWrite, m1overrun >>
ReadUartStatus ==
    /\ m1sound = "execute" /\ m1overrun /\ m1overrun' = FALSE
    /\ UNCHANGED << m1v60, m1line, m1ringRead, m1pending, m1paused, m1thread, m1rx, m1rxWrite, m1rxRead,
                    m1rxCount, m1heard >>

M1SoundNext ==
    \/ \E sends \in BOOLEAN : RunSlice(sends)
    \/ SignalFrame \/ PauseMachine \/ TakeFrame
    \/ PausedBuffer \/ StartChunk \/ DeliverChunk \/ Execute \/ EndBuffer \/ DeliverLast
    \/ ReadUartData \/ ReadUartStatus
M1SoundSpec == M1SoundInit /\ [][M1SoundNext]_m1vars

-----------------------------------------------------------------------------
(* The 68000 reads the bytes the ring took, each once and in order, whatever   *)
(* the two threads and the two queues, both of which fill, do in between.     *)
EveryByteOnce == m1heard.last = m1heard.count

-----------------------------------------------------------------------------
(* The digital sound board of Star Wars Arcade: its Z80 takes commands from a  *)
(* serial line and sets the ends of an MPEG segment, byte by byte, and of the  *)
(* segment to loop to; the renderer, on the same thread but later, comes to   *)
(* the end of a segment in the middle of what the Z80 is writing.             *)
CONSTANTS
    DsbAddresses,   \* addresses the programs write, as << high, low >>: 3 bytes
    DsbRomEnd,      \* mpeg_rom.size(), as an address
    DsbRxSize,      \* uart_capacity: 32
    DsbMaxCommands  \* bound: bytes received and triggers

ASSUME Model1DsbAssumption ==
    DsbAddresses # {} /\ DsbRomEnd \in Nat \X Nat /\ DsbRxSize \in Nat \ {0} /\ DsbMaxCommands \in Nat

VARIABLES
    dsbRx, dsbOverrun,      \* the serial receiver
    dsbStartLatch, dsbEndLatch,
    dsbPlay, dsbLoop,       \* play_start and play_end, loop_start and loop_end
    dsbState,               \* 0 stopped, 1 once, 2 looping
    dsbStream,              \* stream_start, stream_end
    dsbOpen,                \* decoder_open
    dsbWritten,             \* the addresses the Z80 has written to the end
    dsbCommands

dsbSerial == << dsbRx, dsbOverrun >>
dsbEnds == << dsbStartLatch, dsbEndLatch, dsbPlay, dsbLoop >>
dsbPlayer == << dsbState, dsbStream, dsbOpen >>
dsbvars == << dsbSerial, dsbEnds, dsbPlayer, dsbWritten, dsbCommands >>

Zero == << 0, 0 >>
Bytes == {0} \cup { a[1] : a \in DsbAddresses } \cup { a[2] : a \in DsbAddresses }
NoSegment == [start |-> Zero, end |-> Zero]
Below(a, b) == a[1] < b[1] \/ (a[1] = b[1] /\ a[2] < b[2])

DsbInit ==
    /\ dsbRx = 0 /\ dsbOverrun = FALSE /\ dsbStartLatch = Zero /\ dsbEndLatch = Zero
    /\ dsbPlay = NoSegment /\ dsbLoop = NoSegment /\ dsbState = 0 /\ dsbStream = NoSegment
    /\ dsbOpen = FALSE /\ dsbWritten = {Zero} /\ dsbCommands = 0

-----------------------------------------------------------------------------
(* The serial line; the Z80 is interrupted while there is a byte. *)
ReceiveUart ==
    /\ dsbCommands < DsbMaxCommands /\ dsbCommands' = dsbCommands + 1
    /\ IF dsbRx = DsbRxSize THEN dsbOverrun' = TRUE /\ UNCHANGED dsbRx
       ELSE dsbRx' = dsbRx + 1 /\ UNCHANGED dsbOverrun
    /\ UNCHANGED << dsbEnds, dsbPlayer, dsbWritten >>
ReadUart ==
    /\ dsbRx > 0 /\ dsbRx' = dsbRx - 1
    /\ UNCHANGED << dsbOverrun, dsbEnds, dsbPlayer, dsbWritten, dsbCommands >>
ResetError ==
    /\ dsbOverrun /\ dsbOverrun' = FALSE
    /\ UNCHANGED << dsbRx, dsbEnds, dsbPlayer, dsbWritten, dsbCommands >>

(* A byte of an address: only the last one takes the whole latch over, into   *)
(* the segment to play, or while one plays into the one to loop to.           *)
CompleteSlip(byte) == TRUE
Complete(byte) == byte = 2
Latched(latch, byte, value) == [latch EXCEPT ![byte] = value]
Noted(byte, latch) == IF byte = 2 THEN dsbWritten \cup {latch} ELSE dsbWritten
WriteStart(byte, value) ==
    /\ dsbStartLatch' = Latched(dsbStartLatch, byte, value) /\ dsbWritten' = Noted(byte, dsbStartLatch')
    /\ dsbPlay' = IF Complete(byte) /\ dsbState = 0 THEN [dsbPlay EXCEPT !.start = dsbStartLatch'] ELSE dsbPlay
    /\ dsbLoop' = IF Complete(byte) /\ dsbState # 0 THEN [dsbLoop EXCEPT !.start = dsbStartLatch'] ELSE dsbLoop
    /\ UNCHANGED << dsbEndLatch, dsbSerial, dsbPlayer, dsbCommands >>
WriteEnd(byte, value) ==
    /\ dsbEndLatch' = Latched(dsbEndLatch, byte, value) /\ dsbWritten' = Noted(byte, dsbEndLatch')
    /\ dsbPlay' = IF Complete(byte) /\ dsbState = 0 THEN [dsbPlay EXCEPT !.end = dsbEndLatch'] ELSE dsbPlay
    /\ dsbLoop' = IF Complete(byte) /\ dsbState # 0 THEN [dsbLoop EXCEPT !.end = dsbEndLatch'] ELSE dsbLoop
    /\ UNCHANGED << dsbStartLatch, dsbSerial, dsbPlayer, dsbCommands >>

-----------------------------------------------------------------------------
(* open_stream: the segment, as far as the ROM goes, must not be empty, must   *)
(* hold the beginning of an MPEG frame, and the decoder must take it.         *)
InRom(address) == IF Below(DsbRomEnd, address) THEN DsbRomEnd ELSE address
OpenStream(segment, decodes, state) ==
    LET part == [start |-> InRom(segment.start), end |-> InRom(segment.end)]
    IN IF Below(part.start, part.end) /\ decodes
       THEN dsbStream' = part /\ dsbOpen' = TRUE /\ dsbState' = state
       ELSE /\ dsbOpen' = FALSE /\ dsbState' = 0
            /\ dsbStream' \in IF Below(part.start, part.end) THEN {part, dsbStream} ELSE {dsbStream}
CloseStream == dsbOpen' = FALSE /\ dsbState' = 0 /\ UNCHANGED dsbStream

Trigger(command, decodes) ==
    /\ dsbCommands < DsbMaxCommands /\ dsbCommands' = dsbCommands + 1
    /\ IF command = 0 THEN CloseStream /\ UNCHANGED dsbLoop
       ELSE dsbLoop' = NoSegment /\ OpenStream(dsbPlay, decodes, command)
    /\ UNCHANGED << dsbSerial, dsbStartLatch, dsbEndLatch, dsbPlay, dsbWritten >>

(* The renderer comes to the end of the segment: once is once; otherwise the  *)
(* loop, of which an end not set is that of the segment.                      *)
NextInStream ==
    [start |-> IF dsbLoop.start # Zero THEN dsbLoop.start ELSE dsbPlay.start,
     end |-> IF dsbLoop.end # Zero THEN dsbLoop.end ELSE dsbPlay.end]
AdvanceSegment(decodes) ==
    /\ dsbState # 0 /\ dsbOpen
    /\ IF dsbState # 2 \/ (NextInStream = dsbStream /\ ~Below(NextInStream.start, NextInStream.end))
       THEN CloseStream ELSE OpenStream(NextInStream, decodes, dsbState)
    /\ UNCHANGED << dsbSerial, dsbEnds, dsbWritten, dsbCommands >>
(* A segment that gives no sound in four attempts. *)
GiveUpSegment ==
    /\ dsbState # 0 /\ CloseStream /\ UNCHANGED << dsbSerial, dsbEnds, dsbWritten, dsbCommands >>

DsbNext ==
    \/ ReceiveUart \/ ReadUart \/ ResetError
    \/ \E byte \in {1, 2}, value \in Bytes : WriteStart(byte, value) \/ WriteEnd(byte, value)
    \/ \E command \in 0..2, decodes \in BOOLEAN : Trigger(command, decodes)
    \/ (\E decodes \in BOOLEAN : AdvanceSegment(decodes)) \/ GiveUpSegment
DsbSpec == DsbInit /\ [][DsbNext]_dsbvars

-----------------------------------------------------------------------------
(* What is played runs from an address the Z80 has written to an address it    *)
(* has written, or to the end of the ROM in place of one behind that, never to *)
(* one that is half of two, although the renderer may look at any moment       *)
(* between two bytes; and something is open exactly while the board plays.    *)
WholeAddresses ==
    /\ { dsbStream.start, dsbStream.end } \subseteq { InRom(a) : a \in dsbWritten }
    /\ dsbOpen <=> dsbState # 0
==============================================================================
