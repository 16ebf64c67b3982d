------------------------------ MODULE SegaProofs ------------------------------
(* Proofs about the boards of Sega.  Of Model 1: its interrupt controller, its  *)
(* settings, its MPEG sound board, the counter-timer and the EEPROM of its I/O *)
(* board, its serial line to the sound board and its graphics worker; of Model *)
(* 2: its sound board, what its cabinets remember, its scheduler, its serial   *)
(* port, its session and its display lists.  For each, an invariant that its   *)
(* initial states have and every step of it keeps.                            *)
EXTENDS Model1Sound, Model1IoBoard, Model1Board,
        Model2Sound, Model2Nvram, Model2Board, Model2Session, Model2Geometry,
        Integers, FiniteSetTheorems, WellFoundedInduction, TLAPS

-----------------------------------------------------------------------------
(* The interrupt controller of Model 1.                                        *)

(* What is raised and not taken is a part of what the controller has set, and  *)
(* while there is any of it the line is up.                                   *)
M1iInv ==
    /\ m1iLine \in BOOLEAN
    /\ m1iRaised \subseteq m1iStatus
    /\ PendingHoldsTheLine

LEMMA M1iBegins == M1iInit => M1iInv
  BY DEF M1iInit, M1iInv, PendingHoldsTheLine

LEMMA RaiseKeeps ==
    ASSUME M1iInv, NEW levels, Raise(levels)
    PROVE  M1iInv'
  BY DEF M1iInv, PendingHoldsTheLine, Raise

LEMMA M1iKept == M1iInv /\ [M1iNext]_m1ivars => M1iInv'
  <1> SUFFICES ASSUME M1iInv, [M1iNext]_m1ivars PROVE M1iInv'
    OBVIOUS
  <1> USE DEF M1iInv, PendingHoldsTheLine, V60Runs
  <1>1. CASE MiddleOfFrame \/ StepTimers \/ VblankIrq
    BY <1>1, RaiseKeeps DEF MiddleOfFrame, StepTimers, VblankIrq
  <1>2. CASE TakeInterrupt
    BY <1>2 DEF TakeInterrupt
  <1>3. CASE AcknowledgeAll \/ AcknowledgeLast
    BY <1>3 DEF AcknowledgeAll, AcknowledgeLast, LineAfter
  <1>4. ASSUME NEW mask \in SUBSET Levels, WriteMask(mask) PROVE M1iInv'
    BY <1>4 DEF WriteMask
  <1>5. ASSUME NEW timer \in 0..1, NEW period \in M1iPeriods, WritePeriod(timer, period) PROVE M1iInv'
    BY <1>5 DEF WritePeriod, m1iIrq
  <1>6. CASE EndExecute \/ UNCHANGED m1ivars
    BY <1>6 DEF EndExecute, m1ivars, m1iIrq
  <1> QED
    BY <1>1, <1>2, <1>3, <1>4, <1>5, <1>6 DEF M1iNext

-----------------------------------------------------------------------------
(* The operator EEPROM of Model 1.                                             *)

M1nInv == m1nDirty \in BOOLEAN /\ m1nSaved \in BOOLEAN /\ UnmarkedIsSaved

LEMMA M1nBegins == M1nInit => M1nInv
  BY DEF M1nInit, M1nInv, UnmarkedIsSaved

LEMMA M1nKept == M1nInv /\ [M1nNext]_m1nvars => M1nInv'
  <1> SUFFICES ASSUME M1nInv, [M1nNext]_m1nvars PROVE M1nInv'
    OBVIOUS
  <1> USE DEF M1nInv, UnmarkedIsSaved, Save
  <1>1. ASSUME NEW default \in M1nValues, NEW readable \in BOOLEAN, NEW works \in BOOLEAN,
               InitializeMachine(default, readable, works)
        PROVE  M1nInv'
    BY <1>1 DEF InitializeMachine
  <1>2. ASSUME NEW value \in M1nValues, WriteBody(value) \/ WriteSum(value) \/ FirmwareWrite(value)
        PROVE  M1nInv'
    <2>1. CASE WriteBody(value)
      BY <2>1 DEF WriteBody
    <2>2. CASE WriteSum(value)
      BY <2>2 DEF WriteSum
    <2>3. CASE FirmwareWrite(value)
      BY <2>3 DEF FirmwareWrite
    <2> QED
      BY <1>2, <2>1, <2>2, <2>3
  <1>3. ASSUME NEW code \in {1, 2}, NEW works \in BOOLEAN, EepromCommand(code, works) PROVE M1nInv'
    BY <1>3 DEF EepromCommand, StillDirty
  <1>4. CASE ClearCommand
    BY <1>4 DEF ClearCommand
  <1>5. ASSUME NEW value \in M1nValues, NEW works \in BOOLEAN, SetAttractSound(value, works) PROVE M1nInv'
    BY <1>5 DEF SetAttractSound
  <1>6. ASSUME NEW works \in BOOLEAN, EndOfFrame(works) PROVE M1nInv'
    BY <1>6 DEF EndOfFrame
  <1>7. ASSUME NEW saves \in BOOLEAN, EndMachine(saves) PROVE M1nInv'
    BY <1>7 DEF EndMachine
  <1>8. CASE UNCHANGED m1nvars
    BY <1>8 DEF m1nvars
  <1> QED
    BY <1>1, <1>2, <1>3, <1>4, <1>5, <1>6, <1>7, <1>8 DEF M1nNext

-----------------------------------------------------------------------------
(* The digital sound board of Model 1.                                         *)

(* Every address that a segment may begin or end with has been written whole.  *)
DsbInv ==
    /\ { dsbPlay.start, dsbPlay.end, dsbLoop.start, dsbLoop.end } \subseteq dsbWritten
    /\ Zero \in dsbWritten
    /\ dsbOpen \in BOOLEAN
    /\ dsbPlay = [start |-> dsbPlay.start, end |-> dsbPlay.end]
    /\ dsbLoop = [start |-> dsbLoop.start, end |-> dsbLoop.end]
    /\ WholeAddresses

LEMMA DsbBegins == DsbInit => DsbInv
  <1> SUFFICES ASSUME DsbInit PROVE DsbInv
    OBVIOUS
  <1>2. InRom(Zero) = Zero
    BY Model1DsbAssumption DEF InRom, Below, Zero
  <1>1. WholeAddresses /\ dsbOpen \in BOOLEAN
    BY <1>2 DEF DsbInit, WholeAddresses, NoSegment
  <1> QED
    BY <1>1 DEF DsbInit, DsbInv, NoSegment

LEMMA DsbOpens ==
    ASSUME DsbInv, NEW segment, NEW decodes \in BOOLEAN, NEW state \in 1..2,
           segment.start \in dsbWritten, segment.end \in dsbWritten,
           OpenStream(segment, decodes, state), UNCHANGED dsbWritten
    PROVE  WholeAddresses' /\ dsbOpen' \in BOOLEAN
  <1> DEFINE part == [start |-> InRom(segment.start), end |-> InRom(segment.end)]
  <1>a. { part.start, part.end } \subseteq { InRom(a) : a \in dsbWritten }
    OBVIOUS
  <1>1. CASE Below(part.start, part.end) /\ decodes
    <2>1. dsbStream' = part /\ dsbOpen' = TRUE /\ dsbState' = state
      BY <1>1 DEF OpenStream
    <2> HIDE DEF part
    <2> QED
      BY <1>a, <2>1 DEF WholeAddresses
  <1>2. CASE ~(Below(part.start, part.end) /\ decodes)
    <2>1. dsbOpen' = FALSE /\ dsbState' = 0 /\ (dsbStream' = part \/ dsbStream' = dsbStream)
      BY <1>2 DEF OpenStream
    <2> HIDE DEF part
    <2> QED
      BY <1>a, <2>1 DEF DsbInv, WholeAddresses
  <1> QED
    BY <1>1, <1>2

LEMMA DsbCloses ==
    ASSUME DsbInv, CloseStream, UNCHANGED dsbWritten
    PROVE  WholeAddresses' /\ dsbOpen' \in BOOLEAN
  BY DEF CloseStream, DsbInv, WholeAddresses

LEMMA DsbKept == DsbInv /\ [DsbNext]_dsbvars => DsbInv'
  <1> SUFFICES ASSUME DsbInv, [DsbNext]_dsbvars PROVE DsbInv'
    OBVIOUS
  <1>p. ASSUME UNCHANGED dsbPlayer, dsbWritten \subseteq dsbWritten'
        PROVE  WholeAddresses' /\ dsbOpen' \in BOOLEAN
    BY <1>p DEF dsbPlayer, DsbInv, WholeAddresses
  <1>1. CASE ReceiveUart \/ ReadUart \/ ResetError
    BY <1>1, <1>p DEF ReceiveUart, ReadUart, ResetError, dsbEnds, DsbInv
  <1>2. ASSUME NEW byte \in {1, 2}, NEW value \in Bytes, WriteStart(byte, value) PROVE DsbInv'
    <2>1. dsbWritten \subseteq dsbWritten' /\ (byte = 2 => dsbStartLatch' \in dsbWritten')
      BY <1>2 DEF WriteStart, Noted
    <2>2. dsbPlay' = dsbPlay \/ (byte = 2 /\ dsbPlay' = [dsbPlay EXCEPT !.start = dsbStartLatch'])
      BY <1>2 DEF WriteStart, Complete
    <2>3. dsbLoop' = dsbLoop \/ (byte = 2 /\ dsbLoop' = [dsbLoop EXCEPT !.start = dsbStartLatch'])
      BY <1>2 DEF WriteStart, Complete
    <2> QED
      BY <1>2, <1>p, <2>1, <2>2, <2>3 DEF WriteStart, DsbInv
  <1>3. ASSUME NEW byte \in {1, 2}, NEW value \in Bytes, WriteEnd(byte, value) PROVE DsbInv'
    <2>1. dsbWritten \subseteq dsbWritten' /\ (byte = 2 => dsbEndLatch' \in dsbWritten')
      BY <1>3 DEF WriteEnd, Noted
    <2>2. dsbPlay' = dsbPlay \/ (byte = 2 /\ dsbPlay' = [dsbPlay EXCEPT !.end = dsbEndLatch'])
      BY <1>3 DEF WriteEnd, Complete
    <2>3. dsbLoop' = dsbLoop \/ (byte = 2 /\ dsbLoop' = [dsbLoop EXCEPT !.end = dsbEndLatch'])
      BY <1>3 DEF WriteEnd, Complete
    <2> QED
      BY <1>3, <1>p, <2>1, <2>2, <2>3 DEF WriteEnd, DsbInv
  <1>4. ASSUME NEW command \in 0..2, NEW decodes \in BOOLEAN, Trigger(command, decodes) PROVE DsbInv'
    <2>1. UNCHANGED << dsbPlay, dsbWritten >>
      BY <1>4 DEF Trigger
    <2>2. CASE command = 0
      BY <1>4, <2>1, <2>2, DsbCloses DEF Trigger, DsbInv
    <2>3. CASE command # 0
      <3>1. dsbLoop' = NoSegment /\ OpenStream(dsbPlay, decodes, command) /\ command \in 1..2
        BY <1>4, <2>3 DEF Trigger
      <3>2. WholeAddresses' /\ dsbOpen' \in BOOLEAN
        BY <2>1, <3>1, DsbOpens DEF DsbInv
      <3> QED
        BY <2>1, <3>1, <3>2 DEF DsbInv, NoSegment
    <2> QED
      BY <2>2, <2>3
  <1>5. ASSUME NEW decodes \in BOOLEAN, AdvanceSegment(decodes) PROVE DsbInv'
    <2>1. UNCHANGED << dsbPlay, dsbLoop, dsbWritten >>
      BY <1>5 DEF AdvanceSegment, dsbEnds
    <2>2. NextInStream.start \in dsbWritten /\ NextInStream.end \in dsbWritten
      BY DEF NextInStream, DsbInv
    <2>3. WholeAddresses' /\ dsbOpen' \in BOOLEAN
      <3>1. CASE CloseStream
        BY <2>1, <3>1, DsbCloses
      <3>2. CASE OpenStream(NextInStream, decodes, dsbState) /\ dsbState = 2
        BY <2>1, <2>2, <3>2, DsbOpens
      <3> QED
        BY <1>5, <3>1, <3>2 DEF AdvanceSegment
    <2> QED
      BY <2>1, <2>3 DEF DsbInv
  <1>6. CASE GiveUpSegment
    BY <1>6, DsbCloses DEF GiveUpSegment, dsbEnds, DsbInv
  <1>7. CASE UNCHANGED dsbvars
    BY <1>7, <1>p DEF dsbvars, dsbEnds, DsbInv
  <1> QED
    BY <1>1, <1>2, <1>3, <1>4, <1>5, <1>6, <1>7 DEF DsbNext

-----------------------------------------------------------------------------
(* A set of numbers that is not empty has a least one.                         *)
LEMMA LeastOf ==
    ASSUME NEW S, S \subseteq Nat, S # {}
    PROVE  \E m \in S : \A k \in S : m <= k
  <1>1. PICK n \in S : TRUE
    OBVIOUS
  <1> DEFINE Up(k) == 0..k
             T == { Up(k) : k \in { j \in S : j <= n } }
  <1>2. IsWellFoundedOn(StrictSubsetOrdering(0..n), SUBSET (0..n))
    <2>1. IsFiniteSet(0..n)
      BY <1>1, FS_Interval
    <2>2. FiniteSubsetsOf(0..n) = SUBSET (0..n)
      BY <2>1, FS_FiniteSubsetsOfFinite
    <2> QED
      BY <2>2, FS_StrictSubsetOrderingWellFounded
  <1>3. T \subseteq SUBSET (0..n) /\ T # {}
    BY <1>1
  <1>4. PICK x \in T : \A y \in T : ~(<< y, x >> \in StrictSubsetOrdering(0..n))
    <2> HIDE DEF T
    <2> QED
      BY <1>2, <1>3, WFMin
  <1>5. PICK m \in S : x = 0..m /\ m <= n
    OBVIOUS
  <1>6. ASSUME NEW k \in S, k < m PROVE FALSE
    <2>1. 0..k \in T
      BY <1>1, <1>5, <1>6
    <2>2. 0..k \in SUBSET (0..n) /\ 0..m \in SUBSET (0..n) /\ 0..k \subseteq 0..m /\ 0..k # 0..m
      <3>1. m \in 0..m /\ m \notin 0..k
        BY <1>6
      <3> QED
        BY <1>1, <1>5, <1>6, <3>1
    <2>3. << 0..k, x >> \in StrictSubsetOrdering(0..n)
      BY <1>5, <2>2 DEF StrictSubsetOrdering
    <2> QED
      BY <1>4, <2>1, <2>3
  <1> QED
    BY <1>5, <1>6

-----------------------------------------------------------------------------
(* The counter-timer of the I/O board.                                         *)

CtcInv ==
    /\ ctcNow \in Nat /\ ctcNextDeadline \in Nat
    /\ ctcRunning \in [CtcChannels -> BOOLEAN] /\ ctcDeadline \in [CtcChannels -> Nat]
    /\ ctcConstant \in [CtcChannels -> Nat \ {0}] /\ ctcPrescale \in [CtcChannels -> Nat \ {0}]
    /\ ctcIntPending \in [CtcChannels -> BOOLEAN]
    /\ \A c \in CtcChannels : ctcRunning[c] => ctcNextDeadline <= ctcDeadline[c]
    /\ NoneOverdue

LEMMA CtcBegins == CtcInit => CtcInv
  <1> SUFFICES ASSUME CtcInit PROVE CtcInv
    OBVIOUS
  <1>1. ctcNow \in Nat /\ ctcNextDeadline \in Nat
    BY CtcAssumption DEF CtcInit, Never
  <1>2. /\ ctcRunning \in [CtcChannels -> BOOLEAN] /\ ctcIntPending \in [CtcChannels -> BOOLEAN]
        /\ \A c \in CtcChannels : ctcRunning[c] = FALSE /\ ctcIntPending[c] = FALSE
    BY DEF CtcInit, All
  <1>3. /\ ctcDeadline \in [CtcChannels -> Nat] /\ ctcConstant \in [CtcChannels -> Nat \ {0}]
        /\ ctcPrescale \in [CtcChannels -> Nat \ {0}]
    BY DEF CtcInit, All
  <1>4. NoneOverdue
    BY <1>2 DEF NoneOverdue, CtcInit
  <1> QED
    BY <1>1, <1>2, <1>3, <1>4 DEF CtcInv

(* The deadline the chip keeps is no later than that of any running channel.   *)
LEMMA RefreshedFirst ==
    ASSUME NEW running \in [CtcChannels -> BOOLEAN], NEW deadline \in [CtcChannels -> Nat]
    PROVE  /\ Refreshed(running, deadline) \in Nat
           /\ \A c \in CtcChannels : running[c] => Refreshed(running, deadline) <= deadline[c]
  <1> DEFINE due == { deadline[c] : c \in { d \in CtcChannels : running[d] } }
  <1>1. CASE due = {}
    <2>1. Refreshed(running, deadline) = Never
      BY <1>1 DEF Refreshed
    <2>2. \A c \in CtcChannels : ~running[c]
      BY <1>1
    <2> QED
      BY <2>1, <2>2, CtcAssumption DEF Never
  <1>2. CASE due # {}
    <2>1. due \subseteq Nat
      OBVIOUS
    <2>2. \E t \in due : \A u \in due : t <= u
      <3> HIDE DEF due
      <3> QED
        BY <1>2, <2>1, LeastOf
    <2>3. Refreshed(running, deadline) = CHOOSE t \in due : \A u \in due : t <= u
      BY <1>2 DEF Refreshed
    <2>4. Refreshed(running, deadline) \in due /\ \A u \in due : Refreshed(running, deadline) <= u
      <3> HIDE DEF due
      <3> QED
        BY <2>2, <2>3
    <2> QED
      BY <2>1, <2>4
  <1> QED
    BY <1>1, <1>2

(* A channel that has come to its time is due again after the present.         *)
LEMMA NextPeriod ==
    ASSUME NEW late \in Nat, NEW step \in Nat \ {0}
    PROVE  (late \div step + 1) * step \in Nat /\ (late \div step + 1) * step > late
  <1>1. late \div step \in Nat
    <2>1. late \div step \in Int
      OBVIOUS
    <2>2. late \div step >= 0
      OBVIOUS
    <2> QED
      BY <2>1, <2>2
  <1>2. (late \div step + 1) * step > late
    OBVIOUS
  <1>3. (late \div step + 1) * step \in Nat
    <2> DEFINE q == late \div step
    <2> HIDE DEF q
    <2>1. q \in Nat
      BY <1>1 DEF q
    <2>2. (q + 1) * step \in Nat
      BY <2>1
    <2> QED
      BY <2>2 DEF q
  <1> QED
    BY <1>2, <1>3

LEMMA CtcKept == CtcInv /\ [CtcNext]_ctcvars => CtcInv'
  <1> SUFFICES ASSUME CtcInv, [CtcNext]_ctcvars PROVE CtcInv'
    OBVIOUS
  <1>a. /\ CtcChannels \subseteq Nat /\ CtcConstants \subseteq Nat \ {0} /\ CtcPrescales \subseteq Nat \ {0}
    BY CtcAssumption
  <1>1. ASSUME NEW channel \in CtcChannels, NEW constant \in CtcConstants, WriteConstant(channel, constant)
        PROVE  CtcInv'
    <2>1. constant * ctcPrescale[channel] \in Nat \ {0}
      BY <1>a DEF CtcInv
    <2>2. /\ ctcDeadline' \in [CtcChannels -> Nat] /\ ctcRunning' \in [CtcChannels -> BOOLEAN]
          /\ ctcConstant' \in [CtcChannels -> Nat \ {0}]
      BY <1>a, <1>1, <2>1 DEF WriteConstant, CtcInv
    <2>3. ctcNextDeadline' \in Nat /\ \A c \in CtcChannels : ctcRunning'[c] => ctcNextDeadline' <= ctcDeadline'[c]
      <3>1. ctcNextDeadline' = Refreshed(ctcRunning', ctcDeadline')
        BY <1>1 DEF WriteConstant
      <3> QED
        BY <2>2, <3>1, RefreshedFirst
    <2>4. UNCHANGED << ctcNow, ctcPrescale, ctcIntPending, ctcPendingMask >>
      BY <1>1 DEF WriteConstant, ctcInterrupts
    <2>5. ASSUME NEW c \in CtcChannels, ctcRunning'[c] PROVE ctcDeadline'[c] > ctcNow'
      <3>1. CASE c = channel
        BY <1>1, <2>1, <2>4, <3>1 DEF WriteConstant, CtcInv
      <3>2. CASE c # channel
        BY <1>1, <2>4, <2>5, <3>2 DEF WriteConstant, CtcInv, NoneOverdue
      <3> QED
        BY <3>1, <3>2
    <2> QED
      BY <2>2, <2>3, <2>4, <2>5 DEF CtcInv, NoneOverdue
  <1>2. ASSUME NEW channel \in CtcChannels, NEW enable \in BOOLEAN, NEW follows \in BOOLEAN, NEW resets \in BOOLEAN,
               NEW prescale \in CtcPrescales, WriteChannelControl(channel, enable, prescale, follows, resets)
        PROVE  CtcInv'
    <2>1. /\ UNCHANGED << ctcNow, ctcDeadline, ctcConstant >>
          /\ ctcPrescale' \in [CtcChannels -> Nat \ {0}]
      BY <1>a, <1>2 DEF WriteChannelControl, CtcInv
    <2>2. CASE resets
      <3>1. /\ ctcRunning' = [ctcRunning EXCEPT ![channel] = FALSE]
            /\ ctcIntPending' = [ctcIntPending EXCEPT ![channel] = FALSE]
            /\ ctcPendingMask' = ctcPendingMask \ {channel}
            /\ ctcNextDeadline' = Refreshed(ctcRunning', ctcDeadline)
        BY <1>2, <2>2 DEF WriteChannelControl
      <3>2. ctcRunning' \in [CtcChannels -> BOOLEAN] /\ ctcIntPending' \in [CtcChannels -> BOOLEAN]
        BY <3>1 DEF CtcInv
      <3>3. ctcNextDeadline' \in Nat /\ \A c \in CtcChannels : ctcRunning'[c] => ctcNextDeadline' <= ctcDeadline'[c]
        BY <2>1, <3>1, <3>2, RefreshedFirst DEF CtcInv
      <3>4. \A c \in CtcChannels : ctcRunning'[c] => ctcDeadline'[c] > ctcNow'
        BY <2>1, <3>1 DEF CtcInv, NoneOverdue
      <3>5. ctcPendingMask' = { c \in CtcChannels : ctcIntPending'[c] }
        BY <3>1 DEF CtcInv, NoneOverdue
      <3> QED
        BY <2>1, <3>2, <3>3, <3>4, <3>5 DEF CtcInv, NoneOverdue
    <2>3. CASE ~resets
      <3>1. UNCHANGED << ctcRunning, ctcIntPending, ctcPendingMask, ctcNextDeadline >>
        BY <1>2, <2>3 DEF WriteChannelControl
      <3> QED
        BY <2>1, <3>1 DEF CtcInv, NoneOverdue
    <2> QED
      BY <2>2, <2>3
  <1>3. CASE TickCtc
    <2>1. ctcNow' = ctcNow + 1 /\ UNCHANGED << ctcRunning, ctcConstant, ctcPrescale >>
      BY <1>3 DEF TickCtc
    <2>2. CASE ctcNow' < ctcNextDeadline
      <3>1. UNCHANGED << ctcDeadline, ctcNextDeadline, ctcIntPending, ctcPendingMask >>
        BY <1>3, <2>2 DEF TickCtc
      <3> QED
        BY <2>1, <2>2, <3>1 DEF CtcInv, NoneOverdue
    <2>3. CASE ~(ctcNow' < ctcNextDeadline)
      <3> DEFINE due == { c \in CtcChannels : ctcRunning[c] /\ ctcDeadline[c] <= ctcNow' }
                 late == due \cap { c \in CtcChannels : ctcEnable[c] }
                 Step(c) == ctcConstant[c] * ctcPrescale[c]
                 After(c) == ctcDeadline[c] + ((ctcNow' - ctcDeadline[c]) \div Step(c) + 1) * Step(c)
      <3>1. /\ ctcDeadline' = [c \in CtcChannels |-> IF c \in due THEN After(c) ELSE ctcDeadline[c]]
            /\ ctcIntPending' = [c \in CtcChannels |-> ctcIntPending[c] \/ c \in late]
            /\ ctcPendingMask' = ctcPendingMask \cup late
            /\ ctcNextDeadline' = Refreshed(ctcRunning, ctcDeadline')
        BY <1>3, <2>3 DEF TickCtc
      <3>2. ASSUME NEW c \in due PROVE After(c) \in Nat /\ After(c) > ctcNow'
        <4>1. ctcDeadline[c] \in Nat /\ ctcNow' - ctcDeadline[c] \in Nat /\ ctcNow' \in Nat
          BY <2>1 DEF CtcInv
        <4>2. Step(c) \in Nat \ {0}
          BY DEF CtcInv
        <4>3. PICK extra \in Nat : extra = ((ctcNow' - ctcDeadline[c]) \div Step(c) + 1) * Step(c)
                                   /\ extra > ctcNow' - ctcDeadline[c]
          <5> HIDE DEF Step
          <5> QED
            BY <4>1, <4>2, NextPeriod
        <4>4. After(c) = ctcDeadline[c] + extra
          BY <4>3
        <4> HIDE DEF After
        <4> QED
          BY <4>1, <4>3, <4>4
      <3>3. ctcDeadline' \in [CtcChannels -> Nat] /\ ctcIntPending' \in [CtcChannels -> BOOLEAN]
        <4> HIDE DEF After
        <4> QED
          BY <3>1, <3>2 DEF CtcInv
      <3>4. \A c \in CtcChannels : ctcRunning'[c] => ctcDeadline'[c] > ctcNow'
        <4> HIDE DEF After
        <4>1. ASSUME NEW c \in CtcChannels, ctcRunning'[c], c \in due PROVE ctcDeadline'[c] > ctcNow'
          BY <3>1, <3>2, <4>1
        <4>2. ASSUME NEW c \in CtcChannels, ctcRunning'[c], c \notin due PROVE ctcDeadline'[c] > ctcNow'
          BY <2>1, <3>1, <4>2 DEF CtcInv
        <4> QED
          BY <4>1, <4>2
      <3>5. ctcPendingMask' = { c \in CtcChannels : ctcIntPending'[c] }
        BY <3>1 DEF CtcInv, NoneOverdue
      <3>6. ctcNextDeadline' \in Nat /\ \A c \in CtcChannels : ctcRunning'[c] => ctcNextDeadline' <= ctcDeadline'[c]
        <4>1. ctcNextDeadline' = Refreshed(ctcRunning, ctcDeadline') /\ ctcRunning \in [CtcChannels -> BOOLEAN]
              /\ ctcRunning' = ctcRunning
          BY <2>1, <3>1 DEF CtcInv
        <4> QED
          BY <3>3, <4>1, RefreshedFirst
      <3>7. ctcNow' \in Nat
        BY <2>1 DEF CtcInv
      <3> QED
        BY <2>1, <3>3, <3>4, <3>5, <3>6, <3>7 DEF CtcInv, NoneOverdue
    <2> QED
      BY <2>2, <2>3
  <1>4. CASE AcknowledgeCtc
    <2>1. UNCHANGED << ctcNow, ctcRunning, ctcDeadline, ctcConstant, ctcPrescale, ctcNextDeadline >>
      BY <1>4 DEF AcknowledgeCtc, ctcRegisters
    <2>2. UNCHANGED << ctcIntPending, ctcPendingMask >>
          \/ \E first : ctcIntPending' = [ctcIntPending EXCEPT ![first] = FALSE]
                        /\ ctcPendingMask' = ctcPendingMask \ {first}
      BY <1>4 DEF AcknowledgeCtc, ctcInterrupts
    <2>3. ctcIntPending' \in [CtcChannels -> BOOLEAN] /\ ctcPendingMask' = { c \in CtcChannels : ctcIntPending'[c] }
      BY <2>2 DEF CtcInv, NoneOverdue
    <2> QED
      BY <2>1, <2>3 DEF CtcInv, NoneOverdue
  <1>5. CASE ReturnFromInterrupt \/ UNCHANGED ctcvars
    <2>1. UNCHANGED << ctcNow, ctcRunning, ctcDeadline, ctcConstant, ctcPrescale, ctcNextDeadline, ctcIntPending,
                       ctcPendingMask >>
      BY <1>5 DEF ReturnFromInterrupt, ctcRegisters, ctcInterrupts, ctcvars
    <2> QED
      BY <2>1 DEF CtcInv, NoneOverdue
  <1> QED
    BY <1>1, <1>2, <1>3, <1>4, <1>5 DEF CtcNext

-----------------------------------------------------------------------------
(* The serial line of Model 1, a ring that feeds a ring.                       *)

(* The slot behind another, and how far a slot is ahead of another.            *)
RingNext(size, slot) == IF slot = size - 1 THEN 0 ELSE slot + 1
RingAhead(size, slot, from) == IF slot >= from THEN slot - from ELSE slot - from + size
(* From a slot on a ring holds numbers that follow each other.                 *)
Counts(ring, size, from, count, first) ==
    \A s \in 0..(size - 1) : RingAhead(size, s, from) < count => ring[s] = first + RingAhead(size, s, from)

(* (slot + 1) % size stays within the ring.                                    *)
LEMMA RingWraps ==
    ASSUME NEW size \in Nat \ {0}, NEW slot \in 0..(size - 1)
    PROVE  (slot + 1) % size = RingNext(size, slot) /\ RingNext(size, slot) \in 0..(size - 1)
  <1>1. CASE slot = size - 1
    <2>1. size % size = 0 /\ slot + 1 = size
      BY <1>1
    <2> QED
      BY <1>1, <2>1 DEF RingNext
  <1>2. CASE slot # size - 1
    <2>1. slot + 1 \in 0..(size - 1) /\ (slot + 1) % size = slot + 1
      BY <1>2
    <2> QED
      BY <1>2, <2>1 DEF RingNext
  <1> QED
    BY <1>1, <1>2

(* A number put behind the last.                                               *)
LEMMA RingTakes ==
    ASSUME NEW size \in Nat \ {0}, NEW ring, DOMAIN ring = 0..(size - 1), NEW from \in 0..(size - 1),
           NEW write \in 0..(size - 1), NEW first \in Nat, NEW count \in Nat, NEW number,
           RingAhead(size, write, from) = count, number = first + count,
           Counts(ring, size, from, count, first)
    PROVE  Counts([ring EXCEPT ![write] = number], size, from, count + 1, first)
  <1> SUFFICES ASSUME NEW s \in 0..(size - 1), RingAhead(size, s, from) < count + 1
               PROVE  [ring EXCEPT ![write] = number][s] = first + RingAhead(size, s, from)
    BY DEF Counts
  <1>1. CASE s = write
    BY <1>1
  <1>2. CASE s # write
    <2>1. RingAhead(size, s, from) < count
      BY <1>2 DEF RingAhead
    <2> QED
      BY <1>2, <2>1 DEF Counts
  <1> QED
    BY <1>1, <1>2

(* The first number taken away.                                                *)
LEMMA RingGives ==
    ASSUME NEW size \in Nat \ {0}, NEW ring, NEW from \in 0..(size - 1), NEW first \in Nat,
           NEW count \in Nat \ {0}, count <= size, Counts(ring, size, from, count, first)
    PROVE  /\ ring[from] = first
           /\ Counts(ring, size, RingNext(size, from), count - 1, first + 1)
  <1>1. RingAhead(size, from, from) = 0
    BY DEF RingAhead
  <1>2. ring[from] = first
    BY <1>1 DEF Counts
  <1>3. ASSUME NEW s \in 0..(size - 1), RingAhead(size, s, RingNext(size, from)) < count - 1
        PROVE  ring[s] = (first + 1) + RingAhead(size, s, RingNext(size, from))
    <2>1. RingAhead(size, s, from) = RingAhead(size, s, RingNext(size, from)) + 1
      BY <1>3 DEF RingAhead, RingNext
    <2>3. RingAhead(size, s, RingNext(size, from)) \in Int
      BY DEF RingAhead, RingNext
    <2>2. ring[s] = first + RingAhead(size, s, from)
      BY <1>3, <2>1, <2>3 DEF Counts
    <2> QED
      BY <2>1, <2>2, <2>3
  <1> QED
    BY <1>2, <1>3 DEF Counts

(* How many there are ahead of a place that moves on.                          *)
LEMMA RingMoves ==
    ASSUME NEW size \in Nat \ {0}, NEW slot \in 0..(size - 1), NEW from \in 0..(size - 1)
    PROVE  /\ RingAhead(size, slot, from) \in 0..(size - 1)
           /\ slot # from => RingAhead(size, slot, RingNext(size, from)) = RingAhead(size, slot, from) - 1
           /\ RingNext(size, slot) # from => RingAhead(size, RingNext(size, slot), from) = RingAhead(size, slot, from) + 1
           /\ RingAhead(size, from, from) = 0
           /\ RingAhead(size, slot, from) = 0 => slot = from
  BY DEF RingAhead, RingNext

Delivering == m1sound \in {"deliver", "last"}
(* Where the next byte for the 68000 is in the ring, and the numbers in it.    *)
Place == IF Delivering THEN m1cursor ELSE m1ringRead
Sent == [s \in 0..(M1RingSize - 1) |-> m1ring[s].number]
OnTheWay == RingAhead(M1RingSize, m1ringWrite, Place)

M1Types ==
    /\ m1sent \in Nat /\ m1heard.count \in Nat /\ m1rxCount \in 0..M1RxSize
    /\ m1ringWrite \in 0..(M1RingSize - 1) /\ m1ringRead \in 0..(M1RingSize - 1)
    /\ m1cursor \in 0..(M1RingSize - 1) /\ m1end \in 0..(M1RingSize - 1)
    /\ m1rxWrite \in 0..(M1RxSize - 1) /\ m1rxRead \in 0..(M1RxSize - 1)
    /\ DOMAIN m1ring = 0..(M1RingSize - 1) /\ DOMAIN m1rx = 0..(M1RxSize - 1)

(* The delivery under way is between what is given back and what was sent.     *)
DeliveryInOrder ==
    Delivering =>
        /\ RingAhead(M1RingSize, m1cursor, m1ringRead) <= RingAhead(M1RingSize, m1end, m1ringRead)
        /\ RingAhead(M1RingSize, m1end, m1ringRead) <= RingAhead(M1RingSize, m1ringWrite, m1ringRead)

(* First the bytes heard, then those in the receiver, then those in the ring.  *)
LineInOrder ==
    /\ m1sent = m1heard.count + m1rxCount + OnTheWay
    /\ Counts(Sent, M1RingSize, Place, OnTheWay, m1heard.count + m1rxCount + 1)
ReceiverInOrder ==
    /\ m1rxCount < M1RxSize => RingAhead(M1RxSize, m1rxWrite, m1rxRead) = m1rxCount
    /\ m1rxCount = M1RxSize => m1rxWrite = m1rxRead
    /\ Counts(m1rx, M1RxSize, m1rxRead, m1rxCount, m1heard.count + 1)

M1Inv == M1Types /\ DeliveryInOrder /\ LineInOrder /\ ReceiverInOrder /\ EveryByteOnce

LEMMA M1Begins == M1SoundInit => M1Inv
  <1> SUFFICES ASSUME M1SoundInit PROVE M1Inv
    OBVIOUS
  <1>a. M1RingSize \in Nat \ {0, 1} /\ M1RxSize \in Nat \ {0}
    BY Model1SoundAssumption
  <1>1. M1Types
    BY <1>a DEF M1SoundInit, M1Types
  <1>2. Place = 0 /\ m1ringWrite = 0 /\ m1heard.count = 0 /\ m1heard.last = 0 /\ m1rxCount = 0 /\ m1sent = 0
        /\ m1rxRead = 0 /\ m1rxWrite = 0 /\ ~Delivering
    BY DEF M1SoundInit, Place, Delivering
  <1>3. OnTheWay = 0
    BY <1>2 DEF OnTheWay, RingAhead
  <1>4. LineInOrder
    BY <1>a, <1>2, <1>3 DEF LineInOrder, Counts, RingAhead
  <1>5. ReceiverInOrder
    BY <1>a, <1>2 DEF ReceiverInOrder, Counts, RingAhead
  <1> QED
    BY <1>1, <1>2, <1>4, <1>5 DEF M1Inv, DeliveryInOrder, EveryByteOnce

LEMMA M1Kept == M1Inv /\ [M1SoundNext]_m1vars => M1Inv'
  <1> SUFFICES ASSUME M1Inv, [M1SoundNext]_m1vars PROVE M1Inv'
    OBVIOUS
  <1>a. M1RingSize \in Nat \ {0, 1} /\ M1RxSize \in Nat \ {0}
    BY Model1SoundAssumption
  <1>t. M1Types
    BY DEF M1Inv
  <1>p. Place \in 0..(M1RingSize - 1) /\ OnTheWay \in 0..(M1RingSize - 1)
    BY <1>a, <1>t, RingMoves DEF Place, M1Types, OnTheWay
  (* Steps that leave the line alone. *)
  <1>i. ASSUME UNCHANGED << m1line, m1rx, m1rxWrite, m1rxRead, m1rxCount, m1heard >>,
               Place' = Place, M1Types', DeliveryInOrder'
        PROVE  M1Inv'
    <2>1. LineInOrder'
      BY <1>i DEF M1Inv, LineInOrder, OnTheWay, Sent, m1line
    <2>2. ReceiverInOrder' /\ EveryByteOnce'
      BY <1>i DEF M1Inv, ReceiverInOrder, EveryByteOnce
    <2> QED
      BY <1>i, <2>1, <2>2 DEF M1Inv
  <1>j. ASSUME UNCHANGED << m1line, m1rx, m1rxWrite, m1rxRead, m1rxCount, m1heard, m1ringRead, m1cursor, m1end >>,
               Delivering' <=> Delivering
        PROVE  M1Inv'
    <2>1. Place' = Place
      BY <1>j DEF Place
    <2>2. M1Types' /\ DeliveryInOrder'
      BY <1>j, <1>t DEF M1Types, DeliveryInOrder, M1Inv, m1line
    <2> QED
      BY <1>i, <1>j, <2>1, <2>2
  (* The V60 sends a byte, if the ring has room. *)
  <1>1. ASSUME EnqueueUart, UNCHANGED << m1ringRead, m1thread, m1fifo, m1heard >> PROVE M1Inv'
    <2>1. CASE UNCHANGED m1line
      BY <1>1, <1>j, <2>1 DEF m1thread, m1fifo, Delivering
    <2>2. CASE m1sent' = m1sent + 1
      <3> DEFINE byte == [number |-> m1sent + 1, frame |-> m1frame, at |-> m1cycles]
      <3>1. /\ m1ringWrite' = RingNext(M1RingSize, m1ringWrite) /\ m1ringWrite' # m1ringRead
            /\ m1ringWrite' \in 0..(M1RingSize - 1) /\ m1ring' = [m1ring EXCEPT ![m1ringWrite] = byte]
        <4>1. /\ (m1ringWrite + 1) % M1RingSize = RingNext(M1RingSize, m1ringWrite)
              /\ RingNext(M1RingSize, m1ringWrite) \in 0..(M1RingSize - 1)
          BY <1>a, <1>t, RingWraps DEF M1Types
        <4>2. m1sent' # m1sent
          BY <1>t, <2>2 DEF M1Types
        <4> QED
          BY <1>1, <4>1, <4>2 DEF EnqueueUart, m1line
      <3>2. UNCHANGED << m1ringRead, m1sound, m1cursor, m1end, m1rx, m1rxWrite, m1rxRead, m1rxCount, m1heard >>
        BY <1>1 DEF m1thread, m1fifo
      <3>3. M1Types'
        BY <1>t, <2>2, <3>1, <3>2 DEF M1Types
      <3>4. RingAhead(M1RingSize, m1ringWrite', m1ringRead) = RingAhead(M1RingSize, m1ringWrite, m1ringRead) + 1
        BY <1>a, <1>t, <3>1, RingMoves DEF M1Types
      <3>5. /\ RingAhead(M1RingSize, m1ringWrite, m1ringRead) \in Int
            /\ RingAhead(M1RingSize, m1end, m1ringRead) \in Int
        BY <1>a, <1>t, RingMoves DEF M1Types
      <3>6. DeliveryInOrder'
        BY <3>2, <3>4, <3>5 DEF M1Inv, DeliveryInOrder, Delivering
      <3>7. PICK p \in 0..(M1RingSize - 1) : p = Place /\ Place' = p
        BY <1>p, <3>2 DEF Place, Delivering
      <3>8. PICK n \in 0..(M1RingSize - 1) : n = OnTheWay /\ n = RingAhead(M1RingSize, m1ringWrite, p)
        BY <1>p, <3>7 DEF OnTheWay
      <3>9. RingAhead(M1RingSize, p, m1ringRead) <= RingAhead(M1RingSize, m1ringWrite, m1ringRead)
        <4>1. CASE Delivering
          <5>1. RingAhead(M1RingSize, m1cursor, m1ringRead) \in Int
            BY <1>a, <1>t, RingMoves DEF M1Types
          <5> QED
            BY <3>5, <3>7, <4>1, <5>1 DEF M1Inv, DeliveryInOrder, Place
        <4>2. CASE ~Delivering
          BY <1>a, <1>t, <3>7, <4>2 DEF Place, M1Types, RingAhead
        <4> QED
          BY <4>1, <4>2
      <3>10. RingNext(M1RingSize, m1ringWrite) # p
        BY <1>a, <1>t, <3>1, <3>9 DEF M1Types, RingAhead, RingNext
      <3>11. OnTheWay' = n + 1
        BY <1>a, <1>t, <3>1, <3>7, <3>8, <3>10, RingMoves DEF OnTheWay, M1Types
      <3>12. PICK first \in Nat : first = m1heard.count + m1rxCount + 1 /\ m1sent + 1 = first + n
        BY <1>t, <3>8 DEF M1Inv, LineInOrder, M1Types
      <3>13. Sent' = [Sent EXCEPT ![m1ringWrite] = m1sent + 1] /\ DOMAIN Sent = 0..(M1RingSize - 1)
        <4>1. byte.number = m1sent + 1
          OBVIOUS
        <4> HIDE DEF byte
        <4> QED
          BY <1>t, <3>1, <4>1 DEF Sent, M1Types
      <3>14. Counts([Sent EXCEPT ![m1ringWrite] = m1sent + 1], M1RingSize, p, n + 1, first)
        <4>1. Counts(Sent, M1RingSize, p, n, first)
          BY <3>7, <3>8, <3>12 DEF M1Inv, LineInOrder
        <4>2. m1ringWrite \in 0..(M1RingSize - 1) /\ M1RingSize \in Nat \ {0} /\ n \in Nat
          BY <1>a, <1>t DEF M1Types
        <4> QED
          BY <3>8, <3>12, <3>13, <4>1, <4>2, RingTakes
      <3>15. LineInOrder'
        <4>1. Counts(Sent', M1RingSize, Place', OnTheWay', m1heard'.count + m1rxCount' + 1)
          BY <3>2, <3>7, <3>11, <3>12, <3>13, <3>14
        <4>2. m1sent' = m1heard'.count + m1rxCount' + OnTheWay'
          BY <1>a, <1>t, <2>2, <3>2, <3>11, <3>12 DEF M1Types
        <4> QED
          BY <4>1, <4>2 DEF LineInOrder
      <3>16. ReceiverInOrder' /\ EveryByteOnce'
        BY <3>2 DEF M1Inv, ReceiverInOrder, EveryByteOnce
      <3> QED
        BY <3>3, <3>6, <3>15, <3>16 DEF M1Inv
    <2> QED
      BY <1>1, <2>1, <2>2 DEF EnqueueUart
  <1>2. ASSUME NEW sends \in BOOLEAN, RunSlice(sends) PROVE M1Inv'
    <2>1. UNCHANGED << m1ringRead, m1thread, m1fifo, m1heard >> /\ (EnqueueUart \/ UNCHANGED m1line)
      BY <1>2 DEF RunSlice
    <2>2. CASE UNCHANGED m1line
      BY <1>j, <2>1, <2>2 DEF m1thread, m1fifo, Delivering
    <2> QED
      BY <1>1, <2>1, <2>2
  <1>3. CASE SignalFrame \/ PauseMachine \/ TakeFrame \/ Execute \/ ReadUartStatus \/ UNCHANGED m1vars
    <2>1. UNCHANGED << m1line, m1rx, m1rxWrite, m1rxRead, m1rxCount, m1heard, m1ringRead, m1cursor, m1end >>
      BY <1>3 DEF SignalFrame, PauseMachine, TakeFrame, Execute, ReadUartStatus, m1vars, m1fifo, m1thread
    <2>2. Delivering' <=> Delivering
      BY <1>3 DEF SignalFrame, PauseMachine, TakeFrame, Execute, ReadUartStatus, m1vars, m1fifo, m1thread, Delivering
    <2> QED
      BY <1>j, <2>1, <2>2
  (* A delivery begins, takes a byte and ends. *)
  <1>4. ASSUME NEW step \in {"deliver", "last"}, m1sound = "run", BeginDelivery(step) PROVE M1Inv'
    <2>1. /\ m1cursor' = m1ringRead /\ m1end' = m1ringWrite /\ m1sound' = step
          /\ UNCHANGED << m1line, m1ringRead, m1rx, m1rxWrite, m1rxRead, m1rxCount, m1heard >>
      BY <1>4 DEF BeginDelivery, m1fifo
    <2>2. Place' = Place
      BY <1>4, <2>1 DEF Place, Delivering
    <2>3. M1Types'
      BY <1>t, <2>1 DEF M1Types, m1line
    <2>4. DeliveryInOrder'
      BY <1>a, <1>t, <2>1 DEF DeliveryInOrder, RingAhead, M1Types, m1line
    <2> QED
      BY <1>i, <2>1, <2>2, <2>3, <2>4
  <1>5. CASE PausedBuffer \/ StartChunk \/ EndBuffer
    BY <1>4, <1>5 DEF PausedBuffer, StartChunk, EndBuffer
  <1>6. ASSUME NEW time, Delivering, TakeByte(time) PROVE M1Inv'
    <2>1. /\ m1cursor # m1end /\ m1rxCount < M1RxSize
          /\ m1rx' = [m1rx EXCEPT ![m1rxWrite] = m1ring[m1cursor].number]
          /\ m1rxWrite' = RingNext(M1RxSize, m1rxWrite) /\ m1rxWrite' \in 0..(M1RxSize - 1)
          /\ m1rxCount' = m1rxCount + 1
          /\ m1cursor' = RingNext(M1RingSize, m1cursor) /\ m1cursor' \in 0..(M1RingSize - 1)
          /\ UNCHANGED << m1sent, m1ring, m1ringWrite, m1ringRead, m1sound, m1end, m1rxRead, m1heard >>
      BY <1>6, <1>a, <1>t, RingWraps DEF TakeByte, Deliverable, Room, M1Types, m1line
    <2>2. M1Types'
      BY <1>a, <1>t, <2>1 DEF M1Types
    <2>3. /\ m1cursor \in 0..(M1RingSize - 1) /\ m1end \in 0..(M1RingSize - 1)
          /\ m1ringRead \in 0..(M1RingSize - 1) /\ m1ringWrite \in 0..(M1RingSize - 1)
          /\ RingAhead(M1RingSize, m1cursor, m1ringRead) <= RingAhead(M1RingSize, m1end, m1ringRead)
          /\ RingAhead(M1RingSize, m1end, m1ringRead) <= RingAhead(M1RingSize, m1ringWrite, m1ringRead)
      BY <1>6, <1>t DEF M1Inv, DeliveryInOrder, M1Types
    <2>4. RingAhead(M1RingSize, m1cursor', m1ringRead) <= RingAhead(M1RingSize, m1end, m1ringRead)
          /\ m1cursor # m1ringWrite
      BY <1>a, <2>1, <2>3 DEF RingAhead, RingNext
    <2>5. DeliveryInOrder'
      BY <2>1, <2>3, <2>4 DEF DeliveryInOrder
    <2>6. Place = m1cursor /\ Place' = m1cursor'
      BY <1>6, <2>1 DEF Place, Delivering
    <2>7. PICK n \in Nat \ {0} : n = OnTheWay /\ n = RingAhead(M1RingSize, m1ringWrite, m1cursor) /\ n <= M1RingSize
      BY <1>a, <1>p, <2>3, <2>4, <2>6, RingMoves DEF OnTheWay
    <2>8. OnTheWay' = n - 1
      BY <1>a, <2>1, <2>3, <2>4, <2>6, <2>7, RingMoves DEF OnTheWay
    <2>9. PICK first \in Nat : first = m1heard.count + m1rxCount + 1
      BY <1>t DEF M1Types
    <2>10. Sent[m1cursor] = first /\ Counts(Sent, M1RingSize, m1cursor', n - 1, first + 1)
      <3>1. Counts(Sent, M1RingSize, m1cursor, n, first)
        BY <2>6, <2>7, <2>9 DEF M1Inv, LineInOrder
      <3>2. M1RingSize \in Nat \ {0} /\ m1cursor \in 0..(M1RingSize - 1)
        BY <1>a, <2>3
      <3> QED
        BY <2>1, <2>7, <3>1, <3>2, RingGives
    <2>11. LineInOrder'
      <3>1. Sent' = Sent
        BY <2>1 DEF Sent
      <3>a. m1rxCount \in Nat /\ m1heard.count \in Nat
        BY <1>a, <1>t DEF M1Types
      <3>b. PICK c \in Nat, h \in Nat : c = m1rxCount /\ h = m1heard.count
        BY <3>a
      <3>c. m1heard'.count = h /\ m1rxCount' = c + 1 /\ first = h + c + 1
        BY <2>1, <2>9, <3>b
      <3>2. m1heard'.count + m1rxCount' + 1 = first + 1
        BY <3>b, <3>c
      <3>d. m1sent = h + c + n /\ m1sent' = m1sent
        BY <2>1, <2>7, <3>b DEF M1Inv, LineInOrder
      <3>3. m1sent' = m1heard'.count + m1rxCount' + OnTheWay'
        BY <2>7, <2>8, <3>b, <3>c, <3>d
      <3> QED
        BY <2>6, <2>8, <2>10, <3>1, <3>2, <3>3 DEF LineInOrder
    <2>12. m1ring[m1cursor].number = (m1heard.count + 1) + m1rxCount
      BY <1>t, <2>3, <2>9, <2>10 DEF Sent, M1Types
    <2>13. ReceiverInOrder'
      <3>a. m1rxCount \in Nat /\ m1heard.count + 1 \in Nat
        BY <1>a, <1>t DEF M1Types
      <3>1. PICK c \in Nat, h \in Nat : c = m1rxCount /\ h = m1heard.count + 1
        BY <3>a
      <3>2. RingAhead(M1RxSize, m1rxWrite, m1rxRead) = c /\ Counts(m1rx, M1RxSize, m1rxRead, c, h)
        BY <2>1, <3>1 DEF M1Inv, ReceiverInOrder
      <3>3. Counts(m1rx', M1RxSize, m1rxRead, c + 1, h)
        BY <1>a, <1>t, <2>1, <2>12, <3>1, <3>2, RingTakes DEF M1Types
      <3>4. /\ c + 1 < M1RxSize => RingAhead(M1RxSize, m1rxWrite', m1rxRead) = c + 1
            /\ c + 1 = M1RxSize => m1rxWrite' = m1rxRead
        BY <1>a, <1>t, <2>1, <3>2 DEF M1Types, RingAhead, RingNext
      <3> QED
        BY <2>1, <3>1, <3>3, <3>4 DEF ReceiverInOrder
    <2> QED
      BY <2>1, <2>2, <2>5, <2>11, <2>13 DEF M1Inv, EveryByteOnce
  <1>7. ASSUME NEW time, NEW step \in {"execute", "wait"}, Delivering, EndDelivery(time, step) PROVE M1Inv'
    <2>1. /\ m1ringRead' = m1cursor /\ m1sound' = step
          /\ UNCHANGED << m1line, m1cursor, m1end, m1rx, m1rxWrite, m1rxRead, m1rxCount, m1heard >>
      BY <1>7 DEF EndDelivery
    <2>2. Place' = Place /\ ~Delivering'
      BY <1>7, <2>1 DEF Place, Delivering
    <2>3. M1Types' /\ DeliveryInOrder'
      BY <1>t, <2>1, <2>2 DEF M1Types, m1line, DeliveryInOrder
    <2> QED
      BY <1>i, <2>1, <2>2, <2>3
  <1>8. CASE DeliverChunk \/ DeliverLast
    BY <1>6, <1>7, <1>8 DEF DeliverChunk, DeliverLast, Delivering
  (* The 68000 reads. *)
  <1>9. CASE ReadUartData
    <2>1. /\ m1rxCount > 0 /\ m1rxCount' = m1rxCount - 1
          /\ m1heard' = [count |-> m1heard.count + 1, last |-> m1rx[m1rxRead]]
          /\ m1rxRead' = RingNext(M1RxSize, m1rxRead) /\ m1rxRead' \in 0..(M1RxSize - 1)
          /\ UNCHANGED << m1sent, m1ring, m1ringWrite, m1ringRead, m1sound, m1cursor, m1end, m1rx, m1rxWrite >>
      BY <1>9, <1>a, <1>t, RingWraps DEF ReadUartData, M1Types, m1line, m1thread
    <2>2. m1heard'.count = m1heard.count + 1 /\ m1heard'.last = m1rx[m1rxRead]
      BY <2>1
    <2>3. M1Types'
      BY <1>a, <1>t, <2>1, <2>2 DEF M1Types
    <2>4. Place' = Place /\ Sent' = Sent /\ OnTheWay' = OnTheWay /\ (Delivering' <=> Delivering)
      BY <2>1 DEF Place, Sent, OnTheWay, Delivering
    <2>5. m1heard'.count + m1rxCount' = m1heard.count + m1rxCount
      BY <1>t, <2>1, <2>2 DEF M1Types
    <2>6. LineInOrder' /\ DeliveryInOrder'
      BY <2>1, <2>4, <2>5 DEF M1Inv, LineInOrder, DeliveryInOrder
    <2>7. m1rx[m1rxRead] = m1heard.count + 1
          /\ Counts(m1rx, M1RxSize, m1rxRead', m1rxCount - 1, (m1heard.count + 1) + 1)
      <3>1. PICK c \in Nat \ {0}, h \in Nat : c = m1rxCount /\ h = m1heard.count + 1 /\ c <= M1RxSize
        BY <1>t, <2>1 DEF M1Types
      <3>2. Counts(m1rx, M1RxSize, m1rxRead, c, h) /\ m1rxRead \in 0..(M1RxSize - 1)
        BY <1>t, <3>1 DEF M1Inv, ReceiverInOrder, M1Types
      <3> QED
        BY <1>a, <2>1, <3>1, <3>2, RingGives
    <2>8. ReceiverInOrder'
      <3>1. RingAhead(M1RxSize, m1rxWrite, m1rxRead') = m1rxCount - 1
        <4>1. CASE m1rxCount < M1RxSize
          BY <1>a, <1>t, <2>1, <4>1 DEF M1Inv, ReceiverInOrder, M1Types, RingAhead, RingNext
        <4>2. CASE m1rxCount = M1RxSize
          BY <1>a, <1>t, <2>1, <4>2 DEF M1Inv, ReceiverInOrder, M1Types, RingAhead, RingNext
        <4> QED
          BY <1>a, <1>t, <4>1, <4>2 DEF M1Types
      <3> QED
        BY <1>t, <2>1, <2>2, <2>7, <3>1 DEF ReceiverInOrder, M1Types
    <2> QED
      BY <2>2, <2>3, <2>6, <2>7, <2>8 DEF M1Inv, EveryByteOnce
  <1> QED
    BY <1>2, <1>3, <1>5, <1>8, <1>9 DEF M1SoundNext

-----------------------------------------------------------------------------
(* The bits of a command on the lines of the EEPROM.                           *)

EndsWith(bits, s) ==
    /\ Len(s) <= Len(bits)
    /\ \A i \in 1..Len(s) : bits[Len(bits) - Len(s) + i] = s[i]
Header(opcode, address) == << 1 >> \o opcode \o address

LEMMA EepromWidths ==
    AddressBits \in Nat /\ DataBits \in Nat /\ AddressBits >= 2 /\ DataBits >= 1
  BY Model1EepromAssumption

LEMMA LastOfLong ==
    ASSUME NEW bits \in Seq(Bit), NEW n \in Nat
    PROVE  /\ LastBits(bits, n) \in Seq(Bit)
           /\ Len(LastBits(bits, n)) = IF n < Len(bits) THEN n ELSE Len(bits)
           /\ \A i \in 1..Len(LastBits(bits, n)) :
                  LastBits(bits, n)[i] = bits[Len(bits) - Len(LastBits(bits, n)) + i]
  <1>1. CASE n < Len(bits)
    <2>1. LastBits(bits, n) = SubSeq(bits, Len(bits) - n + 1, Len(bits))
      BY <1>1 DEF LastBits
    <2> QED
      BY <1>1, <2>1
  <1>2. CASE ~(n < Len(bits))
    <2>1. LastBits(bits, n) = bits
      BY <1>2 DEF LastBits
    <2> QED
      BY <1>2, <2>1
  <1> QED
    BY <1>1, <1>2

(* One more bit is one more bit of what was spelt so far.                      *)
LEMMA OneMoreBit ==
    ASSUME NEW bits \in Seq(Bit), NEW s \in Seq(Bit), NEW di \in Bit, NEW n \in Nat,
           EndsWith(bits, s), Len(s) < n
    PROVE  /\ LastBits(Append(bits, di), n) \in Seq(Bit)
           /\ EndsWith(LastBits(Append(bits, di), n), Append(s, di))
  <1>1. PICK more : more = Append(bits, di)
    OBVIOUS
  <1>a. more \in Seq(Bit)
    BY <1>1
  <1>2. Len(more) = Len(bits) + 1 /\ more[Len(more)] = di /\ \A i \in 1..Len(bits) : more[i] = bits[i]
    BY <1>1
  <1>3. PICK last \in Seq(Bit) : last = LastBits(more, n)
    BY <1>a, LastOfLong
  <1>4. /\ Len(last) = IF n < Len(more) THEN n ELSE Len(more)
        /\ \A i \in 1..Len(last) : last[i] = more[Len(more) - Len(last) + i]
    BY <1>3, <1>a, LastOfLong
  <1>5. PICK t : t = Append(s, di)
    OBVIOUS
  <1>b. t \in Seq(Bit)
    BY <1>5
  <1>6. Len(t) = Len(s) + 1 /\ t[Len(t)] = di /\ \A i \in 1..Len(s) : t[i] = s[i]
    BY <1>5
  <1>7. Len(s) <= Len(bits) /\ \A i \in 1..Len(s) : bits[Len(bits) - Len(s) + i] = s[i]
    BY DEF EndsWith
  <1>8. Len(t) <= Len(last)
    BY <1>2, <1>4, <1>6, <1>7
  <1>9. ASSUME NEW i \in 1..Len(t) PROVE last[Len(last) - Len(t) + i] = t[i]
    <2>1. last[Len(last) - Len(t) + i] = more[Len(more) - Len(t) + i]
      <3>1. Len(last) - Len(t) + i \in 1..Len(last)
        BY <1>6, <1>8, <1>b
      <3>2. Len(more) - Len(last) + (Len(last) - Len(t) + i) = Len(more) - Len(t) + i
        BY <1>a, <1>b
      <3> QED
        BY <1>4, <3>1, <3>2
    <2>2. CASE i = Len(t)
      BY <1>2, <1>6, <2>1, <2>2
    <2>3. CASE i # Len(t)
      <3>1. i \in 1..Len(s) /\ Len(more) - Len(t) + i = Len(bits) - Len(s) + i
        BY <1>2, <1>6, <2>3
      <3>2. Len(bits) - Len(s) + i \in 1..Len(bits)
        BY <1>7, <3>1
      <3> QED
        BY <1>2, <1>6, <1>7, <2>1, <3>1, <3>2
    <2> QED
      BY <2>2, <2>3
  <1> QED
    BY <1>1, <1>3, <1>5, <1>8, <1>9 DEF EndsWith

(* What was spelt last is what the last bits are.                              *)
LEMMA SpeltLast ==
    ASSUME NEW bits \in Seq(Bit), NEW s \in Seq(Bit), EndsWith(bits, s)
    PROVE  Len(bits) >= Len(s) /\ LastBits(bits, Len(s)) = s
  <1>1. Len(s) <= Len(bits)
    BY DEF EndsWith
  <1>2. PICK last \in Seq(Bit) : last = LastBits(bits, Len(s))
    BY LastOfLong
  <1>3. Len(last) = Len(s) /\ \A i \in 1..Len(last) : last[i] = bits[Len(bits) - Len(last) + i]
    BY <1>1, <1>2, LastOfLong
  <1>4. \A i \in 1..Len(s) : last[i] = s[i]
    BY <1>3 DEF EndsWith
  <1>5. last = s
    BY <1>3, <1>4
  <1> QED
    BY <1>1, <1>2, <1>5

(* A word after its header: the word is last, and the header before it.        *)
LEMMA SpeltBefore ==
    ASSUME NEW bits \in Seq(Bit), NEW h \in Seq(Bit), NEW w \in Seq(Bit), EndsWith(bits, h \o w)
    PROVE  /\ EndsWith(bits, w)
           /\ SubSeq(bits, 1, Len(bits) - Len(w)) \in Seq(Bit)
           /\ EndsWith(SubSeq(bits, 1, Len(bits) - Len(w)), h)
  <1>1. PICK hw : hw = h \o w
    OBVIOUS
  <1>a. hw \in Seq(Bit)
    BY <1>1
  <1>2. /\ Len(hw) = Len(h) + Len(w)
        /\ \A i \in 1..Len(h) : hw[i] = h[i]
        /\ \A i \in 1..Len(w) : hw[Len(h) + i] = w[i]
    BY <1>1
  <1>3. Len(hw) <= Len(bits) /\ \A i \in 1..Len(hw) : bits[Len(bits) - Len(hw) + i] = hw[i]
    BY <1>1 DEF EndsWith
  <1>4. EndsWith(bits, w)
    <2>1. Len(w) <= Len(bits)
      BY <1>2, <1>3
    <2>2. ASSUME NEW i \in 1..Len(w) PROVE bits[Len(bits) - Len(w) + i] = w[i]
      <3>1. Len(h) + i \in 1..Len(hw) /\ Len(bits) - Len(hw) + (Len(h) + i) = Len(bits) - Len(w) + i
        BY <1>2
      <3> QED
        BY <1>2, <1>3, <3>1
    <2> QED
      BY <2>1, <2>2 DEF EndsWith
  <1>b. Len(w) <= Len(bits)
    BY <1>4 DEF EndsWith
  <1>5. PICK before : before = SubSeq(bits, 1, Len(bits) - Len(w))
    OBVIOUS
  <1>c. before \in Seq(Bit)
    BY <1>b, <1>5
  <1>6. Len(before) = Len(bits) - Len(w) /\ \A i \in 1..Len(before) : before[i] = bits[i]
    BY <1>2, <1>3, <1>5
  <1>7. EndsWith(before, h)
    <2>1. Len(h) <= Len(before)
      BY <1>2, <1>3, <1>6
    <2>2. ASSUME NEW i \in 1..Len(h) PROVE before[Len(before) - Len(h) + i] = h[i]
      <3>1. i \in 1..Len(hw) /\ Len(bits) - Len(hw) + i = Len(before) - Len(h) + i
        BY <1>2, <1>6
      <3>2. Len(before) - Len(h) + i \in 1..Len(before)
        BY <2>1
      <3> QED
        BY <1>2, <1>3, <1>6, <3>1, <3>2
    <2> QED
      BY <2>1, <2>2 DEF EndsWith
  <1> QED
    BY <1>4, <1>5, <1>7

(* A word of bits is a function of its places.                                 *)
LEMMA WordOfBits ==
    ASSUME NEW s \in Seq(Bit), NEW n \in Nat, Len(s) = n
    PROVE  s \in [1..n -> Bit]
  OBVIOUS

(* The command of which the last bit comes now.                                *)
Spells(command, di, opcode, address) ==
    opcode = SubSeq(command, 2, 3) /\ address = Append(SubSeq(command, 4, 2 + AddressBits), di)
LEMMA CommandSpelt ==
    ASSUME NEW command \in Seq(Bit), Len(command) = 2 + AddressBits, command[1] = 1, NEW di \in Bit,
           NEW opcode, NEW address, Spells(command, di, opcode, address)
    PROVE  /\ opcode \in Seq(Bit) /\ address \in Seq(Bit) /\ Len(address) = AddressBits
           /\ address \in Addresses /\ Len(opcode) = 2
           /\ Append(command, di) = Header(opcode, address) /\ Header(opcode, address) \in Seq(Bit)
           /\ Len(Header(opcode, address)) = 3 + AddressBits
  <1> USE EepromWidths DEF Spells
  <1>1. opcode \in Seq(Bit) /\ Len(opcode) = 2 /\ opcode[1] = command[2] /\ opcode[2] = command[3]
    OBVIOUS
  <1>2. PICK first : first = SubSeq(command, 4, 2 + AddressBits)
    OBVIOUS
  <1>3. /\ first \in Seq(Bit) /\ Len(first) = AddressBits - 1
        /\ \A i \in 1..(AddressBits - 1) : first[i] = command[3 + i]
    BY <1>2
  <1>4. /\ address \in Seq(Bit) /\ Len(address) = AddressBits /\ address[AddressBits] = di
        /\ \A i \in 1..(AddressBits - 1) : address[i] = command[3 + i]
    BY <1>2, <1>3
  <1>5. PICK start : start = << 1 >> \o opcode
    OBVIOUS
  <1>6. start \in Seq(Bit) /\ Len(start) = 3 /\ start[1] = 1 /\ start[2] = opcode[1] /\ start[3] = opcode[2]
    BY <1>1, <1>5 DEF Bit
  <1>7. PICK header : header = start \o address
    OBVIOUS
  <1>8. /\ header \in Seq(Bit) /\ Len(header) = 3 + AddressBits
        /\ \A i \in 1..3 : header[i] = start[i]
        /\ \A i \in 1..AddressBits : header[3 + i] = address[i]
    <2>1. \A a, b \in Seq(Bit) :
              /\ a \o b \in Seq(Bit) /\ Len(a \o b) = Len(a) + Len(b)
              /\ \A i \in 1..Len(a) : (a \o b)[i] = a[i]
              /\ \A k \in 1..Len(b) : (a \o b)[Len(a) + k] = b[k]
      OBVIOUS
    <2>2. start \in Seq(Bit) /\ address \in Seq(Bit)
      BY <1>4, <1>6
    <2>3. /\ header \in Seq(Bit) /\ Len(header) = Len(start) + Len(address)
          /\ \A i \in 1..Len(start) : header[i] = start[i]
          /\ \A i \in 1..Len(address) : header[Len(start) + i] = address[i]
      BY <1>7, <2>1, <2>2
    <2> QED
      BY <1>4, <1>6, <2>3
  <1>9. PICK full : full = Append(command, di)
    OBVIOUS
  <1>10. /\ full \in Seq(Bit) /\ Len(full) = 3 + AddressBits /\ full[3 + AddressBits] = di
         /\ \A i \in 1..(2 + AddressBits) : full[i] = command[i]
    BY <1>9
  <1>11. ASSUME NEW i \in 1..(3 + AddressBits) PROVE full[i] = header[i]
    <2>1. CASE i \in 1..3
      BY <1>1, <1>6, <1>8, <1>10, <2>1
    <2>2. CASE i = 3 + AddressBits
      BY <1>4, <1>8, <1>10, <2>2
    <2>3. CASE i \in 4..(2 + AddressBits)
      <3>1. PICK k \in 1..(AddressBits - 1) : i = 3 + k
        BY <2>3
      <3>2. k \in 1..AddressBits
        OBVIOUS
      <3>3. address[k] = command[3 + k] /\ header[3 + k] = address[k]
        BY <1>4, <1>8, <3>2
      <3> QED
        BY <1>10, <2>3, <3>1, <3>3
    <2> QED
      BY <2>1, <2>2, <2>3
  <1>12. full = header
    BY <1>8, <1>10, <1>11
  <1> QED
    BY <1>1, <1>4, <1>5, <1>7, <1>8, <1>9, <1>12, WordOfBits DEF Header, Addresses

EepromTypes ==
    /\ m1eLines \in Lines /\ m1eEnabled \in BOOLEAN
    /\ m1eCommand \in Seq(Bit) /\ Len(m1eCommand) <= 2 + AddressBits
    /\ m1eReadBits \in Nat /\ m1eWriteBits \in 0..DataBits
    /\ m1eWriting \in Seq(Bit) /\ m1eAddress \in Seq(Bit) /\ Len(m1eAddress) = AddressBits
    /\ m1eBits \in Seq(Bit) /\ m1eWords = [a \in Addresses |-> m1eWords[a]]

(* The bits of one selection spell the command under way, from its start bit,  *)
(* or a write with as much of its word as has come.                           *)
CommandUnderWay ==
    m1eCommand # << >> => /\ m1eReadBits = 0 /\ m1eWriteBits = 0
                          /\ EndsWith(m1eBits, m1eCommand) /\ m1eCommand[1] = 1
WriteUnderWay ==
    m1eWriteBits > 0 => /\ m1eReadBits = 0 /\ Len(m1eWriting) = DataBits - m1eWriteBits
                        /\ EndsWith(m1eBits, Header(<< 0, 1 >>, m1eAddress) \o m1eWriting)
M1eInv == EepromTypes /\ CommandUnderWay /\ WriteUnderWay

LEMMA M1eBegins == M1eInit => M1eInv
  <1> SUFFICES ASSUME M1eInit PROVE M1eInv
    OBVIOUS
  <1> USE EepromWidths
  <1>1. m1eAddress \in Seq(Bit) /\ Len(m1eAddress) = AddressBits
    <2>1. m1eAddress = [b \in 1..AddressBits |-> 0]
      BY DEF M1eInit
    <2>2. m1eAddress \in [1..AddressBits -> Bit]
      BY <2>1 DEF Bit
    <2> QED
      BY <2>1, <2>2
  <1>2. m1eLines \in Lines
    BY DEF M1eInit, Lines, PinsLow, Bit
  <1>3. m1eWords = [a \in Addresses |-> m1eWords[a]]
    BY DEF M1eInit
  <1>4. m1eBits = << >> /\ m1eCommand = << >> /\ m1eWriting = << >> /\ m1eReadBits = 0 /\ m1eWriteBits = 0
        /\ m1eEnabled = FALSE
    BY DEF M1eInit
  <1>5. m1eCommand \in Seq(Bit) /\ Len(m1eCommand) <= 2 + AddressBits /\ m1eWriting \in Seq(Bit) /\ m1eBits \in Seq(Bit)
    BY <1>4
  <1>8. m1eReadBits \in Nat /\ m1eWriteBits \in 0..DataBits
    BY <1>4
  <1>9. m1eEnabled \in BOOLEAN
    BY <1>4, Zenon
  <1>6. EepromTypes
    BY <1>1, <1>2, <1>3, <1>5, <1>8, <1>9 DEF EepromTypes
  <1>7. CommandUnderWay /\ WriteUnderWay
    BY <1>4 DEF CommandUnderWay, WriteUnderWay
  <1> QED
    BY <1>6, <1>7 DEF M1eInv

(* What a header spells is a command.                                          *)
LEMMA HeaderIsCommand ==
    ASSUME NEW bits \in Seq(Bit), NEW opcode, NEW address, Header(opcode, address) \in Seq(Bit),
           Len(Header(opcode, address)) = 3 + AddressBits, EndsWith(bits, Header(opcode, address))
    PROVE  CommandJust(bits, opcode, address)
  BY SpeltLast, EepromWidths DEF CommandJust, Header

LEMMA M1eSteps ==
    ASSUME M1eInv, NEW lines \in Lines, SetEepromLines(lines)
    PROVE  M1eInv' /\ Clocked
  <1> USE EepromWidths
  <1>t. EepromTypes /\ CommandUnderWay /\ WriteUnderWay
    BY DEF M1eInv
  <1>l. m1eLines' \in Lines
    BY DEF SetEepromLines
  <1>s. ASSUME UNCHANGED m1eShift PROVE M1eInv' /\ Clocked
    <2>1. UNCHANGED << m1eWords, m1eEnabled, m1eCommand, m1eReadBits, m1eWriting, m1eWriteBits, m1eAddress, m1eBits >>
      BY <1>s DEF m1eShift
    <2>2. EepromTypes'
      BY <1>t, <1>l, <2>1 DEF EepromTypes
    <2>3. (CommandUnderWay /\ WriteUnderWay)'
      BY <1>t, <2>1 DEF CommandUnderWay, WriteUnderWay
    <2> QED
      BY <2>1, <2>2, <2>3 DEF M1eInv, Clocked
  <1>1. CASE ~lines.cs
    <2>1. Deselect
      BY <1>1 DEF SetEepromLines
    <2>2. /\ m1eCommand' = << >> /\ m1eReadBits' = 0 /\ m1eWriteBits' = 0 /\ m1eBits' = << >>
          /\ UNCHANGED << m1eWords, m1eEnabled, m1eWriting, m1eAddress >>
      BY <2>1 DEF Deselect, WriteBitsLeft
    <2>3. m1eCommand' \in Seq(Bit) /\ Len(m1eCommand') <= 2 + AddressBits /\ m1eBits' \in Seq(Bit)
      BY <2>2
    <2>4. m1eReadBits' \in Nat /\ m1eWriteBits' \in 0..DataBits
      BY <2>2
    <2>5. EepromTypes'
      BY <1>t, <1>l, <2>2, <2>3, <2>4 DEF EepromTypes
    <2>6. (CommandUnderWay /\ WriteUnderWay)'
      BY <2>2 DEF CommandUnderWay, WriteUnderWay
    <2> QED
      BY <2>2, <2>5, <2>6 DEF M1eInv, Clocked
  <1>2. CASE lines.cs /\ ~m1eLines.clock /\ lines.clock
    <2> DEFINE di == lines.di
               bits == LastBits(Append(m1eBits, di), 3 + AddressBits + DataBits)
    <2>1. RisingEdge(di) /\ m1eBits' = bits
      BY <1>2 DEF SetEepromLines
    <2>d. di \in Bit
      BY DEF Lines
    <2>b. Append(m1eBits, di) \in Seq(Bit) /\ bits \in Seq(Bit)
      <3>1. Append(m1eBits, di) \in Seq(Bit)
        BY <1>t, <2>d DEF EepromTypes
      <3>2. 3 + AddressBits + DataBits \in Nat
        OBVIOUS
      <3> QED
        BY <3>1, <3>2, LastOfLong
    <2>m. ASSUME NEW s \in Seq(Bit), EndsWith(m1eBits, s), Len(s) < 3 + AddressBits + DataBits
          PROVE  EndsWith(m1eBits', Append(s, di))
      <3>1. m1eBits \in Seq(Bit) /\ 3 + AddressBits + DataBits \in Nat
        BY <1>t DEF EepromTypes
      <3>2. EndsWith(bits, Append(s, di))
        BY <2>m, <2>d, <3>1, OneMoreBit
      <3> QED
        BY <2>1, <3>2
    <2> HIDE DEF bits, di
    <2>2. CASE ReadBit
      <3>1. /\ m1eReadBits > 0 /\ m1eReadBits' = m1eReadBits - 1
            /\ UNCHANGED << m1eWords, m1eEnabled, m1eCommand, m1eWriting, m1eWriteBits, m1eAddress >>
        BY <2>2 DEF ReadBit
      <3>2. m1eReadBits' \in Nat
        BY <1>t, <3>1 DEF EepromTypes
      <3>3. m1eCommand = << >> /\ m1eWriteBits = 0
        BY <1>t, <3>1 DEF CommandUnderWay, WriteUnderWay, EepromTypes
      <3>4. EepromTypes'
        BY <1>t, <1>l, <2>1, <2>b, <3>1, <3>2 DEF EepromTypes
      <3>5. (CommandUnderWay /\ WriteUnderWay)'
        BY <3>1, <3>3 DEF CommandUnderWay, WriteUnderWay
      <3> QED
        BY <3>1, <3>4, <3>5 DEF M1eInv, Clocked
    <2>3. CASE WriteBit(di)
      <3> DEFINE header == Header(<< 0, 1 >>, m1eAddress)
      <3>1. /\ m1eReadBits = 0 /\ m1eWriteBits > 0 /\ m1eWriteBits' = m1eWriteBits - 1
            /\ m1eWriting' = Append(m1eWriting, di)
            /\ m1eWords' = IF m1eWriteBits = 1 /\ m1eEnabled THEN [m1eWords EXCEPT ![m1eAddress] = m1eWriting']
                            ELSE m1eWords
            /\ UNCHANGED << m1eEnabled, m1eCommand, m1eReadBits, m1eAddress >>
        BY <2>3 DEF WriteBit
      <3>2. /\ Len(m1eWriting) = DataBits - m1eWriteBits /\ EndsWith(m1eBits, header \o m1eWriting)
            /\ m1eCommand = << >> /\ m1eWriting \in Seq(Bit) /\ m1eAddress \in Seq(Bit)
            /\ Len(m1eAddress) = AddressBits
        BY <1>t, <3>1 DEF CommandUnderWay, WriteUnderWay, EepromTypes
      <3>3. header \in Seq(Bit) /\ Len(header) = 3 + AddressBits
        <4>1. << 0, 1 >> \in Seq(Bit) /\ << 1 >> \in Seq(Bit)
          BY DEF Bit
        <4>2. \A a, b \in Seq(Bit) : a \o b \in Seq(Bit) /\ Len(a \o b) = Len(a) + Len(b)
          OBVIOUS
        <4>3. << 1 >> \o << 0, 1 >> \in Seq(Bit) /\ Len(<< 1 >> \o << 0, 1 >>) = 3
          BY <4>1, <4>2
        <4>4. header = (<< 1 >> \o << 0, 1 >>) \o m1eAddress
          BY DEF Header
        <4> QED
          BY <3>2, <4>2, <4>3, <4>4
      <3> HIDE DEF header
      <3>4. /\ m1eWriting' \in Seq(Bit) /\ Len(m1eWriting') = Len(m1eWriting) + 1
            /\ header \o m1eWriting \in Seq(Bit) /\ Len(header \o m1eWriting) = 3 + AddressBits + Len(m1eWriting)
            /\ Append(header \o m1eWriting, di) = header \o m1eWriting'
        <4>1. \A a \in Seq(Bit) : Append(a, di) \in Seq(Bit) /\ Len(Append(a, di)) = Len(a) + 1
          BY <2>d
        <4>2. \A a, b \in Seq(Bit) : a \o b \in Seq(Bit) /\ Len(a \o b) = Len(a) + Len(b)
          OBVIOUS
        <4>3. \A a, b \in Seq(Bit) : Append(a \o b, di) = a \o Append(b, di)
          BY <2>d
        <4> QED
          BY <3>1, <3>2, <3>3, <4>1, <4>2, <4>3
      <3>5. Len(m1eWriting) < DataBits
        BY <1>t, <3>1, <3>2 DEF EepromTypes
      <3>6. Len(header \o m1eWriting) < 3 + AddressBits + DataBits
        BY <3>2, <3>4, <3>5
      <3>7. EndsWith(m1eBits', header \o m1eWriting')
        BY <2>m, <3>2, <3>4, <3>6
      <3>8. m1eWriteBits' \in 0..DataBits /\ Len(m1eWriting') = DataBits - m1eWriteBits'
        BY <1>t, <3>1, <3>2, <3>4 DEF EepromTypes
      <3>9. m1eWords' = [a \in Addresses |-> m1eWords'[a]]
        BY <1>t, <3>1 DEF EepromTypes
      <3>10. M1eInv'
        <4>1. EepromTypes'
          BY <1>t, <1>l, <2>1, <2>b, <3>1, <3>4, <3>8, <3>9 DEF EepromTypes
        <4>2. CommandUnderWay'
          BY <3>1, <3>2 DEF CommandUnderWay
        <4>3. WriteUnderWay'
          BY <3>1, <3>7, <3>8 DEF WriteUnderWay, header
        <4> QED
          BY <4>1, <4>2, <4>3 DEF M1eInv
      <3>11. ASSUME NEW a \in Addresses, m1eWords'[a] # m1eWords[a]
             PROVE  /\ m1eEnabled /\ Len(m1eBits') > DataBits /\ m1eWords'[a] = LastBits(m1eBits', DataBits)
                    /\ CommandJust(SubSeq(m1eBits', 1, Len(m1eBits') - DataBits), << 0, 1 >>, a)
        <4>1. m1eWriteBits = 1 /\ m1eEnabled /\ a = m1eAddress /\ m1eWords'[a] = m1eWriting'
          BY <1>t, <3>1, <3>11 DEF EepromTypes
        <4>2. Len(m1eWriting') = DataBits
          BY <3>1, <3>8, <4>1
        <4>3. PICK sent : sent = m1eBits'
          OBVIOUS
        <4>4. PICK word : word = m1eWriting'
          OBVIOUS
        <4>5. sent \in Seq(Bit) /\ word \in Seq(Bit) /\ Len(word) = DataBits /\ EndsWith(sent, header \o word)
          BY <2>1, <2>b, <3>4, <3>7, <4>2, <4>3, <4>4
        <4>6. /\ EndsWith(sent, word) /\ SubSeq(sent, 1, Len(sent) - DataBits) \in Seq(Bit)
              /\ EndsWith(SubSeq(sent, 1, Len(sent) - DataBits), header)
          BY <3>3, <4>5, SpeltBefore
        <4>7. LastBits(sent, DataBits) = word
          BY <4>5, <4>6, SpeltLast
        <4>8. CommandJust(SubSeq(sent, 1, Len(sent) - DataBits), << 0, 1 >>, a)
          BY <3>3, <4>1, <4>6, HeaderIsCommand DEF header
        <4>9. Len(sent) > DataBits
          <5>1. \A b, c \in Seq(Bit) : Len(b \o c) = Len(b) + Len(c)
            OBVIOUS
          <5>2. Len(header \o word) <= Len(sent)
            BY <4>5 DEF EndsWith
          <5>3. Len(header \o word) = 3 + AddressBits + DataBits
            BY <3>3, <4>5, <5>1
          <5> QED
            BY <4>5, <5>2, <5>3
        <4> QED
          BY <4>1, <4>3, <4>4, <4>7, <4>8, <4>9
      <3> QED
        BY <3>1, <3>10, <3>11 DEF Clocked
    <2>4. CASE CommandBit(di)
      <3>1. m1eReadBits = 0 /\ m1eWriteBits = 0
        BY <2>4 DEF CommandBit
      <3>e. EndsWith(m1eBits, m1eCommand)
        BY <1>t DEF CommandUnderWay, EepromTypes, EndsWith
      <3>f. m1eCommand # << >> => m1eCommand[1] = 1
        BY <1>t DEF CommandUnderWay
      <3>2. CASE m1eCommand = << >> /\ di = 0
        <4>1. UNCHANGED << m1eWords, m1eEnabled, m1eCommand, m1eReadBits, m1eWriting, m1eWriteBits, m1eAddress >>
          BY <2>4, <3>2 DEF CommandBit
        <4>2. EepromTypes'
          BY <1>t, <1>l, <2>1, <2>b, <4>1 DEF EepromTypes
        <4>3. (CommandUnderWay /\ WriteUnderWay)'
          BY <3>1, <3>2, <4>1 DEF CommandUnderWay, WriteUnderWay
        <4> QED
          BY <4>1, <4>2, <4>3 DEF M1eInv, Clocked
      <3>3. CASE ~(m1eCommand = << >> /\ di = 0) /\ Len(m1eCommand) < 2 + AddressBits
        <4>1. /\ m1eCommand' = Append(m1eCommand, di)
              /\ UNCHANGED << m1eWords, m1eEnabled, m1eReadBits, m1eWriting, m1eWriteBits, m1eAddress >>
          BY <2>4, <3>3 DEF CommandBit
        <4>2. m1eCommand' \in Seq(Bit) /\ Len(m1eCommand') <= 2 + AddressBits
          BY <1>t, <2>d, <3>3, <4>1 DEF EepromTypes
        <4>3. m1eCommand'[1] = 1
          <5>1. CASE m1eCommand = << >>
            BY <2>d, <3>3, <4>1, <5>1 DEF Bit
          <5>2. CASE m1eCommand # << >>
            <6>1. m1eCommand \in Seq(Bit) /\ Len(m1eCommand) > 0
              BY <1>t, <5>2 DEF EepromTypes
            <6> QED
              BY <2>d, <3>f, <4>1, <5>2, <6>1
          <5> QED
            BY <5>1, <5>2
        <4>4. EndsWith(m1eBits', m1eCommand')
          <5>1. m1eCommand \in Seq(Bit) /\ Len(m1eCommand) < 3 + AddressBits + DataBits
            BY <1>t, <3>3 DEF EepromTypes
          <5> QED
            BY <2>m, <3>e, <4>1, <5>1
        <4>5. EepromTypes'
          BY <1>t, <1>l, <2>1, <2>b, <4>1, <4>2 DEF EepromTypes
        <4>6. (CommandUnderWay /\ WriteUnderWay)'
          BY <3>1, <4>1, <4>3, <4>4 DEF CommandUnderWay, WriteUnderWay
        <4> QED
          BY <4>1, <4>5, <4>6 DEF M1eInv, Clocked
      <3>4. CASE ~(m1eCommand = << >> /\ di = 0) /\ ~(Len(m1eCommand) < 2 + AddressBits)
        <4> DEFINE op == SubSeq(m1eCommand, 2, 3)
                   ad == Append(SubSeq(m1eCommand, 4, 2 + AddressBits), di)
        <4>1. m1eCommand' = << >> /\ Obey(op, ad)
          BY <2>4, <3>4 DEF CommandBit
        <4>2. m1eCommand \in Seq(Bit) /\ Len(m1eCommand) = 2 + AddressBits /\ m1eCommand # << >>
          BY <1>t, <3>4 DEF EepromTypes
        <4>3. PICK opcode, address : opcode = op /\ address = ad
          OBVIOUS
        <4>4. Obey(opcode, address)
          BY <4>1, <4>3
        <4>5. /\ address \in Seq(Bit) /\ Len(address) = AddressBits /\ address \in Addresses
              /\ Append(m1eCommand, di) = Header(opcode, address) /\ Header(opcode, address) \in Seq(Bit)
              /\ Len(Header(opcode, address)) = 3 + AddressBits
          <5> HIDE DEF op, ad
          <5>1. Spells(m1eCommand, di, opcode, address)
            BY <4>3 DEF op, ad, Spells
          <5>2. m1eCommand[1] = 1
            BY <3>f, <4>2
          <5> QED
            BY <2>d, <4>2, <5>1, <5>2, CommandSpelt
        <4> HIDE DEF op, ad
        <4>6. EndsWith(m1eBits', Header(opcode, address))
          <5>1. Len(m1eCommand) < 3 + AddressBits + DataBits
            BY <4>2
          <5> QED
            BY <2>m, <3>e, <4>2, <4>5, <5>1
        <4>7. CommandJust(m1eBits', opcode, address)
          <5>1. PICK sent : sent = m1eBits'
            OBVIOUS
          <5>2. sent \in Seq(Bit) /\ EndsWith(sent, Header(opcode, address))
            BY <2>1, <2>b, <4>6, <5>1
          <5>3. CommandJust(sent, opcode, address)
            BY <4>5, <5>2, HeaderIsCommand
          <5> QED
            BY <5>1, <5>3
        <4>8. m1eReadBits' \in Nat /\ (m1eReadBits' # 0 => opcode = << 1, 0 >>)
          BY <3>1, <4>4 DEF Obey
        <4>9. /\ m1eAddress' \in Seq(Bit) /\ Len(m1eAddress') = AddressBits /\ m1eWriting' \in Seq(Bit)
              /\ m1eWriteBits' \in 0..DataBits
              /\ m1eWriteBits' > 0 =>
                    opcode = << 0, 1 >> /\ m1eAddress' = address /\ m1eWriting' = << >> /\ m1eWriteBits' = DataBits
          <5>1. CASE opcode = << 0, 1 >>
            <6>1. m1eAddress' = address /\ m1eWriting' = << >> /\ m1eWriteBits' = DataBits
              BY <4>4, <5>1 DEF Obey
            <6>2. << >> \in Seq(Bit) /\ DataBits \in 0..DataBits
              OBVIOUS
            <6> QED
              BY <4>5, <5>1, <6>1, <6>2
          <5>2. CASE opcode # << 0, 1 >>
            <6>1. UNCHANGED << m1eAddress, m1eWriting, m1eWriteBits >>
              BY <4>4, <5>2 DEF Obey
            <6> QED
              BY <1>t, <3>1, <6>1 DEF EepromTypes
          <5> QED
            BY <5>1, <5>2
        <4>10. /\ m1eWords' = [a \in Addresses |-> m1eWords'[a]]
               /\ \A a \in Addresses : m1eWords'[a] # m1eWords[a] =>
                     m1eEnabled /\ opcode = << 1, 1 >> /\ a = address /\ m1eWords'[a] = Ones
          BY <1>t, <4>4, <4>5 DEF Obey, EepromTypes
        <4>11. /\ m1eEnabled' \in BOOLEAN
               /\ ~m1eEnabled /\ m1eEnabled' => opcode = << 0, 0 >> /\ address[1] = 1 /\ address[2] = 1
          <5>1. m1eEnabled' = IF opcode = << 0, 0 >> /\ address[1] = address[2] THEN address[1] = 1 ELSE m1eEnabled
            BY <4>4 DEF Obey
          <5>2. m1eEnabled \in BOOLEAN
            BY <1>t DEF EepromTypes
          <5> QED
            BY <5>1, <5>2, Zenon
        <4>12. EepromTypes'
          <5>1. m1eCommand' \in Seq(Bit) /\ Len(m1eCommand') <= 2 + AddressBits
            BY <4>1
          <5> QED
            BY <1>l, <2>1, <2>b, <4>8, <4>9, <4>10, <4>11, <5>1 DEF EepromTypes
        <4>13. CommandUnderWay'
          BY <4>1 DEF CommandUnderWay
        <4>14. WriteUnderWay'
          <5>1. SUFFICES ASSUME m1eWriteBits' > 0
                         PROVE  /\ m1eReadBits' = 0 /\ Len(m1eWriting') = DataBits - m1eWriteBits'
                                /\ EndsWith(m1eBits', Header(<< 0, 1 >>, m1eAddress') \o m1eWriting')
            BY DEF WriteUnderWay
          <5>2. opcode = << 0, 1 >> /\ m1eAddress' = address /\ m1eWriting' = << >> /\ m1eWriteBits' = DataBits
            BY <4>9, <5>1
          <5>3. m1eReadBits' = 0
            BY <4>8, <5>2
          <5>4. Header(opcode, address) \o << >> = Header(opcode, address)
            BY <4>5
          <5>5. EndsWith(m1eBits', Header(opcode, address) \o << >>)
            BY <4>6, <5>4
          <5>6. Len(m1eWriting') = DataBits - m1eWriteBits'
            BY <5>2
          <5> QED
            BY <5>2, <5>3, <5>5, <5>6
        <4>15. Clocked
          BY <4>5, <4>7, <4>10, <4>11 DEF Clocked
        <4> QED
          BY <4>12, <4>13, <4>14, <4>15 DEF M1eInv
      <3> QED
        BY <3>2, <3>3, <3>4
    <2> QED
      BY <2>1, <2>2, <2>3, <2>4 DEF RisingEdge
  <1>3. CASE lines.cs /\ ~(~m1eLines.clock /\ lines.clock)
    BY <1>3, <1>s DEF SetEepromLines
  <1> QED
    BY <1>1, <1>2, <1>3

LEMMA M1eKept == M1eInv /\ [M1eNext]_m1evars => M1eInv'
  <1>1. ASSUME M1eInv, UNCHANGED m1evars PROVE M1eInv'
    BY <1>1 DEF m1evars, m1eShift, M1eInv, EepromTypes, CommandUnderWay, WriteUnderWay
  <1> QED
    BY <1>1, M1eSteps DEF M1eNext

(* Every step changes the words as the bits just clocked say.                  *)
LEMMA M1eClocked == M1eInv /\ [M1eNext]_m1evars => [Clocked]_m1evars
  BY M1eSteps DEF M1eNext

-----------------------------------------------------------------------------
(* The frames of Model 1 on their way to the graphics worker.                  *)

(* A snapshot carries the banks that its own control and number lead to.       *)
TellsOf(job, number) == job.frame = number + 1 /\ job.told = AfterFrame(job.control, job.ready, number)
Rendering == IF m1vWorker = "render" THEN 1 ELSE 0
InQueue == IF m1vPending = NoJob THEN 0 ELSE 1

(* Every frame that was submitted is drawn, is being drawn, waits in the one   *)
(* place of the queue or is still in the thread's hands.                      *)
M1vInv ==
    /\ m1vSubmitted \in Nat /\ m1vNumber \in Nat
    /\ m1vWorker = "render" => TellsOf(m1vDrawn, m1vNumber)
    /\ m1vPending # NoJob => TellsOf(m1vPending, m1vNumber + Rendering)
    /\ m1vStep = "queue" => m1vSubmitted > 0 /\ TellsOf(m1vJob, m1vSubmitted - 1)
    /\ m1vStep = "run" => m1vSubmitted = m1vNumber + Rendering + InQueue
    /\ m1vStep = "queue" => m1vSubmitted = m1vNumber + Rendering + InQueue + 1

LEMMA M1vBegins == M1vInit => M1vInv
  BY DEF M1vInit, M1vInv, Rendering, InQueue

LEMMA M1vKept == M1vInv /\ [M1vNext]_m1vvars => M1vInv'
  <1> SUFFICES ASSUME M1vInv, [M1vNext]_m1vvars PROVE M1vInv'
    OBVIOUS
  <1>1. ASSUME NEW control \in Controls, NEW ready \in BOOLEAN, WriteTimingControl(control, ready) PROVE M1vInv'
    BY <1>1 DEF WriteTimingControl, m1vThread, M1vInv, Rendering, InQueue
  <1>2. CASE EndRaster
    <2>1. PICK told : told = AfterFrame(m1vControl, m1vReady, m1vSubmitted)
      OBVIOUS
    <2>2. /\ m1vJob' = [frame |-> m1vSubmitted + 1, control |-> m1vControl, ready |-> m1vReady, told |-> told]
          /\ m1vStep = "run" /\ m1vStep' = "queue" /\ m1vSubmitted' = m1vSubmitted + 1
          /\ UNCHANGED << m1vPending, m1vWorker, m1vDrawn, m1vNumber >>
      BY <1>2, <2>1 DEF EndRaster, m1vThread
    <2>3. m1vSubmitted \in Nat /\ m1vSubmitted + 1 - 1 = m1vSubmitted
      BY DEF M1vInv
    <2>4. TellsOf(m1vJob', m1vSubmitted)
      BY <2>1, <2>2 DEF TellsOf
    <2>5. TellsOf(m1vJob', m1vSubmitted' - 1)
      BY <2>2, <2>3, <2>4
    <2> QED
      BY <2>2, <2>3, <2>5 DEF M1vInv, Rendering, InQueue
  <1>3. CASE QueueFrame
    <2>1. /\ m1vPending = NoJob /\ m1vPending' = m1vJob /\ m1vStep = "queue" /\ m1vStep' = "run"
          /\ UNCHANGED << m1vSubmitted, m1vWorker, m1vDrawn, m1vNumber >>
      BY <1>3 DEF QueueFrame, MayQueue, m1vThread
    <2>2. m1vSubmitted - 1 = m1vNumber + Rendering /\ TellsOf(m1vJob, m1vSubmitted - 1) /\ m1vSubmitted \in Nat
      BY <2>1 DEF M1vInv, Rendering, InQueue
    <2>3. m1vJob # NoJob
      BY <2>1, <2>2 DEF M1vInv, TellsOf, NoJob
    <2>4. TellsOf(m1vPending', m1vNumber' + Rendering')
      BY <2>1, <2>2 DEF Rendering
    <2> QED
      BY <2>1, <2>2, <2>3, <2>4 DEF M1vInv, Rendering, InQueue
  <1>4. CASE Harvest
    BY <1>4 DEF Harvest, m1vThread, M1vInv, Rendering, InQueue
  <1>5. CASE StopVideo
    BY <1>5 DEF StopVideo, m1vThread, M1vInv, Rendering, InQueue
  <1>6. CASE Joined
    BY <1>6 DEF Joined, m1vThread, M1vInv, Rendering, InQueue
  <1>7. CASE TakeSnapshot
    BY <1>7 DEF TakeSnapshot, m1vSession, M1vInv, Rendering, InQueue
  <1>8. CASE RenderJob
    BY <1>8 DEF RenderJob, m1vSession, M1vInv, Rendering, InQueue
  <1>9. CASE WorkerEnds
    BY <1>9 DEF WorkerEnds, m1vSession, M1vInv, Rendering, InQueue
  <1>10. CASE UNCHANGED m1vvars
    BY <1>10 DEF m1vvars, m1vSession, m1vThread, M1vInv, Rendering, InQueue
  <1> QED
    BY <1>1, <1>2, <1>3, <1>4, <1>5, <1>6, <1>7, <1>8, <1>9, <1>10 DEF M1vNext

(* The worker comes to the banks that the program was told of.                 *)
BanksAsTold == m1vNumber' # m1vNumber => m1vListctl' = m1vDrawn.told
LEMMA M1vBanks == M1vInv /\ [M1vNext]_m1vvars => [BanksAsTold]_m1vvars
  <1> SUFFICES ASSUME M1vInv, M1vNext, m1vNumber' # m1vNumber PROVE m1vListctl' = m1vDrawn.told
    BY DEF BanksAsTold
  <1>1. RenderJob
    BY DEF M1vNext, WriteTimingControl, EndRaster, QueueFrame, Harvest, StopVideo, Joined, TakeSnapshot,
           WorkerEnds, m1vThread, m1vSession
  <1> QED
    BY <1>1 DEF RenderJob, M1vInv, TellsOf

-----------------------------------------------------------------------------
(* The sound board of Model 2.                                                 *)

Stages == { "off", "attack", "decay1", "decay2", "release" }
ScInv ==
    /\ scStruck \subseteq ScSlots
    /\ scVoice \in [ScSlots -> Stages]
    /\ scKey \in [ScSlots -> BOOLEAN]
    /\ LineAsPending
    /\ KeyedNotesSound

LEMMA ScBegins == ScInit => ScInv
  BY DEF ScInit, ScInv, LineAsPending, Line, KeyedNotesSound, Stages

LEMMA ScKept == ScInv /\ [ScNext]_scvars => ScInv'
  <1> SUFFICES ASSUME ScInv, [ScNext]_scvars PROVE ScInv'
    OBVIOUS
  <1>t. ASSUME Told(scPending'), UNCHANGED << scEnabled, scVoices >> PROVE ScInv'
    BY <1>t DEF Told, LineAsPending, Line, ScInv, scVoices, KeyedNotesSound
  <1>u. ASSUME UNCHANGED << scPending, scEnabled, scLine >> PROVE LineAsPending'
    BY <1>u DEF LineAsPending, Line, ScInv
  <1>1. CASE EnqueueMidi
    BY <1>1, <1>u DEF EnqueueMidi, scIrq, scVoices, ScInv, KeyedNotesSound
  <1>2. CASE TransportMidi
    BY <1>2, <1>t DEF TransportMidi, Told
  <1>3. CASE PopMidi
    BY <1>3, <1>t DEF PopMidi, AfterPop, Told
  <1>4. CASE TickTimers
    BY <1>4, <1>t DEF TickTimers, Told
  <1>5. ASSUME NEW sources \in SUBSET ScSources, WriteEnable(sources) PROVE ScInv'
    BY <1>5 DEF WriteEnable, LineAsPending, Line, ScInv, scVoices, KeyedNotesSound
  <1>6. ASSUME NEW sources \in SUBSET ScSources, ResetPending(sources) PROVE ScInv'
    BY <1>6, <1>t DEF ResetPending, Told
  <1>7. ASSUME NEW t \in ScTimers, NEW count \in 0..(ScTicks - 1), ArmTimer(t, count) PROVE ScInv'
    BY <1>7, <1>u DEF ArmTimer, scVoices, ScInv, KeyedNotesSound
  <1>8. ASSUME NEW slot \in ScSlots, NextStage(slot) PROVE ScInv'
    <2>1. /\ scVoice'[slot] = (CASE scVoice[slot] = "attack" -> "decay1" [] scVoice[slot] = "decay1" -> "decay2"
                                 [] scVoice[slot] = "release" -> "off")
          /\ scVoice[slot] \in {"attack", "decay1", "release"}
          /\ \A s \in ScSlots : s # slot => scVoice'[s] = scVoice[s]
          /\ scVoice' \in [ScSlots -> Stages]
      BY <1>8 DEF NextStage, ScInv, Stages
    <2>2. scStruck' = scStruck /\ scKey' = scKey /\ LineAsPending'
      BY <1>8, <1>u DEF NextStage, scIrq
    <2>3. ASSUME NEW s \in scStruck PROVE scVoice'[s] \notin {"off", "release"}
      <3>1. CASE s = slot
        <4>1. scVoice[s] \notin {"off", "release"}
          BY DEF ScInv, KeyedNotesSound
        <4>2. scVoice'[s] = "decay1" \/ scVoice'[s] = "decay2"
          BY <2>1, <3>1, <4>1
        <4> QED
          BY <4>2
      <3>2. CASE s # slot
        BY <2>1, <3>2 DEF ScInv, KeyedNotesSound
      <3> QED
        BY <3>1, <3>2
    <2>4. KeyedNotesSound'
      BY <2>2, <2>3 DEF KeyedNotesSound
    <2>5. scVoice' \in [ScSlots -> Stages]
      BY <2>1
    <2> QED
      BY <2>2, <2>4, <2>5 DEF ScInv
  <1>9. ASSUME NEW slot \in ScSlots, PlayedOut(slot) PROVE ScInv'
    BY <1>9, <1>u DEF PlayedOut, scIrq, ScInv, KeyedNotesSound, Stages
  <1>10. ASSUME NEW slot \in ScSlots, NEW on \in BOOLEAN, NEW execute \in BOOLEAN,
                WriteSlotControl(slot, on, execute)
         PROVE  ScInv'
    <2> DEFINE key == [scKey EXCEPT ![slot] = on]
               released == { s \in ScSlots : ~key[s] /\ scVoice[s] # "off" }
    <2>1. key \in [ScSlots -> BOOLEAN]
      BY DEF ScInv
    <2>2. CASE ~execute
      BY <1>10, <1>u, <2>1, <2>2 DEF WriteSlotControl, scIrq, ScInv, KeyedNotesSound
    <2>3. CASE execute
      <3>1. /\ scVoice' = [s \in ScSlots |-> IF Starts(key[s], scVoice[s]) THEN "attack"
                                             ELSE IF s \in released THEN "release" ELSE scVoice[s]]
            /\ scKey' = [s \in ScSlots |-> key[s] /\ s \notin released]
            /\ scStruck' = { s \in ScSlots : key[s] }
        BY <1>10, <2>3 DEF WriteSlotControl
      <3>2. scVoice' \in [ScSlots -> Stages] /\ scKey' \in [ScSlots -> BOOLEAN]
        BY <2>1, <3>1 DEF ScInv, Stages
      <3>3. ASSUME NEW s \in scStruck' PROVE scVoice'[s] \notin {"off", "release"}
        BY <3>1, <3>3 DEF Starts
      <3> QED
        BY <1>10, <1>u, <3>1, <3>2, <3>3 DEF WriteSlotControl, scIrq, ScInv, KeyedNotesSound
    <2> QED
      BY <2>2, <2>3
  <1>11. CASE UNCHANGED scvars
    BY <1>11, <1>u DEF scvars, scMidi, scIrq, scVoices, ScInv, KeyedNotesSound
  <1> QED
    BY <1>1, <1>2, <1>3, <1>4, <1>5, <1>6, <1>7, <1>8, <1>9, <1>10, <1>11 DEF ScNext

-----------------------------------------------------------------------------
(* What a Model 2 cabinet remembers.                                           *)

(* A record of the chip has three words, a set of files two.                   *)
AsRecord(words) == [sum |-> words.sum, link |-> words.link, rest |-> words.rest]
AsFiles(files) == [eeprom |-> files.eeprom, backup |-> files.backup]

(* What the chip and the disc hold, and what is marked to be saved.            *)
DiscInv ==
    /\ mnDirty \in BOOLEAN
    /\ mnFiles = AsFiles(mnFiles) /\ mnFiles.eeprom = AsRecord(mnFiles.eeprom)
    /\ mnWords = AsRecord(mnWords)
    /\ NothingUnmarked

(* How far the game has come with its record, and what of it is in the chip:   *)
(* the words behind it, unless the launcher has a role of its own.             *)
GameInv ==
    /\ mnGame = [record |-> mnGame.record, next |-> mnGame.next]
    /\ mnGame # Resting => mnGame.next \in 1..3 /\ Checked(mnGame.record)
    /\ mnGame # Resting /\ mnForced = NotForced /\ mnGame.next >= 2 => mnWords.sum = mnGame.record.sum
    /\ mnGame # Resting /\ mnForced = NotForced /\ mnGame.next = 3 => mnWords.link = mnGame.record.link
    /\ mnPending # NoWord => mnGame # Resting /\ mnPending = mnGame.next

MnInv == DiscInv /\ GameInv

LEMMA MnBegins == MnInit => MnInv
  <1> SUFFICES ASSUME MnInit PROVE MnInv
    OBVIOUS
  <1>1. DiscInv
    BY DEF MnInit, DiscInv, NothingUnmarked, Missing, Factory, Whole, AsRecord, AsFiles
  <1>2. GameInv
    BY DEF MnInit, GameInv, Resting, NoWord
  <1> QED
    BY <1>1, <1>2 DEF MnInv

LEMMA MnKept == MnInv /\ [MnNext]_mnvars => MnInv'
  <1> SUFFICES ASSUME MnInv, [MnNext]_mnvars PROVE MnInv'
    OBVIOUS
  <1>d. ASSUME UNCHANGED << mnWords, mnBackup, mnFiles, mnDirty >> PROVE DiscInv'
    BY <1>d DEF MnInv, DiscInv, NothingUnmarked
  <1>g. ASSUME UNCHANGED << mnWords, mnForced, mnPending, mnGame >> PROVE GameInv'
    BY <1>g DEF MnInv, GameInv
  <1>l. ASSUME NEW files, Loaded(files), files = AsFiles(files), files.eeprom = AsRecord(files.eeprom)
        PROVE  MnInv'
    <2>a. mnFiles' = files /\ mnDirty' = FALSE
          /\ mnWords' = (IF files.eeprom \in {Missing.eeprom, TornPart.eeprom} THEN Factory ELSE files.eeprom)
          /\ mnBackup' = (IF files.backup \in {Missing.backup, TornPart.backup} THEN "erased" ELSE files.backup)
      BY <1>l DEF Loaded
    <2>b. mnWords' = AsRecord(mnWords')
      BY <1>l, <2>a DEF Factory, Whole, AsRecord
    <2>c. NothingUnmarked'
      <3>1. \/ files.eeprom \in {mnWords', TornPart.eeprom}
            \/ files.eeprom = Missing.eeprom /\ mnWords' = Factory
        BY <2>a
      <3>2. \/ files.backup \in {mnBackup', TornPart.backup}
            \/ files.backup = Missing.backup /\ mnBackup' = "erased"
        BY <2>a
      <3> QED
        BY <2>a, <3>1, <3>2 DEF NothingUnmarked
    <2>1. DiscInv'
      BY <1>l, <2>a, <2>b, <2>c DEF DiscInv
    <2>2. GameInv'
      BY <1>l DEF Loaded, GameInv, Resting, NoWord
    <2> QED
      BY <2>1, <2>2 DEF MnInv
  <1>w. ASSUME NEW words, NEW saves \in Attempts, words = AsRecord(words)
        PROVE  /\ Written(words, saves) = AsFiles(Written(words, saves))
               /\ Written(words, saves).eeprom = AsRecord(Written(words, saves).eeprom)
               /\ Saved(saves) => /\ Written(words, saves).eeprom \in {words, TornPart.eeprom}
                                  /\ Written(words, saves).backup \in {mnBackup, TornPart.backup}
    <2> DEFINE eeprom == AfterSave(saves.eeprom, mnFiles.eeprom, words, Missing.eeprom, TornPart.eeprom)
               backup == AfterSave(saves.backup, mnFiles.backup, mnBackup, Missing.backup, TornPart.backup)
    <2>1. saves.eeprom \in Outcomes /\ saves.backup \in Outcomes
      BY DEF Attempts
    <2>2. mnFiles.eeprom = AsRecord(mnFiles.eeprom) /\ Missing.eeprom = AsRecord(Missing.eeprom)
          /\ TornPart.eeprom = AsRecord(TornPart.eeprom)
      BY DEF MnInv, DiscInv, Missing, TornPart, AsRecord
    <2>3. eeprom \in {mnFiles.eeprom, words, Missing.eeprom, TornPart.eeprom}
      BY <2>1 DEF AfterSave, Outcomes
    <2>4. Saved(saves) => eeprom \in {words, TornPart.eeprom} /\ backup \in {mnBackup, TornPart.backup}
      BY <2>1 DEF AfterSave, Outcomes, Saved, Claimed
    <2>5. Written(words, saves) = [eeprom |-> eeprom, backup |-> backup]
      BY DEF Written
    <2> HIDE DEF eeprom, backup
    <2>6. eeprom = AsRecord(eeprom)
      BY <1>w, <2>2, <2>3
    <2> QED
      BY <2>4, <2>5, <2>6 DEF AsFiles
  <1>r. ASSUME NEW type PROVE WithRole(type) = AsRecord(WithRole(type))
    BY DEF WithRole, Whole, MnInv, DiscInv, AsRecord
  <1>1. CASE WriteCommand
    <2>1. DiscInv'
      BY <1>1, <1>d DEF WriteCommand, mnMemory, mnDisc
    <2>2. GameInv'
      BY <1>1 DEF WriteCommand, mnMemory, MnInv, GameInv
    <2> QED
      BY <2>1, <2>2 DEF MnInv
  <1>2. CASE SixteenthBit
    <2> DEFINE field == Fields[mnPending]
               words == FieldStored(field, mnGame.record[field])
    <2>1. mnPending = mnGame.next /\ mnGame # Resting /\ mnPending \in 1..3
      BY <1>2 DEF SixteenthBit, MnInv, GameInv
    <2>2. words = AsRecord(words)
      <3>1. mnWords = AsRecord(mnWords)
        BY DEF MnInv, DiscInv
      <3>2. field \in {"sum", "link", "rest"}
        BY <2>1 DEF Fields
      <3>3. ASSUME NEW value PROVE [mnWords EXCEPT ![field] = value] = AsRecord([mnWords EXCEPT ![field] = value])
        <4>1. PICK sum, link, rest : mnWords = [sum |-> sum, link |-> link, rest |-> rest]
          BY <3>1 DEF AsRecord
        <4>2. CASE field = "sum"
          BY <4>1, <4>2 DEF AsRecord
        <4>3. CASE field = "link"
          BY <4>1, <4>3 DEF AsRecord
        <4>4. CASE field = "rest"
          BY <4>1, <4>4 DEF AsRecord
        <4> HIDE DEF field
        <4> QED
          BY <3>2, <4>2, <4>3, <4>4
      <3> QED
        BY <3>3 DEF FieldStored
    <2>3. mnWords' = (IF field = "rest" /\ mnForced # NotForced THEN Repaired(words) ELSE words)
      BY <1>2 DEF SixteenthBit
    <2>4. mnWords' = AsRecord(mnWords')
      BY <2>2, <2>3 DEF Repaired, Whole, AsRecord
    <2>5. DiscInv'
      BY <1>2, <2>4 DEF SixteenthBit, MnInv, DiscInv, NothingUnmarked
    <2>6. GameInv'
      <3>1. mnPending' = NoWord /\ mnForced' = mnForced
            /\ mnGame' = (IF mnPending = 3 THEN Resting ELSE [mnGame EXCEPT !.next = @ + 1])
        BY <1>2 DEF SixteenthBit
      <3>2. CASE mnPending = 3
        BY <3>1, <3>2 DEF GameInv, Resting
      <3>3. CASE mnPending = 1
        <4>1. mnForced = NotForced => mnWords'.sum = mnGame.record.sum
          BY <2>3, <3>3 DEF FieldStored, Fields, MnInv, DiscInv, AsRecord
        <4>2. mnGame'.next = 2 /\ mnGame'.record = mnGame.record /\ mnGame' = [record |-> mnGame.record, next |-> 2]
          BY <2>1, <3>1, <3>3 DEF MnInv, GameInv
        <4> QED
          BY <2>1, <3>1, <4>1, <4>2 DEF MnInv, GameInv
      <3>4. CASE mnPending = 2
        <4>1. mnForced = NotForced => mnWords'.sum = mnGame.record.sum /\ mnWords'.link = mnGame.record.link
          BY <2>1, <2>3, <3>4 DEF FieldStored, Fields, MnInv, DiscInv, GameInv, AsRecord
        <4>2. mnGame'.next = 3 /\ mnGame'.record = mnGame.record /\ mnGame' = [record |-> mnGame.record, next |-> 3]
          BY <2>1, <3>1, <3>4 DEF MnInv, GameInv
        <4> QED
          BY <2>1, <3>1, <4>1, <4>2 DEF MnInv, GameInv
      <3> QED
        BY <2>1, <3>2, <3>3, <3>4
    <2> QED
      BY <2>5, <2>6 DEF MnInv
  <1>3. CASE Erase
    <2>1. DiscInv'
      BY <1>3 DEF Erase, MnInv, DiscInv, NothingUnmarked, AsRecord
    <2>2. GameInv'
      BY <1>3 DEF Erase, mnChip, MnInv, GameInv
    <2> QED
      BY <2>1, <2>2 DEF MnInv
  <1>4. ASSUME NEW saves \in Attempts, Frame(saves) PROVE MnInv'
    <2>1. GameInv'
      BY <1>4, <1>g DEF Frame, mnMemory, mnChip
    <2>2. CASE Due
      <3>1. mnFiles' = Written(mnWords, saves) /\ mnDirty' = ~Saved(saves) /\ mnWords' = mnWords /\ mnBackup' = mnBackup
        BY <1>4, <2>2 DEF Frame, mnMemory
      <3>2. mnWords = AsRecord(mnWords)
        BY DEF MnInv, DiscInv
      <3>3. Saved(saves) \in BOOLEAN
        BY DEF Saved, Claimed
      <3>4. mnDirty' \in BOOLEAN
        BY <3>1, <3>3
      <3>5. NothingUnmarked'
        BY <1>w, <3>1, <3>2 DEF NothingUnmarked
      <3>6. DiscInv'
        BY <1>w, <3>1, <3>2, <3>4, <3>5 DEF DiscInv
      <3> QED
        BY <2>1, <3>6 DEF MnInv
    <2>3. CASE ~Due
      BY <1>4, <1>d, <2>1, <2>3 DEF Frame, mnMemory, MnInv
    <2> QED
      BY <2>2, <2>3
  <1>5. ASSUME NEW saves \in Attempts, ResetPreservingNvram(saves) PROVE MnInv'
    BY <1>5, <1>l, <1>w DEF ResetPreservingNvram, MnInv, DiscInv
  <1>6. ASSUME NEW saves \in Attempts, NEW clean \in BOOLEAN, RestartGame(clean, saves) PROVE MnInv'
    <2>1. Loaded(IF clean THEN Written(mnWords, saves) ELSE mnFiles)
      BY <1>6 DEF RestartGame
    <2>2. mnWords = AsRecord(mnWords) /\ mnFiles = AsFiles(mnFiles) /\ mnFiles.eeprom = AsRecord(mnFiles.eeprom)
      BY DEF MnInv, DiscInv
    <2> QED
      BY <1>l, <1>w, <2>1, <2>2
  <1>7. ASSUME NEW saves \in Attempts, NEW type \in SrallyRoles, SetLinkType(type, saves) PROVE MnInv'
    <2>1. mnGame = Resting /\ mnPending = NoWord /\ mnGame' = mnGame /\ mnPending' = mnPending
          /\ mnBackup' = mnBackup /\ mnWords' = WithRole(type)
      BY <1>7 DEF SetLinkType, mnChip
    <2>2. GameInv'
      BY <2>1 DEF MnInv, GameInv
    <2>3. CASE mnWords.link = type
      <3>1. mnWords' = mnWords
        BY <2>1, <2>3 DEF WithRole
      <3> QED
        BY <1>7, <1>d, <2>1, <2>2, <2>3, <3>1 DEF SetLinkType, mnDisc, MnInv
    <2>4. CASE mnWords.link # type
      <3>1. mnFiles' = Written(mnWords', saves) /\ mnDirty' = ~Saved(saves)
        BY <1>7, <2>1, <2>4 DEF SetLinkType
      <3>2. mnWords' = AsRecord(mnWords')
        BY <1>r, <2>1
      <3>3. Saved(saves) \in BOOLEAN
        BY DEF Saved, Claimed
      <3>4. mnDirty' \in BOOLEAN
        BY <3>1, <3>3
      <3>5. NothingUnmarked'
        BY <1>w, <2>1, <3>1, <3>2 DEF NothingUnmarked
      <3>6. DiscInv'
        BY <1>w, <3>1, <3>2, <3>4, <3>5 DEF DiscInv
      <3> QED
        BY <2>2, <3>6 DEF MnInv
    <2> QED
      BY <2>3, <2>4
  <1>8. ASSUME NEW saves \in Attempts, NEW type \in SrallyRoles, RequestRole(type, saves) PROVE MnInv'
    BY <1>8, <1>l, <1>w, <1>r DEF RequestRole
  <1>9. ASSUME NEW link \in SrallyRoles, NEW rest \in MnValues, StartRecord(link, rest) PROVE MnInv'
    <2>1. DiscInv'
      BY <1>9, <1>d DEF StartRecord, mnMemory, mnDisc
    <2>2. GameInv'
      BY <1>9 DEF StartRecord, mnMemory, mnChip, MnInv, GameInv, Whole, Checked
    <2> QED
      BY <2>1, <2>2 DEF MnInv
  <1>10. ASSUME NEW on \in BOOLEAN, EnableWrites(on) PROVE MnInv'
    BY <1>10, <1>d, <1>g DEF EnableWrites, mnMemory, mnDisc, MnInv
  <1>11. ASSUME NEW value \in {"erased", "scores"}, WriteBackup(value) PROVE MnInv'
    <2>1. DiscInv'
      BY <1>11 DEF WriteBackup, MnInv, DiscInv, NothingUnmarked
    <2>2. GameInv'
      BY <1>11, <1>g DEF WriteBackup, mnChip
    <2> QED
      BY <2>1, <2>2 DEF MnInv
  <1>12. CASE UNCHANGED mnvars
    BY <1>12, <1>d, <1>g DEF mnvars, mnMemory, mnDisc, mnChip, MnInv
  <1> QED
    BY <1>1, <1>2, <1>3, <1>4, <1>5, <1>6, <1>7, <1>8, <1>9, <1>10, <1>11, <1>12 DEF MnNext

LEMMA MnRole == MnInv /\ [MnNext]_mnvars => RoleKept
  <1> SUFFICES ASSUME MnInv, [MnNext]_mnvars,
                      mnPending = 3, mnPending' = NoWord, mnGame' = Resting, mnDirty'
               PROVE  (mnForced # NotForced => mnWords'.link = mnForced) /\ Checked(mnWords')
    BY DEF RoleKept
  <1>1. mnGame # Resting /\ mnGame.next = 3 /\ Checked(mnGame.record)
    BY DEF MnInv, GameInv, NoWord
  <1>l. ASSUME NEW files, Loaded(files) PROVE FALSE
    BY <1>l DEF Loaded
  <1>2. SixteenthBit
    <2>1. ~ UNCHANGED mnPending
      BY DEF NoWord
    <2> QED
      BY <1>1, <1>l, <2>1 DEF MnNext, WriteCommand, Erase, Frame, ResetPreservingNvram, RestartGame, SetLinkType,
         RequestRole, StartRecord, EnableWrites, WriteBackup, mnvars, mnChip, NoWord
  <1> DEFINE words == FieldStored("rest", mnGame.record.rest)
  <1>3. mnWords' = (IF mnForced # NotForced THEN Repaired(words) ELSE words)
    BY <1>2 DEF SixteenthBit, Fields
  <1>4. CASE mnForced # NotForced
    BY <1>3, <1>4 DEF Repaired, Whole, Checked
  <1>5. CASE mnForced = NotForced
    <2>1. mnWords.sum = mnGame.record.sum /\ mnWords.link = mnGame.record.link /\ mnWords = AsRecord(mnWords)
      BY <1>1, <1>5 DEF MnInv, GameInv, DiscInv
    <2>2. words = [mnWords EXCEPT !.rest = mnGame.record.rest]
      BY DEF FieldStored
    <2>3. words.sum = mnWords.sum /\ words.link = mnWords.link /\ words.rest = mnGame.record.rest
      BY <2>1, <2>2 DEF AsRecord
    <2> QED
      BY <1>1, <1>3, <1>5, <2>1, <2>3 DEF Checked
  <1> QED
    BY <1>4, <1>5

-----------------------------------------------------------------------------
(* The scheduler of the Model 2 board.                                         *)

(* In its turn the i960 is behind the board's clock by what is left of the     *)
(* turn, but for what stores at a full FIFO ran over, and it owes nothing; a   *)
(* full FIFO has ended its turn.                                              *)
MbInv ==
    /\ mbBudget \in Int /\ mbDebt \in Nat /\ mbLead \in Int /\ mbIn \in Nat /\ mbOut \in Nat /\ mbFree \in Nat
    /\ mbTurn = "cpu" => mbLead + mbBudget <= mbFree /\ mbDebt = 0 /\ mbBudget > 0 /\ mbIn <= MbFifo
    /\ mbTurn = "tgp" => mbOut <= MbFifo
    /\ NotOverclocked /\ FifosBounded

LEMMA MbBegins == MbInit => MbInv
  BY Model2BoardAssumption DEF MbInit, MbInv, NotOverclocked, FifosBounded

(* What the i960 spends it is later short of, and what it gives up it has not  *)
(* spent.                                                                      *)
LEMMA CpuSpends ==
    ASSUME MbInv, mbTurn = "cpu", NEW cost \in Nat, ((Spend(cost) \/ GiveUp) /\ Spent) \/ Yield(cost)
    PROVE  /\ mbBudget' \in Int /\ mbDebt' \in Nat /\ mbLead' \in Int
           /\ mbFree' \in Nat
           /\ mbTurn' = "cpu" => mbLead' + mbBudget' <= mbFree' /\ mbDebt' = 0 /\ mbBudget' > 0
           /\ mbTurn' # "cpu" => mbLead' <= mbDebt' + mbFree'
           /\ mbTurn' \in {"cpu", "devices"}
  <1>1. CASE Spend(cost) /\ Spent
    BY <1>1 DEF MbInv, Spend, Spent, Overrun
  <1>2. CASE GiveUp /\ Spent
    BY <1>2 DEF MbInv, GiveUp, Spent, Overrun
  <1>3. CASE Yield(cost)
    BY <1>3 DEF MbInv, Yield, Less
  <1> QED
    BY <1>1, <1>2, <1>3

LEMMA MbKept == MbInv /\ [MbNext]_mbvars => MbInv'
  <1> SUFFICES ASSUME MbInv, [MbNext]_mbvars PROVE MbInv'
    OBVIOUS
  <1>a. /\ MbFifo \in Nat /\ MbBurst \in Nat \ {0} /\ MbTgpSteps \in Nat \ {0}
        /\ MbSlices \subseteq Nat /\ MbCosts \subseteq Nat
    BY Model2BoardAssumption
  <1>c. ASSUME mbTurn = "cpu", NEW cost \in Nat, ((Spend(cost) \/ GiveUp) /\ Spent) \/ Yield(cost),
               mbIn' \in Nat, mbOut' \in Nat, mbIn' <= MbFifo + MbBurst, mbOut' <= MbFifo + 1,
               mbTurn' = "cpu" => mbIn' <= MbFifo
        PROVE  MbInv'
    BY <1>c, CpuSpends DEF MbInv, NotOverclocked, FifosBounded
  <1>1. ASSUME NEW c \in MbSlices, StartBoardSlice(c) PROVE MbInv'
    <2>1. c \in Nat /\ mbTurn = "slice" /\ mbIn' = mbIn /\ mbOut' = mbOut /\ mbLead <= mbDebt + mbFree
          /\ mbFree' = mbFree
      BY <1>a, <1>1 DEF StartBoardSlice, MbInv, NotOverclocked
    <2>2. CASE Blocked \/ mbDebt >= c
      BY <1>1, <2>1, <2>2 DEF StartBoardSlice, Less, MbInv, NotOverclocked, FifosBounded
    <2>3. CASE ~(Blocked \/ mbDebt >= c)
      BY <1>1, <1>a, <2>1, <2>3 DEF StartBoardSlice, Blocked, MbInv, NotOverclocked, FifosBounded
    <2> QED
      BY <2>2, <2>3
  <1>2. ASSUME NEW cost \in MbCosts, CpuComputes(cost) \/ CpuReads(cost) PROVE MbInv'
    <2>1. /\ mbTurn = "cpu" /\ cost \in Nat /\ (Spend(cost) \/ GiveUp) /\ Spent /\ mbIn' = mbIn
          /\ mbOut' = mbOut \/ (mbOut # 0 /\ mbOut' = mbOut - 1)
      BY <1>2, <1>a DEF CpuComputes, CpuReads
    <2> QED
      BY <1>a, <1>c, <2>1 DEF MbInv, FifosBounded
  <1>3. ASSUME NEW cost \in MbCosts, CpuUploads(cost) PROVE MbInv'
    <2>1. mbTurn = "cpu" /\ cost \in Nat /\ Spend(cost) /\ Spent /\ mbIn' = mbIn /\ mbOut' = mbOut
      BY <1>3, <1>a DEF CpuUploads
    <2> QED
      BY <1>a, <1>c, <2>1 DEF MbInv, FifosBounded
  <1>4. ASSUME NEW cost \in MbCosts, NEW words \in 1..MbBurst, CpuStores(words, cost) PROVE MbInv'
    <2>1. /\ mbTurn = "cpu" /\ cost \in Nat /\ mbIn' = mbIn + words /\ mbOut' = mbOut
          /\ (((Spend(cost) \/ GiveUp) /\ Spent) \/ Yield(cost))
      BY <1>4, <1>a DEF CpuStores
    <2>2. mbTurn' = "cpu" => mbIn' <= MbFifo
      BY <1>4, <1>a, <2>1 DEF CpuStores, Yield, Spend, MbInv
    <2>3. mbIn' \in Nat /\ mbOut' \in Nat /\ mbIn' <= MbFifo + MbBurst /\ mbOut' <= MbFifo + 1
      BY <1>a, <2>1 DEF MbInv, FifosBounded
    <2> QED
      BY <1>c, <2>1, <2>2, <2>3
  <1>5. ASSUME NEW cost \in MbCosts, NEW on \in BOOLEAN, CpuWritesControl(on, cost) PROVE MbInv'
    <2>1. mbTurn = "cpu" /\ cost \in Nat /\ Spend(cost) /\ Spent /\ mbIn' = mbIn /\ mbOut' = mbOut
      BY <1>5, <1>a DEF CpuWritesControl
    <2> QED
      BY <1>a, <1>c, <2>1 DEF MbInv, FifosBounded
  <1>6. CASE StartTgp
    BY <1>6, <1>a DEF StartTgp, mbClock, MbInv, NotOverclocked, FifosBounded
  <1>7. CASE TgpComputes
    BY <1>7, <1>a DEF TgpComputes, NextStep, mbClock, MbInv, NotOverclocked, FifosBounded
  <1>8. CASE TgpReads
    BY <1>8, <1>a DEF TgpReads, NextStep, mbClock, MbInv, NotOverclocked, FifosBounded
  <1>9. CASE TgpWrites
    BY <1>9, <1>a DEF TgpWrites, NextStep, mbClock, MbInv, NotOverclocked, FifosBounded
  <1>10. CASE UNCHANGED mbvars
    BY <1>10 DEF mbvars, mbClock, MbInv, NotOverclocked, FifosBounded
  <1> QED
    BY <1>1, <1>2, <1>3, <1>4, <1>5, <1>6, <1>7, <1>8, <1>9, <1>10 DEF MbNext

-----------------------------------------------------------------------------
(* The serial port.                                                            *)

MuInv ==
    /\ muLeft \in Nat /\ muBusy \in Nat /\ muDone \in Nat
    /\ muHolding \in BOOLEAN
    /\ WireKeepsTime

LEMMA MuBegins == MuInit => MuInv
  <1> SUFFICES ASSUME MuInit PROVE MuInv
    OBVIOUS
  <1>1. muLeft = 0 /\ muBusy = 0 /\ muDone = 0 /\ muHolding = FALSE
    BY DEF MuInit
  <1>2. muHolding \in BOOLEAN
    BY <1>1
  <1> QED
    BY <1>1, <1>2 DEF MuInv, WireKeepsTime

(* A slice takes its cycles from the wire, and gives back MuChar for each      *)
(* character that ended, as long as the wire is busy after it.                *)
LEMMA WireShifts ==
    ASSUME MuInv, NEW c \in Nat, NEW wire,
           wire = Shifted([left |-> muLeft, holding |-> muHolding, out |-> 0, refilled |-> FALSE], c)
    PROVE  /\ wire.left \in Nat /\ wire.out \in Nat /\ wire.holding \in BOOLEAN
           /\ wire.left > 0 => muLeft > 0 /\ (\/ wire.out = 0 /\ wire.left = muLeft - c
                                              \/ wire.out = 1 /\ wire.left = muLeft + MuChar - c)
  <1>a. MuChar \in Nat \ {0} /\ muLeft \in Nat /\ muHolding \in BOOLEAN
    BY Model2UartAssumption DEF MuInv
  <1> DEFINE first == [left |-> muLeft, holding |-> muHolding, out |-> 0, refilled |-> FALSE]
             next == NextOnWire(first)
             surplus == c - muLeft
  <1>n. /\ next.left = (IF muHolding THEN MuChar ELSE 0) /\ next.out = 1 /\ next.holding = FALSE
        /\ next.left \in Nat /\ DOMAIN next = {"left", "holding", "out", "refilled"}
    BY <1>a DEF NextOnWire
  <1>1. CASE ~Ends(first, c)
    <2>1. wire = [left |-> IF muLeft = 0 THEN 0 ELSE muLeft - c, holding |-> muHolding, out |-> 0, refilled |-> FALSE]
      BY <1>1 DEF Shifted, Shortened
    <2> QED
      BY <1>1, <1>a, <2>1 DEF Ends
  <1>2. CASE Ends(first, c) /\ ~Ends(next, surplus)
    <2>1. muLeft > 0 /\ surplus \in Nat /\ (next.left = 0 \/ surplus < next.left)
      BY <1>2, <1>a, <1>n DEF Ends
    <2>2. wire = Shortened(next, surplus)
      BY <1>2 DEF Shifted, Surplus
    <2>3. /\ wire.left = (IF next.left = 0 THEN 0 ELSE next.left - surplus)
          /\ wire.holding = FALSE /\ wire.out = 1
      <3> HIDE DEF next, surplus
      <3> QED
        BY <1>n, <2>2 DEF Shortened
    <2>4. wire.holding \in BOOLEAN
      BY <2>3
    <2> QED
      BY <1>a, <1>n, <2>1, <2>3, <2>4
  <1>3. CASE Ends(first, c) /\ Ends(next, surplus)
    <2>1. wire = NextOnWire(next)
      BY <1>3 DEF Shifted, Surplus
    <2>2. wire.left = 0 /\ wire.holding = FALSE /\ wire.out = 2
      <3> HIDE DEF next, surplus
      <3> QED
        BY <1>n, <1>a, <2>1 DEF NextOnWire
    <2>3. wire.holding \in BOOLEAN
      BY <2>2
    <2> QED
      BY <2>2, <2>3
  <1> QED
    BY <1>1, <1>2, <1>3

LEMMA MuKept == MuInv /\ [MuNext]_muvars => MuInv'
  <1> SUFFICES ASSUME MuInv, [MuNext]_muvars PROVE MuInv'
    OBVIOUS
  <1>a. MuChar \in Nat \ {0} /\ MuSlices \subseteq Nat
    BY Model2UartAssumption
  <1>u. ASSUME UNCHANGED muTx PROVE MuInv'
    BY <1>u DEF muTx, MuInv, WireKeepsTime
  <1>1. CASE WriteData
    <2>1. CASE muLeft = 0
      BY <1>1, <1>a, <2>1 DEF WriteData, MuInv, WireKeepsTime
    <2>2. CASE muLeft # 0
      BY <1>1, <2>2 DEF WriteData, MuInv, WireKeepsTime
    <2> QED
      BY <2>1, <2>2
  <1>2. ASSUME NEW c \in MuSlices, TickUart(c) PROVE MuInv'
    <2> DEFINE wire == Shifted([left |-> muLeft, holding |-> muHolding, out |-> 0, refilled |-> FALSE], c)
    <2>1. /\ muLeft' = wire.left /\ muHolding' = wire.holding
          /\ wire.left = 0 => muBusy' = 0 /\ muDone' = 0
          /\ wire.left # 0 => muBusy' = muBusy + c /\ muDone' = muDone + wire.out
      BY <1>2 DEF TickUart
    <2>2. c \in Nat
      BY <1>a
    <2>3. /\ wire.left \in Nat /\ wire.out \in Nat /\ wire.holding \in BOOLEAN
          /\ wire.left > 0 => muLeft > 0 /\ (\/ wire.out = 0 /\ wire.left = muLeft - c
                                             \/ wire.out = 1 /\ wire.left = muLeft + MuChar - c)
      BY <2>2, WireShifts
    <2> HIDE DEF wire
    <2>4. CASE wire.left = 0
      BY <2>1, <2>3, <2>4 DEF MuInv, WireKeepsTime
    <2>5. CASE wire.left > 0
      <3>1. muBusy + muLeft = (muDone + 1) * MuChar
        BY <2>3, <2>5 DEF MuInv, WireKeepsTime
      <3>2. (muDone + 1 + 1) * MuChar = (muDone + 1) * MuChar + MuChar
        BY <1>a DEF MuInv
      <3>3. muBusy' + muLeft' = (muDone' + 1) * MuChar
        BY <1>a, <2>1, <2>2, <2>3, <2>5, <3>1, <3>2 DEF MuInv
      <3> QED
        BY <2>1, <2>2, <2>3, <2>5, <3>3 DEF MuInv, WireKeepsTime
    <2> QED
      BY <2>3, <2>4, <2>5
  <1>3. CASE AcknowledgeIrq \/ SeePending \/ ClearPending \/ ReadByte \/ QueueMidiOut \/ TickMidiOut
    BY <1>3, <1>u DEF AcknowledgeIrq, SeePending, ClearPending, ReadByte, QueueMidiOut, TickMidiOut
  <1>4. ASSUME NEW on \in BOOLEAN, WriteIrqEnable(on) PROVE MuInv'
    BY <1>4, <1>u DEF WriteIrqEnable
  <1>5. CASE UNCHANGED muvars
    BY <1>5, <1>u DEF muvars
  <1> QED
    BY <1>1, <1>2, <1>3, <1>4, <1>5 DEF MuNext

-----------------------------------------------------------------------------
(* The two threads of a session.                                               *)

Frames == [pressed : SUBSET Switches, test : BOOLEAN, analog : Nat]
M2Types ==
    /\ m2queue \in Seq(Frames) /\ Len(m2queue) <= QueueDepth
    /\ m2sample \in Frames /\ m2input \in Frames
    /\ m2test \in BOOLEAN /\ m2late \in Nat /\ m2frames \in Nat

(* The frames with TEST that the board had since it was to have none, and the  *)
(* one the worker holds.                                                       *)
HeldTest == m2worker \in {"requests", "boot"} /\ m2input.test
LateAfter(n) == (IF HeldTest THEN m2late + 1 ELSE m2late) + n <= QueueDepth + 1
(* Each frame that may still bring the TEST switch brings it in time: those in *)
(* the queue by their place, the one being handed over behind them.            *)
LateInOrder ==
    /\ m2test => m2late = 0
    /\ ~m2test =>
         /\ LateAfter(0)
         /\ \A i \in 1..Len(m2queue) : m2queue[i].test => LateAfter(i)
         /\ m2host = "sampled" /\ m2sample.test => LateAfter(Len(m2queue) + 1)

M2Inv == M2Types /\ NoPressLost /\ LateInOrder

LEMMA M2Begins == M2Init => M2Inv
  <1> SUFFICES ASSUME M2Init PROVE M2Inv
    OBVIOUS
  <1>1. << >> \in Seq(Frames) /\ Len(<< >>) = 0 /\ NeutralFrame \in Frames /\ NeutralFrame.test = FALSE
    BY DEF Frames, NeutralFrame
  <1>2. m2test \in BOOLEAN
    BY DEF M2Init
  <1>3. M2Types
    BY <1>1, <1>2, M2Assumption DEF M2Init, M2Types
  <1>4. LateInOrder
    BY <1>1, M2Assumption DEF M2Init, LateInOrder, LateAfter, HeldTest
  <1> QED
    BY <1>3, <1>4 DEF M2Init, M2Inv, NoPressLost

(* The queue takes a frame, at its end or into its last.                       *)
LEMMA QueueTakes ==
    ASSUME NEW queue \in Seq(Frames), Len(queue) <= QueueDepth, NEW new \in Frames
    PROVE  /\ Queued(queue, new) \in Seq(Frames) /\ Len(Queued(queue, new)) <= QueueDepth
           /\ Len(Queued(queue, new)) >= Len(queue)
           /\ \A i \in 1..Len(queue) :
                 /\ queue[i].pressed \ GivenUp(queue) \subseteq Queued(queue, new)[i].pressed
                 /\ Queued(queue, new)[i].test => queue[i].test \/ (new.test /\ i = Len(queue) /\ Len(queue) = QueueDepth)
           /\ Len(Queued(queue, new)) > 0
           /\ new.pressed \subseteq Queued(queue, new)[Len(Queued(queue, new))].pressed
           /\ Len(Queued(queue, new)) > Len(queue) =>
                 /\ Len(Queued(queue, new)) = Len(queue) + 1
                 /\ Queued(queue, new)[Len(queue) + 1].test => new.test
  <1>a. QueueDepth \in Nat \ {0} /\ Len(queue) \in Nat
    BY M2Assumption
  <1>1. CASE Len(queue) < QueueDepth
    <2>1. Queued(queue, new) = Append(queue, new)
      BY <1>1 DEF Queued
    <2>2. /\ Len(Append(queue, new)) = Len(queue) + 1 /\ Append(queue, new) \in Seq(Frames)
          /\ \A i \in 1..Len(queue) : Append(queue, new)[i] = queue[i]
          /\ Append(queue, new)[Len(queue) + 1] = new
      OBVIOUS
    <2> QED
      BY <1>a, <1>1, <2>1, <2>2
  <1>2. CASE Len(queue) = QueueDepth
    <2> DEFINE n == Len(queue)
               last == Fold(new, queue[n])
    <2>1. queue[n] \in Frames
      BY <1>a, <1>2
    <2>2. last \in Frames /\ last.pressed = new.pressed \cup (queue[n].pressed \cap Folded)
            /\ (last.test <=> new.test \/ queue[n].test)
      BY <2>1 DEF Fold, Frames
    <2>3. Queued(queue, new) = [queue EXCEPT ![n] = last]
      BY <1>2 DEF Queued
    <2>4. /\ [queue EXCEPT ![n] = last] \in Seq(Frames) /\ Len([queue EXCEPT ![n] = last]) = n
          /\ [queue EXCEPT ![n] = last][n] = last
          /\ \A i \in 1..n : i # n => [queue EXCEPT ![n] = last][i] = queue[i]
      <3> HIDE DEF last
      <3> QED
        BY <1>a, <1>2, <2>2
    <2> QED
      <3>1. queue[n].pressed \ GivenUp(queue) \subseteq last.pressed
        BY <1>a, <1>2, <2>1, <2>2 DEF GivenUp, Frames, Switches
      <3> HIDE DEF last
      <3>2. ASSUME NEW i \in 1..n
            PROVE  /\ queue[i].pressed \ GivenUp(queue) \subseteq [queue EXCEPT ![n] = last][i].pressed
                   /\ [queue EXCEPT ![n] = last][i].test => queue[i].test \/ (new.test /\ i = n)
        <4>1. CASE i = n
          <5>a. [queue EXCEPT ![n] = last][n] = last
            BY <2>4, Zenon
          <5>1. [queue EXCEPT ![n] = last][i] = last /\ queue[i] = queue[n]
            BY <4>1, <5>a, Zenon
          <5>2. queue[i].pressed \ GivenUp(queue) \subseteq last.pressed
            BY <3>1, <4>1
          <5>3. last.test => queue[i].test \/ (new.test /\ i = n)
            BY <2>2, <4>1, <5>1
          <5> QED
            BY <5>1, <5>2, <5>3
        <4>2. CASE i # n
          <5>1. [queue EXCEPT ![n] = last][i] = queue[i]
            BY <2>4, <4>2, Zenon
          <5> QED
            BY <5>1
        <4> QED
          BY <4>1, <4>2
      <3> QED
        BY <1>a, <1>2, <2>2, <2>3, <2>4, <3>2
  <1> QED
    BY <1>1, <1>2, <1>a

LEMMA M2Kept == M2Inv /\ [M2Next]_m2vars => M2Inv'
  <1> SUFFICES ASSUME M2Inv, [M2Next]_m2vars PROVE M2Inv'
    OBVIOUS
  <1>a. QueueDepth \in Nat \ {0} /\ Len(m2queue) \in Nat /\ Len(m2queue) <= QueueDepth
        /\ m2queue \in Seq(Frames) /\ m2late \in Nat /\ m2sample \in Frames /\ m2input \in Frames
        /\ m2test \in BOOLEAN /\ m2frames \in Nat
    BY M2Assumption DEF M2Inv, M2Types
  <1> DEFINE Holding == {"requests", "boot", "run"}
  (* A step that hands nothing over. *)
  <1>s. ASSUME UNCHANGED << m2queue, m2input, m2owed >>, m2worker' \in Holding <=> m2worker \in Holding
        PROVE  NoPressLost'
    BY <1>s DEF M2Inv, NoPressLost, Underway
  <1>l. ASSUME UNCHANGED << m2queue, m2input, m2test, m2late, m2sample >>,
               HeldTest' => HeldTest, m2host' = "sampled" => m2host = "sampled"
        PROVE  LateInOrder'
    BY <1>a, <1>l DEF M2Inv, LateInOrder, LateAfter
  <1>n. m2worker' = Notified => (m2worker' \in Holding <=> m2worker \in Holding) /\ (m2worker' \in {"requests", "boot"} <=> m2worker \in {"requests", "boot"})
    BY DEF Notified
  <1>1. CASE Sample
    <2>1. PICK pressed \in SUBSET Switches, toggle \in BOOLEAN :
             m2sample' = [pressed |-> pressed, test |-> TestLine(toggle), analog |-> m2frames + 1]
      BY <1>1 DEF Sample
    <2>2. TestLine(toggle) \in BOOLEAN /\ (TestLine(toggle) => m2test)
      BY <1>a DEF TestLine
    <2>3. m2sample' \in Frames /\ (m2sample'.test => m2test)
      BY <1>a, <2>1, <2>2 DEF Frames
    <2>4. UNCHANGED << m2queue, m2input, m2owed, m2worker, m2late, m2test >> /\ m2frames' = m2frames + 1
      BY <1>1 DEF Sample, m2shared
    <2>5. M2Types'
      BY <1>a, <2>3, <2>4 DEF M2Types
    <2>6. LateInOrder'
      BY <2>3, <2>4 DEF M2Inv, LateInOrder, LateAfter, HeldTest
    <2> QED
      BY <1>s, <2>4, <2>5, <2>6 DEF M2Inv
  <1>2. CASE Hand
    <2>1. /\ m2host = "sampled" /\ m2host' = "open" /\ m2queue' = Queued(m2queue, m2sample)
          /\ m2owed' = (m2owed \ GivenUp(m2queue)) \cup m2sample.pressed /\ m2worker' = Notified
          /\ UNCHANGED << m2sample, m2input, m2frames, m2late, m2test >>
      BY <1>2 DEF Hand, m2shared
    <2>2. PICK q :
             /\ q = Queued(m2queue, m2sample)
             /\ q \in Seq(Frames) /\ Len(q) <= QueueDepth /\ Len(q) >= Len(m2queue)
             /\ \A i \in 1..Len(m2queue) :
                 /\ m2queue[i].pressed \ GivenUp(m2queue) \subseteq q[i].pressed
                 /\ q[i].test => m2queue[i].test \/ (m2sample.test /\ i = Len(m2queue) /\ Len(m2queue) = QueueDepth)
             /\ Len(q) > 0 /\ m2sample.pressed \subseteq q[Len(q)].pressed
             /\ Len(q) > Len(m2queue) => Len(q) = Len(m2queue) + 1 /\ (q[Len(m2queue) + 1].test => m2sample.test)
      <3>1. m2queue \in Seq(Frames) /\ Len(m2queue) <= QueueDepth /\ m2sample \in Frames
        BY <1>a
      <3> QED
        BY <3>1, QueueTakes
    <2>3. m2queue' = q /\ Len(q) \in Nat
      BY <2>1, <2>2
    <2>4. M2Types'
      BY <1>a, <2>1, <2>2, <2>3 DEF M2Types
    <2>5. NoPressLost'
      <3> SUFFICES ASSUME NEW switch \in m2owed' PROVE Underway(switch)'
        BY DEF NoPressLost
      <3>1. CASE switch \in m2sample.pressed
        <4>1. Len(q) \in 1..Len(q) /\ switch \in q[Len(q)].pressed
          BY <2>2, <2>3, <3>1
        <4> QED
          BY <2>3, <4>1 DEF Underway
      <3>2. CASE switch \in m2owed \ GivenUp(m2queue)
        <4>1. Underway(switch)
          BY <3>2 DEF M2Inv, NoPressLost
        <4>2. ASSUME NEW i \in 1..Len(m2queue), switch \in m2queue[i].pressed PROVE i \in 1..Len(q) /\ switch \in q[i].pressed
          BY <1>a, <2>2, <2>3, <3>2, <4>2
        <4> QED
          BY <1>n, <2>1, <2>2, <4>1, <4>2 DEF Underway
      <3> QED
        BY <2>1, <3>1, <3>2
    <2>6. LateInOrder'
      <3>1. HeldTest' <=> HeldTest
        BY <1>n, <2>1 DEF HeldTest
      <3>2. ASSUME ~m2test, NEW i \in 1..Len(q), q[i].test PROVE LateAfter(i)
        <4>1. CASE i \in 1..Len(m2queue) /\ m2queue[i].test
          BY <3>2, <4>1 DEF M2Inv, LateInOrder
        <4>2. CASE m2sample.test /\ i <= Len(m2queue) + 1
          <5>1. LateAfter(Len(m2queue) + 1)
            BY <2>1, <3>2, <4>2 DEF M2Inv, LateInOrder
          <5> QED
            BY <1>a, <2>2, <2>3, <4>2, <5>1 DEF LateAfter
        <4> QED
          BY <1>a, <2>2, <2>3, <3>2, <4>1, <4>2
      <3>3. \A i : LateAfter(i)' = LateAfter(i)
        BY <2>1, <3>1 DEF LateAfter
      <3> QED
        BY <2>1, <2>2, <3>2, <3>3 DEF M2Inv, LateInOrder
    <2> QED
      BY <2>4, <2>5, <2>6 DEF M2Inv
  <1>3. CASE AskReset \/ AskBoot \/ AskSession \/ AskTest \/ \E role \in Roles : AskRole(role)
    <2>1. UNCHANGED << m2queue, m2input, m2owed, m2worker, m2sample, m2frames >>
      BY <1>3 DEF AskReset, AskBoot, AskSession, AskTest, AskRole, hostAlone
    <2>2. NoPressLost'
      BY <1>s, <2>1
    <2>3. CASE UNCHANGED << m2test, m2late >> /\ (m2host' = "sampled" => m2host = "sampled")
      <3>1. HeldTest' => HeldTest
        BY <2>1 DEF HeldTest
      <3>2. LateInOrder'
        BY <1>l, <2>1, <2>3, <3>1
      <3>3. M2Types'
        BY <1>a, <2>1, <2>3 DEF M2Types
      <3> QED
        BY <2>2, <3>2, <3>3 DEF M2Inv
    <2>4. CASE m2test' = TRUE /\ m2late' = 0
      <3>1. LateInOrder'
        BY <2>4 DEF LateInOrder
      <3>2. m2test' \in BOOLEAN
        BY <2>4
      <3>3. M2Types'
        BY <1>a, <2>1, <2>4, <3>2 DEF M2Types
      <3> QED
        BY <2>2, <3>1, <3>3 DEF M2Inv
    <2> QED
      BY <1>3, <2>3, <2>4 DEF AskReset, AskBoot, AskSession, AskTest, AskRole
  <1>4. CASE StopStore \/ StopNotify \/ StopJoin \/ UNCHANGED m2vars
    <2>1. UNCHANGED << m2queue, m2input, m2owed, m2sample, m2frames, m2test, m2late >>
      BY <1>4 DEF StopStore, StopNotify, StopJoin, m2vars, m2shared
    <2>2. m2host' = "sampled" => m2host = "sampled"
      BY <1>4 DEF StopStore, StopNotify, StopJoin, m2vars
    <2>3. (m2worker' \in Holding <=> m2worker \in Holding) /\ (m2worker' \in {"requests", "boot"} <=> m2worker \in {"requests", "boot"})
      BY <1>4, <1>n DEF StopStore, StopNotify, StopJoin, m2vars
    <2>4. HeldTest' => HeldTest
      BY <2>1, <2>3 DEF HeldTest
    <2>5. M2Types'
      BY <1>a, <2>1 DEF M2Types
    <2> QED
      BY <1>s, <1>l, <2>1, <2>2, <2>3, <2>4, <2>5 DEF M2Inv
  (* The worker. *)
  <1>5. CASE Test /\ m2worker' = "requests"
    <2>1. /\ m2worker = "waking" /\ m2queue # << >> /\ m2input' = Head(m2queue) /\ m2queue' = Tail(m2queue)
          /\ UNCHANGED << m2owed, m2late, m2test, m2host, m2sample, m2frames >>
      BY <1>5 DEF Test, m2shared, m2hostOwn
    <2>2. PICK rest, head : rest = m2queue' /\ head = m2input'
      OBVIOUS
    <2>3. /\ rest \in Seq(Frames) /\ Len(rest) = Len(m2queue) - 1 /\ Len(rest) \in Nat /\ head \in Frames
          /\ head = m2queue[1] /\ \A i \in 1..Len(rest) : rest[i] = m2queue[i + 1]
      BY <1>a, <2>1, <2>2
    <2>4. M2Types'
      BY <1>a, <2>1, <2>2, <2>3 DEF M2Types
    <2>5. NoPressLost'
      <3> SUFFICES ASSUME NEW switch \in m2owed PROVE Underway(switch)'
        BY <2>1 DEF NoPressLost
      <3>1. PICK i \in 1..Len(m2queue) : switch \in m2queue[i].pressed
        BY <2>1 DEF M2Inv, NoPressLost, Underway
      <3>2. CASE i = 1
        BY <1>5, <2>2, <2>3, <3>1, <3>2 DEF Underway
      <3>3. CASE i # 1
        <4>1. i - 1 \in 1..Len(rest) /\ switch \in rest[i - 1].pressed
          BY <1>a, <2>3, <3>1, <3>3
        <4> QED
          BY <2>2, <4>1 DEF Underway
      <3> QED
        BY <3>2, <3>3
    <2>6. LateInOrder'
      <3>1. CASE m2test
        BY <2>1, <3>1 DEF M2Inv, LateInOrder
      <3>2. CASE ~m2test
        <4>1. HeldTest' <=> head.test
          BY <1>5, <2>2 DEF HeldTest
        <4>2. ~HeldTest
          BY <2>1 DEF HeldTest
        <4>3. head.test => m2late + 1 <= QueueDepth + 1
          BY <1>a, <2>3, <3>2, <4>2 DEF M2Inv, LateInOrder, LateAfter
        <4>4. ASSUME NEW i \in 1..Len(rest), rest[i].test PROVE m2late + (i + 1) <= QueueDepth + 1
          <5>1. i + 1 \in 1..Len(m2queue) /\ m2queue[i + 1].test
            BY <1>a, <2>3, <4>4
          <5> QED
            BY <3>2, <4>2, <5>1 DEF M2Inv, LateInOrder, LateAfter
        <4>5. m2host = "sampled" /\ m2sample.test => m2late + (Len(m2queue) + 1) <= QueueDepth + 1
          BY <3>2, <4>2 DEF M2Inv, LateInOrder, LateAfter
        <4>6. m2late <= QueueDepth + 1
          BY <1>a, <3>2, <4>2 DEF M2Inv, LateInOrder, LateAfter
        <4>7. \A n : LateAfter(n)' <=> (IF head.test THEN m2late + 1 ELSE m2late) + n <= QueueDepth + 1
          BY <2>1, <4>1 DEF LateAfter
        <4>8. LateAfter(0)'
          BY <1>a, <4>3, <4>6, <4>7
        <4>9. \A i \in 1..Len(rest) : rest[i].test => LateAfter(i)'
          BY <1>a, <2>3, <4>4, <4>7
        <4>10. m2host = "sampled" /\ m2sample.test => LateAfter(Len(rest) + 1)'
          BY <1>a, <2>3, <4>5, <4>7
        <4> QED
          BY <2>1, <2>2, <3>2, <4>8, <4>9, <4>10 DEF LateInOrder, LateAfter, HeldTest
      <3> QED
        BY <3>1, <3>2
    <2> QED
      BY <2>4, <2>5, <2>6 DEF M2Inv
  <1>6. CASE Loop \/ (Test /\ m2worker' # "requests") \/ Block \/ CheckScene
    <2>1. UNCHANGED << m2queue, m2input, m2owed, m2late, m2test, m2host, m2sample, m2frames >>
      BY <1>6 DEF Loop, Test, Block, CheckScene, m2shared, m2hostOwn
    <2>2. m2worker \notin Holding /\ m2worker' \notin Holding
      BY <1>6 DEF Loop, Test, Block, CheckScene
    <2>3. HeldTest' => HeldTest
      BY <2>2 DEF HeldTest
    <2>4. M2Types'
      BY <1>a, <2>1 DEF M2Types
    <2> QED
      BY <1>s, <1>l, <2>1, <2>2, <2>3, <2>4 DEF M2Inv
  <1>7. CASE TakeRequests
    <2>1. /\ UNCHANGED << m2queue, m2input, m2owed, m2late, m2test, m2host, m2sample, m2frames >>
          /\ m2worker = "requests" /\ m2worker' = "boot"
      BY <1>7 DEF TakeRequests, m2hostOwn
    <2>2. HeldTest' => HeldTest
      BY <2>1 DEF HeldTest
    <2>3. M2Types'
      BY <1>a, <2>1 DEF M2Types
    <2> QED
      BY <1>s, <1>l, <2>1, <2>2, <2>3 DEF M2Inv
  <1>8. CASE HoldTest
    <2>1. /\ UNCHANGED << m2queue, m2owed, m2test, m2host, m2sample, m2frames >>
          /\ m2worker = "boot" /\ m2worker' = "run"
          /\ m2late' = (IF m2test THEN 0 ELSE IF m2input.test THEN m2late + 1 ELSE m2late)
      BY <1>8 DEF HoldTest, m2hostOwn
    <2>2. m2input' \in Frames /\ m2input'.pressed = m2input.pressed
      <3>1. [m2input EXCEPT !.test = TRUE] \in Frames /\ [m2input EXCEPT !.test = TRUE].pressed = m2input.pressed
        BY <1>a DEF Frames
      <3> QED
        BY <1>8, <1>a, <3>1 DEF HoldTest
    <2>3. M2Types'
      BY <1>a, <2>1, <2>2 DEF M2Types
    <2>4. NoPressLost'
      BY <2>1, <2>2 DEF M2Inv, NoPressLost, Underway
    <2>5. LateInOrder'
      <3>1. CASE m2test
        BY <2>1, <3>1 DEF LateInOrder
      <3>2. CASE ~m2test
        <4>1. ~HeldTest' /\ (HeldTest <=> m2input.test)
          BY <2>1 DEF HeldTest
        <4>2. \A n : LateAfter(n)' <=> LateAfter(n)
          BY <2>1, <3>2, <4>1 DEF LateAfter
        <4> QED
          BY <2>1, <3>2, <4>2 DEF M2Inv, LateInOrder, LateAfter, HeldTest
      <3> QED
        BY <3>1, <3>2
    <2> QED
      BY <2>3, <2>4, <2>5 DEF M2Inv
  <1>9. CASE Run
    <2>1. /\ UNCHANGED << m2queue, m2input, m2late, m2test, m2host, m2sample, m2frames >>
          /\ m2worker = "run" /\ m2worker' = "check" /\ m2owed' = m2owed \ m2input.pressed
      BY <1>9 DEF Run, m2shared, m2hostOwn
    <2>2. HeldTest' => HeldTest
      BY <2>1 DEF HeldTest
    <2>3. M2Types'
      BY <1>a, <2>1 DEF M2Types
    <2>4. NoPressLost'
      BY <2>1 DEF M2Inv, NoPressLost, Underway
    <2> QED
      BY <1>l, <2>1, <2>2, <2>3, <2>4 DEF M2Inv
  <1>10. CASE Close
    <2>1. /\ UNCHANGED << m2queue, m2input, m2owed, m2late, m2host, m2sample, m2frames >>
          /\ m2worker \in {"closing", "closed"} /\ m2worker' \in {"closed", "top"}
          /\ m2test' = FALSE \/ m2test' = m2test
      BY <1>10 DEF Close, CloseTest, m2hostOwn
    <2>2. m2test' \in BOOLEAN
      BY <1>a, <2>1
    <2>3. M2Types'
      BY <1>a, <2>1, <2>2 DEF M2Types
    <2>4. ~HeldTest' /\ ~HeldTest
      BY <2>1 DEF HeldTest
    <2>5. LateInOrder'
      <3>1. CASE m2test' = m2test
        BY <1>l, <2>1, <2>4, <3>1
      <3>2. CASE m2test /\ m2test' = FALSE
        <4>1. m2late = 0
          BY <3>2 DEF M2Inv, LateInOrder
        <4>2. \A n \in 0..(QueueDepth + 1) : LateAfter(n)'
          BY <1>a, <2>1, <2>4, <4>1 DEF LateAfter
        <4>3. 0 \in 0..(QueueDepth + 1) /\ Len(m2queue) + 1 \in 0..(QueueDepth + 1)
              /\ \A i \in 1..Len(m2queue) : i \in 0..(QueueDepth + 1)
          BY <1>a
        <4>4. \A i \in 1..Len(m2queue) : LateAfter(i)'
          BY <4>2, <4>3
        <4>5. LateAfter(0)' /\ LateAfter(Len(m2queue) + 1)'
          BY <2>1, <4>2, <4>3 DEF LateAfter, HeldTest
        <4> QED
          BY <2>1, <3>2, <4>4, <4>5 DEF LateInOrder, LateAfter, HeldTest
      <3> QED
        BY <1>a, <2>1, <3>1, <3>2
    <2> QED
      BY <1>s, <2>1, <2>3, <2>5 DEF M2Inv
  <1> QED
    BY <1>1, <1>2, <1>3, <1>4, <1>5, <1>6, <1>7, <1>8, <1>9, <1>10 DEF M2Next, M2Worker, M2Host

LEMMA M2LetsGo == M2Inv => TestLetGo
  BY M2Assumption DEF M2Inv, M2Types, LateInOrder, LateAfter, HeldTest, TestLetGo

-----------------------------------------------------------------------------
(* The strips of polygons.                                                     *)

Lists == [reading : BOOLEAN, words : Nat, commands : Nat, ended : BOOLEAN, truncated : BOOLEAN]
MgTypes ==
    /\ mgList \in Lists
    /\ mgStrip = [kind |-> mgStrip.kind, previous0 |-> mgStrip.previous0, previous1 |-> mgStrip.previous1,
                  links |-> mgStrip.links]
    /\ mgStrip.links \in Nat
    /\ \E any : mgPolygons \in Seq(any)
    /\ ~mgList.reading => mgStrip = NoStrip

(* A strip that goes on goes on from an edge of the polygon before, as long as *)
(* polygons are kept.                                                         *)
StripGoesOn ==
    (mgStrip.links > 0 /\ Len(mgPolygons) < MgMaximum) =>
        /\ Len(mgPolygons) > 0
        /\ << mgStrip.previous0, mgStrip.previous1 >> \in Edges(mgPolygons[Len(mgPolygons)])
MgInv == MgTypes /\ StripGoesOn /\ StripsJoined

LEMMA MgBegins == MgInit => MgInv
  <1> SUFFICES ASSUME MgInit PROVE MgInv
    OBVIOUS
  <1>1. mgPolygons = << >> /\ << >> \in Seq({}) /\ Len(<< >>) = 0
    <2>1. mgPolygons = << >>
      BY DEF MgInit
    <2> QED
      BY <2>1
  <1>2. MgTypes
    <2>1. mgStrip = NoStrip /\ NoStrip = [kind |-> NoStrip.kind, previous0 |-> NoStrip.previous0,
                                          previous1 |-> NoStrip.previous1, links |-> NoStrip.links]
          /\ NoStrip.links = 0
      BY DEF MgInit, NoStrip
    <2>2. mgList \in Lists
      BY DEF MgInit, Lists
    <2> QED
      BY <1>1, <2>1, <2>2 DEF MgTypes
  <1>3. StripGoesOn
    <2>1. mgStrip.links = 0
      BY DEF MgInit, NoStrip
    <2> QED
      BY <2>1 DEF StripGoesOn
  <1>4. StripsJoined
    <2>1. 2..0 = {}
      OBVIOUS
    <2> QED
      BY <1>1, <2>1 DEF StripsJoined
  <1> QED
    BY <1>2, <1>3, <1>4 DEF MgInv

(* What the words taken leave of the list. *)
LEMMA TakingKeepsReading ==
    ASSUME mgList \in Lists, NEW words \in Nat
    PROVE  /\ Taking(words) \in Lists /\ Taking(words).reading = mgList.reading
           /\ Counting(Taking(words)) \in Lists /\ Counting(Taking(words)).reading = mgList.reading
  <1>1. MgWords \in Nat
    BY Model2GeometryAssumption
  <1>2. Taking(words) \in Lists /\ Taking(words).reading = mgList.reading
    <2>1. PICK list \in Lists : list = mgList
      OBVIOUS
    <2>a. (words > Left) \in BOOLEAN
      OBVIOUS
    <2>2. PICK cut \in BOOLEAN : cut = (words > Left)
      BY <2>a, Zenon
    <2>3. PICK taken \in Nat : taken = (IF words <= Left THEN mgList.words + words ELSE MgWords)
      BY <1>1 DEF Lists
    <2>4. Taking(words) = [list EXCEPT !.words = taken, !.truncated = cut]
      BY <2>1, <2>2, <2>3 DEF Taking
    <2> QED
      BY <2>1, <2>4 DEF Lists
  <1>3. ASSUME NEW list \in Lists PROVE Counting(list) \in Lists /\ Counting(list).reading = list.reading
    BY DEF Counting, Lists
  <1> QED
    BY <1>2, <1>3

LEMMA MgStays == MgInv /\ [MgNext]_mgvars => MgInv'
  <1> SUFFICES ASSUME MgInv, [MgNext]_mgvars PROVE MgInv'
    OBVIOUS
  <1>t. MgTypes /\ mgList \in Lists /\ MgMaximum \in Nat
    BY Model2GeometryAssumption DEF MgInv, MgTypes
  <1>u. ASSUME UNCHANGED << mgStrip, mgPolygons >>, mgList' \in Lists, mgList'.reading = mgList.reading \/ mgStrip = NoStrip
        PROVE  MgInv'
    BY <1>u DEF MgInv, MgTypes, StripGoesOn, StripsJoined
  <1>c. ASSUME NEW words \in Nat, ListCommand(words)
        PROVE  mgList' \in Lists /\ mgList'.reading = TRUE /\ mgStrip = NoStrip
    <2>1. mgList.reading = TRUE /\ mgStrip = NoStrip /\ mgList' = Counting(Taking(1 + words)) /\ 1 + words \in Nat
      BY <1>c DEF ListCommand, Reading, Lists, MgInv, MgTypes
    <2> QED
      BY <1>t, <2>1, TakingKeepsReading
  <1>s. ASSUME NEW kind, StartStrip(kind), mgPolygons' = mgPolygons, mgList' \in Lists, mgList'.reading = TRUE
        PROVE  MgInv'
    <2>1. mgStrip' = [kind |-> kind, previous0 |-> mgPoints + 1, previous1 |-> mgPoints + 2, links |-> 0]
      BY <1>s DEF StartStrip
    <2> QED
      BY <1>s, <2>1 DEF MgInv, MgTypes, StripGoesOn, StripsJoined
  <1>1. CASE Parse
    <2>1. mgStrip = NoStrip /\ mgStrip' = NoStrip
      BY <1>1 DEF Parse, MgInv, MgTypes
    <2>2. mgPolygons' = << >> /\ << >> \in Seq({}) /\ mgList' \in Lists
      BY <1>1 DEF Parse, Lists
    <2> QED
      BY <2>1, <2>2 DEF MgInv, MgTypes, StripGoesOn, StripsJoined, NoStrip
  <1>2. CASE OutOfWords \/ Parsed
    <2>1. mgStrip = NoStrip /\ mgList' \in Lists /\ UNCHANGED << mgStrip, mgPolygons >>
      BY <1>t, <1>2 DEF OutOfWords, Parsed, Reading, Lists, mgOutput
    <2> QED
      BY <1>u, <2>1
  <1>3. CASE Jump
    BY <1>3, <1>c, <1>u DEF Jump, mgOutput
  <1>4. ASSUME NEW count \in {1, 3}, Skip(count) PROVE MgInv'
    <2>1. mgStrip = NoStrip /\ mgList' \in Lists /\ UNCHANGED << mgStrip, mgPolygons >>
      <3>1. PICK list \in Lists : list = mgList
        BY <1>t
      <3>a. (count >= Left) \in BOOLEAN
        OBVIOUS
      <3>2. PICK cut \in BOOLEAN : cut = (count >= Left)
        BY <3>a, Zenon
      <3>3. PICK taken \in Nat : taken = (IF count < Left THEN list.words + 1 + count ELSE list.words + 1)
        BY DEF Lists
      <3>4. mgList' = Counting([list EXCEPT !.words = taken, !.truncated = cut])
            /\ mgStrip = NoStrip /\ UNCHANGED << mgStrip, mgPolygons >>
        BY <1>4, <3>1, <3>2, <3>3 DEF Skip, Reading, mgOutput
      <3>5. [list EXCEPT !.words = taken, !.truncated = cut] \in Lists
        BY DEF Lists
      <3>6. PICK now \in Lists : mgList' = Counting(now)
        BY <3>4, <3>5
      <3> QED
        BY <3>4, <3>6 DEF Counting, Lists
    <2> QED
      BY <1>u, <2>1
  <1>5. ASSUME NEW known \in BOOLEAN, EndOfList(known) PROVE MgInv'
    <2>1. mgStrip = NoStrip /\ UNCHANGED << mgStrip, mgPolygons >>
          /\ mgList' = [Counting(Taking(1)) EXCEPT !.ended = known, !.truncated = ~known]
      BY <1>5 DEF EndOfList, Reading, mgOutput
    <2>2. Counting(Taking(1)) \in Lists
      BY <1>t, TakingKeepsReading
    <2>3. mgList' \in Lists
      BY <2>1, <2>2 DEF Lists
    <2> QED
      BY <1>u, <2>1, <2>3
  <1>6. ASSUME NEW name, NEW words \in Nat, Load(name, words) \/ LoadPart(name, words) PROVE MgInv'
    BY <1>6, <1>c, <1>u DEF Load, LoadPart, mgOutput
  <1>7. ASSUME NEW exponent, LoadAdjust(exponent) PROVE MgInv'
    BY <1>7, <1>c, <1>u DEF LoadAdjust, mgOutput
  <1>8. ASSUME NEW viewport, WindowData(viewport) PROVE MgInv'
    BY <1>8, <1>c, <1>u DEF WindowData
  <1>9. ASSUME NEW select, ObjectData(select) PROVE MgInv'
    <2>1. mgList' \in Lists /\ mgList'.reading = TRUE /\ mgStrip = NoStrip /\ mgPolygons' = mgPolygons
      BY <1>9, <1>c DEF ObjectData
    <2>2. StartStrip("object") \/ mgStrip' = mgStrip
      BY <1>9 DEF ObjectData
    <2> QED
      BY <1>s, <1>u, <2>1, <2>2
  <1>10. CASE DirectData
    <2>1. mgList' \in Lists /\ mgList'.reading = TRUE /\ mgStrip = NoStrip /\ mgPolygons' = mgPolygons
      <3>1. ListCommand(8) /\ mgPolygons' = mgPolygons
        BY <1>10 DEF DirectData
      <3> QED
        BY <1>c, <3>1
    <2>2. StartStrip("direct") \/ mgStrip' = mgStrip
      BY <1>10 DEF DirectData
    <2> QED
      BY <1>s, <1>u, <2>1, <2>2
  (* A link of a strip: its polygon is joined to the one before, and the next    *)
  (* one will be joined to it.                                                  *)
  <1>11. ASSUME NEW quad \in BOOLEAN, NEW mode \in 0..3, NEW link \in 0..3, Link(quad, mode, link),
                mgStrip # NoStrip, mgList' \in Lists, mgList'.reading = mgList.reading
         PROVE  MgInv'
    <2>1. mgList.reading = TRUE
      BY <1>11, <1>t DEF MgTypes, Lists
    <2>2. PICK next0, next1 : /\ Polygon(next0, next1, mode, link)
                              /\ mgStrip' = [Linked(mgStrip, link, next0, next1) EXCEPT !.links = @ + 1]
      BY <1>11 DEF Link
    <2>3. PICK next : mgStrip' = next /\ next = [kind |-> mgStrip.kind, previous0 |-> next.previous0,
                          previous1 |-> next.previous1, links |-> mgStrip.links + 1]
                   /\ << next.previous0, next.previous1 >> \in
                        { << mgStrip.previous0, next0 >>, << next1, mgStrip.previous1 >>, << next0, next1 >> }
      <3>1. PICK strip : strip = mgStrip /\ strip = [kind |-> strip.kind, previous0 |-> strip.previous0,
                            previous1 |-> strip.previous1, links |-> strip.links]
        BY <1>t DEF MgTypes
      <3>2. PICK linked, a, b :
               /\ linked = Linked(strip, link, next0, next1)
               /\ linked = [kind |-> strip.kind, previous0 |-> a, previous1 |-> b, links |-> strip.links]
               /\ << a, b >> \in { << strip.previous0, next0 >>, << next1, strip.previous1 >>, << next0, next1 >> }
        <4>1. CASE link = 1
          <5>1. [strip EXCEPT !.previous1 = next0]
                  = [kind |-> strip.kind, previous0 |-> strip.previous0, previous1 |-> next0, links |-> strip.links]
            BY <3>1
          <5> QED
            BY <4>1, <5>1 DEF Linked
        <4>2. CASE link = 3
          <5>1. [strip EXCEPT !.previous0 = next1]
                  = [kind |-> strip.kind, previous0 |-> next1, previous1 |-> strip.previous1, links |-> strip.links]
            BY <3>1
          <5> QED
            BY <4>2, <5>1 DEF Linked
        <4>3. CASE link # 1 /\ link # 3
          <5>1. [strip EXCEPT !.previous0 = next0, !.previous1 = next1]
                  = [kind |-> strip.kind, previous0 |-> next0, previous1 |-> next1, links |-> strip.links]
            <6> DEFINE half == [kind |-> strip.kind, previous0 |-> next0, previous1 |-> strip.previous1,
                                links |-> strip.links]
            <6>1. [strip EXCEPT !.previous0 = next0] = half
              BY <3>1
            <6>2. [half EXCEPT !.previous1 = next1]
                    = [kind |-> strip.kind, previous0 |-> next0, previous1 |-> next1, links |-> strip.links]
              OBVIOUS
            <6> HIDE DEF half
            <6>3. [strip EXCEPT !.previous0 = next0, !.previous1 = next1] = [half EXCEPT !.previous1 = next1]
              BY <6>1, Zenon
            <6> QED
              BY <6>2, <6>3
          <5> QED
            BY <4>3, <5>1 DEF Linked
        <4> QED
          BY <4>1, <4>2, <4>3
      <3>3. mgStrip' = [kind |-> strip.kind, previous0 |-> a, previous1 |-> b, links |-> strip.links + 1]
        BY <2>2, <3>1, <3>2
      <3> QED
        BY <3>1, <3>2, <3>3
    <2>4. next.links \in Nat /\ next.links > 0
      BY <1>t, <2>3 DEF MgTypes
    <2>5. CASE Len(mgPolygons) < MgMaximum
      <3>1. PICK p : /\ mgPolygons' = Append(mgPolygons, p)
                     /\ p.vertices = << mgStrip.previous1, mgStrip.previous0, next0, next1 >>
                     /\ p.place = mgStrip.links
        BY <2>2, <2>5 DEF Polygon, Vertices
      <3>2. PICK any : mgPolygons \in Seq(any)
        BY <1>t DEF MgTypes
      <3>3. mgPolygons \in Seq(any \cup {p})
        <4>1. mgPolygons \in [1..Len(mgPolygons) -> any] /\ Len(mgPolygons) \in Nat
          BY <3>2
        <4>2. mgPolygons \in [1..Len(mgPolygons) -> any \cup {p}]
          BY <4>1
        <4> QED
          BY <4>1, <4>2
      <3>4. PICK n \in Nat : n = Len(mgPolygons) /\ DOMAIN mgPolygons = 1..n
        BY <3>2
      <3>5. PICK polygons : polygons = mgPolygons' /\ polygons \in Seq(any \cup {p}) /\ Len(polygons) = n + 1
               /\ polygons[n + 1] = p /\ \A i \in 1..n : polygons[i] = mgPolygons[i]
        BY <3>1, <3>3, <3>4
      <3>6. << next.previous0, next.previous1 >> \in Edges(p)
        BY <2>3, <3>1 DEF Edges
      <3>7. StripGoesOn'
        BY <2>3, <3>4, <3>5, <3>6 DEF StripGoesOn
      <3>8. p.place > 0 => n > 0 /\ << p.vertices[2], p.vertices[1] >> \in Edges(mgPolygons[n])
        <4>1. p.vertices[1] = mgStrip.previous1 /\ p.vertices[2] = mgStrip.previous0
          BY <3>1
        <4>2. p.place > 0 => mgStrip.links > 0
          BY <1>t, <3>1 DEF MgTypes
        <4> QED
          BY <2>5, <3>4, <4>1, <4>2 DEF MgInv, StripGoesOn
      <3>9. ASSUME NEW i \in 2..(n + 1), polygons[i].place > 0
            PROVE  << polygons[i].vertices[2], polygons[i].vertices[1] >> \in Edges(polygons[i - 1])
        <4>1. CASE i = n + 1
          BY <3>4, <3>5, <3>8, <3>9, <4>1
        <4>2. CASE i # n + 1
          <5>1. i \in 2..n /\ i - 1 \in 1..n /\ i \in 1..n
            BY <3>4, <4>2
          <5> QED
            BY <3>4, <3>5, <3>9, <5>1 DEF MgInv, StripsJoined
        <4> QED
          BY <4>1, <4>2
      <3>10. StripsJoined'
        BY <3>5, <3>9 DEF StripsJoined
      <3>11. MgTypes'
        <4>1. mgStrip' = next /\ mgPolygons' = polygons /\ polygons \in Seq(any \cup {p})
          BY <2>3, <3>5
        <4> QED
          BY <1>11, <2>1, <2>3, <2>4, <4>1 DEF MgTypes
      <3> QED
        BY <3>7, <3>10, <3>11 DEF MgInv
    <2>6. CASE ~(Len(mgPolygons) < MgMaximum)
      <3>1. mgPolygons' = mgPolygons
        BY <2>2, <2>6 DEF Polygon
      <3>2. MgTypes'
        BY <1>11, <1>t, <2>1, <2>3, <2>4, <3>1 DEF MgTypes
      <3> QED
        BY <2>6, <3>1, <3>2 DEF MgInv, StripGoesOn, StripsJoined
    <2> QED
      BY <2>5, <2>6
  <1>12. ASSUME NEW quad \in BOOLEAN, NEW mode \in 0..3, NEW link \in 0..3,
                ObjectLink(quad, mode, link) \/ DirectLink(quad, mode, link)
         PROVE  MgInv'
    <2>1. mgStrip # NoStrip /\ Link(quad, mode, link)
      BY <1>12 DEF ObjectLink, DirectLink, NoStrip
    <2>2. mgList' \in Lists /\ mgList'.reading = mgList.reading
      <3>1. mgList' = mgList \/ mgList' = Taking(IF quad THEN 9 ELSE 6)
        BY <1>12 DEF ObjectLink, DirectLink
      <3> QED
        BY <1>t, <3>1, TakingKeepsReading
    <2> QED
      BY <1>11, <2>1, <2>2
  <1>13. CASE ObjectEnds \/ DirectEnds
    <2>1. mgStrip' = NoStrip /\ mgPolygons' = mgPolygons
      BY <1>13 DEF ObjectEnds, DirectEnds, EndStrip, mgOutput
    <2>2. mgList' \in Lists
      <3>1. mgList' = mgList \/ mgList' = Taking(1) \/ \E words \in {6, 9} : mgList' = Taking(words)
        BY <1>13 DEF ObjectEnds, DirectEnds
      <3> QED
        BY <1>t, <3>1, TakingKeepsReading
    <2> QED
      BY <2>1, <2>2 DEF MgInv, MgTypes, StripGoesOn, StripsJoined, NoStrip
  <1>14. CASE UNCHANGED mgvars
    BY <1>14, <1>t, <1>u DEF mgvars, mgOutput
  <1>15. CASE \/ Load("matrix", 12) \/ Load("light", 3) \/ LoadPart("matrix", 3)
              \/ LoadPart("memory", 3) \/ LoadPart("materials", 4)
    <2>1. 12 \in Nat /\ 3 \in Nat /\ 4 \in Nat
      OBVIOUS
    <2>2. \E name : \E words \in Nat : Load(name, words) \/ LoadPart(name, words)
      BY <1>15, <2>1
    <2> QED
      BY <1>6, <2>2
  <1>16. CASE MgNext
    <2>1. CASE \/ \E exponent \in {0, 1} : LoadAdjust(exponent)
               \/ \E viewport \in MgViewports : WindowData(viewport)
               \/ \E select \in {0, 1} : ObjectData(select)
      BY <1>7, <1>8, <1>9, <2>1
    <2>2. CASE \E quad \in BOOLEAN, mode \in 0..3, link \in 0..3 :
                  ObjectLink(quad, mode, link) \/ DirectLink(quad, mode, link)
      BY <1>12, <2>2
    <2>3. CASE \/ \E count \in {1, 3} : Skip(count)
               \/ \E known \in BOOLEAN : EndOfList(known)
      BY <1>4, <1>5, <2>3
    <2>4. CASE Parse \/ OutOfWords \/ Parsed \/ Jump \/ DirectData \/ ObjectEnds \/ DirectEnds
      BY <1>1, <1>2, <1>3, <1>10, <1>13, <2>4
    <2> QED
      BY <1>15, <1>16, <2>1, <2>2, <2>3, <2>4 DEF MgNext
  <1> QED
    BY <1>14, <1>16

-----------------------------------------------------------------------------
(* The depths of Model 2's polygons.                                           *)

(* The cells that depths are rounded to: Cell of them in a step of HalfMantissa *)
(* twice, KeptCells in an exponent.                                            *)
Mantissas == 2 ^ MgMantissa
KeptCells == 2 ^ MgKept
CellSize == 2 ^ (MgMantissa - MgKept)
LEMMA DepthWidths ==
    /\ Mantissas \in Nat \ {0} /\ KeptCells \in Nat \ {0} /\ HalfMantissa \in Nat \ {0}
    /\ CellSize = 2 * HalfMantissa /\ Mantissas = KeptCells * CellSize
    /\ MgTop \in Nat \ {0} /\ MgKept \in Nat
  <1>1. /\ MgKept \in Nat /\ MgMantissa \in Nat /\ MgKept < MgMantissa /\ MgTop \in Nat \ {0}
    BY Model2GeometryAssumption
  <1>2. MgMantissa - MgKept - 1 \in 0..MgMantissa /\ MgMantissa - MgKept - 1 + 1 = MgMantissa - MgKept
        /\ MgMantissa \in 0..MgMantissa /\ MgKept \in 0..MgMantissa
    BY <1>1
  <1>3. /\ 2^(MgMantissa - MgKept - 1) \in Nat \ {0} /\ 2^MgMantissa \in Nat \ {0} /\ 2^MgKept \in Nat \ {0}
        /\ 2^(MgMantissa - MgKept - 1 + 1) = 2 * 2^(MgMantissa - MgKept - 1)
    BY <1>2, Model2PowerAssumption
  <1>4. CellSize = 2 * HalfMantissa
    BY <1>2, <1>3 DEF CellSize, HalfMantissa
  <1>5. Mantissas = KeptCells * CellSize
    BY Model2PowerAssumption DEF Mantissas, KeptCells, CellSize
  <1> QED
    BY <1>1, <1>3, <1>4, <1>5 DEF Mantissas, KeptCells, HalfMantissa

LEMMA DivisionIs ==
    ASSUME NEW n \in Nat \ {0}, NEW u \in Int, NEW v \in Nat, v < n
    PROVE  (u * n + v) \div n = u /\ (u * n + v) % n = v
  <1>1. PICK w \in Int : w = u * n
    OBVIOUS
  <1>2. PICK x \in Int, y \in 0..(n - 1) : x = (w + v) \div n /\ y = (w + v) % n /\ w + v = x * n + y
    <2>1. (w + v) \div n \in Int /\ (w + v) % n \in 0..(n - 1) /\ w + v = ((w + v) \div n) * n + ((w + v) % n)
      OBVIOUS
    <2> QED
      BY <2>1
  <1>3. x = u
    <2>1. CASE x < u
      <3>1. PICK e \in Nat : u = x + 1 + e
        <4>1. u - x - 1 \in Nat /\ u = x + 1 + (u - x - 1)
          BY <2>1
        <4> QED
          BY <4>1
      <3>2. u * n = x * n + n + e * n /\ e * n >= 0
        BY <3>1
      <3>3. PICK c \in Int, f \in Int : c = x * n /\ f = e * n
        OBVIOUS
      <3> QED
        BY <1>1, <1>2, <3>2, <3>3
    <2>2. CASE x > u
      <3>1. PICK e \in Nat : x = u + 1 + e
        <4>1. x - u - 1 \in Nat /\ x = u + 1 + (x - u - 1)
          BY <2>2
        <4> QED
          BY <4>1
      <3>2. x * n = u * n + n + e * n /\ e * n >= 0
        BY <3>1
      <3>3. PICK c \in Int, f \in Int : c = x * n /\ f = e * n
        OBVIOUS
      <3> QED
        BY <1>1, <1>2, <3>2, <3>3
    <2> QED
      BY <2>1, <2>2
  <1>4. y = v
    BY <1>1, <1>2, <1>3
  <1> QED
    BY <1>1, <1>2, <1>3, <1>4

(* The bucket of a cell of an exponent.                                        *)
Bucket(exponent, kept) ==
    IF exponent < -MgKept THEN 0
    ELSE IF exponent < 0 THEN (kept + KeptCells) \div 2 ^ (-exponent)
    ELSE IF exponent < MgTop THEN (exponent + 1) * KeptCells + kept
    ELSE (MgTop + 1) * KeptCells - 1

LEMMA DivisionRises ==
    ASSUME NEW n \in Nat \ {0}, NEW u \in Nat, NEW v \in Nat, u <= v
    PROVE  u \div n <= v \div n /\ u \div n \in Nat
  <1>1. PICK x \in Int, y \in 0..(n - 1) : x = u \div n /\ u = x * n + y
    <2>1. u \div n \in Int /\ u % n \in 0..(n - 1) /\ u = (u \div n) * n + (u % n)
      OBVIOUS
    <2> QED
      BY <2>1
  <1>2. PICK p \in Int, q \in 0..(n - 1) : p = v \div n /\ v = p * n + q
    <2>1. v \div n \in Int /\ v % n \in 0..(n - 1) /\ v = (v \div n) * n + (v % n)
      OBVIOUS
    <2> QED
      BY <2>1
  <1>3. x <= p
    <2> SUFFICES ASSUME x > p PROVE FALSE
      OBVIOUS
    <2>1. PICK e \in Nat : x = p + 1 + e
      <3>1. x - p - 1 \in Nat /\ x = p + 1 + (x - p - 1)
        OBVIOUS
      <3> QED
        BY <3>1
    <2>2. x * n = p * n + n + e * n /\ e * n >= 0
      BY <2>1
    <2>3. PICK c \in Int, f \in Int : c = p * n /\ f = e * n
      OBVIOUS
    <2> QED
      BY <1>1, <1>2, <2>2, <2>3
  <1>4. x >= 0
    <2> SUFFICES ASSUME x < 0 PROVE FALSE
      OBVIOUS
    <2>1. PICK e \in Nat : x = -1 - e
      <3>1. -1 - x \in Nat /\ x = -1 - (-1 - x)
        OBVIOUS
      <3> QED
        BY <3>1
    <2>2. x * n = -n - e * n /\ e * n >= 0
      BY <2>1
    <2>3. PICK f \in Int : f = e * n
      OBVIOUS
    <2> QED
      BY <1>1, <2>2, <2>3
  <1> QED
    BY <1>1, <1>2, <1>3, <1>4

LEMMA BucketsRise ==
    ASSUME NEW x \in Int, NEW kept \in 0..(KeptCells - 1)
    PROVE  /\ kept + 1 < KeptCells => Bucket(x, kept) <= Bucket(x, kept + 1)
           /\ kept + 1 = KeptCells => Bucket(x, kept) <= Bucket(x + 1, 0)
           /\ Bucket(x, kept) \in Int
  <1>1. PICK c \in Nat \ {0}, top \in Nat \ {0} : c = KeptCells /\ top = MgTop
    BY DepthWidths
  <1>2. MgKept \in Nat /\ MgKept < MgMantissa /\ MgMantissa \in Nat
    BY Model2GeometryAssumption
  <1>3. kept \in 0..(c - 1)
    BY <1>1
  <1>4. CASE x < -MgKept
    <2>1. Bucket(x, kept) = 0 /\ Bucket(x, kept + 1) = 0
      BY <1>4 DEF Bucket
    <2>2. Bucket(x + 1, 0) >= 0
      <3>1. CASE x + 1 < -MgKept
        BY <3>1 DEF Bucket
      <3>2. CASE ~(x + 1 < -MgKept) /\ x + 1 < 0
        <4>1. -(x + 1) \in 0..MgMantissa
          BY <1>2, <3>2
        <4>2. PICK n \in Nat \ {0} : n = 2^(-(x + 1))
          BY <4>1, Model2PowerAssumption
        <4>3. Bucket(x + 1, 0) = (0 + c) \div n
          BY <1>1, <3>2, <4>2 DEF Bucket
        <4>4. 0 + c = c /\ c \div n \in Nat
          BY DivisionRises
        <4> QED
          BY <4>3, <4>4
      <3>3. CASE ~(x + 1 < -MgKept) /\ ~(x + 1 < 0)
        <4>1. x + 1 = 0
          BY <1>2, <1>4, <3>3
        <4>2. 0 < MgTop /\ ~(0 < -MgKept)
          BY <1>1, <1>2
        <4>3. Bucket(0, 0) = (0 + 1) * c + 0
          BY <1>1, <4>2 DEF Bucket
        <4> QED
          BY <4>1, <4>3
      <3> QED
        BY <3>1, <3>2, <3>3
    <2> QED
      BY <2>1, <2>2
  <1>5. CASE ~(x < -MgKept) /\ x < 0
    <2>1. -x \in 0..MgMantissa /\ -x - 1 \in 0..MgMantissa /\ -x - 1 + 1 = -x
      BY <1>2, <1>5
    <2>2. PICK p \in Nat \ {0}, n \in Nat \ {0} : p = 2^(-x - 1) /\ n = 2^(-x) /\ n = 2 * p
      BY <2>1, Model2PowerAssumption
    <2>3. /\ Bucket(x, kept) = (kept + c) \div n
          /\ Bucket(x, kept + 1) = (kept + 1 + c) \div n
      BY <1>1, <1>5, <2>2 DEF Bucket
    <2>4. (kept + c) \div n <= (kept + 1 + c) \div n /\ (kept + c) \div n \in Nat
      BY <1>3, DivisionRises
    <2>5. kept + 1 = c => (kept + c) \div n <= Bucket(x + 1, 0)
      <3> SUFFICES ASSUME kept + 1 = c PROVE (kept + c) \div n <= Bucket(x + 1, 0)
        OBVIOUS
      <3>1. kept + c \in Nat /\ kept + c <= 2 * c
        BY <1>3
      <3>2. (kept + c) \div n <= (2 * c) \div n
        BY <3>1, DivisionRises
      <3>3. (2 * c) \div n = c \div p
        <4>1. PICK a \in Nat, r \in 0..(p - 1) : a = c \div p /\ c = a * p + r
          <5>1. c \div p \in Nat /\ c % p \in 0..(p - 1) /\ c = (c \div p) * p + (c % p)
            OBVIOUS
          <5> QED
            BY <5>1
        <4>2. 2 * c = a * n + 2 * r /\ 2 * r \in Nat /\ 2 * r < n
          <5>1. a * (2 * p) = 2 * (a * p)
            OBVIOUS
          <5>2. PICK w \in Int : w = a * p
            OBVIOUS
          <5> QED
            BY <2>2, <4>1, <5>1, <5>2
        <4>3. (a * n + 2 * r) \div n = a
          BY <4>2, DivisionIs
        <4> QED
          BY <4>1, <4>2, <4>3
      <3>4. CASE x + 1 < 0
        <4>1. -(x + 1) = -x - 1 /\ ~(x + 1 < -MgKept)
          BY <1>2, <1>5
        <4>2. Bucket(x + 1, 0) = (0 + c) \div 2^(-(x + 1))
          BY <1>1, <3>4, <4>1 DEF Bucket
        <4>5. 0 + c = c /\ 2^(-(x + 1)) = p
          BY <2>2, <4>1
        <4>6. Bucket(x + 1, 0) = c \div p
          BY <4>2, <4>5
        <4>3. c \div p \in Int /\ (kept + c) \div n \in Int
          OBVIOUS
        <4> QED
          BY <3>2, <3>3, <4>6, <4>3
      <3>5. CASE ~(x + 1 < 0)
        <4>1. x + 1 = 0 /\ -x - 1 = 0
          BY <1>5, <3>5
        <4>2. p = 1
          BY <2>2, <4>1, Model2PowerAssumption
        <4>3. 0 < MgTop /\ ~(0 < -MgKept) /\ ~(0 < 0)
          BY <1>1, <1>2
        <4>4. Bucket(0, 0) = c
          BY <1>1, <4>3 DEF Bucket
        <4>5. c \div 1 = c
          OBVIOUS
        <4> QED
          BY <3>2, <3>3, <4>1, <4>2, <4>4, <4>5
      <3> QED
        BY <3>4, <3>5
    <2> QED
      BY <1>1, <2>3, <2>4, <2>5
  <1>6. CASE ~(x < 0) /\ x < MgTop
    <2>1. ~(x < -MgKept) /\ ~(x + 1 < -MgKept) /\ ~(x + 1 < 0)
      BY <1>2, <1>6
    <2>2. PICK a \in Nat, b \in Nat : a = (x + 1) * c /\ b = (top + 1) * c
      BY <1>1, <1>6
    <2>3. Bucket(x, kept) = a + kept /\ Bucket(x, kept + 1) = a + (kept + 1)
      BY <1>1, <1>6, <2>1, <2>2 DEF Bucket
    <2>4. kept + 1 = c => a + kept <= Bucket(x + 1, 0)
      <3>1. CASE x + 1 < MgTop
        <4>1. Bucket(x + 1, 0) = (x + 1 + 1) * c + 0
          BY <1>1, <2>1, <3>1 DEF Bucket
        <4>2. (x + 1 + 1) * c = a + c
          BY <2>2
        <4> QED
          BY <1>3, <4>1, <4>2
      <3>2. CASE ~(x + 1 < MgTop)
        <4>1. x + 1 = top /\ b = a + c
          <5>1. x + 1 = top
            BY <1>1, <1>6, <3>2
          <5>2. (top + 1) * c = top * c + c
            OBVIOUS
          <5> QED
            BY <2>2, <5>1, <5>2
        <4>2. Bucket(x + 1, 0) = b - 1
          BY <1>1, <2>1, <2>2, <3>2 DEF Bucket
        <4> QED
          BY <1>3, <4>1, <4>2
      <3> QED
        BY <3>1, <3>2
    <2> QED
      BY <1>1, <1>3, <2>2, <2>3, <2>4
  <1>7. CASE ~(x < MgTop)
    <2>1. ~(x < -MgKept) /\ ~(x < 0) /\ ~(x + 1 < -MgKept) /\ ~(x + 1 < 0) /\ ~(x + 1 < MgTop)
      BY <1>1, <1>2, <1>7
    <2>2. PICK b \in Int : b = (top + 1) * c
      OBVIOUS
    <2>3. Bucket(x, kept) = b - 1 /\ Bucket(x, kept + 1) = b - 1 /\ Bucket(x + 1, 0) = b - 1
      BY <1>1, <1>7, <2>1, <2>2 DEF Bucket
    <2> QED
      BY <2>2, <2>3
  <1> QED
    BY <1>1, <1>2, <1>4, <1>5, <1>6, <1>7
(* The cell of a mantissa: what is left of it rounded, or one beyond the last   *)
(* of its exponent, where rounding carries into the next.                     *)
Cell(m) == (m + HalfMantissa) \div CellSize
Filed(exponent, cell) == IF cell < KeptCells THEN Bucket(exponent, cell) ELSE Bucket(exponent + 1, 0)

LEMMA CellsFile ==
    ASSUME NEW m \in 0..(Mantissas - 1), NEW e \in Int
    PROVE  /\ Cell(m) \in 0..KeptCells
           /\ Filed(e, Cell(m)) = Bucket(e + Carried(m), KeptBits(m))
           /\ m + 1 < Mantissas => Cell(m + 1) \in {Cell(m), Cell(m) + 1}
           /\ m + 1 = Mantissas => Cell(m) = KeptCells
           /\ m = 0 => Cell(m) = 0
  <1>1. PICK k \in Nat \ {0}, h \in Nat \ {0}, c \in Nat \ {0}, w \in Nat \ {0} :
            k = KeptCells /\ h = HalfMantissa /\ c = CellSize /\ w = Mantissas
    <2>1. CellSize \in Nat \ {0}
      BY DepthWidths
    <2> QED
      BY <2>1, DepthWidths
  <1>2. c = 2 * h /\ w = k * c /\ m \in 0..(w - 1) /\ m \in Nat
    BY <1>1, DepthWidths
  <1>3. PICK a \in Int, r \in 0..(c - 1) : a = (m + h) \div c /\ m + h = a * c + r
    <2>1. (m + h) \div c \in Int /\ (m + h) % c \in 0..(c - 1) /\ m + h = ((m + h) \div c) * c + ((m + h) % c)
      BY <1>2
    <2> QED
      BY <2>1
  <1>4. Cell(m) = a
    BY <1>1, <1>3 DEF Cell
  <1>5. a >= 0
    <2>1. (m + h) \div c \in Nat
      BY <1>2, DivisionRises
    <2> QED
      BY <1>3, <2>1
  <1>6. m + h < w => a < k
    <2> SUFFICES ASSUME m + h < w, a >= k PROVE FALSE
      OBVIOUS
    <2>1. PICK d \in Nat : a = k + d
      <3>1. a - k \in Nat /\ a = k + (a - k)
        OBVIOUS
      <3> QED
        BY <3>1
    <2>2. a * c = k * c + d * c /\ d * c >= 0
      BY <2>1
    <2>3. PICK x \in Int, y \in Int : x = k * c /\ y = d * c
      OBVIOUS
    <2> QED
      BY <1>2, <1>3, <2>2, <2>3
  <1>7. m + h >= w => a = k
    <2> SUFFICES ASSUME m + h >= w PROVE a = k
      OBVIOUS
    <2>1. m + h - w \in Nat /\ m + h - w < c /\ m + h = k * c + (m + h - w)
      <3>1. PICK x \in Int : x = k * c
        OBVIOUS
      <3> QED
        BY <1>2, <3>1
    <2>2. (k * c + (m + h - w)) \div c = k
      BY <2>1, DivisionIs
    <2> QED
      BY <1>3, <2>1, <2>2
  <1>8. /\ m + h < w => Carried(m) = 0 /\ KeptBits(m) = (m + h) \div c
        /\ m + h >= w => Carried(m) = 1 /\ KeptBits(m) = (((m + h) % w) \div 2) \div c
    BY <1>1, <1>2 DEF Carried, KeptBits, Mantissas, CellSize
  <1>9. m + h >= w => KeptBits(m) = 0
    <2> SUFFICES ASSUME m + h >= w PROVE KeptBits(m) = 0
      OBVIOUS
    <2>1. m + h - w \in 0..(h - 1) /\ 1 * w + (m + h - w) = m + h
      BY <1>2
    <2>2. m + h - w < w
      <3>1. w >= c
        <4>1. PICK d \in Nat : k = 1 + d
          <5>1. k - 1 \in Nat /\ k = 1 + (k - 1)
            OBVIOUS
          <5> QED
            BY <5>1
        <4>2. k * c = c + d * c /\ d * c >= 0
          BY <4>1
        <4>3. PICK y \in Int : y = d * c
          OBVIOUS
        <4> QED
          BY <1>2, <4>2, <4>3
      <3> QED
        BY <1>2, <2>1, <3>1
    <2>3. (1 * w + (m + h - w)) % w = m + h - w
      <3>1. PICK v \in Nat : v = m + h - w /\ v < w
        BY <2>1, <2>2
      <3>2. PICK u \in Int : u = 1
        OBVIOUS
      <3>3. (u * w + v) % w = v
        BY <3>1, DivisionIs
      <3> QED
        BY <3>1, <3>2, <3>3
    <2>4. PICK n \in 0..(h - 1) : n = (m + h) % w
      BY <2>1, <2>3
    <2>5. n \div 2 \in Nat /\ n \div 2 < c
      BY <1>2, <2>4
    <2>6. PICK q \in Nat : q = n \div 2
      BY <2>5
    <2>8. q < c
      BY <2>5, <2>6
    <2>7. (0 * c + q) \div c = 0
      BY <2>8, DivisionIs
    <2>9. 0 * c + q = q
      OBVIOUS
    <2> QED
      BY <1>8, <2>4, <2>6, <2>7, <2>9
  <1>10. m + h < w => Cell(m) < KeptCells /\ KeptBits(m) = Cell(m)
    BY <1>1, <1>3, <1>4, <1>6, <1>8
  <1>11. m + h >= w => ~(Cell(m) < KeptCells)
    BY <1>1, <1>4, <1>7
  <1>12. Filed(e, Cell(m)) = Bucket(e + Carried(m), KeptBits(m))
    <2>1. CASE m + h < w
      <3>1. e + Carried(m) = e
        BY <1>8, <2>1
      <3> QED
        BY <1>10, <2>1, <3>1 DEF Filed
    <2>2. CASE m + h >= w
      BY <1>8, <1>9, <1>11, <2>2 DEF Filed
    <2> QED
      BY <1>2, <2>1, <2>2
  <1>13. m + 1 < Mantissas => Cell(m + 1) \in {Cell(m), Cell(m) + 1}
    <2>1. Cell(m + 1) = (m + 1 + h) \div c
      BY <1>1 DEF Cell
    <2>2. CASE r + 1 < c
      <3>1. (a * c + (r + 1)) \div c = a
        BY <2>2, DivisionIs
      <3>2. m + 1 + h = a * c + (r + 1)
        <4>1. PICK x \in Int : x = a * c
          OBVIOUS
        <4> QED
          BY <1>2, <1>3, <4>1
      <3> QED
        BY <1>4, <2>1, <3>1, <3>2
    <2>3. CASE ~(r + 1 < c)
      <3>1. ((a + 1) * c + 0) \div c = a + 1
        BY DivisionIs
      <3>2. m + 1 + h = (a + 1) * c + 0
        <4>1. (a + 1) * c = a * c + c
          OBVIOUS
        <4>2. PICK x \in Int, y \in Int : x = a * c /\ y = (a + 1) * c
          OBVIOUS
        <4>3. y = x + c /\ m + h = x + r /\ r + 1 = c
          BY <1>3, <2>3, <4>1, <4>2
        <4> QED
          BY <1>2, <4>2, <4>3
      <3> QED
        BY <1>4, <2>1, <3>1, <3>2
    <2> QED
      BY <2>2, <2>3
  <1>14. m + 1 = Mantissas => Cell(m) = KeptCells
    BY <1>1, <1>2, <1>4, <1>7
  <1>15. m = 0 => Cell(m) = 0
    <2>1. (0 * c + h) \div c = 0 /\ 0 * c + h = 0 + h
      BY <1>2, DivisionIs
    <2> QED
      BY <1>3, <1>4, <2>1
  <1>16. Cell(m) \in 0..KeptCells
    BY <1>1, <1>2, <1>4, <1>5, <1>6, <1>7
  <1> QED
    BY <1>12, <1>13, <1>14, <1>15, <1>16

LEMMA FiledRises ==
    ASSUME NEW e \in Int, NEW cell \in 0..(KeptCells - 1)
    PROVE  Filed(e, cell) <= Filed(e, cell + 1) /\ Filed(e, cell) \in Int
  <1>1. PICK k \in Nat \ {0} : k = KeptCells
    BY DepthWidths
  <1>2. cell < KeptCells /\ cell \in 0..(KeptCells - 1)
    BY <1>1
  <1>3. Filed(e, cell) = Bucket(e, cell)
    BY <1>2 DEF Filed
  <1>4. CASE cell + 1 < KeptCells
    BY <1>2, <1>3, <1>4, BucketsRise DEF Filed
  <1>5. CASE cell + 1 = KeptCells
    <2>1. ~(cell + 1 < KeptCells)
      BY <1>1, <1>5
    <2> QED
      BY <1>2, <1>3, <1>5, <2>1, BucketsRise DEF Filed
  <1> QED
    BY <1>1, <1>4, <1>5

LEMMA FiledIsANumber ==
    ASSUME NEW e \in Int, NEW cell \in 0..KeptCells
    PROVE  Filed(e, cell) \in Int
  <1>1. PICK k \in Nat \ {0} : k = KeptCells
    BY DepthWidths
  <1>2. CASE cell < KeptCells
    BY <1>1, <1>2, FiledRises
  <1>3. CASE ~(cell < KeptCells)
    <2>1. e + 1 \in Int /\ 0 \in 0..(KeptCells - 1)
      BY <1>1
    <2> QED
      BY <1>3, <2>1, BucketsRise DEF Filed
  <1> QED
    BY <1>2, <1>3

LEMMA DepthsFile ==
    ASSUME NEW e \in Int, NEW m \in 0..(Mantissas - 1), NEW adjust \in Int
    PROVE  ZValue(e * Mantissas + m, adjust) = Filed(e - adjust, Cell(m))
  <1>1. PICK w \in Nat \ {0} : w = Mantissas
    BY DepthWidths
  <1>2. m \in Nat /\ m < w
    BY <1>1
  <1>3. (e * w + m) \div w = e /\ (e * w + m) % w = m
    BY <1>2, DivisionIs
  <1>4. PICK bits \in Int : bits = e * Mantissas + m /\ bits \div Mantissas = e /\ bits % Mantissas = m
    <2>1. e * w + m \in Int
      BY <1>2
    <2> QED
      BY <1>1, <1>3, <2>1
  <1>5. ZValue(bits, adjust) = Bucket(e - adjust + Carried(m), KeptBits(m))
    BY <1>4 DEF ZValue, Bucket, Mantissas, KeptCells
  <1>6. e - adjust \in Int
    OBVIOUS
  <1> QED
    BY <1>4, <1>5, <1>6, CellsFile

(* A farther point is never filed before a nearer one, for every depth and      *)
(* every adjustment.                                                          *)
LEMMA DepthsRise ==
    ASSUME NEW bits \in Nat, NEW adjust \in Int
    PROVE  ZValue(bits, adjust) <= ZValue(bits + 1, adjust)
  <1>1. PICK w \in Nat \ {0}, k \in Nat \ {0} : w = Mantissas /\ k = KeptCells
    BY DepthWidths
  <1>2. PICK e \in Int, m \in 0..(w - 1) : bits = e * w + m
    <2>1. bits \div w \in Int /\ bits % w \in 0..(w - 1) /\ bits = (bits \div w) * w + (bits % w)
      OBVIOUS
    <2> QED
      BY <2>1
  <1>3. PICK x \in Int : x = e - adjust
    OBVIOUS
  <1>4. ZValue(bits, adjust) = Filed(x, Cell(m))
    BY <1>1, <1>2, <1>3, DepthsFile
  <1>5. /\ Cell(m) \in 0..KeptCells
        /\ m + 1 < Mantissas => Cell(m + 1) \in {Cell(m), Cell(m) + 1}
        /\ m + 1 = Mantissas => Cell(m) = KeptCells
    BY <1>1, CellsFile
  <1>6. CASE m + 1 < w
    <2>1. m + 1 \in 0..(w - 1)
      BY <1>6
    <2>2. bits + 1 = e * w + (m + 1)
      <3>1. PICK y \in Int : y = e * w
        OBVIOUS
      <3> QED
        BY <1>2, <3>1
    <2>3. ZValue(bits + 1, adjust) = Filed(x, Cell(m + 1))
      <3>1. PICK n : n = m + 1 /\ n \in 0..(Mantissas - 1)
        BY <1>1, <2>1
      <3>2. ZValue(e * Mantissas + n, adjust) = Filed(e - adjust, Cell(n))
        BY <3>1, DepthsFile
      <3> QED
        BY <1>1, <1>3, <2>2, <3>1, <3>2
    <2>4. Cell(m + 1) \in 0..KeptCells
      BY <1>1, <2>1, CellsFile
    <2>5. Cell(m + 1) \in {Cell(m), Cell(m) + 1}
      BY <1>1, <1>5, <1>6
    <2>6. CASE Cell(m + 1) = Cell(m) + 1
      <3>1. Cell(m) \in 0..(KeptCells - 1)
        BY <1>1, <1>5, <2>4, <2>6
      <3> QED
        BY <1>4, <2>3, <2>6, <3>1, FiledRises
    <2>7. CASE Cell(m + 1) = Cell(m)
      <3>1. Filed(x, Cell(m)) \in Int
        BY <1>5, FiledIsANumber
      <3> QED
        BY <1>4, <2>3, <2>7, <3>1
    <2> QED
      BY <2>5, <2>6, <2>7
  <1>7. CASE m + 1 = w
    <2>1. bits + 1 = (e + 1) * w + 0
      <3>1. (e + 1) * w = e * w + w
        OBVIOUS
      <3>2. PICK y \in Int : y = e * w
        OBVIOUS
      <3> QED
        BY <1>2, <1>7, <3>1, <3>2
    <2>2. ZValue(bits + 1, adjust) = Filed(x + 1, Cell(0))
      <3>1. 0 \in 0..(w - 1) /\ e + 1 \in Int /\ e + 1 - adjust = x + 1
        BY <1>3
      <3>2. PICK f \in Int : f = e + 1
        OBVIOUS
      <3>3. ZValue(f * Mantissas + 0, adjust) = Filed(f - adjust, Cell(0))
        BY <1>1, <3>1, DepthsFile
      <3> QED
        BY <1>1, <2>1, <3>1, <3>2, <3>3
    <2>3. Cell(0) = 0
      <3>1. 0 \in 0..(w - 1)
        OBVIOUS
      <3> QED
        BY <1>1, <3>1, CellsFile
    <2>4. Cell(m) = KeptCells
      BY <1>1, <1>5, <1>7
    <2>5. ~(KeptCells < KeptCells) /\ 0 < KeptCells
      BY <1>1
    <2>6. ZValue(bits, adjust) = Bucket(x + 1, 0) /\ ZValue(bits + 1, adjust) = Bucket(x + 1, 0)
      BY <1>4, <2>2, <2>3, <2>4, <2>5 DEF Filed
    <2>7. Bucket(x + 1, 0) \in Int
      <3>1. 0 \in 0..(KeptCells - 1) /\ x + 1 \in Int
        BY <1>1
      <3> QED
        BY <3>1, BucketsRise
    <2> QED
      BY <2>6, <2>7
  <1> QED
    BY <1>6, <1>7

(* The adjustment is an exponent, and a list may change it.                     *)
AdjustInv == mgAdjust \in Int
LEMMA AdjustBegins == MgInit => AdjustInv
  <1>1. MgInit => mgAdjust = 0
    BY DEF MgInit
  <1> QED
    BY <1>1 DEF AdjustInv

LEMMA AdjustStays == AdjustInv /\ [MgNext]_mgvars => AdjustInv'
  <1> SUFFICES ASSUME AdjustInv, [MgNext]_mgvars PROVE mgAdjust' \in Int
    BY DEF AdjustInv
  <1>1. CASE \E exponent \in {0, 1} : LoadAdjust(exponent)
    BY <1>1 DEF LoadAdjust, AdjustInv
  <1>2. CASE UNCHANGED mgAdjust
    BY <1>2 DEF AdjustInv
  <1>3. CASE Parse \/ OutOfWords \/ Parsed \/ Jump \/ ObjectEnds \/ DirectEnds
    BY <1>3, <1>2 DEF Parse, OutOfWords, Parsed, Jump, ObjectEnds, DirectEnds, EndStrip, mgParameters
  <1>4. CASE DirectData \/ (\E count \in {1, 3} : Skip(count)) \/ (\E known \in BOOLEAN : EndOfList(known))
    BY <1>4, <1>2 DEF DirectData, Skip, EndOfList, mgParameters
  <1>5. CASE \/ Load("matrix", 12) \/ Load("light", 3) \/ LoadPart("matrix", 3)
             \/ LoadPart("memory", 3) \/ LoadPart("materials", 4)
    BY <1>5, <1>2 DEF Load, LoadPart
  <1>6. CASE \/ \E viewport \in MgViewports : WindowData(viewport)
             \/ \E select \in {0, 1} : ObjectData(select)
    BY <1>6, <1>2 DEF WindowData, ObjectData
  <1>7. CASE \E quad \in BOOLEAN, mode \in 0..3, link \in 0..3 :
                 ObjectLink(quad, mode, link) \/ DirectLink(quad, mode, link)
    BY <1>7, <1>2 DEF ObjectLink, DirectLink, mgParameters
  <1>8. CASE UNCHANGED mgvars
    BY <1>8, <1>2 DEF mgvars, mgParameters
  <1> QED
    BY <1>1, <1>3, <1>4, <1>5, <1>6, <1>7, <1>8 DEF MgNext

LEMMA NearerAlways == AdjustInv => NearerFirst
  <1> SUFFICES ASSUME AdjustInv, NEW bits \in 0..((MgTop + 1) * 2 ^ MgMantissa)
               PROVE  ZValue(bits, mgAdjust) <= ZValue(bits + 1, mgAdjust)
    BY DEF NearerFirst
  <1>1. bits \in Nat
    <2>1. PICK w \in Nat, top \in Nat : w = 2 ^ MgMantissa /\ top = MgTop
      BY DepthWidths DEF Mantissas
    <2>2. (top + 1) * w \in Nat
      OBVIOUS
    <2> QED
      BY <2>1, <2>2
  <1> QED
    BY <1>1, DepthsRise DEF AdjustInv

=============================================================================
