----------------------------- MODULE Model1Board -----------------------------
(* model1_machine: the interrupts its V60 takes inside run_frame, and the      *)
(* display lists run_frame hands to a graphics worker.  The two share no state *)
(* and are stated one after the other.                                        *)
EXTENDS Naturals, FiniteSets

-----------------------------------------------------------------------------
(* The interrupt controller of Model 1 inside run_frame: timers, the interrupt *)
(* of the middle of the frame and that of its end raise levels; the V60 takes  *)
(* the lowest one and acknowledges it, or all of them, by a register.         *)

CONSTANTS
    M1iSlices,      \* slices of a frame: 512
    M1iPeriods,     \* timer periods a program sets, in slices; 0 is off
    M1iMaxFrames    \* bound: frames run

ASSUME Model1IrqAssumption ==
    /\ M1iSlices \in Nat \ {0, 1} /\ M1iPeriods \subseteq Nat /\ 0 \in M1iPeriods /\ M1iMaxFrames \in Nat

VARIABLES
    m1iFrame, m1iSlice, \* where run_frame is
    m1iStep,            \* in a slice: "middle", "execute", "timers"
    m1iStatus, m1iMask, \* m_irq_status, m_irq_mask: sets of levels
    m1iLast,            \* m_last_irq
    m1iLine,            \* the V60's interrupt line
    m1iPeriod, m1iRemaining, \* m_timer_period and m_timer_remaining of the two timers
    m1iHandling,        \* handlers the V60 is in
    m1iRaised           \* levels raised and not yet taken

m1iClock == << m1iFrame, m1iSlice, m1iStep >>
m1iIrq == << m1iStatus, m1iMask, m1iLast, m1iLine >>
m1iTimers == << m1iPeriod, m1iRemaining >>
m1ivars == << m1iClock, m1iIrq, m1iTimers, m1iHandling, m1iRaised >>

Levels == { 0, 1, 3 }           \* timers, end of the frame, middle of the frame
M1iInit ==
    /\ m1iFrame = 0 /\ m1iSlice = 0 /\ m1iStep = "middle"
    /\ m1iStatus = {} /\ m1iMask = Levels /\ m1iLast = 0 /\ m1iLine = FALSE
    /\ m1iPeriod = [t \in 0..1 |-> 0] /\ m1iRemaining = [t \in 0..1 |-> 0]
    /\ m1iHandling = 0 /\ m1iRaised = {}

Raise(levels) ==
    LET open == levels \ m1iMask
    IN /\ m1iStatus' = m1iStatus \cup open /\ m1iRaised' = m1iRaised \cup open
       /\ m1iLine' = (m1iLine \/ open # {})
       /\ UNCHANGED << m1iMask, m1iLast >>

-----------------------------------------------------------------------------
(* run_frame: in each slice the middle of the frame, then the V60, then the   *)
(* timers; at the end of the frame the vertical blank.                        *)
MiddleOfFrame ==
    /\ m1iStep = "middle" /\ m1iFrame < M1iMaxFrames /\ m1iSlice < M1iSlices /\ m1iStep' = "execute"
    /\ Raise(IF m1iSlice = M1iSlices \div 2 THEN {3} ELSE {})
    /\ UNCHANGED << m1iFrame, m1iSlice, m1iTimers, m1iHandling >>
EndExecute ==
    /\ m1iStep = "execute" /\ m1iStep' = "timers"
    /\ UNCHANGED << m1iFrame, m1iSlice, m1iIrq, m1iTimers, m1iHandling, m1iRaised >>
StepTimers ==
    /\ m1iStep = "timers" /\ m1iStep' = "middle" /\ m1iSlice' = m1iSlice + 1
    /\ LET due == { t \in 0..1 : m1iPeriod[t] > 0 /\ m1iRemaining[t] <= 1 }
       IN /\ m1iRemaining' = [t \in 0..1 |-> IF m1iPeriod[t] = 0 THEN m1iRemaining[t]
                                             ELSE IF t \in due THEN m1iPeriod[t] ELSE m1iRemaining[t] - 1]
          /\ Raise(IF due # {} THEN {0} ELSE {})
    /\ UNCHANGED << m1iFrame, m1iPeriod, m1iHandling >>
VblankIrq ==
    /\ m1iStep = "middle" /\ m1iSlice = M1iSlices
    /\ m1iSlice' = 0 /\ m1iFrame' = m1iFrame + 1 /\ Raise({1})
    /\ UNCHANGED << m1iStep, m1iTimers, m1iHandling >>

-----------------------------------------------------------------------------
(* The V60 in its slice. *)

V60Runs == m1iStep = "execute" /\ UNCHANGED << m1iClock >>

(* It takes the lowest level that is set, whatever the mask has become since. *)
TakeInterrupt ==
    /\ V60Runs /\ m1iLine /\ m1iHandling < 2
    /\ m1iLast' = IF m1iStatus = {} THEN m1iLast ELSE CHOOSE l \in m1iStatus : \A k \in m1iStatus : l <= k
    /\ m1iRaised' = m1iRaised \ {m1iLast'} /\ m1iHandling' = m1iHandling + 1
    /\ UNCHANGED << m1iStatus, m1iMask, m1iLine, m1iTimers >>
LineAfterSlip(status) == FALSE
LineAfter(status) == m1iLine /\ status # {}
AcknowledgeAll ==               \* 0x10
    /\ V60Runs /\ m1iHandling > 0 /\ m1iHandling' = m1iHandling - 1
    /\ m1iStatus' = {} /\ m1iLine' = LineAfter({}) /\ m1iRaised' = {}
    /\ UNCHANGED << m1iMask, m1iLast, m1iTimers >>
AcknowledgeLast ==              \* 0x20
    /\ V60Runs /\ m1iHandling > 0 /\ m1iHandling' = m1iHandling - 1
    /\ m1iStatus' = m1iStatus \ {m1iLast} /\ m1iLine' = LineAfter(m1iStatus')
    /\ m1iRaised' = m1iRaised \ {m1iLast}
    /\ UNCHANGED << m1iMask, m1iLast, m1iTimers >>
WriteMask(mask) ==
    /\ V60Runs /\ mask # m1iMask /\ m1iMask' = mask /\ m1iLine' = (m1iLine /\ m1iStatus # {})
    /\ UNCHANGED << m1iStatus, m1iLast, m1iTimers, m1iHandling, m1iRaised >>
WritePeriod(timer, period) ==
    /\ V60Runs /\ m1iPeriod[timer] # period
    /\ m1iPeriod' = [m1iPeriod EXCEPT ![timer] = period]
    /\ m1iRemaining' = [m1iRemaining EXCEPT ![timer] = period]
    /\ UNCHANGED << m1iIrq, m1iHandling, m1iRaised >>

M1iNext ==
    \/ MiddleOfFrame \/ EndExecute \/ StepTimers \/ VblankIrq
    \/ TakeInterrupt \/ AcknowledgeAll \/ AcknowledgeLast
    \/ \E mask \in SUBSET Levels : WriteMask(mask)
    \/ \E timer \in 0..1, period \in M1iPeriods : WritePeriod(timer, period)
M1iSpec == M1iInit /\ [][M1iNext]_m1ivars

-----------------------------------------------------------------------------
(* A level that was raised and that no acknowledgement has cleared keeps the   *)
(* V60's line asserted: acknowledging one interrupt, or changing the mask,     *)
(* while another is pending never leaves that one without its line.           *)
PendingHoldsTheLine == m1iRaised # {} => m1iLine

-----------------------------------------------------------------------------
(* The graphics of Model 1: the session's thread runs the V60 and, at the end  *)
(* of a frame, hands a snapshot of the display RAM to a graphics worker.  The  *)
(* hardware also changes list banks then; the session's thread works that out  *)
(* for the V60 without waiting for the worker, which does it once more.       *)

CONSTANTS M1vMaxFrames  \* bound: frames run

ASSUME Model1VideoAssumption == M1vMaxFrames \in Nat

VARIABLES
    m1vControl,     \* m_list_control[0]: the banks, and whether they alternate by themselves
    m1vReady,       \* the low bits of m_list_control[1] say that there is a list
    m1vStep,        \* the session's thread: "run", "queue", "join", "over"
    m1vJob,         \* the snapshot it makes, with the control the V60 is left with
    m1vSubmitted,   \* m_submitted_video_frames
    m1vPending,     \* m_pending_video_job
    m1vStop,        \* m_video_stop
    m1vWorker,      \* the worker: "wait", "render", "over"
    m1vDrawn,       \* the job it renders
    m1vNumber,      \* m_frame_number of the renderer
    m1vListctl,     \* its m_listctl[0]
    m1vResult,      \* m_completed_video_result, by its frame
    m1vShown        \* m_frame_pixels, by its frame

m1vSession == << m1vControl, m1vReady, m1vStep, m1vJob, m1vSubmitted, m1vShown >>
m1vThread == << m1vWorker, m1vDrawn, m1vNumber, m1vListctl >>
m1vvars == << m1vSession, m1vPending, m1vStop, m1vThread, m1vResult >>

NoJob == [frame |-> 0, control |-> {}, ready |-> FALSE, told |-> {}]
Controls == SUBSET {"auto", "bank", "wanted"}       \* bits 4, 0x40 and 8

M1vInit ==
    /\ m1vControl = {} /\ m1vReady = FALSE /\ m1vStep = "run" /\ m1vJob = NoJob /\ m1vSubmitted = 0
    /\ m1vPending = NoJob /\ m1vStop = FALSE /\ m1vWorker = "wait" /\ m1vDrawn = NoJob
    /\ m1vNumber = 0 /\ m1vResult = 0 /\ m1vShown = 0 /\ m1vListctl = {}

-----------------------------------------------------------------------------
(* The transition of the list banks. *)

Selected(control, ready) ==
    IF ready /\ "auto" \notin control
    THEN (control \ {"bank"}) \cup (IF "wanted" \in control THEN {"bank"} ELSE {})
    ELSE control
Flipped(control) == IF "bank" \in control THEN control \ {"bank"} ELSE control \cup {"bank"}
AfterFrame(control, ready, number) ==
    LET selected == Selected(control, ready)
    IN IF "auto" \in selected /\ number % 2 = 1 THEN Flipped(selected) ELSE selected

-----------------------------------------------------------------------------
(* The session's thread. *)

WriteTimingControl(control, ready) ==
    /\ m1vStep = "run" /\ m1vSubmitted < M1vMaxFrames
    /\ m1vControl' = control /\ m1vReady' = ready
    /\ << control, ready >> # << m1vControl, m1vReady >>
    /\ UNCHANGED << m1vStep, m1vJob, m1vSubmitted, m1vShown, m1vPending, m1vStop, m1vThread, m1vResult >>

(* The snapshot has the control before the change, the V60 the one after it.  *)
EndRaster ==
    /\ m1vStep = "run" /\ m1vSubmitted < M1vMaxFrames
    /\ m1vControl' = AfterFrame(m1vControl, m1vReady, m1vSubmitted)
    /\ m1vJob' = [frame |-> m1vSubmitted + 1, control |-> m1vControl, ready |-> m1vReady,
                   told |-> m1vControl']
    /\ m1vSubmitted' = m1vSubmitted + 1 /\ m1vStep' = "queue"
    /\ UNCHANGED << m1vReady, m1vShown, m1vPending, m1vStop, m1vThread, m1vResult >>

(* One snapshot may wait; the thread waits rather than drop it.               *)
MayQueueSlip == TRUE
MayQueue == m1vPending = NoJob
QueueFrame ==
    /\ m1vStep = "queue" /\ MayQueue
    /\ m1vPending' = m1vJob /\ m1vStep' = "run"
    /\ UNCHANGED << m1vControl, m1vReady, m1vJob, m1vSubmitted, m1vShown, m1vStop, m1vThread, m1vResult >>

(* At the start of a frame, and again when the session takes the pixels.      *)
Harvest ==
    /\ m1vStep = "run" /\ m1vResult # 0
    /\ m1vShown' = m1vResult /\ m1vResult' = 0
    /\ UNCHANGED << m1vControl, m1vReady, m1vStep, m1vJob, m1vSubmitted, m1vPending, m1vStop, m1vThread >>

StopVideo ==
    /\ m1vStep = "run" /\ m1vStep' = "join" /\ m1vStop' = TRUE /\ m1vPending' = NoJob
    /\ UNCHANGED << m1vControl, m1vReady, m1vJob, m1vSubmitted, m1vShown, m1vThread, m1vResult >>
Joined ==
    /\ m1vStep = "join" /\ m1vWorker = "over" /\ m1vStep' = "over"
    /\ UNCHANGED << m1vControl, m1vReady, m1vJob, m1vSubmitted, m1vShown, m1vPending, m1vStop, m1vThread, m1vResult >>

-----------------------------------------------------------------------------
(* The worker. *)

TakeSnapshot ==
    /\ m1vWorker = "wait" /\ m1vPending # NoJob
    /\ m1vDrawn' = m1vPending /\ m1vPending' = NoJob /\ m1vWorker' = "render"
    /\ UNCHANGED << m1vSession, m1vStop, m1vNumber, m1vListctl, m1vResult >>
RenderJob ==
    /\ m1vWorker = "render" /\ m1vWorker' = "wait" /\ m1vDrawn' = NoJob
    /\ m1vListctl' = AfterFrame(m1vDrawn.control, m1vDrawn.ready, m1vNumber)
    /\ m1vNumber' = m1vNumber + 1 /\ m1vResult' = m1vDrawn.frame
    /\ UNCHANGED << m1vSession, m1vPending, m1vStop >>
WorkerEnds ==
    /\ m1vWorker = "wait" /\ m1vStop /\ m1vPending = NoJob /\ m1vWorker' = "over"
    /\ UNCHANGED << m1vSession, m1vPending, m1vStop, m1vDrawn, m1vNumber, m1vListctl, m1vResult >>

M1vNext ==
    \/ \E control \in Controls, ready \in BOOLEAN : WriteTimingControl(control, ready)
    \/ EndRaster \/ QueueFrame \/ Harvest \/ StopVideo \/ Joined
    \/ TakeSnapshot \/ RenderJob \/ WorkerEnds
M1vSpec == M1vInit /\ [][M1vNext]_m1vvars

-----------------------------------------------------------------------------
(* "Compute the same transition performed by model1_video": the banks the V60  *)
(* saw after a frame are those the renderer comes to when it draws that frame, *)
(* though it draws it later and counts its frames by itself.                  *)
SameBanks == [][m1vNumber' # m1vNumber => m1vListctl' = m1vDrawn.told]_m1vvars
=============================================================================
