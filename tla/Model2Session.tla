--------------------------- MODULE Model2Session ---------------------------
(* The Sega Model 2 session: the host thread samples the controls once per  *)
(* frame and hands them to the CPU worker through a queue of two; the       *)
(* operator menu asks the worker for the service menu and for a link role;  *)
(* closing the session stops the worker.  A frame of input is reduced to    *)
(* the switches pressed, the TEST line and the number of the host frame its *)
(* analog values were sampled in.                                           *)
EXTENDS Naturals, Sequences

CONSTANTS
    Folded,         \* the switches run_frame folds into a queued frame
    Unfolded,       \* the others: the second start, buttons[], p2_buttons[] (gun triggers)
    QueueDepth,     \* frames the queue holds: 2
    BootFrames,     \* frames TEST is held after a service reset: 120
    MaxFrames,      \* bound: host frames of the session, an operator action taking two
    MaxRequests     \* bound: operator actions of them

ASSUME M2Assumption ==
    /\ Folded \cap Unfolded = {}
    /\ QueueDepth \in Nat \ {0}
    /\ BootFrames \in Nat \ {0}
    /\ MaxFrames \in Nat
    /\ MaxRequests \in Nat

VARIABLES
    m2host,         \* where the host thread is
    m2sample,       \* the controls the host sampled and has not queued yet
    m2worker,       \* where the CPU worker is
    m2running,      \* m_cpu_running
    m2queue,        \* m_cpu_inputs
    m2input,        \* the frame the worker took
    m2reset,        \* m_service_reset_requested
    m2boot,         \* m_service_boot_frames
    m2service,      \* m_service_session
    m2role,         \* m_link_role_requested, "none" when there is none
    m2test,         \* m_test_input_enabled of the input
    m2frames,       \* host frames sampled
    m2requests,     \* operator actions applied
    m2owed,         \* switches queued, not yet run and in no frame that was replaced
    m2late          \* frames taken with TEST since the input stopped passing it

m2vars == << m2host, m2sample, m2worker, m2running, m2queue, m2input, m2reset,
             m2boot, m2service, m2role, m2test, m2frames, m2requests, m2owed, m2late >>

Switches == Folded \cup Unfolded
NeutralFrame == [pressed |-> {}, test |-> FALSE, analog |-> 0]
NoRole == "none"
Roles == {"single", "car1", "car2"}

M2Init ==
    /\ m2host = "open" /\ m2sample = NeutralFrame
    /\ m2worker = "top" /\ m2running = TRUE
    /\ m2queue = << >> /\ m2input = NeutralFrame
    /\ m2reset = FALSE /\ m2boot = 0 /\ m2service = FALSE
    /\ m2role = NoRole /\ m2test = FALSE
    /\ m2frames = 0 /\ m2requests = 0 /\ m2owed = {} /\ m2late = 0

m2shared == << m2reset, m2boot, m2service, m2role, m2test >>

(* The worker holds m_cpu_mutex from its test of the queue until it blocks. *)
MutexFree == m2worker # "deciding"

-----------------------------------------------------------------------------
(* The host thread. *)

(* input.update and input.state: TEST is the toggle of the F2 key, seen only *)
(* while the session lets it through.                                        *)
TestLineSlip(toggle) == toggle
TestLine(toggle) == m2test /\ toggle
Sample ==
    /\ m2host = "open" /\ m2frames + 2 * m2requests < MaxFrames
    /\ m2frames' = m2frames + 1
    /\ \E pressed \in SUBSET Switches, toggle \in BOOLEAN :
           m2sample' = [pressed |-> pressed, test |-> TestLine(toggle),
                        analog |-> m2frames + 1]
    /\ m2host' = "sampled"
    /\ UNCHANGED << m2worker, m2running, m2queue, m2input, m2requests, m2owed, m2late >>
    /\ UNCHANGED m2shared

(* A full queue: the new frame takes the place of the last one and keeps of  *)
(* that one both coins, start, service, TEST, both shifts and the view.  The *)
(* rest of it goes: the second start button and the triggers of the guns     *)
(* too, one of them pressed in that frame alone never comes to the board.    *)
FoldSlip(new, old) == [new EXCEPT !.pressed = @ \cup (old.pressed \cap Unfolded),
                                  !.test = @ \/ old.test]
Fold(new, old) == [new EXCEPT !.pressed = @ \cup (old.pressed \cap Folded),
                              !.test = @ \/ old.test]
Queued(queue, new) ==
    IF Len(queue) < QueueDepth
    THEN Append(queue, new)
    ELSE [queue EXCEPT ![Len(queue)] = Fold(new, @)]
GivenUp(queue) ==
    IF Len(queue) < QueueDepth THEN {} ELSE queue[Len(queue)].pressed \cap Unfolded

Notified == IF m2worker = "blocked" THEN "waking" ELSE m2worker

Hand ==
    /\ m2host = "sampled" /\ MutexFree
    /\ m2queue' = Queued(m2queue, m2sample)
    /\ m2owed' = (m2owed \ GivenUp(m2queue)) \cup m2sample.pressed
    /\ m2worker' = Notified
    /\ m2host' = "open"
    /\ UNCHANGED << m2sample, m2running, m2input, m2frames, m2requests, m2late >>
    /\ UNCHANGED m2shared

hostAlone == << m2sample, m2worker, m2running, m2queue, m2input, m2frames, m2owed >>

(* enter_service_menu: four stores, each visible on its own. *)
AskReset ==
    /\ m2host = "open" /\ m2requests < MaxRequests /\ m2frames + 2 * m2requests < MaxFrames
    /\ m2requests' = m2requests + 1
    /\ m2reset' = TRUE /\ m2host' = "asked"
    /\ UNCHANGED << m2boot, m2service, m2role, m2test, m2late >> /\ UNCHANGED hostAlone
AskBoot ==
    /\ m2host = "asked" /\ m2boot' = BootFrames /\ m2host' = "booted"
    /\ UNCHANGED << m2reset, m2service, m2role, m2test, m2requests, m2late >>
    /\ UNCHANGED hostAlone
AskSession ==
    /\ m2host = "booted" /\ m2service' = TRUE /\ m2host' = "enabling"
    /\ UNCHANGED << m2reset, m2boot, m2role, m2test, m2requests, m2late >>
    /\ UNCHANGED hostAlone
AskTest ==
    /\ m2host = "enabling" /\ m2test' = TRUE /\ m2late' = 0 /\ m2host' = "open"
    /\ UNCHANGED << m2reset, m2boot, m2service, m2role, m2requests >>
    /\ UNCHANGED hostAlone

AskRole(role) ==
    /\ m2host = "open" /\ m2requests < MaxRequests /\ m2frames + 2 * m2requests < MaxFrames
    /\ m2requests' = m2requests + 1
    /\ m2role' = role
    /\ UNCHANGED << m2host, m2reset, m2boot, m2service, m2test, m2late >>
    /\ UNCHANGED hostAlone

(* stop_cpu_worker: the flag is stored without the mutex of the wait. *)
StopStore ==
    /\ m2host = "open" /\ m2running' = FALSE /\ m2host' = "notifying"
    /\ UNCHANGED << m2sample, m2worker, m2queue, m2input, m2frames, m2requests,
                    m2owed, m2late >>
    /\ UNCHANGED m2shared
StopNotify ==
    /\ m2host = "notifying" /\ m2worker' = Notified /\ m2host' = "joining"
    /\ UNCHANGED << m2sample, m2running, m2queue, m2input, m2frames, m2requests,
                    m2owed, m2late >>
    /\ UNCHANGED m2shared
StopJoin ==
    /\ m2host = "joining" /\ m2worker = "left" /\ m2host' = "gone"
    /\ UNCHANGED << m2sample, m2worker, m2running, m2queue, m2input, m2frames,
                    m2requests, m2owed, m2late >>
    /\ UNCHANGED m2shared

-----------------------------------------------------------------------------
(* The CPU worker. *)

m2hostOwn == << m2host, m2sample, m2running, m2frames, m2requests >>

Loop ==
    /\ m2worker = "top"
    /\ m2worker' = IF m2running THEN "waking" ELSE "left"
    /\ UNCHANGED << m2queue, m2input, m2owed, m2late >>
    /\ UNCHANGED m2shared /\ UNCHANGED m2hostOwn

(* The predicate of the wait, with the mutex held. *)
Test ==
    /\ m2worker = "waking"
    /\ IF ~m2running
       THEN m2worker' = "left" /\ UNCHANGED << m2queue, m2input >>
       ELSE IF m2queue = << >>
       THEN m2worker' = "deciding" /\ UNCHANGED << m2queue, m2input >>
       ELSE /\ m2worker' = "requests"
            /\ m2input' = Head(m2queue) /\ m2queue' = Tail(m2queue)
    /\ UNCHANGED << m2owed, m2late >> /\ UNCHANGED m2shared /\ UNCHANGED m2hostOwn

(* The wait releases the mutex and blocks; it may also wake for no reason. *)
Block ==
    /\ \/ m2worker = "deciding" /\ m2worker' = "blocked"
       \/ m2worker = "blocked" /\ m2worker' = "waking"
    /\ UNCHANGED << m2queue, m2input, m2owed, m2late >>
    /\ UNCHANGED m2shared /\ UNCHANGED m2hostOwn

(* The service reset and the link role; either resets the board. *)
TakeRequests ==
    /\ m2worker = "requests"
    /\ m2reset' = FALSE /\ m2role' = NoRole
    /\ m2worker' = "boot"
    /\ UNCHANGED << m2queue, m2input, m2owed, m2late, m2boot, m2service, m2test >>
    /\ UNCHANGED m2hostOwn

HoldTest ==
    /\ m2worker = "boot"
    /\ IF m2boot > 0
       THEN m2input' = [m2input EXCEPT !.test = TRUE] /\ m2boot' = m2boot - 1
       ELSE UNCHANGED << m2input, m2boot >>
    /\ m2late' = IF m2test THEN 0 ELSE IF m2input.test THEN m2late + 1 ELSE m2late
    /\ m2worker' = "run"
    /\ UNCHANGED << m2queue, m2owed, m2reset, m2service, m2role, m2test >>
    /\ UNCHANGED m2hostOwn

(* set_inputs, run_frame and the hand-over of the picture. *)
Run ==
    /\ m2worker = "run"
    /\ m2owed' = m2owed \ m2input.pressed
    /\ m2worker' = "check"
    /\ UNCHANGED << m2queue, m2input, m2late >> /\ UNCHANGED m2shared /\ UNCHANGED m2hostOwn

(* Back in a 3D scene, the service menu is over: TEST is let go. *)
SceneIsBack == m2service /\ m2boot = 0
CheckScene ==
    /\ m2worker = "check"
    /\ \/ m2worker' = "top"
       \/ SceneIsBack /\ m2worker' = "closing"
    /\ UNCHANGED << m2queue, m2input, m2owed, m2late >>
    /\ UNCHANGED m2shared /\ UNCHANGED m2hostOwn
CloseTest == m2worker = "closing" /\ m2worker' = "closed" /\ m2test' = FALSE
Close ==
    /\ \/ CloseTest /\ UNCHANGED m2service
       \/ m2worker = "closed" /\ m2worker' = "top" /\ m2service' = FALSE /\ UNCHANGED m2test
    /\ UNCHANGED << m2queue, m2input, m2owed, m2late, m2reset, m2boot, m2role >>
    /\ UNCHANGED m2hostOwn

M2Worker == Loop \/ Test \/ Block \/ TakeRequests \/ HoldTest \/ Run \/ CheckScene \/ Close
M2Host ==
    \/ Sample \/ Hand
    \/ AskReset \/ AskBoot \/ AskSession \/ AskTest
    \/ \E role \in Roles : AskRole(role)
    \/ StopStore \/ StopNotify \/ StopJoin
M2Next == M2Worker \/ M2Host

M2Spec == M2Init /\ [][M2Next]_m2vars

-----------------------------------------------------------------------------
(* A switch the host has queued is in a queued frame, or in the one the      *)
(* worker took, until the board has run it, unless a newer frame replaced its *)
(* own and it is none of the eight that are folded into that ("preserve       *)
(* cabinet edges while replacing stale analog values").                       *)
Underway(switch) ==
    \/ m2worker \in {"requests", "boot", "run"} /\ switch \in m2input.pressed
    \/ \E i \in 1..Len(m2queue) : switch \in m2queue[i].pressed
NoPressLost == \A switch \in m2owed : Underway(switch)

(* Once the session no longer lets the TEST switch through, it comes to the *)
(* board in no more frames than were sampled before: the queue's and the    *)
(* one being handed ("at that point raw TEST is unsafe again").             *)
TestLetGo == m2late <= QueueDepth + 1

=============================================================================
