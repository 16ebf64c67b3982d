---------------------------- MODULE CabinetInput ----------------------------
(* The coin and start switches of a cabinet.  The video thread's event watch  *)
(* latches every press; once a frame the game's thread turns latches and held *)
(* keys into short pulses for the board.  Menus, a controls editor and a      *)
(* controller that comes and goes all change what a press means.              *)
EXTENDS Naturals

CONSTANTS
    CiSlots,            \* switches: a subset of {"coin", "start"}
    CiKeys, CiButtons,  \* keyboard keys and controller buttons in use
    CiRescan,           \* frames between two looks for a controller
    CiMaxPads           \* bound: times a controller is plugged in

ASSUME CabinetInputAssumption ==
    /\ CiSlots \subseteq {"coin", "start"} /\ CiKeys \cap CiButtons = {}
    /\ CiRescan \in Nat \ {0} /\ CiMaxPads \in Nat

VARIABLES
    ciMode,         \* "play", "menu" (paused, m_settings_visible) or "controls"
    ciAt,           \* the game's thread: "loop" or "frame"
    ciHeld,         \* keys and buttons held down
    ciPad, ciPads,  \* instance of the controller plugged in (0: none), and the newest
    ciOpen,         \* m_controller_instance
    ciCount,        \* m_update_count
    ciKeyOf, ciButtonOf,    \* the mapping in use: m_keyboard_bindings, m_controller_bindings
    ciWatchKey, ciWatchButton,      \* m_watch_keyboard_codes, m_watch_controller_buttons
    ciEvent,        \* m_cabinet_events
    ciPressed,      \* m_cabinet_pressed
    ciPulse,        \* m_cabinet_pulse_frames
    ciTap,          \* history: where the presses no frame has looked at yet were made
    ciLines         \* history: the switches the board saw closed in the last frame

ciUser == << ciHeld, ciPad, ciPads >>
ciWatches == << ciWatchKey, ciWatchButton >>
ciMapping == << ciKeyOf, ciButtonOf >>
ciLatches == << ciEvent, ciPressed, ciPulse, ciTap, ciLines >>
civars == << ciMode, ciAt, ciUser, ciOpen, ciCount, ciWatches, ciMapping, ciLatches >>

Frames(slot) == IF slot = "coin" THEN 2 ELSE 4
Unwatched == [s \in CiSlots |-> "none"]
NoTap == [s \in CiSlots |-> {}]

CiInit ==
    /\ ciMode = "play" /\ ciAt = "loop" /\ ciHeld = {} /\ ciPad = 0 /\ ciPads = 0 /\ ciOpen = 0 /\ ciCount = 0
    /\ ciKeyOf \in [CiSlots -> CiKeys] /\ ciButtonOf \in [CiSlots -> CiButtons]
    /\ ciWatchKey = ciKeyOf /\ ciWatchButton = Unwatched
    /\ ciEvent = [s \in CiSlots |-> FALSE] /\ ciPressed = ciEvent
    /\ ciPulse = [s \in CiSlots |-> 0] /\ ciTap = NoTap /\ ciLines = {}

-----------------------------------------------------------------------------
(* The video thread pumps SDL's events through watch_cabinet_button_events.   *)

WatchedBy(input, slot) ==
    \/ input \in CiKeys /\ ciWatchKey[slot] = input
    \/ input \in CiButtons /\ ciOpen # 0 /\ ciPad = ciOpen /\ ciWatchButton[slot] = input
MappedTo(input, slot) ==
    \/ ciKeyOf[slot] = input
    \/ ciButtonOf[slot] = input /\ ciOpen # 0 /\ ciPad = ciOpen
Press(input) ==
    /\ input \notin ciHeld /\ (input \in CiButtons => ciPad # 0)
    /\ ciHeld' = ciHeld \cup {input}
    /\ ciEvent' = [s \in CiSlots |-> ciEvent[s] \/ WatchedBy(input, s)]
    /\ ciTap' = [s \in CiSlots |-> IF MappedTo(input, s) THEN ciTap[s] \cup {ciMode} ELSE ciTap[s]]
    /\ UNCHANGED << ciMode, ciAt, ciPad, ciPads, ciOpen, ciCount, ciWatches, ciMapping, ciPressed, ciPulse, ciLines >>
Release(input) ==
    /\ input \in ciHeld /\ ciHeld' = ciHeld \ {input}
    /\ UNCHANGED << ciMode, ciAt, ciPad, ciPads, ciOpen, ciCount, ciWatches, ciMapping, ciLatches >>
PlugIn ==
    /\ ciPad = 0 /\ ciPads < CiMaxPads /\ ciPad' = ciPads + 1 /\ ciPads' = ciPads + 1
    /\ UNCHANGED << ciMode, ciAt, ciHeld, ciOpen, ciCount, ciWatches, ciMapping, ciLatches >>
Unplug ==
    /\ ciPad # 0 /\ ciPad' = 0 /\ ciHeld' = ciHeld \ CiButtons
    /\ UNCHANGED << ciMode, ciAt, ciPads, ciOpen, ciCount, ciWatches, ciMapping, ciLatches >>
(* Opening the menu pauses the game; the renderer shows and hides it.         *)
ShowMenu ==
    /\ ciMode = "play" /\ ciMode' = "menu"
    /\ UNCHANGED << ciAt, ciUser, ciOpen, ciCount, ciWatches, ciMapping, ciLatches >>
Resume ==
    /\ ciMode = "menu" /\ ciMode' = "play"
    /\ UNCHANGED << ciAt, ciUser, ciOpen, ciCount, ciWatches, ciMapping, ciLatches >>

-----------------------------------------------------------------------------
(* The host runs the controls editor over the paused game, then the session   *)
(* calls reload_mappings with what the user chose.                            *)

OpenControls ==
    /\ ciAt = "loop" /\ ciMode = "menu" /\ ciMode' = "controls"
    /\ UNCHANGED << ciAt, ciUser, ciOpen, ciCount, ciWatches, ciMapping, ciLatches >>
ReloadMappings ==
    /\ ciMode = "controls" /\ ciMode' = "menu"
    /\ \E keys \in [CiSlots -> CiKeys], buttons \in [CiSlots -> CiButtons] :
        /\ ciKeyOf' = keys /\ ciWatchKey' = keys
        /\ ciButtonOf' = buttons /\ ciWatchButton' = buttons
    /\ ciPulse' = [s \in CiSlots |-> 0] /\ ciPressed' = [s \in CiSlots |-> FALSE]
    /\ ciEvent' = [s \in CiSlots |-> FALSE] /\ ciTap' = NoTap
    /\ UNCHANGED << ciAt, ciUser, ciOpen, ciCount, ciLines >>

Loop ==             \* a paused game is not run
    /\ ciAt = "loop" /\ ciMode = "play" /\ ciAt' = "frame"
    /\ UNCHANGED << ciMode, ciUser, ciOpen, ciCount, ciWatches, ciMapping, ciLatches >>

(* run_frame: set_suppressed(input_suppressed()), then update().              *)
WatchedSlip(opens, stays) == IF stays THEN ciWatchButton ELSE Unwatched
\* Both a controller that is opened and one that is gone set what is watched.
Watched(opens, stays) == IF opens THEN ciButtonOf ELSE IF stays THEN ciWatchButton ELSE Unwatched
Update ==
    LET stays == ciOpen # 0 /\ ciPad = ciOpen
        opens == ~stays /\ ciCount = 0 /\ ciPad # 0
        usable == stays \/ opens
        pressed == [s \in CiSlots |-> ciKeyOf[s] \in ciHeld \/ (usable /\ ciButtonOf[s] \in ciHeld)]
        suppressed == ciMode # "play"
        pulse == [s \in CiSlots |->
                    IF suppressed THEN 0
                    ELSE IF ciEvent[s] \/ (pressed[s] /\ ~ciPressed[s]) THEN Frames(s) ELSE ciPulse[s]]
    IN  /\ ciAt = "frame" /\ ciAt' = "loop"
        /\ ciOpen' = IF usable THEN ciPad ELSE 0
        /\ ciWatchButton' = Watched(opens, stays)
        /\ ciCount' = (ciCount + 1) % CiRescan
        /\ ciPressed' = pressed /\ ciEvent' = [s \in CiSlots |-> FALSE]
        /\ ciLines' = {s \in CiSlots : pulse[s] > 0}
        /\ ciPulse' = [s \in CiSlots |-> IF pulse[s] > 0 THEN pulse[s] - 1 ELSE 0]
        /\ ciTap' = NoTap
        /\ UNCHANGED << ciMode, ciUser, ciWatchKey, ciMapping >>

CiNext ==
    \/ \E i \in CiKeys \cup CiButtons : Press(i) \/ Release(i)
    \/ PlugIn \/ Unplug \/ ShowMenu \/ Resume \/ OpenControls \/ ReloadMappings \/ Loop \/ Update
CiSpec == CiInit /\ [][CiNext]_civars

-----------------------------------------------------------------------------
\* However short a press of a mapped switch is while the game runs, the next
\* frame shows the board the switch closed, unless a menu has opened since.
TapReachesTheBoard ==
    [][\A s \in CiSlots : (ciAt = "frame" /\ ciAt' = "loop" /\ ciMode = "play" /\ "play" \in ciTap[s])
            => s \in ciLines']_civars

\* "Menu navigation must never leak a stale cabinet edge into gameplay": a
\* switch never closes because of a press made in a menu.
NoMenuEdge ==
    [][\A s \in CiSlots : (s \in ciLines' /\ ciPulse[s] = 0 /\ ciAt = "frame" /\ ciAt' = "loop")
            => ciTap[s] # {"menu"}]_civars
=============================================================================
