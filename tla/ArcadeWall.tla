------------------------------- MODULE ArcadeWall -------------------------------
(* The arcade wall: one process and one window a column, laid side by side       *)
(* across the display, the column being played the widest and the only one to   *)
(* be heard.  The processes share one small file: a column that gains the       *)
(* keyboard writes its slot there, and every column looks at it twice a second. *)
(* A process has a render thread (events, layout) and a main loop (sound).      *)
EXTENDS Integers, Sequences

CONSTANTS
    WlCount,    \* wall_count
    WlWidths,   \* widths of a display
    WlUpsets    \* bound: moves of the focus, placements that fail, windows tiled again, modals

ASSUME ArcadeWallAssumption ==
    WlCount \in Nat \ {0, 1} /\ WlWidths \subseteq Nat \ {0} /\ WlUpsets \in Nat

Slots == 0..(WlCount - 1)
Nobody == -1    \* read_wall_focus of a file that is missing or empty
Nothing == -2   \* wall_focus_applied before the first look; a window laid out by the compositor

VARIABLES
    wlWidth,    \* bounds.w of the display
    wlUp,       \* columns whose window is up
    wlOpened,   \* columns that have opened, or will not any more
    wlFocus,    \* column with the keyboard, or Nobody
    wlEvents,   \* focus events on their way to each column
    wlFile,     \* what read_wall_focus returns
    wlThread,   \* the render thread of each column: in its "loop", in a "modal", or with
                \* publish_wall_focus's file "open", "unlinked" if it has lost its name
    wlLeaving,  \* processes between the end of their window and forget_wall_focus
    wlSound,    \* active, changed: of the renderer; audible: of the worker; applied, muted: of the host loop;
                \* missed: history, a modal has taken an event of the focus since one was handled
    wlSeen,     \* wall_focus_applied of each column
    wlPlaced,   \* wall_placed
    wlPlacing,  \* in place_wall_slot
    wlLaid,     \* focus each window's rectangle was computed for, or Nothing
    wlUpsets    \* moves, failures and windows tiled so far

wlWindows == << wlUp, wlOpened, wlFocus, wlEvents >>
wlShared == << wlFile, wlThread, wlLeaving >>
wlLayout == << wlSeen, wlPlaced, wlPlacing, wlLaid >>
wlvars == << wlWidth, wlWindows, wlShared, wlSound, wlLayout, wlUpsets >>

Fresh == [active |-> TRUE, changed |-> FALSE, audible |-> -1, applied |-> -1, muted |-> FALSE, missed |-> FALSE]
WlInit ==
    /\ wlWidth \in WlWidths
    /\ wlUp = {} /\ wlOpened = {} /\ wlFocus = Nobody /\ wlEvents = [c \in Slots |-> << >>]
    /\ wlFile = Nobody /\ wlThread = [c \in Slots |-> "loop"] /\ wlLeaving = {}
    /\ wlSound = [c \in Slots |-> Fresh]
    /\ wlSeen = [c \in Slots |-> Nothing] /\ wlLaid = [c \in Slots |-> Nothing]
    /\ wlPlaced = [c \in Slots |-> FALSE] /\ wlPlacing = [c \in Slots |-> FALSE]
    /\ wlUpsets = 0

-----------------------------------------------------------------------------
(* layout_wall_columns: two shares for the column being played, one for each    *)
(* of the others, a gap at every join, the rest to the rightmost.  A display     *)
(* too narrow to divide is one column.                                        *)
Larger(a, b) == IF a > b THEN a ELSE b
Gap(w) == Larger(w \div 80, 12)
Usable(w, n) == w - Gap(w) * (n - 1)
Divided(w, n) == n > 1 /\ Usable(w, n) >= n + 1
Hero(n, f) == f \in 0..(n - 1)
Unit(w, n, f) == IF Hero(n, f) THEN Usable(w, n) \div (n + 1) ELSE Usable(w, n) \div n
ColumnX(w, n, f, c) == c * (Unit(w, n, f) + Gap(w)) + (IF Hero(n, f) /\ c > f THEN Unit(w, n, f) ELSE 0)
LastWidthSlip(w, n, f) == Unit(w, n, f)
LastWidth(w, n, f) == Larger(w - ColumnX(w, n, f, n - 1), 1)
ColumnWidth(w, n, f, c) ==
    IF c = n - 1 THEN LastWidth(w, n, f)
    ELSE IF Hero(n, f) /\ c = f THEN 2 * Unit(w, n, f) ELSE Unit(w, n, f)

-----------------------------------------------------------------------------
(* The compositor: what has the focus, and whose window is where.              *)

Told(events, from, to) ==
    [c \in Slots |-> IF c = from /\ c # to /\ c \in wlUp THEN Append(events[c], "lost")
                     ELSE IF c = to /\ c # from THEN Append(events[c], "gained") ELSE events[c]]
Upset == wlUpsets < WlUpsets /\ wlUpsets' = wlUpsets + 1
(* A column's process is up.  The compositor may give it the keyboard, and may  *)
(* tile the windows already there again.                                      *)
OpenColumn(c) ==
    /\ c \notin wlOpened /\ wlUp' = wlUp \cup {c} /\ wlOpened' = wlOpened \cup {c}
    /\ \E to \in {wlFocus, c} : wlFocus' = to /\ wlEvents' = Told(wlEvents, wlFocus, to)
    /\ \E tiled \in SUBSET wlUp : wlLaid' = [d \in Slots |-> IF d \in tiled THEN Nothing ELSE wlLaid[d]]
    /\ UNCHANGED << wlWidth, wlShared, wlSound, wlSeen, wlPlaced, wlPlacing, wlUpsets >>
MoveFocus(to) ==
    /\ to # wlFocus /\ to \in wlUp \cup {Nobody} /\ Upset
    /\ wlFocus' = to /\ wlEvents' = Told(wlEvents, wlFocus, to)
    /\ UNCHANGED << wlWidth, wlUp, wlOpened, wlShared, wlSound, wlLayout >>
Tile(c) ==
    /\ c \in wlUp /\ wlLaid[c] # Nothing /\ Upset
    /\ wlLaid' = [wlLaid EXCEPT ![c] = Nothing]
    /\ UNCHANGED << wlWidth, wlWindows, wlShared, wlSound, wlSeen, wlPlaced, wlPlacing >>

(* A window goes, and its process' state; the focus it had goes to another. *)
Gone(c) ==
    /\ wlUp' = wlUp \ {c}
    /\ \E to \in (IF wlFocus = c THEN wlUp' \cup {Nobody} ELSE {wlFocus}) :
        /\ wlFocus' = to
        /\ wlEvents' = [Told(wlEvents, wlFocus, to) EXCEPT ![c] = << >>]
    /\ wlThread' = [wlThread EXCEPT ![c] = "loop"] /\ wlPlacing' = [wlPlacing EXCEPT ![c] = FALSE]
    /\ wlSound' = [wlSound EXCEPT ![c] = Fresh] /\ wlSeen' = [wlSeen EXCEPT ![c] = Nothing]
    /\ wlPlaced' = [wlPlaced EXCEPT ![c] = FALSE] /\ wlLaid' = [wlLaid EXCEPT ![c] = Nothing]
    /\ UNCHANGED << wlWidth, wlFile, wlUpsets >>
(* Escape: the window first, then wall.stop(). *)
LeaveWall(c) ==
    /\ c \in wlUp /\ wlFocus = c /\ wlEvents[c] = << >> /\ wlThread[c] = "loop"
    /\ Gone(c) /\ wlLeaving' = wlLeaving \cup {c}
    /\ wlOpened' = (IF c = 0 THEN Slots ELSE wlOpened)
(* A column dies, or the first column, leaving, ends it: no destructor runs. *)
Killed(c) == c \in wlUp \ {0} /\ Gone(c) /\ UNCHANGED << wlOpened, wlLeaving >>
(* stop: the first column's children first.  A writer that has the file open    *)
(* writes to a file without a name.                                           *)
ForgetWallFocus(c) ==
    /\ c \in wlLeaving /\ (c = 0 => wlUp = {})
    /\ wlFile' = Nobody /\ wlLeaving' = wlLeaving \ {c}
    /\ wlThread' = [d \in Slots |-> IF wlThread[d] = "open" THEN "unlinked" ELSE wlThread[d]]
    /\ UNCHANGED << wlWidth, wlWindows, wlSound, wlLayout, wlUpsets >>

-----------------------------------------------------------------------------
(* The render thread's events.  publish_wall_focus truncates, then writes.      *)

HandleEvent(c) ==
    /\ wlEvents[c] # << >> /\ wlThread[c] = "loop"
    /\ LET gained == Head(wlEvents[c]) = "gained"
       IN /\ wlSound' = [wlSound EXCEPT ![c].active = gained, ![c].changed = TRUE, ![c].missed = FALSE]
          /\ wlThread' = [wlThread EXCEPT ![c] = IF gained THEN "open" ELSE "loop"]
          /\ wlFile' = (IF gained THEN Nobody ELSE wlFile)
    /\ wlEvents' = [wlEvents EXCEPT ![c] = Tail(@)]
    /\ UNCHANGED << wlWidth, wlUp, wlOpened, wlFocus, wlLeaving, wlLayout, wlUpsets >>
PublishWallFocus(c) ==
    /\ wlThread[c] \in {"open", "unlinked"} /\ wlThread' = [wlThread EXCEPT ![c] = "loop"]
    /\ wlFile' = (IF wlThread[c] = "open" THEN c ELSE wlFile)
    /\ UNCHANGED << wlWidth, wlWindows, wlLeaving, wlSound, wlLayout, wlUpsets >>
HarvestAudio(c) ==
    /\ wlSound[c].changed /\ wlThread[c] = "loop"
    /\ wlSound' = [wlSound EXCEPT ![c].changed = FALSE, ![c].audible = IF wlSound[c].active THEN 1 ELSE 0]
    /\ UNCHANGED << wlWidth, wlWindows, wlShared, wlLayout, wlUpsets >>

(* The host loop. *)
FlippedSlip(s) == s.audible >= 0 /\ s.applied = -1
Flipped(s) == s.audible >= 0 /\ s.audible # s.applied
ApplyAudio(c) ==
    /\ Flipped(wlSound[c]) /\ wlThread[c] # "modal"
    /\ wlSound' = [wlSound EXCEPT ![c].applied = wlSound[c].audible, ![c].muted = (wlSound[c].audible = 0)]
    /\ UNCHANGED << wlWidth, wlWindows, wlShared, wlLayout, wlUpsets >>

(* The library over the paused game, or the controls editor: run_modal has the  *)
(* render thread, and the host loop waits for it.  Its own event loop takes    *)
(* the window events and draws itself again for them.  Its window and the      *)
(* column's are one here, and have the keyboard together.                     *)
OpenModal(c) ==
    /\ c \in wlUp /\ wlThread[c] = "loop" /\ ~wlPlacing[c] /\ Upset
    /\ wlThread' = [wlThread EXCEPT ![c] = "modal"]
    /\ UNCHANGED << wlWidth, wlWindows, wlFile, wlLeaving, wlSound, wlLayout >>
SwallowEvent(c) ==
    /\ wlThread[c] = "modal" /\ wlEvents[c] # << >> /\ wlEvents' = [wlEvents EXCEPT ![c] = Tail(@)]
    /\ wlSound' = [wlSound EXCEPT ![c].missed = TRUE]
    /\ UNCHANGED << wlWidth, wlUp, wlOpened, wlFocus, wlShared, wlLayout, wlUpsets >>
CloseModal(c) ==
    /\ wlThread[c] = "modal" /\ wlThread' = [wlThread EXCEPT ![c] = "loop"]
    /\ UNCHANGED << wlWidth, wlWindows, wlFile, wlLeaving, wlSound, wlLayout, wlUpsets >>

-----------------------------------------------------------------------------
(* Every thirtieth frame: the file is read to see whether to lay the window     *)
(* out again, and a second time, in place_wall_slot, to do it.                *)

Misplaced(c, focused) == ~wlPlaced[c] \/ wlLaid[c] = Nothing \/ focused # wlSeen[c]
LookAtFocus(c) ==
    /\ c \in wlUp /\ ~wlPlacing[c] /\ wlThread[c] = "loop" /\ Misplaced(c, wlFile)
    /\ wlSeen' = [wlSeen EXCEPT ![c] = wlFile] /\ wlPlacing' = [wlPlacing EXCEPT ![c] = TRUE]
    /\ UNCHANGED << wlWidth, wlWindows, wlShared, wlSound, wlPlaced, wlLaid, wlUpsets >>
PlaceWallSlot(c) ==
    /\ wlPlacing[c] /\ wlPlacing' = [wlPlacing EXCEPT ![c] = FALSE]
    /\ \/ /\ wlPlaced' = [wlPlaced EXCEPT ![c] = TRUE] /\ wlLaid' = [wlLaid EXCEPT ![c] = wlFile] /\ UNCHANGED wlUpsets
       \/ /\ Upset
          /\ wlPlaced' = [wlPlaced EXCEPT ![c] = FALSE] /\ UNCHANGED wlLaid
    /\ UNCHANGED << wlWidth, wlWindows, wlShared, wlSound, wlSeen >>

WlNext ==
    \/ \E to \in Slots \cup {Nobody} : MoveFocus(to)
    \/ \E c \in Slots :
        \/ OpenColumn(c) \/ Tile(c) \/ LeaveWall(c) \/ Killed(c) \/ ForgetWallFocus(c)
        \/ OpenModal(c) \/ SwallowEvent(c) \/ CloseModal(c)
        \/ HandleEvent(c) \/ PublishWallFocus(c) \/ HarvestAudio(c) \/ ApplyAudio(c)
        \/ LookAtFocus(c) \/ PlaceWallSlot(c)
WlSpec == WlInit /\ [][WlNext]_wlvars

-----------------------------------------------------------------------------
(* A column that has nothing left to do. *)
Settled(c) ==
    /\ wlEvents[c] = << >> /\ wlThread[c] = "loop" /\ ~wlSound[c].changed /\ ~Flipped(wlSound[c])
    /\ ~wlPlacing[c] /\ ~Misplaced(c, wlFile)

(* layout_wall_columns: "the columns always span the full width exactly".       *)
(* Whichever column is played, each begins a gap after the one before it, none  *)
(* is empty, and the last one ends at the display's edge.                     *)
ColumnsTile ==
    Divided(wlWidth, WlCount) =>
        \A f \in {Nobody} \cup Slots :
            /\ \A c \in Slots : ColumnWidth(wlWidth, WlCount, f, c) >= 1
            /\ \A c \in Slots : c + 1 \in Slots =>
                ColumnX(wlWidth, WlCount, f, c + 1)
                    = ColumnX(wlWidth, WlCount, f, c) + ColumnWidth(wlWidth, WlCount, f, c) + Gap(wlWidth)
            /\ ColumnX(wlWidth, WlCount, f, WlCount - 1) + ColumnWidth(wlWidth, WlCount, f, WlCount - 1) = wlWidth

(* process_events: a column "mutes itself when focus leaves it".  Through the     *)
(* renderer, the worker and the host loop, a column that has had the keyboard  *)
(* is heard again if and only if it has it now, unless a modal has taken an    *)
(* event of the focus from it and no other has come since.                    *)
HeardIsPlayed ==
    \A c \in wlUp : Settled(c) /\ ~wlSound[c].missed =>
        /\ wlFocus = c => ~wlSound[c].muted
        /\ wlFocus # c /\ wlSound[c].audible # -1 => wlSound[c].muted
=============================================================================
