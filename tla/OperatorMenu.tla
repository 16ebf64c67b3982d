---------------------------- MODULE OperatorMenu ----------------------------
(* The menus over a paused game and the operator's switches behind them.  The *)
(* video thread turns keys into operator actions and shows the switches from  *)
(* the menu definition it was given last; the game's session applies the      *)
(* actions to the cabinet's switches and sends a new definition.              *)
EXTENDS Naturals, Sequences, SequencesExt

CONSTANTS
    OmGames,        \* games, each with a menu of its own
    OmRows,         \* number of switch rows; the row after them restores the defaults
    OmValues,       \* positions of a switch
    MaxPresses,     \* bound: changes the user makes
    MaxSessions     \* bound: games started

ASSUME OperatorMenuAssumption ==
    /\ OmGames # {} /\ {"none", "reset"} \cap OmGames = {} /\ OmRows \in Nat \ {0} /\ OmValues \in Nat \ {0}
    /\ MaxPresses \in Nat /\ MaxSessions \in Nat

VARIABLES
    omScreen,           \* "none", "pause", "operator" or "settings"
    omCursor,           \* m_operator_selection
    omMenu,             \* m_operator_menu: the game and a value for each switch
    omActions,          \* the renderer's operator actions: row, value and the menu's game
    omRequests,         \* controls, picker or settings change asked for in the menus
    omAt,               \* the video thread: "task", "events" or "harvest"
    omTasks,            \* m_tasks: menu definitions, or the reset of a session's end
    omInbox, omAsked,   \* what the worker keeps for the host: actions and requests
    omPhase, omGame,    \* the host: "none", "loading", "running", "leaving" or "reset"
    omSwitches,         \* arcade_cabinet_state: the switches of every game
    omPresses, omSessions

omUi == << omScreen, omCursor, omMenu, omActions, omRequests >>
omWorker == << omAt, omTasks, omInbox, omAsked >>
omHost == << omPhase, omGame, omSwitches >>
omCounts == << omPresses, omSessions >>
omvars == << omUi, omWorker, omHost, omCounts >>

SwitchRows == 1..OmRows
MenuRows == 1..OmRows + 1
Default == [r \in SwitchRows |-> 0]
NoMenu == [game |-> "none", values |-> Default]
Enabled(menu) == IF menu.game = "none" THEN {} ELSE MenuRows

OmInit ==
    /\ omScreen = "none" /\ omCursor = 1 /\ omMenu = NoMenu /\ omActions = << >> /\ omRequests = {}
    /\ omAt = "task" /\ omTasks = << >> /\ omInbox = << >> /\ omAsked = {}
    /\ omPhase = "none" /\ omGame = "none" /\ omSwitches = [g \in OmGames |-> Default]
    /\ omPresses = 0 /\ omSessions = 0

-----------------------------------------------------------------------------
(* process_events of the renderer.  The P key opens the pause menu and closes  *)
(* whatever menu is open; the other keys and buttons act on the open screen.   *)

Event == omAt = "events" /\ omPresses < MaxPresses /\ omPresses' = omPresses + 1
SameActions == UNCHANGED << omMenu, omActions >>
PauseKey ==
    /\ Event /\ omScreen' = IF omScreen = "none" THEN "pause" ELSE "none"
    /\ SameActions /\ UNCHANGED << omCursor, omRequests, omWorker, omHost, omSessions >>
Back ==
    /\ Event /\ omScreen # "none"
    /\ omScreen' = IF omScreen = "pause" THEN "none" ELSE "pause"
    /\ SameActions /\ UNCHANGED << omCursor, omRequests, omWorker, omHost, omSessions >>
(* activate_pause_menu; the rows of the settings screen that lead elsewhere,  *)
(* and the others, which change a setting.                                    *)
PauseRows == {"resume", "operator", "settings", "controls", "picker"}
Leads(row) ==
    CASE row = "resume" -> "none"
      [] row \in {"operator", "settings"} -> row
      [] OTHER -> omScreen
Asks(row) == {row} \cap {"controls", "picker", "adjust"}
Choose(row) ==
    /\ Event
    /\ \/ omScreen = "pause" /\ row \in PauseRows
       \/ omScreen = "settings" /\ row \in {"resume", "picker", "operator", "adjust"}
    /\ omScreen' = Leads(row) /\ omRequests' = omRequests \cup Asks(row)
    /\ SameActions /\ UNCHANGED << omCursor, omWorker, omHost, omSessions >>
ReturnToMenu ==
    /\ Event /\ omScreen = "pause" /\ omPhase = "running" /\ omPhase' = "leaving"
    /\ UNCHANGED << omUi, omWorker, omGame, omSwitches, omSessions >>

(* select_operator_row skips the rows that are off. *)
Select(row) ==
    /\ Event /\ omScreen = "operator" /\ row \in Enabled(omMenu) \ {omCursor}
    /\ omCursor' = row
    /\ SameActions /\ UNCHANGED << omScreen, omRequests, omWorker, omHost, omSessions >>
(* adjust_operator_setting: the menu shows the new position at once. *)
Adjust(direction) ==
    /\ Event /\ omScreen = "operator" /\ omCursor \in Enabled(omMenu)
    /\ IF omCursor \in SwitchRows
       THEN LET value == (omMenu.values[omCursor] + direction) % OmValues
            IN /\ omMenu' = [omMenu EXCEPT !.values[omCursor] = value]
               /\ omActions' = Append(omActions, [row |-> omCursor, value |-> value, game |-> omMenu.game])
       ELSE /\ direction = 1       \* activated
            /\ omActions' = Append(omActions, [row |-> omCursor, value |-> 0, game |-> omMenu.game])
            /\ UNCHANGED omMenu
    /\ UNCHANGED << omScreen, omCursor, omRequests, omWorker, omHost, omSessions >>

-----------------------------------------------------------------------------
(* The video thread: a task, the events, and the harvest of one action.       *)

NewMenu(menu) ==                    \* set_operator_menu keeps the row selected
    /\ omMenu' = menu /\ omCursor' = IF omCursor \in Enabled(menu) THEN omCursor ELSE 1
    /\ UNCHANGED << omScreen, omActions, omRequests >>
ResetUi ==                          \* reset_session_ui
    /\ omScreen' = "none" /\ omActions' = << >> /\ omRequests' = omRequests \ {"controls"}
    /\ UNCHANGED << omMenu, omCursor >>
TaskStep ==
    /\ omAt = "task" /\ omAt' = "events"
    /\ \/ omTasks = << >> /\ UNCHANGED << omUi, omTasks >>
       \/ /\ omTasks # << >> /\ omTasks' = Tail(omTasks)
          /\ IF Head(omTasks).game = "reset" THEN ResetUi ELSE NewMenu(Head(omTasks))
    /\ UNCHANGED << omInbox, omAsked, omHost, omCounts >>
EventsDone ==
    /\ omAt = "events" /\ omAt' = "harvest"
    /\ UNCHANGED << omUi, omTasks, omInbox, omAsked, omHost, omCounts >>
Harvest ==
    /\ omAt = "harvest" /\ omAt' = "task"
    /\ IF omActions = << >> THEN UNCHANGED << omActions, omInbox >>
       ELSE omInbox' = Append(omInbox, Head(omActions)) /\ omActions' = Tail(omActions)
    /\ omAsked' = omAsked \cup omRequests /\ omRequests' = {}
    /\ UNCHANGED << omScreen, omCursor, omMenu, omTasks, omHost, omCounts >>

-----------------------------------------------------------------------------
(* The host: a session is started, sends the first menu when it is up, and    *)
(* drains the actions before every frame.                                     *)

Load(game) ==
    /\ omPhase = "none" /\ omSessions < MaxSessions
    /\ omPhase' = "loading" /\ omGame' = game /\ omSessions' = omSessions + 1
    /\ UNCHANGED << omUi, omWorker, omSwitches, omPresses >>
MenuOf(game, switches) == [game |-> game, values |-> switches[game]]
Loaded ==
    /\ omPhase = "loading" /\ omPhase' = "running"
    /\ omTasks' = Append(omTasks, MenuOf(omGame, omSwitches))
    /\ UNCHANGED << omUi, omAt, omInbox, omAsked, omGame, omSwitches, omCounts >>

(* apply_..._operator_action of the boards *)
Apply(values, action) ==
    IF action.row \in SwitchRows THEN [values EXCEPT ![action.row] = action.value] ELSE Default
SentSlip(after) == omSwitches
Sent(after) == after                \* the definition is made of the switches as they are now
Drain ==
    /\ omPhase \in {"running", "leaving"} /\ omInbox # << >> /\ omInbox' = << >>
    /\ omSwitches' = [omSwitches EXCEPT ![omGame] = FoldLeft(Apply, @, omInbox)]
    /\ omTasks' = Append(omTasks, MenuOf(omGame, Sent(omSwitches')))
    /\ UNCHANGED << omUi, omAt, omAsked, omPhase, omGame, omCounts >>
TakeRequest ==
    /\ omPhase = "running" /\ omAsked # {} /\ omAsked' = {}
    /\ omPhase' = IF "picker" \in omAsked THEN "leaving" ELSE "running"
    /\ UNCHANGED << omUi, omAt, omTasks, omInbox, omGame, omSwitches, omCounts >>

(* reset_session: queued tasks are dropped, and a last one is waited for.     *)
Leave ==
    /\ omPhase = "leaving" /\ omPhase' = "reset"
    /\ omTasks' = << [game |-> "reset", values |-> Default] >>
    /\ UNCHANGED << omUi, omAt, omInbox, omAsked, omGame, omSwitches, omCounts >>
Left ==
    /\ omPhase = "reset" /\ omTasks = << >> /\ omPhase' = "none" /\ omGame' = "none"
    /\ omInbox' = << >> /\ omAsked' = omAsked \ {"controls"}
    /\ UNCHANGED << omUi, omAt, omTasks, omSwitches, omCounts >>

OmNext ==
    \/ PauseKey \/ Back \/ ReturnToMenu
    \/ (\E row \in PauseRows \cup {"adjust"} : Choose(row))
    \/ (\E row \in MenuRows : Select(row)) \/ (\E direction \in {1, OmValues - 1} : Adjust(direction))
    \/ TaskStep \/ EventsDone \/ Harvest
    \/ (\E game \in OmGames : Load(game)) \/ Loaded \/ Drain \/ TakeRequest \/ Leave \/ Left
OmSpec == OmInit /\ [][OmNext]_omvars

-----------------------------------------------------------------------------
(* While a game is played and nothing is on its way between the two threads,  *)
(* the operator menu shows the switches the board is run with: keys pressed   *)
(* while a new definition travels, a definition that is older than the keys,  *)
(* and a change of games leave no lasting difference.                         *)
MenuShowsTheSwitches ==
    (omPhase = "running" /\ omActions = << >> /\ omInbox = << >> /\ omTasks = << >>)
        => omMenu = MenuOf(omGame, omSwitches)
=============================================================================
