------------------------------- MODULE Launcher -------------------------------
(* The launcher's screens: the grid of games with its views and pages, the      *)
(* question how to play, the system pages, the network pages and the choice of *)
(* a wall (arcade_frontend.cpp), drawn and steered by launcher_menu.cpp, while  *)
(* the lobby's thread finds and loses the other machine.                       *)
EXTENDS Integers, Sequences, FiniteSets, SequencesExt

CONSTANTS
    LmLibrary,   \* the games there are, in the order of their labels
    LmShelves,   \* sets of games that may be installed
    LmColumns,   \* columns of the grid
    LmRows,      \* its visible rows
    LmLines,     \* visible rows of a list
    LmCapacity   \* games a wall may have on this machine, out of 2..3

ASSUME LauncherAssumption ==
    /\ LmLibrary \in Seq([mode : {"none", "alternating", "simultaneous", "native_link"}, peer : BOOLEAN,
                          board : Nat \ {0}, publisher : Nat, plays : Nat, works : BOOLEAN])
    /\ LmShelves \subseteq SUBSET DOMAIN LmLibrary
    /\ {LmColumns, LmRows, LmLines} \subseteq Nat \ {0} /\ LmCapacity \in {2, 3}

VARIABLES
    lmShelf,     \* choices
    lmView,      \* play_style, and of the browser: sort_mode, page_mode, page_index, remembered
    lmScreen,    \* the screen shown, or "gone" once show_rom_selector has returned
    lmList,      \* its rows, those greyed out, the cursor and the first row drawn
    lmGame,      \* the game whose start is being asked about, or 0
    lmWall,      \* the wall: games wanted, or 0, and picked
    lmPeer,      \* lobby: connected, node, launch_pending; connected as drawn
    lmLap,       \* interrupt() has been asked in this lap; laps ended since its answer is yes
    lmEmpty,     \* history: the grid had no card, and the system menu came up
    lmStarted    \* rom_selection_result

lmvars == << lmShelf, lmView, lmScreen, lmList, lmGame, lmWall, lmPeer, lmLap, lmEmpty, lmStarted >>

-----------------------------------------------------------------------------
(* The elements of a set in an order: the i-th is the one that i - 1 precede.   *)
InOrder(S, precedes) ==
    [i \in 1..Cardinality(S) |-> CHOOSE x \in S : Cardinality({y \in S : << y, x >> \in precedes}) = i - 1]
Less(S) == {p \in S \X S : p[1] < p[2]}

(* What a game can be played as: by two players of one cabinet, who may also   *)
(* have a screen each, or on two linked cabinets.                              *)
Shared(g) == LmLibrary[g].mode \in {"alternating", "simultaneous"}
TwoScreens(g) == LmLibrary[g].works /\ Shared(g)
SystemLink(g) == LmLibrary[g].works /\ LmLibrary[g].mode = "native_link"

(* The view: which games, in which order, on which page.                       *)
MatchesPlayStyle(g, style) ==
    \/ style = 0
    \/ style = 1 /\ LmLibrary[g].mode = "alternating"
    \/ style = 2 /\ LmLibrary[g].mode = "simultaneous"
    \/ style = 3 /\ TwoScreens(g)
    \/ style = 4 /\ SystemLink(g)

(* Slip: a page is a page of the library, whatever the style.                  *)
CountedSlip(shelf, style) == shelf
Counted(shelf, style) == {g \in shelf : MatchesPlayStyle(g, style)}
PageOf(g, pages) == IF pages = "board" THEN LmLibrary[g].board ELSE LmLibrary[g].publisher
PageKeys(shelf, style, pages) ==
    LET keys == {PageOf(g, pages) : g \in Counted(shelf, style)} \ {0} IN InOrder(keys, Less(keys))

(* Every lap of browse_library_grid: paging ends where no page exists, and the *)
(* page turned past either end comes round.                                    *)
Lap(shelf, view, style) ==
    LET count == Len(PageKeys(shelf, style, view.pages))
    IN  IF view.pages = "none" THEN view
        ELSE IF count = 0 THEN [view EXCEPT !.pages = "none"]
        ELSE [view EXCEPT !.page = @ % count]

(* Slip: the style narrows the grid only while it is not paged.                *)
OnPageSlip(g, shelf, v, style) ==
    IF v.pages = "none" THEN MatchesPlayStyle(g, style)
    ELSE PageOf(g, v.pages) = PageKeys(shelf, style, v.pages)[v.page + 1]
OnPage(g, shelf, v, style) ==
    /\ MatchesPlayStyle(g, style)
    /\ v.pages # "none" => PageOf(g, v.pages) = PageKeys(shelf, style, v.pages)[v.page + 1]
Before(sort, a, b) ==
    IF sort = "played" /\ LmLibrary[a].plays # LmLibrary[b].plays
    THEN LmLibrary[a].plays > LmLibrary[b].plays
    ELSE a < b
Sorted(games, sort) == InOrder(games, {p \in games \X games : Before(sort, p[1], p[2])})
Cards(shelf, v, style) == Sorted({g \in shelf : OnPage(g, shelf, v, style)}, v.sort)

-----------------------------------------------------------------------------
(* Lists and grids: the cursor, and what of them is on the screen.             *)
Clamped(x, low, high) == IF x < low THEN low ELSE IF x > high THEN high ELSE x
Scrolled(first, row, rows, visible) ==
    Clamped(IF row < first THEN row
            ELSE IF row >= first + visible THEN row - visible + 1 ELSE first,
            0, Clamped(rows - visible, 0, rows))
IsGrid == lmScreen \in {"grid", "column"}
Columns == IF IsGrid THEN LmColumns ELSE 1
Visible == IF IsGrid THEN LmRows ELSE LmLines
GridLines(n) == (n + Columns - 1) \div Columns
MovedTo(at) ==
    [lmList EXCEPT !.at = at,
                   !.first = Scrolled(@, at \div Columns, GridLines(Len(lmList.rows)), Visible)]

(* The screens.  A list ends with its Back row; one without items begins there. *)
ListOf(items, blocked) == [rows |-> Append(items, "Back"), blocked |-> blocked, at |-> 0, first |-> 0]
GridOf(cards, at) ==
    LET cursor == Clamped(at, 0, Len(cards) - 1)
    IN  [rows |-> cards, blocked |-> {}, at |-> cursor,
         first |-> Scrolled(0, cursor \div LmColumns, (Len(cards) + LmColumns - 1) \div LmColumns, LmRows)]
ShowScreen(screen, list) == lmScreen' = screen /\ lmList' = list
ShowList(screen, items) == ShowScreen(screen, ListOf(items, {}))
SystemPages == << "network", "wall", "settings", "other" >>

(* Only the style outlives the browser.                                        *)
FreshView(style) == [style |-> style, sort |-> "label", pages |-> "none", page |-> 0, remembered |-> 0]
BrowserEnds == lmView' = FreshView(lmView.style)

(* A lap of the browser.  A grid without cards ends at once, as if left.       *)
Browse(shelf, view) ==
    LET v == Lap(shelf, view, view.style)
        cards == Cards(shelf, v, v.style)
    IN  /\ lmGame' = 0 /\ lmEmpty' = (cards = << >>)
        /\ IF cards = << >>
           THEN ShowList("system", SystemPages) /\ lmView' = FreshView(v.style)
           ELSE ShowScreen("grid", GridOf(cards, v.remembered)) /\ lmView' = v

(* A lap of show_rom_selector: the lobby is looked at, the browser starts anew. *)
SelectorLap(shelf, style, peer) ==
    /\ Browse(shelf, FreshView(style))
    /\ lmPeer' = [peer EXCEPT !.known = peer.up]
    /\ lmWall' = [wanted |-> 0, picked |-> << >>]

NoStart == [game |-> 0, how |-> "none", node |-> 0, monitors |-> FALSE, wall |-> << >>]
LmInit ==
    /\ lmShelf \in LmShelves
    /\ lmPeer = [up |-> FALSE, node |-> 1, launch |-> 0, known |-> FALSE]
    /\ lmView = FreshView(0) /\ lmGame = 0
    /\ lmScreen = "start" /\ lmList = ListOf(<< >>, {}) /\ lmEmpty = FALSE
    /\ lmWall = [wanted |-> 0, picked |-> << >>]
    /\ lmLap = [asked |-> FALSE, late |-> 0] /\ lmStarted = NoStart

-----------------------------------------------------------------------------
(* The lobby's thread, at any time.  Only player 2 is sent launches, of games  *)
(* that the other launcher lets play on two machines.                          *)
PeerComes ==
    /\ ~lmPeer.up
    /\ \E n \in {1, 2} : lmPeer' = [lmPeer EXCEPT !.up = TRUE, !.node = n]
PeerLeaves == lmPeer.up /\ lmPeer' = [lmPeer EXCEPT !.up = FALSE]
LaunchComes ==
    /\ lmPeer.up /\ lmPeer.node = 2 /\ lmPeer.launch = 0
    /\ \E g \in DOMAIN LmLibrary :
        (TwoScreens(g) \/ SystemLink(g)) /\ lmPeer' = [lmPeer EXCEPT !.launch = g]
Lobby ==
    /\ lmScreen # "gone"
    /\ PeerComes \/ PeerLeaves \/ LaunchComes
    /\ UNCHANGED << lmShelf, lmView, lmScreen, lmList, lmGame, lmWall, lmLap, lmEmpty, lmStarted >>

(* The interrupt() that each screen is given.                                  *)
Interruptible == {"grid", "how", "finding", "waiting", "kinds", "linked"}
Interrupts ==
    \/ lmScreen \in {"grid", "finding", "waiting"} /\ lmPeer.launch # 0
    \/ lmScreen \in {"grid", "how"} /\ lmPeer.up # lmPeer.known
    \/ lmScreen = "finding" /\ lmPeer.up
    \/ lmScreen \in {"waiting", "kinds", "linked"} /\ ~lmPeer.up

(* select and run_grid: each lap asks interrupt() and then waits for an event. *)
LapBegins == lmScreen \in Interruptible /\ ~lmLap.asked
Proceed ==
    /\ LapBegins /\ ~Interrupts
    /\ lmLap' = [asked |-> TRUE, late |-> 0]
    /\ UNCHANGED << lmShelf, lmView, lmScreen, lmList, lmGame, lmWall, lmPeer, lmEmpty, lmStarted >>

(* Slip: a lap that handled an event goes on to the next one.                  *)
NextLapSlip == [asked |-> TRUE, late |-> IF Interrupts THEN lmLap.late + 1 ELSE 0]
NextLap == [asked |-> FALSE, late |-> IF Interrupts THEN lmLap.late + 1 ELSE 0]
OnEvent == (lmScreen \in Interruptible => lmLap.asked) /\ lmLap' = NextLap
TimesOut ==
    /\ lmScreen \in Interruptible /\ OnEvent
    /\ UNCHANGED << lmShelf, lmView, lmScreen, lmList, lmGame, lmWall, lmPeer, lmEmpty, lmStarted >>

-----------------------------------------------------------------------------
Started(game, how, node, monitors) ==
    /\ lmStarted' = [NoStart EXCEPT !.game = game, !.how = how, !.node = node, !.monitors = monitors]
    /\ ShowScreen("gone", ListOf(<< >>, {})) /\ lmView' = FreshView(0) /\ lmGame' = 0
    /\ lmEmpty' = FALSE /\ UNCHANGED lmWall

(* take_remote_launch: the launch is taken; it starts if the game is installed. *)
Taken == [lmPeer EXCEPT !.launch = 0]
Follow == Started(lmPeer.launch, "linked_network", 2, FALSE) /\ lmPeer' = Taken

(* A lap of the network pages.                                                 *)
NetworkScreen(peer) ==
    IF ~peer.up THEN ShowList("finding", << "searching" >>)
    ELSE IF peer.node = 2 THEN ShowList("waiting", << "waiting" >>)
    ELSE ShowList("kinds", << "alternating", "simultaneous", "link" >>)
NetworkLap ==
    IF lmPeer.launch = 0
    THEN NetworkScreen(lmPeer) /\ UNCHANGED << lmPeer, lmView, lmGame, lmWall, lmEmpty, lmStarted >>
    ELSE IF lmPeer.launch \in lmShelf THEN Follow
    ELSE ShowList("notice", << >>) /\ lmPeer' = Taken /\ UNCHANGED << lmView, lmGame, lmWall, lmEmpty, lmStarted >>

(* The question how a game is to be played, asked anew whenever the other      *)
(* machine comes or goes.                                                      *)
SeveralWays(g) == LmLibrary[g].mode # "none"
Ways(g, up) ==
    << "single" >>
    \o (IF Shared(g) THEN << "two" >> ELSE << >>)
    \o (IF TwoScreens(g) THEN << "twin" >> ELSE << >>)
    \o (IF SystemLink(g) THEN << "cabinets" >> ELSE << >>)
    \o (IF up THEN << "other" >> ELSE << >>)
AskHow(g) ==
    /\ ShowList("how", Ways(g, lmPeer.up))
    /\ lmGame' = g /\ lmPeer' = [lmPeer EXCEPT !.known = lmPeer.up] /\ BrowserEnds

Interrupted ==
    /\ LapBegins /\ Interrupts
    /\ lmLap' = [asked |-> FALSE, late |-> 0] /\ UNCHANGED lmShelf
    /\ \/ /\ lmScreen = "grid" /\ lmPeer.launch \in lmShelf /\ Follow
       \/ /\ lmScreen = "grid" /\ lmPeer.launch \notin lmShelf \cup {0}
          /\ ShowList("message", << >>) /\ lmPeer' = Taken
          /\ BrowserEnds /\ UNCHANGED << lmGame, lmWall, lmEmpty, lmStarted >>
       \/ /\ lmScreen = "grid" /\ lmPeer.launch = 0
          /\ SelectorLap(lmShelf, lmView.style, lmPeer) /\ UNCHANGED lmStarted
       \/ lmScreen = "how" /\ AskHow(lmGame) /\ UNCHANGED << lmWall, lmEmpty, lmStarted >>
       \/ lmScreen \in {"finding", "waiting", "kinds", "linked"} /\ NetworkLap

-----------------------------------------------------------------------------
(* Moving the cursor: a list comes round, by a row or by a screenful, and can   *)
(* be pointed at; a grid stops at its ends, or turns the page there.           *)
MoveList ==
    /\ ~IsGrid /\ lmScreen \notin {"start", "text", "message", "notice", "gone"} /\ OnEvent
    /\ \/ \E d \in {-1, 1, -LmLines, LmLines} : lmList' = MovedTo((lmList.at + d) % Len(lmList.rows))
       \/ \E at \in {0, Len(lmList.rows) - 1} : lmList' = MovedTo(at)
       \/ \E at \in lmList.first..(lmList.first + LmLines - 1) :
            at < Len(lmList.rows) /\ lmList' = MovedTo(at)
    /\ UNCHANGED << lmShelf, lmView, lmScreen, lmGame, lmWall, lmPeer, lmEmpty, lmStarted >>
MoveGrid ==
    /\ IsGrid /\ OnEvent
    /\ \/ \E d \in {-1, 1} :
            /\ lmView.pages = "none" \/ lmList.at + d \in 0..(Len(lmList.rows) - 1)
            /\ lmList' = MovedTo(Clamped(lmList.at + d, 0, Len(lmList.rows) - 1))
       \/ \E d \in {-LmColumns, LmColumns} :
            lmList.at + d \in 0..(Len(lmList.rows) - 1) /\ lmList' = MovedTo(lmList.at + d)
    /\ UNCHANGED << lmShelf, lmView, lmScreen, lmGame, lmWall, lmPeer, lmEmpty, lmStarted >>

(* The browser of a column has a view of its own, without a style; the grid's  *)
(* is started anew once the wall is done with.                                 *)
BrowseColumn(view, picked, wanted) ==
    LET v == Lap(lmShelf, view, 0)
    IN  /\ ShowScreen("column", GridOf(Cards(lmShelf, v, 0), v.remembered))
        /\ lmView' = [v EXCEPT !.style = lmView.style] /\ lmWall' = [wanted |-> wanted, picked |-> picked]
        /\ UNCHANGED << lmGame, lmEmpty >>
Lapped(view) ==
    IF lmWall.wanted > 0 THEN BrowseColumn(view, lmWall.picked, lmWall.wanted)
    ELSE Browse(lmShelf, view) /\ UNCHANGED lmWall

TurnPage ==
    /\ IsGrid /\ lmView.pages # "none" /\ OnEvent
    /\ \E d \in {-1, 1} : Lapped([lmView EXCEPT !.page = @ + d, !.remembered = 0])
    /\ UNCHANGED << lmShelf, lmPeer, lmStarted >>
AskView ==
    /\ IsGrid /\ OnEvent
    /\ ShowList("view", << "label", "played", "board", "publisher" >>
                        \o (IF lmWall.wanted = 0 THEN << "style" >> ELSE << >>))
    /\ UNCHANGED << lmShelf, lmView, lmGame, lmWall, lmPeer, lmEmpty, lmStarted >>
Information ==
    /\ IsGrid /\ lmView.pages = "board" /\ OnEvent /\ ShowList("text", << >>)
    /\ UNCHANGED << lmShelf, lmView, lmGame, lmWall, lmPeer, lmEmpty, lmStarted >>

-----------------------------------------------------------------------------
(* What is pressed: the row under the cursor, unless it is greyed out; or Back. *)
UnderCursor == lmList.rows[lmList.at + 1]
Pressed == lmScreen \notin {"start", "gone"} /\ lmList.at \notin lmList.blocked /\ OnEvent
Chosen(screen) == lmScreen = screen /\ Pressed /\ lmList.at < Len(lmList.rows) - 1
BackFrom(screen) == lmScreen = screen /\ OnEvent

(* "Asked at the moment the question is put, not cached": with one display the  *)
(* row of two monitors is greyed out.                                          *)
AskScreens(screen) ==
    \E blocked \in {{}, {1}} : ShowScreen(screen, ListOf(<< "one", "monitors" >>, blocked))

PickCard ==
    /\ lmScreen = "grid" /\ Pressed /\ UNCHANGED lmShelf
    /\ LET kept == [lmView EXCEPT !.remembered = lmList.at]
           style == lmView.style
       IN  \/ /\ ~LmLibrary[UnderCursor].works
              /\ ShowList("text", << >>) /\ lmView' = kept
              /\ UNCHANGED << lmGame, lmWall, lmPeer, lmEmpty, lmStarted >>
           \/ /\ LmLibrary[UnderCursor].works /\ style = 0 /\ ~SeveralWays(UnderCursor)
              /\ Started(UnderCursor, "single", 0, FALSE) /\ UNCHANGED lmPeer
           \/ /\ LmLibrary[UnderCursor].works /\ style = 0 /\ SeveralWays(UnderCursor)
              /\ AskHow(UnderCursor) /\ UNCHANGED << lmWall, lmEmpty, lmStarted >>
           \/ /\ LmLibrary[UnderCursor].works /\ style \in {1, 2}
              /\ Started(UnderCursor, "two", 0, FALSE) /\ UNCHANGED lmPeer
           \/ /\ LmLibrary[UnderCursor].works /\ style \in {3, 4}
              /\ AskScreens(IF style = 3 THEN "twin" ELSE "cabinets")
              /\ lmGame' = UnderCursor /\ BrowserEnds /\ UNCHANGED << lmWall, lmPeer, lmEmpty, lmStarted >>

(* Twin screens and linked cabinets go on with their style as the view's.      *)
PickWay ==
    /\ Chosen("how") /\ UNCHANGED lmShelf
    /\ \/ UnderCursor \in {"single", "two"} /\ Started(lmGame, UnderCursor, 0, FALSE) /\ UNCHANGED lmPeer
       \/ UnderCursor = "other" /\ Started(lmGame, "linked_network", 1, FALSE) /\ UNCHANGED lmPeer
       \/ /\ UnderCursor \in {"twin", "cabinets"}
          /\ AskScreens(UnderCursor)
          /\ lmView' = [lmView EXCEPT !.style = IF UnderCursor = "twin" THEN 3 ELSE 4]
          /\ UNCHANGED << lmGame, lmWall, lmPeer, lmEmpty, lmStarted >>
PickPair ==
    /\ Chosen("twin") \/ Chosen("cabinets")
    /\ Started(lmGame, lmScreen, 0, UnderCursor = "monitors") /\ UNCHANGED << lmShelf, lmPeer >>
LeaveStart ==
    /\ \E s \in {"how", "twin", "cabinets"} : BackFrom(s)
    /\ SelectorLap(lmShelf, lmView.style, lmPeer) /\ UNCHANGED << lmShelf, lmStarted >>

PickView ==
    /\ Chosen("view") /\ UNCHANGED << lmShelf, lmPeer, lmStarted >>
    /\ IF UnderCursor = "style"
       THEN ShowList("style", << "0", "1", "2", "3", "4" >>) /\ UNCHANGED << lmView, lmGame, lmWall, lmEmpty >>
       ELSE LET v == [lmView EXCEPT !.remembered = 0]
            IN  Lapped(IF UnderCursor = "label" THEN FreshView(lmView.style)
                       ELSE IF UnderCursor = "played" THEN [v EXCEPT !.sort = "played"]
                       ELSE [v EXCEPT !.pages = UnderCursor, !.page = 0])
PickStyle ==
    /\ Chosen("style") /\ UNCHANGED << lmShelf, lmPeer, lmStarted >>
    /\ Lapped([lmView EXCEPT !.style = lmList.at, !.remembered = 0])
LeaveView ==
    /\ BackFrom("view") \/ BackFrom("style")
    /\ Lapped([lmView EXCEPT !.remembered = 0]) /\ UNCHANGED << lmShelf, lmPeer, lmStarted >>
LeaveText ==
    /\ BackFrom("text") /\ Lapped(lmView) /\ UNCHANGED << lmShelf, lmPeer, lmStarted >>
LeaveMessage ==
    /\ BackFrom("message") /\ SelectorLap(lmShelf, lmView.style, lmPeer)
    /\ UNCHANGED << lmShelf, lmStarted >>

(* Back from the grid, and the pages behind it.                               *)
LeaveGrid ==
    /\ BackFrom("grid") /\ ShowList("system", SystemPages) /\ BrowserEnds /\ lmEmpty' = FALSE
    /\ UNCHANGED << lmShelf, lmGame, lmWall, lmPeer, lmStarted >>
OpenPage ==
    /\ Chosen("system")
    /\ \/ UnderCursor = "network" /\ NetworkLap /\ UNCHANGED lmShelf
       \/ /\ UnderCursor = "wall" /\ Cardinality(lmShelf) >= 2
          /\ ShowScreen("columns", ListOf(<< "2", "3" >>, {c \in {0, 1} : c + 2 > LmCapacity}))
          /\ UNCHANGED << lmShelf, lmView, lmGame, lmWall, lmPeer, lmEmpty, lmStarted >>
       \/ /\ UnderCursor = "wall" /\ Cardinality(lmShelf) < 2 /\ ShowList("message", << >>)
          /\ UNCHANGED << lmShelf, lmView, lmGame, lmWall, lmPeer, lmEmpty, lmStarted >>
       \/ /\ UnderCursor = "settings" /\ lmShelf' \in LmShelves
          /\ SelectorLap(lmShelf', lmView.style, lmPeer) /\ UNCHANGED lmStarted
       \/ /\ UnderCursor = "other" /\ SelectorLap(lmShelf, lmView.style, lmPeer) /\ UNCHANGED << lmShelf, lmStarted >>
Exit ==
    /\ BackFrom("system") /\ ShowScreen("gone", ListOf(<< >>, {}))
    /\ UNCHANGED << lmShelf, lmView, lmGame, lmWall, lmPeer, lmEmpty, lmStarted >>

(* Only games of the kind that both machines have are offered.                *)
Linkable(kind) ==
    {g \in lmShelf :
        /\ IF kind = "link" THEN SystemLink(g) ELSE TwoScreens(g) /\ LmLibrary[g].mode = kind
        /\ LmLibrary[g].peer}
PickKind ==
    /\ Chosen("kinds")
    /\ ShowList("linked", Sorted(Linkable(UnderCursor), "label"))
    /\ UNCHANGED << lmShelf, lmView, lmGame, lmWall, lmPeer, lmEmpty, lmStarted >>
PickLinked ==
    /\ Chosen("linked") /\ Started(UnderCursor, "linked_network", 1, FALSE) /\ UNCHANGED << lmShelf, lmPeer >>
LeaveLinked ==
    /\ BackFrom("linked") /\ NetworkLap /\ UNCHANGED lmShelf
LeaveNotice ==
    /\ BackFrom("notice") /\ NetworkScreen(lmPeer)
    /\ UNCHANGED << lmShelf, lmView, lmGame, lmWall, lmPeer, lmEmpty, lmStarted >>
WaitOn ==
    /\ Chosen("finding") \/ Chosen("waiting")
    /\ NetworkLap /\ UNCHANGED lmShelf
LeaveNetwork ==
    /\ BackFrom("finding") \/ BackFrom("waiting") \/ BackFrom("kinds") \/ BackFrom("columns")
    /\ SelectorLap(lmShelf, lmView.style, lmPeer) /\ UNCHANGED << lmShelf, lmStarted >>

(* A wall: its columns, and a game for each; Back picks the one before again.  *)
PickColumns ==
    /\ Chosen("columns") /\ BrowseColumn(FreshView(0), << >>, lmList.at + 2)
    /\ UNCHANGED << lmShelf, lmPeer, lmStarted >>
PickColumn ==
    /\ lmScreen = "column" /\ Pressed /\ UNCHANGED << lmShelf, lmPeer >>
    /\ LET picked == Append(lmWall.picked, UnderCursor)
       IN  IF ~LmLibrary[UnderCursor].works
           THEN /\ ShowList("text", << >>) /\ lmView' = [lmView EXCEPT !.remembered = lmList.at]
                /\ UNCHANGED << lmGame, lmWall, lmEmpty, lmStarted >>
           ELSE IF Len(picked) < lmWall.wanted
           THEN BrowseColumn(FreshView(0), picked, lmWall.wanted) /\ UNCHANGED lmStarted
           ELSE /\ lmStarted' = [NoStart EXCEPT !.game = picked[1], !.how = "single", !.wall = picked]
                /\ ShowScreen("gone", ListOf(<< >>, {})) /\ lmView' = FreshView(0)
                /\ lmWall' = [wanted |-> 0, picked |-> << >>] /\ lmEmpty' = FALSE /\ UNCHANGED lmGame
LeaveColumn ==
    /\ BackFrom("column") /\ UNCHANGED << lmShelf, lmStarted >>
    /\ IF lmWall.picked = << >> THEN SelectorLap(lmShelf, lmView.style, lmPeer)
       ELSE BrowseColumn(FreshView(0), Front(lmWall.picked), lmWall.wanted) /\ UNCHANGED lmPeer

(* show_rom_selector begins, also once the game it chose is over.              *)
BeginSelector ==
    /\ lmScreen = "start" \/ lmStarted # NoStart
    /\ lmScreen \in {"start", "gone"}
    /\ SelectorLap(lmShelf, 0, lmPeer) /\ lmStarted' = NoStart
    /\ lmLap' = [asked |-> FALSE, late |-> 0] /\ UNCHANGED lmShelf

LmNext ==
    \/ BeginSelector \/ Lobby \/ Proceed \/ Interrupted \/ TimesOut
    \/ MoveList \/ MoveGrid \/ TurnPage \/ AskView \/ Information
    \/ PickCard \/ PickWay \/ PickPair \/ LeaveStart \/ PickView \/ PickStyle \/ LeaveView \/ LeaveText
    \/ LeaveMessage \/ LeaveGrid \/ OpenPage \/ Exit
    \/ PickKind \/ PickLinked \/ LeaveLinked \/ LeaveNotice \/ WaitOn \/ LeaveNetwork
    \/ PickColumns \/ PickColumn \/ LeaveColumn
LmSpec == LmInit /\ [][LmNext]_lmvars

-----------------------------------------------------------------------------
(* A game is started in a way it has: the style that a player chose for one     *)
(* game stays on as the view's, and the next game comes from a grid, a page or  *)
(* a library of it; and the two machines start only a game for two players,    *)
(* whoever of the two chose it.                                                *)
WayFits ==
    LET g == lmStarted.game IN
    /\ lmStarted.how = "two" => Shared(g)
    /\ lmStarted.how = "twin" => TwoScreens(g)
    /\ lmStarted.how = "cabinets" => SystemLink(g)
    /\ lmStarted.how = "linked_network" => TwoScreens(g) \/ SystemLink(g)

(* "A style change never leaves an empty page behind": the grid is empty only  *)
(* where the library has no game of the style.                                 *)
NoEmptyPage == lmEmpty => \A g \in lmShelf : ~MatchesPlayStyle(g, lmView.style)

(* A menu that depends on the other machine lets at most one press pass after  *)
(* that machine came, left or launched.                                        *)
MenuKnowsThePeer == lmLap.late <= 1
=============================================================================
