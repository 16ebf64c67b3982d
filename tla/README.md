# WhittyArcade: a TLA+ verification

WhittyArcade is a native front end and a set of emulated arcade boards: Galaxian
and Galaga hardware, Namco System 1, 22 and 246, Sega System 16, Model 1 and
Model 2, Ghosts'n Goblins, and Xbox 360 titles. Two copies of it, on one computer
or on two, can play one game, and several windows of it can stand side by side as
a wall. This directory models the parts in which threads, processes, networks,
files, interrupts and fixed-size memories meet, checks them with TLC on small
instances, and proves with TLAPS, for every value of their parameters, the safety of
the lockstep link and that it implements an abstract lockstep, the safety of the
video worker and that it implements an abstract window, and the safety of the lobby, of
the communication board, of the emulated boards and of everything around them: every
safety property that a run below finds to hold is proved, and what stays with TLC alone
is liveness.

Paths below are relative to the repository's code (`src/` and `include/`).

## 1. The system

| Component | State it keeps | Operations | Interacts with |
|---|---|---|---|
| Netplay input link, `arcade_input.cpp` | frame number, two rings of 64 inputs, sequence numbers, age of the last packet, stalled / lost flags | poll, exchange, send, drain, wait | UDP; host loop; pause menu through two flags |
| Host loop, `main.cpp` | session, launch mode, focus and sound of its column | frame loop, pause, close, switch of game, return to the menu | everything |
| Multiplayer lobby, `multiplayer_lobby.cpp`, `arcade_frontend.cpp` | nonce, role, the peer's games, outgoing and incoming launch | a thread that announces and listens; menus that publish and follow a launch | UDP; launcher |
| Video worker, `arcade_video_worker.cpp` | task queue, two mailboxes, alive / stop / action flags, harvested requests | enqueue, present, run_modal, reset_session, worker loop | host thread, board thread, renderer |
| Renderer and presenter, `arcade_renderer.cpp`, `arcade_presenter.cpp` | active output, per-frame and per-game data, swapchain, fence, semaphores, scene target | submit, render, present, change of output, recovery | video worker; GPU; compositor |
| Menus over a game, `arcade_renderer.cpp`, `arcade_session_internal.h` | definition of the operator menu, its row and values | keys; actions to the board; new definitions back | video worker, session |
| Cabinet input, `arcade_input.cpp`, `input_mapping.cpp`, `input_mapper.cpp` | watched codes, latches, pulses; the map, its file, the editor's copy | event watch, update, reload, edit, save | SDL's event thread, menus, file |
| Network video, `network_video_link.cpp` | mailboxes of sender and receiver, last whole picture | submit, send, receive, take | TCP; renderers of two computers |
| Wall of windows, `wall_layout.h`, `main.cpp` | a process and a window a column, the file that says who is played | open, place, focus, mute, close | window system; file |
| Model 2 board, `sega/model2/` | two FIFOs, cycle debt; display list; UART and MIDI; EEPROM and backup RAM; communication RAM | slices, commands, interrupts, saves | i960, TGP, 68000 and SCSP programs; UDP; files |
| Model 2 session, `model2_session.cpp` | queue of two input frames, requests, running flag | run_frame, worker loop, stop | video worker, machine |
| System 22 board, `namco/system22/` | interrupt levels, coins, DSP switches, polygon RAM, C139 registers, C352 ring | registers, vertical blank, list walk, link exchange, mixing | 68020, C74 and DSP programs; audio thread; UDP |
| TMS320C25, `system22_tms320c25.cpp` | program counter, stack of eight, repeat, timer, accumulator | instructions, interrupts, slices | DSP shell |
| Model 1 board, `sega/model1/` | interrupt controller, display banks, UART ring, MPEG latches, EEPROM, timers, settings file | run_frame, queue_video_frame, audio thread, I/O board | V60, 68000 and Z80 programs; video thread; files |
| Galaga session, `namco/namco_session.cpp` | phases of a linked start | run_frame | the board's credit program |
| Xbox 360 titles, `xbox360_session.cpp`, `xbox360/bridge/`, `xbox360_native_*.cpp` | audio mailbox, drivers and credits, pause, achievements; the child process | submit, read, discard, release; start, poll, stop | title's threads; audio device; process |
| System 246, `system246/` | boot stage, coins, pauses, captured pictures | start, pump, capture, stop | PCSX2's threads |
| Saved data, `persistent_data.cpp`, `high_scores.cpp` | files of a game, backups; score tables | backup, restore, import, reset, power on and off | files |
| Artwork, `igdb_cover_library.cpp`, `bezel_library.cpp`, `banner_library.cpp`, `igdb_artwork.cpp` | queues, caches, recorded misses, failures | request, fetch, record | HTTP; files |
| ROM loaders, `*_rom.cpp` | regions of memory | load, audit, start | archives |
| Launcher menus, `arcade_frontend.cpp`, `launcher_menu.cpp` | view, page and style of the grid, screen, cursor, the connection as drawn | lists and grid, each asking `interrupt` before it waits; lap of the selector | lobby's thread; library; host loop |
| Catalog, library, settings; the small boards; audio output | | sequential | |

What is hard, and what makes it correct:

* **Netplay**: the two boards must run every frame with the same pair of inputs
  whatever the network loses, copies or reorders and whoever starts first; they
  must not wait for each other for ever; a partner that is alive must not be
  declared lost; a board that leaves the lockstep must not go on as if it had
  not; when one application closes so must the other.
* **Lobby**: the two sides decide the roles separately and must decide
  oppositely; a launch is announced over and over, must get through, and must be
  followed once; its count and its game are read apart while being written.
* **Video worker**: three threads share a mailbox that drops frames, whose
  resources must not be dropped with them; a session's requests must not reach
  the next one; nothing may wait for a worker whose window was closed.
* **Links between boards** (Model 2 communication board, C139): each cabinet is
  switched, reset and restarted on its own, and what a filter or a flag remembers
  of the partner may be of an earlier run.
* **Threads of a session**: queues and rings have a limit, and at the limit a
  press, a byte, a packet of sound or its credit must not vanish or come twice.
* **Interrupt controllers, DSP, schedulers**: one source is acknowledged while
  another is pending; a slice ends between the words of a repeated instruction;
  what a slice owes is carried to the next.
* **Lists and streams of a game's making**: lengths come from the game's memory;
  polygons share edges with polygons of another list or none.
* **GPU**: buffers and images are in use after the call that used them returned.
* **Files**: any step may fail and any process may be killed; what is on disk
  must be what was meant, or what was there before.
* **Menus**: what is shown comes from a copy that travels behind the original;
  a choice made for one game stays behind as the view of the next.

The hazards, each at its line, with the properties that would catch it, are the
`hazards` of `PROJECT.json`. So are the components, with what of each is left out.

## 2. The modules

`map` in `PROJECT.json` names the lines each definition stands for. A next-state relation, a tuple of
variables and a helper inside the lines of an action that is listed have no entry of
their own. Definitions whose name ends in "Slip", or whose comment starts with it, are mistakes the code
does not make: they replace the definition that follows them to show that a
property notices.

| Module | What it is | Its properties |
|---|---|---|
| `Lockstep` | abstract: two input logs, each `Delay` ahead of its board, and boards that run a frame only with both inputs | specification refined by `Netplay` |
| `Netplay` | the link and the host loop that drives it | `TypeOK OwnFrameInput Agreement Lead NoSilentDrift LostIsFinal NoFalseLoss CloseTogether ImplementsLiveLockstep` |
| `NetplayProofs`, `LobbyProofs`, `VideoWorkerProofs`, `CommProofs` | inductive invariants of the modules they are named for, and the proofs | |
| `SegaProofs`, `System22Proofs`, `BoardProofs` | the same for the boards: Model 1 and Model 2, System 22 and its DSP, then the rest of them and `MCBoards` as a whole | |
| `AppProofs` | the same for the parts around the boards and `MCApp` as a whole | |
| `MultiplayerLobby` | the lobby thread and the launcher, through restarts | `OppositeRoles NeverAnOlderGame FollowedOnce LaunchArrives` |
| `LatestFrame` | abstract: pictures left for a window, of which the newest is shown and none after a newer one, game by game | specification refined by `VideoWorker` |
| `VideoWorker` | the worker thread, the host thread and the board's thread | `DrawnWithItsResources NoFrameStranded CleanStart ShowsLatestFrame TeardownEnds` |
| `CommBoard` | two Model 2 communication boards and the network between them | `RingAlternates OlderDownTheRing NothingFromBefore LinkForms` |
| `Model2Session` | host thread, two-frame queue, worker | `NoPressLost TestLetGo` |
| `Model2Board` | scheduler of i960 and TGP and their FIFOs | `NotOverclocked FifosBounded` |
| `Model2Geometry` | decoder of the display list | `StripsJoined NearerFirst` |
| `Model2Nvram` | EEPROM, link role, backup RAM, saves | `NothingUnmarked RoleSurvivesTheGame` |
| `Model2Sound` | sound board and its serial port, over two threads | `KeyedNotesSound LineAsPending WireKeepsTime` |
| `System22Board` | interrupts, coins, the frame of the processors | `AssertedIsHighest NoFreeCredit` |
| `System22Geometry` | DSP switches and the walk of the display list | `InRam LitByOwnObject` |
| `System22Sound` | C352 registers between two threads | `ChipFollows` |
| `C139Link` | two cabinets, registers, transport, network | `WholeFrames FrameAnnounced NotDeafForLong` |
| `Tms320C25` | the DSP's control flow and its arithmetic | `StackServes WordAfterWord Divides SumsAreExact` |
| `Model1Board`, `Model1Sound` | interrupts; display lists to the graphics worker; audio thread and MPEG board | `PendingHoldsTheLine SameBanks EveryByteOnce WholeAddresses` |
| `Model1IoBoard` | EEPROM chip and counter-timer; settings file | `OnlyAsClocked NoneOverdue UnmarkedIsSaved` |
| `GalagaLink` | linked start against the board's program | `StartedInTime` |
| `Xbox360Session` | title in the process; title as a child process | `CreditsKept NoPacketOfTheDead SoundInOrder NoChildLeft` |
| `Pcsx2Session` | host, CPU and GS threads of System 246 | `CoinsKept` |
| `Presenter`, `Renderer` | Vulkan calls and the GPU; what reaches the window | `WritesAwaited SamplesLive OwnSemaphore ShadowOfThisFrame ShownDespiteLoss` |
| `OperatorMenu` | menu and switches on two threads | `MenuShowsTheSwitches` |
| `VideoStream` | sender and receiver of pictures | `TrueToTheFrame` |
| `CabinetInput`, `InputMapping` | switches from event to board; map, file, editor | `TapReachesTheBoard NoMenuEdge EditorShowsTheFile OnlyPlayableKeys` |
| `ArcadeWall` | processes, windows, focus file, sound; the layout | `ColumnsTile HeardIsPlayed` |
| `Launcher` | the launcher's screens, with the lobby's thread beside them | `WayFits NoEmptyPage MenuKnowsThePeer` |
| `SavedData`, `SavedScores` | save files and backups; score tables | `Recoverable EepromKept BestKept` |
| `Artwork` | the fetching threads and their caches | `CachedIsWhole MissesAreAnswers` |
| `RomLoading` | tables of the loaders, audit, start | `NothingOverwritten AuditTellsTheTruth` |
| `MCNetplay`, `MCLobby` | instances | |
| `MCBoards`, `MCApp` | one part at a time out of many, with the properties above joined by subject | |

### The lockstep link (`Netplay`)

Variables carry the names of the members of `arcade_input` without their prefix
(`frame` is `m_netplay_frame`, `peerIn` is `m_netplay_peer`, ...). The host
thread of a cabinet is a program counter `pc`: `"host"` is the top of the loop
in `main.cpp`, `"poll"` the drain in `poll_link`, `"frame"` the way from the
pause check to `update()`, `"exchange"` the drain in `exchange_network_input` and
`"wait"` the loop of `wait_for_peer_frame`. Between those points the other
cabinet, the network and the video thread may act; each action is the code from
one point to the next. The pause menu is two flags written one after the other
(`harvest_frontend`), and the link looks at the one while the loop looks at the
other. `pub`, `played` and `strayed` are histories: what was published, what was
run and with which inputs, and whether a frame was run outside the lockstep.

Abstracted: the contents of `input_state` (a small set `Inputs`), time, session
numbers, divergence hashes, and the branches that are not netplay. `Inputs` a
player may hold at a frame are `Controls[f]`. The wait gives up by a
choice (`GiveUp`); with `Patient` only once nothing that could still end
the wait is possible, which is what one second means to cabinets that are alive.

### Lobby, video worker, communication board

`loop` is where the lobby thread is in its loop (drain; count read; game read and
sent), `pc` where the launcher is. `StoreGame` and `CountLaunch` are the two
halves of `launch_game`, `CopyCount` and `SendHello` the two halves of the hello,
so that they interleave. A start draws a new nonce and takes the port unless
the other application on that computer has it. The network keeps one
announcement for each side and a newer one replaces it; losing one is therefore
covered, reordering two within 200 ms is not.

In `VideoWorker`, `worker` and `host` are program counters. The worker's steps
are: take a task, run it (a present task in two: take the frame, draw it), poll
events, harvest the menus, or leave. The host's are the checks and waits of the
session loop, `run_modal`, `reset_session` (queue the fence, wait, clear) and
`shutdown`. `Submit` is the board's `present_model2_frame`, on its thread.

In `CommBoard` the RAM is a ring of slots and a slot holds the state that some
game wrote. `Outgoing` is what is sent, `Stored` where a received frame goes: one
slot further. `TickPeer` is a vertical blank of a linked cabinet, `Search` and
`Circulate` one of a cabinet alone, `Unreachable` one with the cable cut. The ZFG
phase bit and everything outside the slots are left out.

### Boards

A game's program is external: it may write any register with any value of a small
set whenever the emulated processor would run. Every register handler, with all
it calls, is one action; where two threads share state, an action is the code
between two points at which the other can see it. Widths are parameters: the
accumulator has `HalfBits` for 16, so that every operand is tried; the EEPROM chip
two address bits and one of data; `Model2Geometry` a mantissa of a few values.

* `Model2Board`, `Model1Sound` and `Model2Sound` count cycles. `mbLead`, `muBusy`
  and their like are histories that say how far a part is from its own clock. A store at a full
  FIFO makes the i960 yield (`Yield`): it reports its whole budget and no more, so
  what the instruction ran over goes into the history `mbFree` and is owed by nobody.
* `System22Sound`: the C352 changes its flags itself while it plays (`AfterPlay`): busy and key-off
  at an end, the loop mark, and the direction of a loop that turns, which is in the
  byte the program writes.
* `Model2Session` has the switches that a full queue folds (`Folded`) and the others (`Unfolded`).
* The saves (`Model1IoBoard`, `Model2Nvram`) tell four outcomes apart: written, not written, the
  old file removed, and a file torn by a stream that failed when it was closed, which the
  code takes for written. A load takes a torn file for none.
* `System22Geometry` walks the list as `simulate_slave_dsp` does: cursor, length,
  target, the limit on records, and the words that each handler reads.
* `Model2Geometry` keeps of a vertex only who it came from, which is what a strip
  is about, and of a depth its sort key.
* `C139Link` has both cabinets: registers, FIFO, transport and the game's
  polling, over packets that are lost, late, or of another pair. The interrupt a
  cause raises is in `System22Board`.
* `Tms320C25` keeps beside the stack the history `dspFrames`: what the program
  pushed and why, against which every return is compared.
* The games played by `GalagaLink` and `C139Link` are the least that the board's
  own program must do for the code to make sense; they are marked external.

### Application

* `Presenter`: a call is a sequence of steps, each of which the driver may fail;
  a buffer holds the number and the kind of the call that wrote it, an image its view, and
  `vkFlight` what the GPU was given to read when the work was submitted.
* `Renderer`: a frame is drawn by the presenter, or by OpenGL and handed over; data
  carry the number of the frame or game they belong to, and the window's picture who drew
  it there. The Vulkan device is found lost between two frames or inside one (`FoundLost`): `rnDead` is
  of the presenter there is, `rnLost` of the process, as `g_device_lost` is, and
  stays. Of the driver it is assumed that a device found lost says so again at the calls of the frames
  that follow, and gives the two waits of one frame the same answer.
* `SavedScores` has writes that fail and are seen to, that fail when the stream is closed,
  and renames that remove the old file; `hsServed` is a history that none but the
  first came to pass since the last power-on.
* `SavedData` numbers the contents of files in the order they come about, so that
  "this was overwritten and is nowhere else" can be said.
* `RomLoading` has the tables of the loaders themselves: each row of `Rows` is
  what one loop puts where, and the fault is one file damaged or missing.
* `ArcadeWall` has the render thread and the host loop of each process and the file
  as they read it: truncated, written, unlinked while open. A game picker or a controls editor
  is a loop of its own on the render thread (`OpenModal`), which takes the events of the
  focus and does nothing with them (`SwallowEvent`).
* `Launcher` has one screen at a time, `lmScreen`, with its rows and cursor in `lmList`.
  A screen that depends on the other machine takes two steps a lap: `Proceed`, where
  `interrupt()` says no, and an event or the time-out after it; `Lobby` is the other
  thread and comes between them. `Interrupted` is what the caller then does.
  The folder manager may leave another library; the mapping, EEPROM and score pages
  come back as they were entered. Games differ in what their manifest says:
  the way they are played, board, publisher, whether the set works, whether the other
  machine has it.

## 3. The runs

| Run | Instance | Shows |
|---|---|---|
| `NetplayLossless` | 3 frames, delay 1, ring 5, two inputs, any controls after frame 0, one duplicate; fair | the link implements the live abstract lockstep: right inputs, no false loss, both boards reach the bound |
| `NetplayFaults` | 8 frames, so that the ring of 5 goes round; a duplicate, an overtaken datagram (which the filter turns into a lost one), a wait that may give up at any time | right inputs on every frame, the lead, no silent drift, a lost partner stays lost |
| `NetplayClose` | 3 frames, a close, a lost datagram, a pause menu; fair | both applications close |
| `lobby` | a start of either application and a restart of one or a silence; two launches; one or two computers; fair | roles, launches followed once, launches arrive |
| `video_worker` | two resources, two frames, two sessions, a modal; fair | the worker implements the live abstract window; resources, mailbox, session fence, teardown |
| `comm` | three slots sent and four in RAM; two linked cabinets or two apart; two states, a reset, two faults; fair | the ring stays a ring; boards link |
| `boards` | one of 23 parts, chosen in the initial state | eleven properties, below |
| `app` | one of 12 parts, chosen in the initial state | seven properties, below |

In `boards` and `app` a variable `part` says which module runs; the other modules
keep an initial state. The parts share no variable, so the run is the union of
their state spaces, and a property joins what is asked of parts with the
same kind of hazard:

| Property | Of | Asks |
|---|---|---|
| `NothingLostBetweenThreads` | Model 2 session, Xbox 360 session, System 246, Model 1 sound, System 22 board | a press of a folded switch, one of another switch unless its frame was replaced, the test switch let go, an audio credit, a coin, a byte handed over is not lost and not invented; nothing of a dead driver is played |
| `InOrder` | Xbox 360 session, Model 1 video, DSP arithmetic | sound in the order it was given; a frame drawn from the banks it was queued with; sums as a wide adder has them |
| `InterruptsServed` | System 22 board, Model 1 interrupts and timers, Model 2 sound | the line is what the pending sources ask for; no deadline passes unseen |
| `LinkKeepsFrames` | C139 | frames whole, announced, and a partner that restarts heard again |
| `ChangesMarked` | Model 1 settings, Model 2 EEPROM | what changed is marked for saving or saved, but for a save that failed without being seen to |
| `SettingsOnlyAsMeant` | Model 1 EEPROM chip, Model 2 link role | a cell changes by a whole, enabled command; the role survives the game's own record |
| `GeometryHolds` | System 22 and Model 2 display lists, TMS320C25 | no read past the RAM; an object's own lights; strips joined by the edge left last; returns and repeated words of the DSP |
| `ArithmeticHolds` | TMS320C25, Model 2 geometry | division; a nearer depth filed before a farther one |
| `CommandsReachTheChips` | C352, MPEG board, SCSP | registers follow the writes, but for the bits the chip changes; no torn address, none past the ROM; what was keyed sounds |
| `BoardsKeepPace` | Model 2 scheduler and UART | no processor ahead of its clock but by what it owes or a yield gave it, bounded FIFOs, bit rate |
| `HappensInTime` | Galaga link, Xbox 360 child process | a linked game starts before the frames are over that its coins, its first press and its retry can take; the child ends when its game does (liveness) |
| `DrawnFromWhatIsLive` | presenter, network video | nothing freed while it is read, and nothing rewritten but by streamed sheets and uploaded images; own semaphore; right reference picture |
| `MenusTellTheTruth` | operator menu, mapping editor, launcher | what is shown is what holds; a game starts in a way it has; no page is empty; a menu passes one press at most after the other machine came or left |
| `RomsHold` | ROM loaders | nothing overwritten; the audit agrees with the start |
| `ColumnsTile`, `HeardIsPlayed` | wall | layout; sound follows the keyboard, but for a column whose modal took the last event |
| `FilesKept` | scores, save files, pictures | best scores stay as long as the disc reads, closes and renames; a reset can be undone; a cached file is whole |
| `FramesAndTaps` | renderer, cabinet input | shadows of this frame or the one before; after a loss the next frame but one at most is shown; a tap arrives |

Each conjunct has a mutant of its own in `PROJECT.json`.

### Bounds

*Netplay.* The delay is 1 (3 in the code) and the ring 5 (64), the smallest with the
code's own relation between them, `2 * Delay + 2 < Ring`; the theorems hold for
all values with that relation. Eight frames reuse each slot of the ring. One
fault of each kind is what one property needs to fail under the slips listed as
`mutants`; two players and two cabinets are what the program has.
`MaxPolls = 1` lets a cabinet announce itself once before its first frame; the
announcements after it differ in nothing the link reads but their number. One
more is allowed after a stall, where a cabinet that went on would be heard.

*Lobby.* One application may start twice, with nonces on either side of the other's
(`Restarts`), so that each of two owners of a port comes to be player 1 and the one that
restarts may be either. Two launches tell a new number from an old one. The restart and
the silence of 1.5 s share one allowance (`MaxTrouble`); the theorems hold for any.

*Communication board.* Two written states are needed to tell older from newer,
and a slot more than the cabinets for a state to come back and go on.

*Queues and rings* keep the code's algorithm with a depth of one to three, so that
they are full, and go round, within a run: the Model 2 input queue 2 as in the
code, the C352 ring 2, the Model 1 ring 3, the audio mailbox 2, the FIFOs 1 and 2.
What yields at a full FIFO give away adds up to 3 cycles at most (`MbMaxFree`), which is more than one
yield gives. The MPEG board's ROM ends at the larger of the two addresses used, so that a segment
lies in it, across its end or past it. One save of Model 2 may go wrong (`MnFailures`), in
any of its ways for either file; one thing upsets a wall beside the windows that open (`WlUpsets`):
a move of the focus, a failed placement, a new tiling or a modal.

*Counts of frames, presses, packets, commands, sessions* are two to four: one for a
state to be left behind, one for it to be met again, one for what comes after.
Three is where the age of a buffer, of a picture or of a score can be confused.
The divider tries every operand of its width; the loaders run for every game of
their tables and every file of its set; the layout for a display of 100 pixels,
where the rest of the division is not zero, and for all displays in the proof.

*Launcher.* Four games: one for each way of playing, of two boards and two publishers
and of none, one of them not working; libraries of three of them, of two, and of one
alone, so that a style, a page and a launch meet a library without the game, and
a wall is begun on a style that no game has.
Two columns and one row, and three lines of a list, make both scroll.

*Linked Galaga.* The bound of `StartedInTime` is not a parameter but computed from the
other constants (`GlPatience`): with two coins to a credit and turns of two frames it is ten, and
no smaller one holds in the run. With the code's numbers (240, 300, 30, 120 and
8 frames) it is 300 frames for one coin to a credit, 360 for two and 90 more for each
further coin.

Deadlock checking is on in the runs of the link, which can only end at the
frame bound or with a closed session. It is off in the others: an
application may be closed, a run may have used up its counts, and a board
without a socket or an idle vertical blank changes nothing.

### Fairness

Only threads and the network are fair, never a player, a menu or a game. The host
thread and the worker thread loop without waiting for one another except where the
model says so, hence weak fairness on each. A datagram on its way to
a socket that is drained again and again is read in the end (strong fairness on
`Recv`, since the socket is drained only at some points of the loop). The lobby
thread loops every 20 ms. A board that is on has its vertical blanks. The host
polls a child it is stopping, goes on to a kill by itself, and a killed
child ends (`NativeFairness`); a child may ignore everything but the kill.

## What the code does otherwise

Four runs expect a violation; each is a finding in `PROJECT.json` with the
comment or document that promises more:

| Run | Finding |
|---|---|
| `NetplayReorder` | one overtaken datagram is dropped before it is filed, and ends the session |
| `saved_eeprom` | a System 22 game that fails to start saves a blank EEPROM over the file |
| `menu_edge` | a switch pressed under the pause menu closes for the board when the menu ends |
| `cover_miss` | a second search that never reached the server is recorded as "no cover" |

Other behaviour was met where a property had to be stated around it:

* While waiting for its partner a cabinet announces a neutral input for the frame
  at the delay, and the first exchange publishes that frame again with the real
  one. Which of the two each board runs depends on the network, so `Agreement`
  excepts this frame and those that share its slot (`Single`).
* The renderer suppresses the controls before it pauses the host loop. A frame
  begun in between runs outside the lockstep; `NoSilentDrift` is checked without
  menus.
* A restarted player 2 has no memory of the launch it followed and is taken into
  it again while player 1 still announces it: `FollowedOnce` is of each run of the
  follower. A restarted player 1 counts from 1 again, and player 2 ignores a first
  launch that has the number it received last: `LaunchArrives` asks for the number.
* A modal is queued after a check that the window is alive and then waits without
  limit; a window closed in between leaves the host waiting. `TeardownEnds`
  is stated of `reset_session`, which has a limit, and not of a modal.
* `stop_cpu_worker` of the Model 2 session stores its flag without the mutex of
  the condition it then notifies: a worker between its test and its wait
  sleeps on. The steps are in `Model2Session`; no property claims that it ends.
* The Model 2 communication board reports that nobody answered in a branch that a
  linked cabinet never takes.
* The I/O board of Model 1 writes its EEPROM bit by bit, and these writes do not
  mark the settings changed; `UnmarkedIsSaved` is of cabinets that run without
  the board's own program.
* A grid without games returns at once, as if it had been left, so the text "No
  games match this view. TAB changes the view" is never on the screen. A play style
  that no installed game has leads to the system menu, and back to it after each
  page; only a start from the network pages or the wall, another library or
  the end of the program gets out of it. `NoEmptyPage` is therefore of styles that some
  game has.
* "2 Players, a screen each" and "Linked Cabinets", chosen for one game, are stored in
  the style of the grid before the next question; Back from that leaves the grid
  narrowed to them.
* "The other computer" is offered to either player for any game of two, whether or
  not the other machine has it; `Network Play` offers only shared games, to player 1.
* `ensure_scene_target` of the presenter makes the scene image anew and then its depth image;
  if the second fails it returns before it marks the descriptors stale
  (`arcade_presenter.cpp:2799-2813`), and a later repeat of the frame samples the view that was
  destroyed. TLC finds it with `ImageFailures = {"board", "system22"}` and four calls.
  `SamplesLive` is therefore of runs in which only the call that shows a picture may fail to
  make its target (`TargetsWhole`), where a failure gives the native path up.
* In the System 22 sound ring a full ring drops a write. `ChipFollows` is of the
  writes that were accepted. The chip itself turns the loop direction (`system22_audio.cpp:64-69`,
  `FLAG_LOOP_DIRECTION`) in the byte the program wrote, so it need not hold that bit as written.
* A third frame of input replaces the second in the queue of the Model 2 session
  (`model2_session.cpp:119-132`). The coins, start, service, test, the shift and the view of the frame that
  goes are kept; the second start and the two sets of buttons, gun triggers among them
  (`model2_bus.cpp:1475-1509`), are not: a trigger pulled and let go within that frame is lost.
  `NoPressLost` asks for every press but those (`GivenUp`).
* The saves of Model 1 (`model1_machine.cpp:104-110`), of Model 2 (`model2_bus.cpp:148-165`) and of the scores
  (`high_scores.cpp:349-368`) ask the stream whether all went well before it is closed. What fails
  when the last bytes are flushed is not known: part of a file is put in the place of the good
  one, and for Model 1 and 2 the mark is cleared. If the rename fails, the old file is
  removed and the second try may fail as well. `UnmarkedIsSaved` and `NothingUnmarked` allow the
  torn file of a save that was taken for a good one, and `BestKept` is of power-ons in which this did
  not happen.
* A score file that is there and cannot be opened is taken for none and is
  overwritten (`high_scores.cpp:546-566`), though one that cannot be decoded is kept; `BestKept` excepts it too.
* The comment at `model2_machine.cpp:462-465` says that what an instruction runs over its slice is taken from
  the next. That is so at the end of a slice; a store at a full FIFO makes the core yield with
  nothing left (`third_party/i960/i960.cpp:2242-2246`), `standalone_execute` then returns the budget, and what
  the store ran over is forgotten. `NotOverclocked` counts it in `mbFree`.
* `upload_scene_sheet` writes the mapped buffer of a sheet (`arcade_presenter.cpp:3779`) without waiting for the
  frame in flight, whose commands may still copy from it (`3115-3123`); `upload_image` (`1788-1806`)
  waits for the upload before it and not for the frame, which may read the same buffer
  (`3131-3136`). `WritesAwaited` excepts these two (`Unawaited`).
* A device lost inside a frame (`arcade_presenter.cpp:3061`, `3330-3341`, `3373`) is answered with "presented": that
  frame is on no window. The same is true of a swapchain without an image, of a fence that
  is late and of a repeat on a lost device. `g_device_lost` is never cleared (`184`): after a loss
  any presenter that is chosen again is dropped when a picture next comes to it through OpenGL, a
  software one too. `ShownDespiteLoss` says what is left: a frame begun on a device found lost is
  shown by OpenGL, or finds the swapchain without an image, and then the next one is.
* A game picker (`main.cpp:1127-1155`) and a controls editor (`1093-1108`) poll events themselves
  (`launcher_menu.cpp:611-615`) and drop those of the focus. A column that loses the keyboard meanwhile is
  heard, and one that gets it is silent, until the focus moves again. `HeardIsPlayed` excepts a
  column from such an event to the next one it handles (`missed`).
* Delete in the controls editor leaves an action without a binding, and nothing stops a player from
  clearing them all. `OnlyPlayableKeys` says what a binding may be, not that there is one.

These have no run of their own: the properties they bear on are checked, and proved, with the
exception stated.

## 4. The proofs

`NetplayProofs` proves of `Netplay`, for every delay, ring, age limit, control
script and number of faults allowed by `NetplayAssumption`:

* `TypesHold`: the types;
* `OwnFrameInputHolds`: a frame that is run is run with the two inputs published for it;
* `AgreementHolds`: two boards that ran the same frame merged the same pair;
* `LeadHolds`: neither board leads by more than the delay and a frame (two at the shared slot);
* `LostIsFinalHolds`: nothing is run or published once the partner is lost;
* `NoSilentDriftHolds`: a board that ran a frame outside the lockstep has lost its
  partner. This one assumes that nobody opens the pause menu (`MaxMenus = 0`); with a
  menu it is false of the code (What the code does otherwise);
* `LockstepImplemented`: a session implements the safety of `Lockstep`;
* `NoFalseLossHolds`: nobody is declared lost while both are alive, on a network that
  loses and reorders nothing.

`OwnFrameInput` is not inductive. What has to be known is that a slot of the
ring marked known holds the partner's input of a frame *yet to be run*, and
that needs two facts about datagrams on their way: each carries a published
input, and later sequence numbers carry later frames. The filter by
sequence number then keeps an old datagram from reviving a slot a lap later. But
the bound on what is in flight needs the lead, and the lead needs that a cabinet
runs no frame it had not heard of. `IInv` is the
conjunction of these parts, each with its name (`Phase`, `PubWindow`, `PubOnce`,
`OwnRing`, `Wire`, `PeerTop`, `PeerRing`, `Behind`). `NextPhase` shows that the first part
is kept by every action. For the others the actions fall into
four kinds (`StepKinds`): quiet ones, publishing, filing and playing, with a
lemma for each. `Inductive` puts them together and the
theorems follow. The proof of `AgreementHolds` uses that each input is
published once (`PubOnce`) on both sides, and that of `NoSilentDriftHolds` that a cabinet
which is in an exchange or waits has been connected (`Phase`).

`LockstepImplemented` needs a hypothesis of its own, `Rested`: the players are at rest at
the frame whose neutral input was announced before the game began, and a session
is no longer than the ring. Beyond a lap of the ring an announcement of frame `Delay` that the
network repeats can mark a slot known with an input of a lap ago, which the abstract link
does not allow; the properties above hold there too. The mapping takes
the published inputs as the logs and the frames that were run as the boards, so that
what is left to show is that a frame is run only with both inputs there and
equal to what was published: `IInv` says it. That the boards get on is the liveness
half and stays with TLC (`ImplementsLiveLockstep`).

`NoFalseLossHolds` is of links that are `Lossless` (nothing lost or overtaken, no menu) and
of cabinets that are `Patient`, and it needs that a wait is longer than what can lie
between two packets (`Slack`): beyond a lap of the ring, `2 * Delay + 5 < AgeLimit`. The
code has a delay of 3 and an age limit of 180. The invariant is `LiveInv`: while both are open (`InTouch`),
everything the partner has sent and one has not accepted is on its way, frame after frame without
a gap (`Stream`); one knows the partner's inputs up to the last frame heard
(`InStep`); and the age of the last packet counts the frames run since (`Young`).
`KeepsUp` then bounds how far a partner can be behind, `NearbyNow` that what arrives is
within the window the code accepts, and `WaitIsAnswered` that a cabinet that waits has
the answer on its way to it, so that giving up is never due. There is one lemma for
sending (`SendContinues`), one for each place where a packet is taken
(`TakeTouch`, `ExchangeTouch`), and `TouchStep` puts them together.

`LobbyProofs` proves of `MultiplayerLobby`, for any games, libraries and nonces,
from `LobbyAssumption` (the two sides draw different nonces, none of them 0):

* `RolesOpposite`: two applications that have heard each other as they now are have
  different roles. `Agreed` says that a hello of the partner's present run tells
  whether it owns the port, and that whoever has heard that run has the role the two
  owners and nonces give; it is kept because a nonce that was ever used is never drawn
  again (`Drawn`), so a new run is not taken for an old one.
* `GameNeverOlder`: `Counts` orders what is told, counted and stored; the game is
  stored before it is counted and the count is copied before the game.
* `FollowedOnceHolds`: no run follows a launch twice. This needs the most: a launch that
  was followed (`Took`) or waits to be (`Has`) has a number no greater than `received`,
  and no hello of the same run that is still on its way, or is being put together, has a
  smaller one (`Received`, `Told`). A hello of another run cannot be mixed up with
  them, since `History` holds only nonces that are used up.

`VideoWorkerProofs` proves of `VideoWorker`, for any number of resources, frames,
sessions and modals:

* `NoFrameStrandedHolds`: a mailbox that holds a frame is claimed, and the claim is a
  task on the queue or in the worker's hands (`Claimed`).
* `DrawnWithItsResourcesHolds`: the screen, the frame being drawn and the one in the
  mailbox form a chain, each built on what the one before leaves (`Chained`), and the
  last of it has all that the board has exported (`UpToDate`).
* `ShowsLatestFrameHolds`, again for such a host: the worker implements `LatestFrame`. The
  pictures left for the abstract window are the one in the mailbox and the one in the worker's hands
  (`Display` is the mapping), and uploads, queue and fence are the machinery beneath: most steps
  are stutters. `Ordered` says that the picture on the screen is older than the one being
  drawn and that older than the one in the mailbox, so that what is shown is newer than
  all before. `NothingLeftOver` says that once the fence of a session is fulfilled, and until
  the next begins, no picture is anywhere on its way, so that a game begins with
  none of another. Each action that is no stutter has a lemma (`SubmitShows`, `DrawShows`,
  `RelaunchShows`). That what is left gets shown is the liveness half, which TLC checks
  (`ShowsLatestFrame` is the fair specification).
* `CleanStartHolds`, for a host that waits for its fence (`Patient`): the number the
  host waits for is the fence's alone (`Tickets`), so that once it is fulfilled nothing
  of the old session can be harvested any more (`Fence`). Without `Patient` it is false:
  a fence that is given up says nothing.

`CommProofs` proves of `CommBoard`, for any number of slots and any number of states,
resets and lost or overtaken packets:

* `RingAlternatesHolds` and `OlderDownTheRingHolds`: the RAM of a linked cabinet and every
  packet to it are rings (`Ring`): the slots belong to its owner and its partner in turn,
  and two slots further on a state is not newer. Every packet is a ring of its
  sender, and one slot further on (`StoredRing`) becomes one of its receiver.
* `NothingFromBeforeHolds`: a board on its own holds and stages only what was written
  since it started (`Alone`).

`SegaProofs`, `System22Proofs` and `BoardProofs` prove the safety properties of the run `boards`
for every value of the constants of its parts. `SegaProofs` and `System22Proofs` have
for each part an inductive invariant and the lemmas that its initial state has it and each
action keeps it, and `BoardProofs` has the other parts. Since the parts share no
variable, a step of `MCBoards` is a step of one part and leaves the invariants of the
others alone (`PartsBegin`, `PartsStep`); `BoardInv` is the conjunction of all of them
and `PartsHold` says that it always holds. The theorems follow:

* `InterruptsServedHolds`: the levels, requests and masks of each controller and the line
  it drives change together; a timer's deadline is never before its clock.
* `LinkKeepsFramesHolds`: `WholeFrames` and `FrameAnnounced` tell what a register read
  may have left half done. `NotDeafForLong` needs that a deaf exchange is a silent one while the
  link is up, and that none is counted while it is down.
* `GeometryAlwaysHolds`: of the list walks, that every handler checks what is left before
  it reads, for any length the game may write; of the DSP, that the history of calls
  is the stack from its top down, with the handler that runs on top of it, up to its depth;
  of Model 2, that the edge remembered is the last one of the strip being read.
* `ArithmeticAlwaysHolds`: after `k` of `N` conditional subtractions the dividend is what is
  left plus the quotient so far times the divisor times `2^(N-k)`, for registers
  of any width. For the order of polygons, a depth is filed by its rounded mantissa and
  exponent, and cells rise by 0 or 1 from one mantissa to the next. Powers of two
  enter through two assumptions, `Tms320PowerAssumption` and `Model2PowerAssumption`, since the
  provers have no exponentiation: they say of the table of powers what doubling says,
  and TLC evaluates both.
* `InOrderHolds`, an action property: the packets of a driver carry consecutive numbers and
  only the first may be read in part, and what has been heard and what is in the mailbox join
  without a gap; each queued frame of Model 1 carries the banks of the moment it was
  queued; and a sum with its carry is the exact one.
* `SettingsOnlyAsMeantHolds`, an action property: the bits the EEPROM has taken in are those
  clocked since its selection, and a store of the game's record puts the role back.
* `StartedInTimeHolds`, for any boot time, turn of the coin, retry and coins to a credit: the board
  never listens for `GlPatience` frames in vain. Of itself the bound is not inductive. The
  frames listened are at most those counted before the first coin; then each
  coin that the chip has counted has bought one turn (`GlInserting`), for a turn begins
  with an edge of the coin line unless a player's coin hid it, and that coin went into the
  other slot and was counted a frame before the turn was over; two credits take at
  most three times the coins of one, less one (`FewEdges`); and while start is pressed
  (`GlPressing`) the frames listened are those since its line went down. The game's program may do
  what it likes in between: a frame in which it does not listen starts the count anew.
* `ChangesMarkedHolds`, `CommandsReachTheChipsHolds`, `BoardsKeepPaceHolds` and
  `NothingLostHolds` each join the invariants of their parts: a value on disc differs from
  memory only while marked, unless it is gone or torn; a ring's contents and the chip give the registers, each bit that the chip
  turns apart; a clock's lead is what it overran by and what yields gave it; what was pressed, paid or handed over is in exactly
  one place, or in a frame that was replaced. `NoFreeCreditHolds` and `RoleSurvivesTheGameHolds` name two of the parts' own
  properties: one credit at most for each closing of a coin switch, and the link role.

`AppProofs` does the same for `MCApp`: an invariant for each part that its initial state has and
each action keeps, their conjunction `AppInv`, `AppHolds`, and from it

* `FilesKeptHolds`, an action property. `HsInv`: while the runtime looks after a score table the
  board has one, and as long as the disc has served it is no worse than the file's, which is not a
  broken one. `SdInv`: the
  manager works alone, and when it comes to change files, each it has not yet come to is in a
  backup. Pictures need no invariant: only a banner is written in its place (`AwWhole`).
* `FramesAndTapsHolds`, an action property. `RnInv`: no frame later than the one being made is on
  the screen, resident or in the texture, only Vulkan's device is lost, and the shadow of age 0 is of
  this game and of the frame before the one being made. `LossCostsAFrame` takes from it what a
  frame on a lost device comes to. `CiInv`: what is watched is what is mapped, on the controller that is open
  while it is plugged in, and a press that no frame has looked at is latched.
* `WrittenWhenReadHolds`, whatever the driver refuses. `VkInv`: nothing is in flight but what was
  recorded to be submitted or is submitted and unfinished, and a frame is recorded, and
  vertices are stored, once the frame before has retired; only the two calls of `Unawaited` write
  before. `NvInv`: each picture on its way was coded
  on the one before it or stands alone (`Linked`), and the sender's base is the last of them.
* `DrawnFromWhatIsLiveHolds`, under `TargetsWhole` (What the code does otherwise): with `VkLive`,
  that the descriptors that are valid are those of the scene image there is.
* `MenusTellTheTruthHolds`. `OmInv`: the last definition on its way to the menu, or with none on
  its way and no action on its way back the one that is shown, is of the switches. `ImInv`: the
  map in memory is valid, and is the file's while the editor is open. `LmInv` (`LmFits`,
  `LmLaps`): whatever has come and gone since a screen was drawn, its rows are of the shelf and
  of the style, its ways are ways of the game and its cursor is on a row; and after the
  other machine came, left or launched at most one press has passed. The order of cards and
  pages is `InOrder`, by rank; that it lists every element once is a lemma on finite sets
  (`InOrderOf`), which the sort of the module `TLC` would not let the provers see. The
  attempt to prove `NoEmptyPage` showed an error of the model: after a wall was begun on a
  style that no game has, the empty grid's flag stayed, though the next grid is a new one.
  `PickColumn` was corrected, and `LmShelves` has a library that reaches it.
* `WallTiles`: for every number of columns, every width of the
  display and whichever column is played, every column has a positive width, each
  begins one gap after the one before it, and the last ends at the edge, if the display is wide
  enough to divide; from
  `ArcadeWallAssumption` alone. The lemma `Tiled` is the arithmetic: with a quotient
  rounded down (`Quotient`, `AtLeastOne`) the columns but the last take no more than
  the usable width, so the last one, which takes the rest, is at least as wide
  as the others. The invariant is only that the width of the display does not change.
* `RomsHoldAlways`, for every set of every loader, with any one file of it damaged or
  missing. That no file is written over another's bytes is
  shown from the shapes of the tables, not set by set: a run of files that follow one
  another, of words that alternate, of byte pairs and of byte lanes each lies
  between its ends without touching itself (`Meshed`, with one lemma a shape), two
  runs with their ends in order are apart, and a table is well laid when its rows are
  (`WellLaid`, put together row by row for each loader). `RomInv` follows a start through
  the table, that what was placed is what was noticed of the rows so far, and gives
  the agreement of the audit with the start.
* `HeardIsPlayedHolds`, for any number of columns and moves of the focus.
  `WlInv` says of every column that the last focus event on its way to it, or with none
  on its way its renderer, tells whether it has the keyboard (`Informed`; a column that
  never had it, or whose modal took the last event, need not know), and that the worker and the host loop pass on what the
  renderer knows (`PassedOn`). `ToldInformed` shows that the compositor keeps the first
  part, `SoundStep` that the column's threads keep both.

Only model-checked is liveness, which is outside the reach of the prover:
`ImplementsLiveLockstep` and `ShowsLatestFrame` beyond the safety that is proved of them,
`CloseTogether`, `LaunchArrives`, `TeardownEnds`, `LinkForms` and `NoChildLeft`. The four findings
are runs whose property does not hold.

## Not modelled

* *Emulated processors, drawing and sound synthesis*: one thread that steps
  arithmetic and plain stores. Their order is fixed, a unit test reaches them,
  and a model would repeat the code line by line. What is modelled of a board is
  where it meets interrupts, threads, lists of unknown length, files and cables.
* *The launcher's drawing*, the latch of its sticks, the choice of several cards, the
  capture of a binding, and the text selector that stands in for a window.
* *ROM library, catalog, settings, audio output*: as `PROJECT.json`
  says of each.
* *Inside modelled parts*: a disc that is full while a picture is written
  (`Artwork`); a FIFO of the Model 2 board over its limit by up to the burst of one
  instruction, which the code allows (`model2_board.cpp`); two file operations
  within one second, whose backups share a name (`SavedData`); a second wall started beside
  the first (`ArcadeWall`); the READ command and single data bits of the Model 2
  EEPROM (`Model2Nvram`); session numbers and divergence hashes of the link
  (`Netplay`); player names and addresses (`MultiplayerLobby`); the RGBA mailbox,
  which has the same code as the one modelled (`VideoWorker`).
* *Recursive computation for all inputs*: the list walks and the scripts of the DSP are
  checked on bounded lists; what they compute of every list needs induction.

## 5. Plan

1. Sessions of the netplay link: a partner that starts again mid-way resets the
   filter and files its frames, from 0 again, in the old ring; the divergence reports.
2. An abstract link (who is heard, when a link is up) that `C139Link` and `CommBoard` both refine.
3. One abstract queue for what the threads of a session hand over, which `Model2Session`,
   `Model1Sound` and `System22Sound` implement.
