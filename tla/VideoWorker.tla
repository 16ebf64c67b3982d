------------------------------ MODULE VideoWorker ------------------------------
(***************************************************************************)
(* The presentation worker of src/src/arcade_video_worker.cpp, the host    *)
(* loop of src/src/main.cpp that owns it, and the board that draws.        *)
(*                                                                         *)
(* The board hands the worker its pictures, the host its modals.  A frame  *)
(* goes into a mailbox that keeps only the newest one, with a single task  *)
(* queued to present it.  It carries a resource (a texture sheet or a      *)
(* colour table) only when the board changed it, so a frame that replaces  *)
(* a pending one takes over its unconsumed uploads.  The worker polls the  *)
(* window between tasks and leaves when the player closes it.              *)
(* A ROM switch keeps the worker and fences the outgoing session off; the  *)
(* launcher menu stops it.                                                 *)
(*                                                                         *)
(* Tasks that only forward data to the renderer, and the one-slot mailbox  *)
(* of RGBA frames (this one without resources), are not told apart.        *)
(***************************************************************************)
EXTENDS Integers, Sequences, FiniteSets

CONSTANTS
    Groups,      \* resources a frame may carry, each uploaded as a whole
    Patient,     \* reset_session never gives up on a worker that still runs
    MaxFrames,   \* bound: frames submitted
    MaxSessions, \* bound: board sessions
    MaxCalls     \* bound: promises made, after which no modal starts

ASSUME VideoWorkerAssumption ==
    /\ Patient \in BOOLEAN
    /\ MaxFrames \in Nat /\ MaxSessions \in Nat \ {0} /\ MaxCalls \in Nat

VARIABLES
    host,      \* where the host thread is
    why,       \* what the host is ending the session for
    session,   \* number of the session
    ticket,    \* promises the host has made
    worker,    \* where the worker thread is
    alive,     \* m_alive
    stop,      \* m_stop
    action,    \* m_host_action
    tasks,     \* m_tasks
    hand,      \* the task the worker runs, a sequence of at most one
    pending,   \* m_pending_model2_frame, a set of at most one
    queued,    \* m_model2_task_queued
    fulfilled, \* promises kept
    frames,    \* frames submitted
    board,     \* generation of each resource on the board
    exported,  \* generation last put into a frame (m_exported_..._generation)
    drawing,   \* the frame a present task holds
    screen,    \* what is shown, and the resources the renderer holds
    menus,     \* the session the renderer's menus were last reset for
    asked,     \* requests waiting in the renderer
    mail       \* requests harvested for the host

hostVars == <<host, why, session, ticket>>
lifeVars == <<alive, stop, action>>
queueVars == <<tasks, pending, queued>>
workVars == <<worker, hand, drawing>>
boardVars == <<frames, board, exported>>
menuVars == <<menus, asked>>
vars == <<hostVars, lifeVars, queueVars, workVars, boardVars, fulfilled,
          screen, menuVars, mail>>

(* What is in a resource is told by its session and its generation.        *)
Contents == [Groups -> Nat \X Nat]
Nothing == [g \in Groups |-> <<0, 0>>]
Frame == [number : Nat, session : Nat, upload : Contents, built : Contents]
Present == [do |-> "present", ticket |-> 0]
(* A request for a modal: to edit the controls, or to switch the game.     *)
(* Every other request either kind stands for reaches the host likewise.   *)
Request == [kind : {"controls", "switch"}, menus : 1..MaxSessions + 1]

Init ==
    /\ host = "starting" /\ why = "none" /\ session = 1 /\ ticket = 0
    /\ worker = "boot" /\ hand = <<>> /\ drawing = {}
    /\ alive = TRUE /\ stop = FALSE /\ action = "continue"
    /\ tasks = <<>> /\ pending = {} /\ queued = FALSE
    /\ fulfilled = {}
    /\ frames = 0 /\ board = [g \in Groups |-> 1]
    /\ exported = [g \in Groups |-> 0]
    /\ screen = [number |-> 0, built |-> Nothing, holds |-> Nothing]
    /\ menus = 1 /\ asked = {} /\ mail = {}

------------------------------------------------------------------------------
(* The worker thread.  Without a GPU it gives up at once.                  *)
Boot ==
    /\ worker = "boot"
    /\ \E initialized \in BOOLEAN :
        /\ worker' = IF initialized THEN "idle" ELSE "gone"
        /\ alive' = (alive /\ initialized)
    /\ UNCHANGED <<hostVars, stop, action, queueVars, hand, drawing,
                   boardVars, fulfilled, screen, menuVars, mail>>

(* Take the next task, or go on without one after 2 ms.                    *)
Pick ==
    /\ worker = "idle" /\ ~stop
    /\ IF tasks = <<>>
       THEN worker' = "events" /\ UNCHANGED <<tasks, hand>>
       ELSE /\ hand' = <<Head(tasks)>> /\ tasks' = Tail(tasks)
            /\ worker' = "work"
    /\ UNCHANGED <<hostVars, lifeVars, pending, queued, drawing, boardVars,
                   fulfilled, screen, menuVars, mail>>

(* The worker leaves its loop and shuts the renderer down.                 *)
Leave ==
    /\ worker = "idle" /\ stop
    /\ worker' = "gone" /\ alive' = FALSE
    /\ UNCHANGED <<hostVars, stop, action, queueVars, hand, drawing,
                   boardVars, fulfilled, screen, menuVars, mail>>

(* Slip: m_model2_task_queued is left set when the frame is taken.         *)
TakeNewestOnly ==
    /\ worker = "work" /\ hand = <<Present>>
    /\ drawing' = pending /\ pending' = {}
    /\ hand' = <<>>
    /\ worker' = IF pending = {} THEN "events" ELSE "draw"
    /\ UNCHANGED <<hostVars, lifeVars, tasks, queued, boardVars, fulfilled,
                   screen, menuVars, mail>>

(* A present task takes the newest frame out of the mailbox ...            *)
TakeNewest ==
    /\ worker = "work" /\ hand = <<Present>>
    /\ drawing' = pending /\ pending' = {} /\ queued' = FALSE
    /\ hand' = <<>>
    /\ worker' = IF pending = {} THEN "events" ELSE "draw"
    /\ UNCHANGED <<hostVars, lifeVars, tasks, boardVars, fulfilled, screen,
                   menuVars, mail>>

(* ... and draws it with what it carries and what the renderer holds.      *)
Uploaded(f) ==
    [g \in Groups |->
        IF f.upload[g] # <<0, 0>> THEN f.upload[g] ELSE screen.holds[g]]
Draw ==
    /\ worker = "draw"
    /\ \E f \in drawing :
        screen' = [number |-> f.number, built |-> f.built,
                   holds |-> Uploaded(f)]
    /\ drawing' = {} /\ worker' = "events"
    /\ UNCHANGED <<hostVars, lifeVars, queueVars, hand, boardVars, fulfilled,
                   menuVars, mail>>

(* A modal keeps the promise its caller waits for; so does the fence of    *)
(* reset_session, which first resets the menus and forgets their requests, *)
(* all but the one to switch the game.                                     *)
KeepPromise ==
    /\ worker = "work" /\ hand # <<>> /\ hand # <<Present>>
    /\ fulfilled' = fulfilled \cup {Head(hand).ticket}
    /\ IF Head(hand).do = "fence"
       THEN /\ menus' = session + 1
            /\ asked' = {r \in asked : r.kind = "switch"}
       ELSE UNCHANGED menuVars
    /\ hand' = <<>> /\ worker' = "events"
    /\ UNCHANGED <<hostVars, lifeVars, queueVars, drawing, boardVars, screen,
                   mail>>

(* process_events of the renderer: the player may ask for something in a   *)
(* menu, for the launcher menu, or close the window.                       *)
Events ==
    /\ worker = "events"
    /\ \/ worker' = "harvest" /\ UNCHANGED <<alive, action, asked>>
       \/ /\ \E r \in Request : r.menus = menus /\ asked' = asked \cup {r}
          /\ worker' = "harvest" /\ UNCHANGED <<alive, action>>
       \/ /\ action' = "menu"
          /\ worker' = "harvest" /\ UNCHANGED <<alive, asked>>
       \/ /\ action' = "exit" /\ alive' = FALSE
          /\ worker' = "gone" /\ UNCHANGED asked
    /\ UNCHANGED <<hostVars, stop, queueVars, hand, drawing, boardVars,
                   fulfilled, screen, menus, mail>>

(* harvest_frontend, after which the loop starts over.                     *)
Harvest ==
    /\ worker = "harvest"
    /\ mail' = mail \cup asked /\ asked' = {}
    /\ worker' = "idle"
    /\ UNCHANGED <<hostVars, lifeVars, queueVars, hand, drawing, boardVars,
                   fulfilled, screen, menus>>

Worker ==
    \/ Boot \/ Pick \/ Leave \/ TakeNewest \/ Draw \/ KeepPromise
    \/ Events \/ Harvest

------------------------------------------------------------------------------
(* The host thread.  initialize waits until the worker has told how its    *)
(* start went (only a closed window takes a started worker away); after a  *)
(* failure it stops the worker and the program ends.                       *)
StartSucceeded == alive \/ action = "exit"
Started ==
    /\ host = "starting" /\ worker # "boot"
    /\ IF StartSucceeded
       THEN host' = "check" /\ UNCHANGED why
       ELSE host' = "stop" /\ why' = "exit"
    /\ UNCHANGED <<session, ticket, lifeVars, queueVars, workVars, boardVars,
                   fulfilled, screen, menuVars, mail>>

(* Every round of the loop asks the worker whether to go on.  The host     *)
(* itself may end the program, when the netplay partner has left.          *)
Check ==
    /\ host = "check"
    /\ \/ /\ action = "continue" /\ alive
          /\ host' = "run" /\ UNCHANGED why
       \/ /\ action = "menu"
          /\ host' = "reset" /\ why' = "menu"
       \/ host' = "reset" /\ why' = "exit"
    /\ UNCHANGED <<session, ticket, lifeVars, queueVars, workVars, boardVars,
                   fulfilled, screen, menuVars, mail>>

(* The rest of a round leaves the worker alone, or hands it a task that    *)
(* only forwards data.                                                     *)
Rest ==
    /\ host = "run" /\ host' = "check"
    /\ UNCHANGED <<why, session, ticket, lifeVars, queueVars, workVars,
                   boardVars, fulfilled, screen, menuVars, mail>>

(* A request opens a modal on the worker, or, if that has gone, on the     *)
(* host thread itself.                                                     *)
StartModal ==
    /\ host = "run" /\ ticket < MaxCalls
    /\ \E kind \in {r.kind : r \in mail} :
        /\ mail' = {r \in mail : r.kind # kind}
        /\ why' = IF kind = "switch" THEN "choosing" ELSE "editing"
    /\ host' = IF alive THEN "enqueue" ELSE "modal"
    /\ UNCHANGED <<session, ticket, lifeVars, queueVars, workVars, boardVars,
                   fulfilled, screen, menuVars>>

(* enqueue looks again whether the worker lives; run_modal waits anyway.   *)
Enqueue ==
    /\ host = "enqueue"
    /\ ticket' = ticket + 1
    /\ tasks' = IF alive
                THEN Append(tasks, [do |-> "call", ticket |-> ticket + 1])
                ELSE tasks
    /\ host' = "wait"
    /\ UNCHANGED <<why, session, lifeVars, pending, queued, workVars,
                   boardVars, fulfilled, screen, menuVars, mail>>

ModalDone ==
    /\ host = "wait" /\ ticket \in fulfilled
    /\ host' = "modal"
    /\ UNCHANGED <<why, session, ticket, lifeVars, queueVars, workVars,
                   boardVars, fulfilled, screen, menuVars, mail>>

(* Back in the loop, unless the player chose another game.                 *)
AfterModal ==
    /\ host = "modal"
    /\ \/ host' = "check" /\ why' = "none"
       \/ /\ why = "choosing" /\ session < MaxSessions
          /\ host' = "reset" /\ why' = "switch"
    /\ UNCHANGED <<session, ticket, lifeVars, queueVars, workVars, boardVars,
                   fulfilled, screen, menuVars, mail>>

(* reset_session: drop the outgoing board's work and queue the fence.      *)
Reset ==
    /\ host = "reset"
    /\ IF alive
       THEN /\ ticket' = ticket + 1
            /\ tasks' = <<[do |-> "fence", ticket |-> ticket + 1]>>
            /\ pending' = {} /\ queued' = FALSE
            /\ host' = "fence"
       ELSE host' = "closed" /\ UNCHANGED <<ticket, queueVars>>
    /\ UNCHANGED <<why, session, lifeVars, workVars, boardVars, fulfilled,
                   screen, menuVars, mail>>

(* Slip: the fence is awaited without a limit.                             *)
AwaitedForEver == ticket \in fulfilled

(* reset_session waits two seconds for the fence, and then drops what was  *)
(* harvested for the host.                                                 *)
GivesUp == worker = "gone" \/ ~Patient
Passed == ticket \in fulfilled \/ GivesUp
FenceDone ==
    /\ host = "fence" /\ Passed
    /\ host' = "clear"
    /\ UNCHANGED <<why, session, ticket, lifeVars, queueVars, workVars,
                   boardVars, fulfilled, screen, menuVars, mail>>

(* Slip: what was harvested is kept.                                       *)
DroppedNone(requests) == requests

Dropped(requests) == {r \in requests : r.kind = "switch"}
Clear ==
    /\ host = "clear"
    /\ mail' = Dropped(mail)
    /\ host' = "closed"
    /\ UNCHANGED <<why, session, ticket, lifeVars, queueVars, workVars,
                   boardVars, fulfilled, screen, menuVars>>

(* A new board starts from its own generations.                            *)
NewBoard ==
    /\ session' = session + 1
    /\ board' = [g \in Groups |-> 1] /\ exported' = [g \in Groups |-> 0]
    /\ UNCHANGED frames

(* The next game keeps the worker ...                                      *)
NextGame ==
    /\ host = "closed" /\ why = "switch"
    /\ host' = "check" /\ NewBoard
    /\ UNCHANGED <<why, ticket, lifeVars, queueVars, workVars, fulfilled,
                   screen, menuVars, mail>>

(* ... the launcher menu and the end of the program shut it down.          *)
Shutdown ==
    /\ \/ host = "stop"
       \/ host = "closed" /\ why \in {"menu", "exit"}
    /\ stop' = TRUE /\ alive' = FALSE
    /\ host' = "join"
    /\ UNCHANGED <<why, session, ticket, action, queueVars, workVars,
                   boardVars, fulfilled, screen, menuVars, mail>>

Joined ==
    /\ host = "join" /\ worker = "gone"
    /\ tasks' = <<>> /\ pending' = {} /\ queued' = FALSE
    /\ host' = IF why = "menu" THEN "launcher" ELSE "over"
    /\ UNCHANGED <<why, session, ticket, lifeVars, workVars, boardVars,
                   fulfilled, screen, menuVars, mail>>

(* The launcher menu ends in a new game, with a worker of its own, or in   *)
(* the end of the program.                                                 *)
Relaunch ==
    /\ host = "launcher" /\ session < MaxSessions
    /\ NewBoard
    /\ stop' = FALSE /\ alive' = TRUE /\ action' = "continue"
    /\ worker' = "boot" /\ hand' = <<>> /\ drawing' = {}
    /\ screen' = [number |-> 0, built |-> Nothing, holds |-> Nothing]
    /\ menus' = session + 1 /\ asked' = {}
    /\ host' = "starting" /\ why' = "none"
    /\ UNCHANGED <<ticket, queueVars, fulfilled, mail>>

Quit ==
    /\ host = "launcher" /\ host' = "over"
    /\ UNCHANGED <<why, session, ticket, lifeVars, queueVars, workVars,
                   boardVars, fulfilled, screen, menuVars, mail>>

Host ==
    \/ Started \/ Check \/ Rest \/ StartModal \/ Enqueue
    \/ ModalDone \/ AfterModal \/ Reset \/ FenceDone \/ Clear \/ NextGame
    \/ Shutdown \/ Joined \/ Relaunch \/ Quit

------------------------------------------------------------------------------
(* The board's own thread, which the session starts after the worker and   *)
(* joins before it resets the worker: it may finish a frame whenever the   *)
(* host is in its loop or in a modal (a board that runs on the host thread *)
(* does so in the loop only).                                              *)
Playing == host \in {"check", "run", "enqueue", "wait", "modal"}

(* make_gpu_frame adds the resources whose generation has moved since the  *)
(* last frame.                                                             *)
Built == [g \in Groups |-> <<session, board'[g]>>]
Carried == [g \in Groups |->
              IF board'[g] # exported[g] THEN <<session, board'[g]>>
                                         ELSE <<0, 0>>]

(* Slip: a replaced frame takes its uploads with it.                       *)
KeptNothing(upload) == upload

(* present_model2_frame keeps the uploads of the frame it replaces.        *)
Kept(upload) ==
    [g \in Groups |->
        IF upload[g] = <<0, 0>> /\ pending # {}
        THEN (CHOOSE f \in pending : TRUE).upload[g]
        ELSE upload[g]]
NewFrame == [number |-> frames + 1, session |-> session,
             upload |-> Kept(Carried), built |-> Built]

Mailbox(frame) == {frame}

Submit ==
    /\ Playing /\ frames < MaxFrames
    /\ frames' = frames + 1
    /\ \E changed \in SUBSET Groups :
        board' = [g \in Groups |->
                    IF g \in changed THEN board[g] + 1 ELSE board[g]]
    /\ exported' = board'
    /\ IF alive
       THEN /\ pending' = Mailbox(NewFrame) /\ queued' = TRUE
            /\ tasks' = IF queued THEN tasks ELSE Append(tasks, Present)
       ELSE UNCHANGED queueVars
    /\ UNCHANGED <<hostVars, lifeVars, workVars, fulfilled,
                   screen, menuVars, mail>>

Next == Worker \/ Host \/ Submit
Spec == Init /\ [][Next]_vars

(* Both threads keep running: the worker polls every 2 ms and nothing it   *)
(* does waits for the host; the host's own waits are guards of its steps.  *)
FairSpec == Spec /\ WF_vars(Worker) /\ WF_vars(Host)

------------------------------------------------------------------------------
(* Every picture is drawn with exactly the texture sheets and colour       *)
(* tables the board had when it built the frame, although frames carry     *)
(* them only when they changed and frames are dropped.                     *)
DrawnWithItsResources == screen.holds = screen.built

(* A frame in the mailbox always has a present task that will take it, on  *)
(* the queue or in the worker's hands: m_model2_task_queued never claims   *)
(* one that is gone.  It may be left when the worker has stopped.          *)
NoFrameStranded ==
    (pending # {} /\ worker # "gone") =>
        \E i \in DOMAIN (tasks \o hand) : (tasks \o hand)[i] = Present

(* After a ROM switch the new board finds no request made in the menus of  *)
(* the old one, but for the one to switch games, which nothing clears.     *)
CleanStart ==
    (host = "run" /\ why = "switch") =>
        \A r \in mail :
            r.kind = "controls" => r.menus >= session

(* The worker is the window that shows the latest frame: what is left for  *)
(* it is in the mailbox or being drawn, and the picture on the screen is   *)
(* what the renderer holds.                                                *)
Picture(frame) == [number |-> frame.number, built |-> frame.built]
Display == INSTANCE LatestFrame WITH
    Blank <- [number |-> 0, built |-> Nothing],
    last <- frames,
    left <- {Picture(f) : f \in pending \cup drawing},
    shown <- [number |-> screen.number, built |-> screen.holds],
    open <- alive /\ Playing

(* Every frame is shown with exactly the textures and colours it was built *)
(* with, unless a newer one is or its game ends, and no game begins with a *)
(* frame of the game before it.                                            *)
ShowsLatestFrame == Display!FairSpec

(* Ending a session always comes to its end, in a game or out of the       *)
(* program, even when the window closes under it.                          *)
TeardownEnds == (host = "reset") ~> (host \in {"check", "over"})

=============================================================================
