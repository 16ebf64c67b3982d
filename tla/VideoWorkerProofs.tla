--------------------------- MODULE VideoWorkerProofs ---------------------------
(***************************************************************************)
(* Proofs about the presentation worker of module VideoWorker, for any     *)
(* number of resources, frames, sessions and modals.                       *)
(***************************************************************************)
EXTENDS VideoWorker, TLAPS

Task == [do : {"present", "call", "fence"}, ticket : Nat]
Hosts ==
    {"starting", "check", "run", "enqueue", "wait", "modal", "reset", "fence",
     "clear", "closed", "stop", "join", "launcher", "over"}
Workers == {"boot", "idle", "work", "draw", "events", "harvest", "gone"}
Requests == [kind : {"controls", "switch"}, menus : Nat]

Types ==
    /\ host \in Hosts /\ worker \in Workers
    /\ alive \in BOOLEAN /\ queued \in BOOLEAN
    /\ session \in Nat \ {0} /\ ticket \in Nat /\ frames \in Nat
    /\ tasks \in Seq(Task) /\ hand \in Seq(Task)
    /\ pending \in SUBSET Frame /\ drawing \in SUBSET Frame
    /\ board \in [Groups -> Nat \ {0}] /\ exported \in [Groups -> Nat]
    /\ screen \in [number : Nat, built : Contents, holds : Contents]
    /\ fulfilled \in SUBSET Nat
    /\ menus \in Nat /\ asked \in SUBSET Requests /\ mail \in SUBSET Requests

------------------------------------------------------------------------------
(* A frame in the mailbox has been claimed, and the claim is a present task *)
(* on the queue or in the worker's hands.                                  *)
Claims(t) == \E i \in DOMAIN t : t[i] = Present
Claimed ==
    /\ pending # {} => queued
    /\ queued /\ worker # "gone" => Claims(tasks) \/ hand = <<Present>>
    /\ worker = "work" => Len(hand) = 1
    /\ worker # "work" => hand = <<>>
    /\ host = "launcher" => tasks = <<>> /\ pending = {} /\ ~queued

------------------------------------------------------------------------------
(* There is one frame at most in the mailbox, and one being drawn.         *)
Single ==
    /\ \A f, g \in pending : f = g
    /\ \A f, g \in drawing : f = g
    /\ worker # "draw" => drawing = {}

(* Uploading a frame's resources over those before it gives those it was   *)
(* built with.                                                             *)
Completes(frame, before) ==
    \A g \in Groups :
        frame.built[g] = IF frame.upload[g] # <<0, 0>> THEN frame.upload[g] ELSE before[g]
(* The frames follow upon each other: the screen, the one being drawn, the  *)
(* one in the mailbox.                                                     *)
Chained ==
    /\ screen.holds = screen.built
    /\ \A d \in drawing : Completes(d, screen.holds)
    /\ \A f \in pending : drawing = {} => Completes(f, screen.holds)
    /\ \A f \in pending : \A d \in drawing : Completes(f, d.built)

(* What the board has exported is in the newest of them.                   *)
Newest(g, content) ==
    /\ \A f \in pending : f.built[g] = content
    /\ pending = {} => \A d \in drawing : d.built[g] = content
    /\ pending = {} /\ drawing = {} => screen.holds[g] = content
UpToDate ==
    alive /\ (Playing \/ host = "starting") =>
        \A g \in Groups : exported[g] # 0 => Newest(g, <<session, exported[g]>>)

Resources == Single /\ Chained /\ UpToDate

------------------------------------------------------------------------------
(* Every promise is made under a number of its own, so that the one the    *)
(* host waits for at the fence is the fence's.                             *)
Within(q, n) == \A i \in DOMAIN q : q[i].ticket <= n
OnlyFence(q, n) == \A i \in DOMAIN q : q[i].ticket = n => q[i].do = "fence"
Tickets ==
    /\ Within(tasks, ticket) /\ Within(hand, ticket)
    /\ \A x \in fulfilled : x <= ticket
    /\ host = "fence" => OnlyFence(tasks, ticket) /\ OnlyFence(hand, ticket)
    /\ worker = "gone" => ~alive

(* No request to edit the controls is older than session s.                *)
Since(requests, s) == \A r \in requests : r.kind = "controls" => r.menus >= s
Fenced(s) == menus >= s /\ Since(asked, s)
Fence ==
    /\ host = "starting" => why = "none"
    /\ host = "fence" /\ ticket \in fulfilled => Fenced(session + 1)
    /\ host = "clear" /\ alive => Fenced(session + 1)
    /\ host = "closed" /\ alive => Fenced(session + 1) /\ Since(mail, session + 1)
    /\ host \in {"check", "run"} /\ (host = "check" => alive) /\ why = "switch" =>
            Fenced(session) /\ Since(mail, session)

(* The queue of no task, of one task, and of one more. *)
LEMMA TaskSequences ==
    /\ << >> \in Seq(Task)
    /\ Present \in Task
    /\ \A t \in Task : <<t>> \in Seq(Task)
    /\ \A q \in Seq(Task), t \in Task : Append(q, t) \in Seq(Task)
    /\ \A q \in Seq(Task) : q # << >> => Head(q) \in Task /\ Tail(q) \in Seq(Task)
  <1>1. Present \in Task
    BY DEF Task, Present
  <1> QED
    BY <1>1

(* The frame a board submits is a frame. *)
LEMMA SubmittedType ==
    ASSUME Types, board' \in [Groups -> Nat \ {0}]
    PROVE  NewFrame \in Frame
  <1> USE DEF Types
  <1>1. Carried \in Contents /\ Built \in Contents
    BY DEF Carried, Built, Contents
  <1>2. Kept(Carried) \in Contents
    <2>1. pending # {} => (CHOOSE f \in pending : TRUE) \in Frame
      OBVIOUS
    <2>2. pending # {} => (CHOOSE f \in pending : TRUE).upload \in Contents
      BY <2>1 DEF Frame
    <2> HIDE DEF Types
    <2> QED
      BY <1>1, <2>2 DEF Kept, Contents
  <1> QED
    BY <1>1, <1>2 DEF NewFrame, Frame

(* Every variable keeps its type. *)
LEMMA TypesStep ==
    ASSUME Types, [Next]_vars
    PROVE  Types'
  <1> USE DEF Types, Hosts, Workers
  <1>1. CASE UNCHANGED vars
    BY <1>1 DEF vars, hostVars, lifeVars, queueVars, workVars, boardVars, menuVars
  <1>2. CASE Boot
    BY <1>2 DEF Boot, hostVars, queueVars, boardVars, menuVars
  <1>3. CASE Pick
    <2>1. CASE tasks = << >>
      BY <1>3, <2>1 DEF Pick, hostVars, lifeVars, boardVars, menuVars
    <2>2. CASE tasks # << >>
      <3>1. Head(tasks) \in Task /\ Tail(tasks) \in Seq(Task)
        BY <2>2, TaskSequences
      <3>2. hand' \in Seq(Task) /\ tasks' \in Seq(Task)
        BY <1>3, <2>2, <3>1, TaskSequences DEF Pick
      <3> QED
        BY <1>3, <2>2, <3>2 DEF Pick, hostVars, lifeVars, boardVars, menuVars
    <2> QED
      BY <2>1, <2>2
  <1>4. CASE Leave
    BY <1>4 DEF Leave, hostVars, queueVars, boardVars, menuVars
  <1>5. CASE TakeNewest
    <2>1. hand' \in Seq(Task)
      BY <1>5, TaskSequences DEF TakeNewest
    <2> QED
      BY <1>5, <2>1 DEF TakeNewest, hostVars, lifeVars, boardVars, menuVars
  <1>6. CASE Draw
    <2> PICK f \in drawing :
              screen' = [number |-> f.number, built |-> f.built, holds |-> Uploaded(f)]
      BY <1>6 DEF Draw
    <2>1. f.number \in Nat /\ f.built \in Contents /\ Uploaded(f) \in Contents
      BY DEF Frame, Contents, Uploaded
    <2>2. screen' \in [number : Nat, built : Contents, holds : Contents]
      BY <2>1
    <2> QED
      BY <1>6, <2>2 DEF Draw, hostVars, lifeVars, queueVars, boardVars, menuVars
  <1>7. CASE KeepPromise
    <2>1. hand' \in Seq(Task)
      BY <1>7, TaskSequences DEF KeepPromise
    <2>2. Head(hand).ticket \in Nat
      BY <1>7, TaskSequences DEF KeepPromise, Task
    <2>3. menus' \in Nat /\ asked' \in SUBSET Requests
      BY <1>7 DEF KeepPromise, menuVars
    <2> QED
      BY <1>7, <2>1, <2>2, <2>3 DEF KeepPromise, hostVars, lifeVars, queueVars, boardVars
  <1>8. CASE Events
    <2>1. asked' \in SUBSET Requests
      BY <1>8 DEF Events, Request, Requests
    <2> QED
      BY <1>8, <2>1 DEF Events, hostVars, queueVars, boardVars
  <1>9. CASE Harvest
    BY <1>9 DEF Harvest, hostVars, lifeVars, queueVars, boardVars
  <1>10. CASE Started
    BY <1>10 DEF Started, lifeVars, queueVars, workVars, boardVars, menuVars, StartSucceeded
  <1>11. CASE Check
    BY <1>11 DEF Check, lifeVars, queueVars, workVars, boardVars, menuVars
  <1>12. CASE Rest
    BY <1>12 DEF Rest, lifeVars, queueVars, workVars, boardVars, menuVars
  <1>13. CASE StartModal
    BY <1>13 DEF StartModal, lifeVars, queueVars, workVars, boardVars, menuVars
  <1>14. CASE Enqueue
    <2>1. tasks' \in Seq(Task)
      <3>1. [do |-> "call", ticket |-> ticket + 1] \in Task
        BY DEF Task
      <3> QED
        BY <1>14, <3>1, TaskSequences DEF Enqueue
    <2> QED
      BY <1>14, <2>1 DEF Enqueue, lifeVars, workVars, boardVars, menuVars
  <1>15. CASE ModalDone
    BY <1>15 DEF ModalDone, lifeVars, queueVars, workVars, boardVars, menuVars
  <1>16. CASE AfterModal
    BY <1>16 DEF AfterModal, lifeVars, queueVars, workVars, boardVars, menuVars
  <1>17. CASE Reset
    <2>1. tasks' \in Seq(Task)
      <3>1. [do |-> "fence", ticket |-> ticket + 1] \in Task
        BY DEF Task
      <3> QED
        BY <1>17, <3>1, TaskSequences DEF Reset, queueVars
    <2>2. queued' \in BOOLEAN
      <3>1. CASE alive
        BY <1>17, <3>1, Zenon DEF Reset
      <3>2. CASE ~alive
        BY <1>17, <3>2, Zenon DEF Reset, queueVars
      <3> QED
        BY <3>1, <3>2
    <2>3. pending' \in SUBSET Frame /\ ticket' \in Nat
      BY <1>17 DEF Reset, queueVars
    <2>4. host' \in Hosts
      BY <1>17 DEF Reset
    <2> QED
      BY <1>17, <2>1, <2>2, <2>3, <2>4 DEF Reset, lifeVars, workVars, boardVars, menuVars
  <1>18. CASE FenceDone
    BY <1>18 DEF FenceDone, lifeVars, queueVars, workVars, boardVars, menuVars, Passed
  <1>19. CASE Clear
    <2>1. mail' \in SUBSET Requests
      BY <1>19 DEF Clear, Dropped
    <2> QED
      BY <1>19, <2>1 DEF Clear, lifeVars, queueVars, workVars, boardVars, menuVars
  <1>20. CASE NextGame
    BY <1>20 DEF NextGame, lifeVars, queueVars, workVars, menuVars, NewBoard
  <1>21. CASE Shutdown
    BY <1>21 DEF Shutdown, queueVars, workVars, boardVars, menuVars
  <1>22. CASE Joined
    <2>1. tasks' \in Seq(Task)
      BY <1>22, TaskSequences DEF Joined
    <2> QED
      BY <1>22, <2>1 DEF Joined, lifeVars, workVars, boardVars, menuVars
  <1>23. CASE Relaunch
    <2>1. hand' \in Seq(Task)
      BY <1>23, TaskSequences DEF Relaunch
    <2>2. screen' \in [number : Nat, built : Contents, holds : Contents]
      BY <1>23 DEF Relaunch, Nothing, Contents
    <2>3. session' \in Nat \ {0} /\ menus' \in Nat
      BY <1>23 DEF Relaunch, NewBoard
    <2> QED
      BY <1>23, <2>1, <2>2, <2>3 DEF Relaunch, NewBoard, queueVars
  <1>24. CASE Quit
    BY <1>24 DEF Quit, lifeVars, queueVars, workVars, boardVars, menuVars
  <1>25. CASE Submit
    <2>1. board' \in [Groups -> Nat \ {0}] /\ exported' \in [Groups -> Nat]
      BY <1>25 DEF Submit
    <2>2. tasks' \in Seq(Task)
      <3>1. tasks' = tasks \/ tasks' = Append(tasks, Present)
        BY <1>25 DEF Submit, queueVars
      <3>2. Append(tasks, Present) \in Seq(Task) /\ tasks \in Seq(Task)
        BY TaskSequences
      <3> QED
        BY <3>1, <3>2
    <2>3. pending' \in SUBSET Frame
      BY <1>25, <2>1, SubmittedType DEF Submit, Mailbox, queueVars
    <2>4. queued' \in BOOLEAN
      <3>1. CASE alive
        BY <1>25, <3>1, Zenon DEF Submit
      <3>2. CASE ~alive
        BY <1>25, <3>2, Zenon DEF Submit, queueVars
      <3> QED
        BY <3>1, <3>2
    <2>5. frames' \in Nat
      BY <1>25 DEF Submit
    <2>6. UNCHANGED <<hostVars, lifeVars, workVars, fulfilled, screen, menuVars, mail>>
      BY <1>25 DEF Submit
    <2> QED
      BY <2>1, <2>2, <2>3, <2>4, <2>5, <2>6 DEF hostVars, lifeVars, workVars, menuVars
  <1> HIDE DEF Types, Hosts, Workers
  <1> QED
    BY <1>1, <1>2, <1>3, <1>4, <1>5, <1>6, <1>7, <1>8, <1>9, <1>10, <1>11, <1>12, <1>13, <1>14,
       <1>15, <1>16, <1>17, <1>18, <1>19, <1>20, <1>21, <1>22, <1>23, <1>24, <1>25
       DEF Next, Worker, Host

------------------------------------------------------------------------------
(* A claim stays on the queue until its task is taken. *)
LEMMA QueueOfClaims ==
    /\ ~Claims(<< >>)
    /\ \A q \in Seq(Task), t \in Task : Claims(q) => Claims(Append(q, t))
    /\ \A q \in Seq(Task) : Claims(Append(q, Present))
    /\ \A q \in Seq(Task) : Claims(q) => q # << >> /\ (Head(q) = Present \/ Claims(Tail(q)))
  <1> USE DEF Claims
  <1>1. ~Claims(<< >>)
    OBVIOUS
  <1>2. ASSUME NEW q \in Seq(Task), NEW t \in Task, Claims(q) PROVE Claims(Append(q, t))
    <2> PICK i \in DOMAIN q : q[i] = Present
      BY <1>2
    <2>1. i \in DOMAIN Append(q, t) /\ Append(q, t)[i] = q[i]
      OBVIOUS
    <2> QED
      BY <2>1
  <1>3. ASSUME NEW q \in Seq(Task) PROVE Claims(Append(q, Present))
    <2>1. Len(q) + 1 \in DOMAIN Append(q, Present) /\ Append(q, Present)[Len(q) + 1] = Present
      BY TaskSequences
    <2> QED
      BY <2>1
  <1>4. ASSUME NEW q \in Seq(Task), Claims(q)
        PROVE  q # << >> /\ (Head(q) = Present \/ Claims(Tail(q)))
    <2> PICK i \in DOMAIN q : q[i] = Present
      BY <1>4
    <2>1. i \in 1..Len(q) /\ q # << >>
      OBVIOUS
    <2>2. CASE i = 1
      BY <2>1, <2>2
    <2>3. CASE i # 1
      <3>1. i - 1 \in DOMAIN Tail(q) /\ Tail(q)[i - 1] = q[i]
        BY <2>1, <2>3
      <3> QED
        BY <2>1, <3>1
    <2> QED
      BY <2>2, <2>3
  <1> QED
    BY <1>1, <1>2, <1>3, <1>4

(* No step leaves a frame in the mailbox without its claim. *)
LEMMA ClaimedStep ==
    ASSUME Types, Claimed, [Next]_vars
    PROVE  Claimed'
  <1> USE DEF Claimed
  <1>1. CASE UNCHANGED vars
    BY <1>1 DEF vars, hostVars, lifeVars, queueVars, workVars, boardVars, menuVars
  <1>2. CASE Boot
    BY <1>2 DEF Boot, hostVars, queueVars, boardVars, menuVars
  <1>3. CASE Pick
    <2>1. CASE tasks = << >>
      BY <1>3, <2>1 DEF Pick, lifeVars, hostVars
    <2>2. CASE tasks # << >>
      <3>1. Claims(tasks) => Claims(tasks') \/ hand' = <<Present>>
        BY <1>3, <2>2, QueueOfClaims DEF Pick, Types
      <3>2. Len(hand') = 1 /\ worker' = "work" /\ host' = host
        BY <1>3, <2>2 DEF Pick, hostVars
      <3>3. hand = << >> /\ UNCHANGED <<pending, queued>>
        BY <1>3 DEF Pick
      <3> QED
        BY <1>3, <2>2, <3>1, <3>2, <3>3 DEF Pick
    <2> QED
      BY <2>1, <2>2
  <1>4. CASE Leave
    BY <1>4 DEF Leave, hostVars, queueVars, boardVars, menuVars
  <1>5. CASE TakeNewest
    BY <1>5 DEF TakeNewest, hostVars, lifeVars, boardVars, menuVars
  <1>6. CASE Draw
    BY <1>6 DEF Draw, hostVars, lifeVars, queueVars, boardVars, menuVars
  <1>7. CASE KeepPromise
    BY <1>7 DEF KeepPromise, hostVars, lifeVars, queueVars, boardVars, menuVars
  <1>8. CASE Events
    BY <1>8 DEF Events, hostVars, queueVars, boardVars
  <1>9. CASE Harvest
    BY <1>9 DEF Harvest, hostVars, lifeVars, queueVars, boardVars
  <1>10. CASE Started \/ Check \/ Rest
    BY <1>10
       DEF Started, Check, Rest, lifeVars, queueVars, workVars, boardVars, menuVars,
           StartSucceeded
  <1>11. CASE StartModal \/ ModalDone \/ AfterModal
    BY <1>11
       DEF StartModal, ModalDone, AfterModal, lifeVars, queueVars, workVars, boardVars, menuVars
  <1>12. CASE Enqueue
    <2>1. Claims(tasks) => Claims(tasks')
      <3>1. [do |-> "call", ticket |-> ticket + 1] \in Task
        BY DEF Task, Types
      <3> QED
        BY <1>12, <3>1, QueueOfClaims DEF Enqueue, Types
    <2> QED
      BY <1>12, <2>1 DEF Enqueue, workVars
  <1>13. CASE Reset
    BY <1>13 DEF Reset, lifeVars, queueVars, workVars, boardVars, menuVars
  <1>14. CASE FenceDone \/ Clear
    BY <1>14 DEF FenceDone, Clear, lifeVars, queueVars, workVars, boardVars, menuVars, Passed
  <1>15. CASE NextGame
    BY <1>15 DEF NextGame, lifeVars, queueVars, workVars, menuVars, NewBoard
  <1>16. CASE Shutdown
    BY <1>16 DEF Shutdown, queueVars, workVars, boardVars, menuVars
  <1>17. CASE Joined
    BY <1>17 DEF Joined, lifeVars, workVars, boardVars, menuVars
  <1>18. CASE Relaunch
    BY <1>18 DEF Relaunch, queueVars, NewBoard
  <1>19. CASE Quit
    BY <1>19 DEF Quit, lifeVars, queueVars, workVars, boardVars, menuVars
  <1>20. CASE Submit
    <2>1. CASE alive
      <3>1. Claims(tasks') \/ (queued /\ tasks' = tasks)
        BY <1>20, <2>1, QueueOfClaims DEF Submit, Types
      <3>2. queued' /\ host' # "launcher" /\ worker' = worker /\ hand' = hand
        BY <1>20, <2>1 DEF Submit, Playing, hostVars, workVars
      <3> QED
        BY <3>1, <3>2
    <2>2. CASE ~alive
      BY <1>20, <2>2 DEF Submit, queueVars, hostVars, workVars
    <2> QED
      BY <2>1, <2>2
  <1> HIDE DEF Claimed
  <1> QED
    BY <1>1, <1>2, <1>3, <1>4, <1>5, <1>6, <1>7, <1>8, <1>9, <1>10, <1>11, <1>12, <1>13, <1>14,
       <1>15, <1>16, <1>17, <1>18, <1>19, <1>20
       DEF Next, Worker, Host

------------------------------------------------------------------------------
(* A frame is built on what the one before it leaves in the renderer. *)
LEMMA ResourcesStep ==
    ASSUME Types, Claimed, Resources, [Next]_vars
    PROVE  Resources'
  <1> USE DEF Resources
  <1>1. CASE UNCHANGED vars
    BY <1>1
       DEF vars, hostVars, lifeVars, queueVars, workVars, boardVars, menuVars, Single, Chained,
           Completes, UpToDate, Newest, Playing
  <1>2. CASE Boot
    <2>1. UNCHANGED <<pending, drawing, screen, host, exported, session>> /\ (alive' => alive)
      BY <1>2 DEF Boot, queueVars, hostVars, boardVars
    <2>2. worker' # "draw" /\ worker # "draw"
      BY <1>2 DEF Boot
    <2> QED
      BY <2>1, <2>2 DEF Single, Chained, Completes, UpToDate, Newest, Playing
  <1>3. CASE Leave
    BY <1>3
       DEF Leave, hostVars, queueVars, boardVars, menuVars, Single, Chained, Completes, UpToDate,
           Newest, Playing
  <1>4. CASE Pick
    BY <1>4
       DEF Pick, hostVars, lifeVars, boardVars, menuVars, Single, Chained, Completes, UpToDate,
           Newest, Playing
  <1>5. CASE TakeNewest
    <2>1. drawing = {} /\ drawing' = pending /\ pending' = {}
      BY <1>5 DEF TakeNewest, Single
    <2>2. UNCHANGED <<screen, exported, session, alive, host>>
      BY <1>5 DEF TakeNewest, hostVars, lifeVars, boardVars
    <2>3. worker' # "draw" => drawing' = {}
      BY <1>5 DEF TakeNewest
    <2>4. Single'
      BY <2>1, <2>3 DEF Single
    <2>5. Chained'
      BY <2>1, <2>2 DEF Chained, Completes
    <2>6. UpToDate'
      BY <2>1, <2>2 DEF UpToDate, Newest, Playing
    <2> QED
      BY <2>4, <2>5, <2>6
  <1>6. CASE Draw
    <2> PICK f \in drawing :
              screen' = [number |-> f.number, built |-> f.built, holds |-> Uploaded(f)]
      BY <1>6 DEF Draw
    <2>1. drawing = {f} /\ drawing' = {} /\ pending' = pending
      BY <1>6 DEF Draw, Single, queueVars
    <2>2. UNCHANGED <<exported, session, alive, host>>
      BY <1>6 DEF Draw, hostVars, lifeVars, boardVars
    <2>3. \A g \in Groups : Uploaded(f)[g] = f.built[g]
      BY DEF Chained, Completes, Uploaded
    <2>4. f.built = [g \in Groups |-> f.built[g]]
      BY DEF Types, Frame, Contents
    <2>5. Uploaded(f) = f.built
      BY <2>3, <2>4 DEF Uploaded
    <2>6. screen'.holds = f.built /\ screen'.built = f.built
      BY <2>5
    <2>7. Single'
      BY <2>1 DEF Single
    <2>8. Chained'
      BY <2>1, <2>6 DEF Chained, Completes
    <2>9. UpToDate'
      BY <2>1, <2>2, <2>6 DEF UpToDate, Newest, Playing
    <2> QED
      BY <2>7, <2>8, <2>9
  <1>7. CASE KeepPromise
    BY <1>7
       DEF KeepPromise, hostVars, lifeVars, queueVars, boardVars, menuVars, Single, Chained,
           Completes, UpToDate, Newest, Playing
  <1>8. CASE Events \/ Harvest
    BY <1>8
       DEF Events, Harvest, hostVars, queueVars, boardVars, lifeVars, Single, Chained, Completes,
           UpToDate, Newest, Playing
  <1>9. CASE Started \/ Check \/ Rest
    BY <1>9
       DEF Started, Check, Rest, lifeVars, queueVars, workVars, boardVars, menuVars,
           StartSucceeded, Single, Chained, Completes, UpToDate, Newest, Playing
  <1>10. CASE StartModal \/ ModalDone \/ AfterModal
    BY <1>10
       DEF StartModal, ModalDone, AfterModal, lifeVars, queueVars, workVars, boardVars, menuVars,
           Single, Chained, Completes, UpToDate, Newest, Playing
  <1>11. CASE Enqueue
    BY <1>11
       DEF Enqueue, lifeVars, workVars, boardVars, menuVars, Single, Chained, Completes, UpToDate,
           Newest, Playing
  <1>12. CASE Reset
    BY <1>12
       DEF Reset, lifeVars, queueVars, workVars, boardVars, menuVars, Single, Chained, Completes,
           UpToDate, Newest, Playing
  <1>13. CASE FenceDone \/ Clear \/ Quit
    BY <1>13
       DEF FenceDone, Clear, Quit, lifeVars, queueVars, workVars, boardVars, menuVars, Passed,
           Single, Chained, Completes, UpToDate, Newest, Playing
  <1>14. CASE NextGame
    <2>1. UNCHANGED <<pending, drawing, worker, screen>>
      BY <1>14 DEF NextGame, queueVars, workVars
    <2>2. \A g \in Groups : exported'[g] = 0
      BY <1>14 DEF NextGame, NewBoard
    <2> QED
      BY <2>1, <2>2 DEF Single, Chained, Completes, UpToDate
  <1>15. CASE Shutdown
    BY <1>15
       DEF Shutdown, queueVars, workVars, boardVars, menuVars, Single, Chained, Completes,
           UpToDate, Newest, Playing
  <1>16. CASE Joined
    BY <1>16
       DEF Joined, lifeVars, workVars, boardVars, menuVars, Single, Chained, Completes, UpToDate,
           Newest, Playing
  <1>17. CASE Relaunch
    <2>1. pending' = {} /\ drawing' = {}
      BY <1>17 DEF Relaunch, Claimed, queueVars
    <2>2. screen'.holds = screen'.built
      BY <1>17 DEF Relaunch
    <2>3. \A g \in Groups : exported'[g] = 0
      BY <1>17 DEF Relaunch, NewBoard
    <2> QED
      BY <2>1, <2>2, <2>3 DEF Single, Chained, UpToDate
  <1>18. CASE Submit
    <2>1. UNCHANGED <<drawing, worker, screen, host, session, alive>>
      BY <1>18 DEF Submit, workVars, hostVars, lifeVars
    <2>2. CASE ~alive
      BY <1>18, <2>1, <2>2 DEF Submit, queueVars, Single, Chained, Completes, UpToDate
    <2>3. CASE alive
      <3>1. pending' = {NewFrame}
        BY <1>18, <2>3 DEF Submit, Mailbox
      <3>2. exported' = board' /\ \A g \in Groups : board'[g] \in Nat \ {0}
        BY <1>18 DEF Submit, Types
      <3>3. \A g \in Groups : NewFrame.built[g] = <<session, board'[g]>>
        BY DEF NewFrame, Built
      <3>4. Single'
        BY <2>1, <3>1 DEF Single
      <3>5. UpToDate'
        BY <2>1, <3>1, <3>2, <3>3 DEF UpToDate, Newest
      <3>6. ASSUME NEW before, NEW g \in Groups,
                   NewFrame.upload[g] = Kept(Carried)[g],
                   exported[g] = board'[g] =>
                       IF pending = {} THEN before[g] = <<session, exported[g]>>
                       ELSE \A f \in pending :
                                /\ f.built[g] = <<session, exported[g]>>
                                /\ f.built[g] = IF f.upload[g] # <<0, 0>> THEN f.upload[g] ELSE before[g]
            PROVE  NewFrame.built[g] = IF NewFrame.upload[g] # <<0, 0>> THEN NewFrame.upload[g] ELSE before[g]
        <4>1. <<session, board'[g]>> # <<0, 0>>
          BY <3>2 DEF Types
        <4>2. Carried[g] = IF board'[g] # exported[g] THEN <<session, board'[g]>> ELSE <<0, 0>>
          BY DEF Carried
        <4>3. CASE board'[g] # exported[g]
          <5>1. Kept(Carried)[g] = <<session, board'[g]>>
            BY <4>1, <4>2, <4>3 DEF Kept
          <5> QED
            BY <3>3, <3>6, <4>1, <5>1
        <4>4. CASE board'[g] = exported[g] /\ pending = {}
          <5>1. Kept(Carried)[g] = <<0, 0>>
            BY <4>2, <4>4 DEF Kept
          <5> QED
            BY <3>3, <3>6, <4>4, <5>1
        <4>5. CASE board'[g] = exported[g] /\ pending # {}
          <5> PICK f \in pending : f = CHOOSE x \in pending : TRUE
            BY <4>5
          <5>1. Kept(Carried)[g] = f.upload[g]
            BY <4>2, <4>5 DEF Kept
          <5> QED
            BY <3>3, <3>6, <4>5, <5>1
        <4> QED
          BY <4>3, <4>4, <4>5
      <3>7. \A g \in Groups : NewFrame.upload[g] = Kept(Carried)[g]
        BY DEF NewFrame
      <3>8. \A g \in Groups : exported[g] = board'[g] => Newest(g, <<session, exported[g]>>)
        BY <1>18, <2>3, <3>2 DEF UpToDate, Submit
      <3>9. drawing = {} => Completes(NewFrame, screen.holds)
        BY <3>6, <3>7, <3>8 DEF Completes, Newest, Chained
      <3>10. \A d \in drawing : Completes(NewFrame, d.built)
        BY <3>6, <3>7, <3>8 DEF Completes, Newest, Chained
      <3>11. Chained'
        BY <2>1, <3>1, <3>9, <3>10 DEF Chained, Completes
      <3> QED
        BY <3>4, <3>5, <3>11
    <2> QED
      BY <2>2, <2>3
  <1> HIDE DEF Resources
  <1> QED
    BY <1>1, <1>2, <1>3, <1>4, <1>5, <1>6, <1>7, <1>8, <1>9, <1>10, <1>11, <1>12, <1>13, <1>14,
       <1>15, <1>16, <1>17, <1>18
       DEF Next, Worker, Host

------------------------------------------------------------------------------
(* What holds of every task of a queue holds of the queue a task is put on *)
(* or taken from.                                                          *)
LEMMA QueueOfTickets ==
    ASSUME NEW n \in Nat
    PROVE  /\ Within(<< >>, n) /\ OnlyFence(<< >>, n)
           /\ \A t \in Task : t.ticket <= n => Within(<<t>>, n)
           /\ \A t \in Task : (t.ticket = n => t.do = "fence") => OnlyFence(<<t>>, n)
           /\ \A q \in Seq(Task), t \in Task :
                Within(q, n) /\ t.ticket <= n => Within(Append(q, t), n)
           /\ \A q \in Seq(Task), m \in Nat : Within(q, m) /\ m <= n => Within(q, n)
           /\ \A q \in Seq(Task), m \in Nat : Within(q, m) /\ m < n => OnlyFence(q, n)
           /\ \A q \in Seq(Task) : q # << >> /\ Within(q, n) =>
                Within(Tail(q), n) /\ Head(q).ticket <= n
           /\ \A q \in Seq(Task) : q # << >> /\ OnlyFence(q, n) =>
                OnlyFence(Tail(q), n) /\ (Head(q).ticket = n => Head(q).do = "fence")
  <1> USE DEF Within, OnlyFence
  <1>1. ASSUME NEW q \in Seq(Task), NEW i \in DOMAIN q PROVE q[i].ticket \in Nat
    <2>1. q[i] \in Task
      OBVIOUS
    <2> QED
      BY <2>1 DEF Task
  <1>2. \A q \in Seq(Task) : \A t \in Task : \A i \in DOMAIN Append(q, t) :
            (i \in DOMAIN q /\ Append(q, t)[i] = q[i]) \/ Append(q, t)[i] = t
    OBVIOUS
  <1>3. \A q \in Seq(Task) : q # << >> =>
            /\ 1 \in DOMAIN q /\ Head(q) = q[1]
            /\ \A i \in DOMAIN Tail(q) : i + 1 \in DOMAIN q /\ Tail(q)[i] = q[i + 1]
    OBVIOUS
  <1>4. \A t \in Task : \A i \in DOMAIN <<t>> : <<t>>[i] = t
    OBVIOUS
  <1>5. Within(<< >>, n) /\ OnlyFence(<< >>, n)
    OBVIOUS
  <1>6. \A t \in Task : (t.ticket <= n => Within(<<t>>, n))
              /\ ((t.ticket = n => t.do = "fence") => OnlyFence(<<t>>, n))
    BY <1>4
  <1>7. \A q \in Seq(Task), t \in Task : Within(q, n) /\ t.ticket <= n => Within(Append(q, t), n)
    BY <1>2
  <1>8. \A q \in Seq(Task), m \in Nat : Within(q, m) =>
            (m <= n => Within(q, n)) /\ (m < n => OnlyFence(q, n))
    BY <1>1
  <1>9. \A q \in Seq(Task) : q # << >> =>
            /\ Within(q, n) => Within(Tail(q), n) /\ Head(q).ticket <= n
            /\ OnlyFence(q, n) => OnlyFence(Tail(q), n)
                  /\ (Head(q).ticket = n => Head(q).do = "fence")
    BY <1>3
  <1> QED
    BY <1>5, <1>6, <1>7, <1>8, <1>9

(* The number of the fence is its own. *)
LEMMA TicketsStep ==
    ASSUME Types, [Next]_vars, Tickets
    PROVE  Tickets'
  <1>1. CASE UNCHANGED vars
    BY <1>1 DEF vars, hostVars, lifeVars, queueVars, workVars, boardVars, menuVars, Tickets
  <1>2. CASE Boot
    BY <1>2 DEF Boot, hostVars, queueVars, boardVars, menuVars, Tickets
  <1>3. CASE Leave
    BY <1>3 DEF Leave, hostVars, queueVars, boardVars, menuVars, Tickets
  <1>4. CASE Pick
    <2>1. ticket \in Nat /\ tasks \in Seq(Task) /\ tasks # << >> => Head(tasks) \in Task
      BY TaskSequences DEF Types
    <2>2. CASE tasks = << >>
      BY <1>4, <2>2 DEF Pick, hostVars, lifeVars, queueVars, workVars, Tickets
    <2>3. CASE tasks # << >>
      <3>1. hand' = <<Head(tasks)>> /\ tasks' = Tail(tasks) /\ worker' # "gone"
        BY <1>4, <2>3 DEF Pick
      <3>2. UNCHANGED <<ticket, fulfilled, host>>
        BY <1>4 DEF Pick, hostVars
      <3>3. Within(tasks', ticket) /\ Within(hand', ticket)
        BY <2>1, <2>3, <3>1, TaskSequences, QueueOfTickets DEF Types, Tickets
      <3>4. host = "fence" => OnlyFence(tasks', ticket) /\ OnlyFence(hand', ticket)
        BY <2>1, <2>3, <3>1, TaskSequences, QueueOfTickets DEF Types, Tickets
      <3> QED
        BY <3>1, <3>2, <3>3, <3>4 DEF Tickets
    <2> QED
      BY <2>2, <2>3
  <1>5. CASE TakeNewest
    <2>1. hand' = << >> /\ UNCHANGED <<tasks, ticket, host, fulfilled>> /\ worker' # "gone"
      BY <1>5 DEF TakeNewest, hostVars
    <2>2. Within(hand', ticket') /\ OnlyFence(hand', ticket')
      BY <2>1, QueueOfTickets DEF Types
    <2> QED
      BY <2>1, <2>2 DEF Tickets
  <1>6. CASE Draw
    BY <1>6 DEF Draw, hostVars, lifeVars, queueVars, boardVars, menuVars, Tickets
  <1>7. CASE KeepPromise
    <2>1. ticket \in Nat /\ hand \in Seq(Task) /\ hand # << >> /\ Within(hand, ticket)
      BY <1>7 DEF KeepPromise, Types, Tickets
    <2>2. Head(hand).ticket <= ticket
      BY <2>1, QueueOfTickets
    <2>3. Head(hand).ticket <= ticket /\ hand' = << >> /\ UNCHANGED <<tasks, ticket, host, alive>>
      BY <1>7, <2>2 DEF KeepPromise, hostVars, queueVars, lifeVars
    <2>4. Within(hand', ticket') /\ OnlyFence(hand', ticket')
      BY <2>3, QueueOfTickets DEF Types
    <2>5. \A x \in fulfilled' : x <= ticket'
      BY <1>7, <2>3 DEF KeepPromise, Tickets
    <2> QED
      BY <1>7, <2>3, <2>4, <2>5 DEF KeepPromise, Tickets
  <1>8. CASE Events \/ Harvest
    BY <1>8 DEF Events, Harvest, hostVars, queueVars, boardVars, lifeVars, Tickets
  <1>9. CASE Started \/ Check \/ Rest
    BY <1>9
       DEF Started, Check, Rest, lifeVars, queueVars, workVars, boardVars, menuVars,
           StartSucceeded, Tickets
  <1>10. CASE StartModal \/ ModalDone \/ AfterModal
    BY <1>10
       DEF StartModal, ModalDone, AfterModal, lifeVars, queueVars, workVars, boardVars, menuVars,
           Tickets
  <1>11. CASE Enqueue
    <2> DEFINE call == [do |-> "call", ticket |-> ticket + 1]
    <2>1. call \in Task /\ call.ticket = ticket + 1
      BY DEF Task, Types
    <2>2. ticket' = ticket + 1 /\ ticket' \in Nat
      BY <1>11 DEF Enqueue, Types
    <2>3. Within(tasks, ticket') /\ Within(hand, ticket')
      BY <2>2, QueueOfTickets DEF Types, Tickets
    <2>4. tasks' = tasks \/ tasks' = Append(tasks, call)
      BY <1>11 DEF Enqueue
    <2> HIDE DEF call
    <2>5. Within(tasks', ticket')
      <3>1. tasks \in Seq(Task) /\ call.ticket <= ticket'
        BY <2>1, <2>2 DEF Types
      <3>2. Within(Append(tasks, call), ticket')
        BY <2>1, <2>2, <2>3, <3>1, QueueOfTickets
      <3> QED
        BY <2>3, <2>4, <3>2
    <2>6. host' # "fence" /\ hand' = hand /\ fulfilled' = fulfilled /\ worker' = worker
                /\ alive' = alive
      BY <1>11 DEF Enqueue, workVars, lifeVars
    <2>7. \A x \in fulfilled : x <= ticket + 1
      BY DEF Tickets, Types
    <2> QED
      BY <2>2, <2>3, <2>5, <2>6, <2>7 DEF Tickets
  <1>12. CASE Reset
    <2>1. CASE ~alive
      BY <1>12, <2>1 DEF Reset, queueVars, workVars, lifeVars, Tickets
    <2>2. CASE alive
      <3> DEFINE fence == [do |-> "fence", ticket |-> ticket + 1]
      <3>1. fence \in Task /\ fence.ticket = ticket + 1 /\ fence.do = "fence"
        BY DEF Task, Types
      <3>2. ticket' = ticket + 1 /\ ticket' \in Nat /\ tasks' = <<fence>>
        BY <1>12, <2>2 DEF Reset, Types
      <3>3. hand' = hand /\ fulfilled' = fulfilled /\ worker' = worker /\ alive' = alive
        BY <1>12 DEF Reset, workVars, lifeVars
      <3> HIDE DEF fence
      <3>4. Within(tasks', ticket') /\ OnlyFence(tasks', ticket')
        BY <3>1, <3>2, QueueOfTickets
      <3>5. Within(hand, ticket') /\ OnlyFence(hand, ticket')
        <4>1. Within(hand, ticket) /\ hand \in Seq(Task) /\ ticket \in Nat /\ ticket < ticket'
          BY <3>2 DEF Types, Tickets
        <4> QED
          BY <3>2, <4>1, QueueOfTickets
      <3>6. \A x \in fulfilled : x <= ticket + 1
        BY DEF Tickets, Types
      <3> QED
        BY <3>2, <3>3, <3>4, <3>5, <3>6 DEF Tickets
    <2> QED
      BY <2>1, <2>2
  <1>13. CASE FenceDone \/ Clear \/ Quit
    BY <1>13
       DEF FenceDone, Clear, Quit, lifeVars, queueVars, workVars, boardVars, menuVars, Passed,
           Tickets
  <1>14. CASE NextGame
    BY <1>14 DEF NextGame, lifeVars, queueVars, workVars, menuVars, NewBoard, Tickets
  <1>15. CASE Shutdown
    BY <1>15 DEF Shutdown, queueVars, workVars, boardVars, menuVars, Tickets
  <1>16. CASE Joined
    <2>1. tasks' = << >> /\ host' # "fence"
                /\ UNCHANGED <<hand, ticket, fulfilled, worker, alive>>
      BY <1>16 DEF Joined, workVars, lifeVars
    <2>2. Within(tasks', ticket')
      BY <2>1, QueueOfTickets DEF Types
    <2> QED
      BY <2>1, <2>2 DEF Tickets
  <1>17. CASE Relaunch
    <2>1. hand' = << >> /\ host' # "fence" /\ worker' # "gone"
                /\ UNCHANGED <<tasks, ticket, fulfilled>>
      BY <1>17 DEF Relaunch, queueVars
    <2>2. Within(hand', ticket')
      BY <2>1, QueueOfTickets DEF Types
    <2> QED
      BY <2>1, <2>2 DEF Tickets
  <1>18. CASE Submit
    <2>1. Within(tasks', ticket)
      <3>1. Present \in Task /\ Present.ticket = 0 /\ 0 <= ticket
        BY TaskSequences DEF Present, Types
      <3>2. tasks' = tasks \/ tasks' = Append(tasks, Present)
        BY <1>18 DEF Submit, queueVars
      <3> QED
        BY <3>1, <3>2, QueueOfTickets DEF Types, Tickets
    <2>2. host # "fence" /\ UNCHANGED <<host, ticket, hand, worker, fulfilled, alive>>
      BY <1>18 DEF Submit, Playing, hostVars, workVars, lifeVars
    <2> QED
      BY <2>1, <2>2 DEF Tickets
  <1> QED
    BY <1>1, <1>2, <1>3, <1>4, <1>5, <1>6, <1>7, <1>8, <1>9, <1>10, <1>11, <1>12, <1>13, <1>14,
       <1>15, <1>16, <1>17, <1>18
       DEF Next, Worker, Host

(* What is asked after the fence is asked of the new board. *)
LEMMA FenceStep ==
    ASSUME Patient, Types, Claimed, Tickets, Fence, [Next]_vars
    PROVE  Fence'
  <1>1. CASE UNCHANGED vars
    BY <1>1
       DEF vars, hostVars, lifeVars, queueVars, workVars, boardVars, menuVars, Fence, Fenced,
           Since
  <1>2. CASE Boot
    BY <1>2 DEF Boot, hostVars, queueVars, boardVars, menuVars, Fence, Fenced, Since
  <1>3. CASE Leave
    BY <1>3 DEF Leave, hostVars, queueVars, boardVars, menuVars, Fence, Fenced, Since
  <1>4. CASE Pick
    BY <1>4 DEF Pick, hostVars, lifeVars, boardVars, menuVars, Fence, Fenced, Since
  <1>5. CASE TakeNewest \/ Draw
    BY <1>5
       DEF TakeNewest, Draw, hostVars, lifeVars, boardVars, menuVars, queueVars, Fence, Fenced,
           Since
  <1>6. CASE KeepPromise
    <2>1. worker = "work" /\ Len(hand) = 1 /\ hand # << >> /\ ticket \in Nat /\ hand \in Seq(Task)
      BY <1>6 DEF KeepPromise, Claimed, Types
    <2>2. host = "fence" /\ Head(hand).ticket = ticket => Head(hand).do = "fence"
      BY <2>1, QueueOfTickets DEF Tickets
    <2>3. CASE Head(hand).do = "fence"
      <3>1. menus' = session + 1 /\ asked' \subseteq {r \in asked : r.kind = "switch"}
        BY <1>6, <2>3 DEF KeepPromise
      <3>2. Fenced(session + 1)' /\ Fenced(session)'
        BY <1>6, <3>1 DEF KeepPromise, hostVars, Fenced, Since, Types
      <3> QED
        BY <1>6, <3>2 DEF KeepPromise, hostVars, lifeVars, Fence, Fenced
    <2>4. CASE Head(hand).do # "fence"
      <3>1. UNCHANGED <<menus, asked, mail, host, why, session, ticket, alive>>
        BY <1>6, <2>4 DEF KeepPromise, menuVars, hostVars, lifeVars
      <3>2. host = "fence" => Head(hand).ticket # ticket
        BY <2>2, <2>4
      <3>3. ticket \in fulfilled' /\ host = "fence" => ticket \in fulfilled
        BY <1>6, <3>2 DEF KeepPromise
      <3> QED
        BY <3>1, <3>3 DEF Fence, Fenced, Since
    <2> QED
      BY <2>3, <2>4
  <1>7. CASE Events
    <2>1. UNCHANGED <<host, why, session, ticket, fulfilled, mail, menus>> /\ (alive' => alive)
      BY <1>7 DEF Events, hostVars
    <2>2. asked' = asked \/ \E r \in Request : r.menus = menus /\ asked' = asked \cup {r}
      BY <1>7 DEF Events
    <2>3. \A s \in Nat : Fenced(s) => Fenced(s)'
      BY <2>1, <2>2 DEF Fenced, Since, Types
    <2>4. session \in Nat /\ session + 1 \in Nat
      BY DEF Types
    <2>5. host = "run" /\ why = "switch" => Fenced(session)' /\ Since(mail, session)'
      BY <2>1, <2>3, <2>4 DEF Fence, Since
    <2>6. host = "check" /\ alive' /\ why = "switch" => Fenced(session)' /\ Since(mail, session)'
      BY <2>1, <2>3, <2>4 DEF Fence, Since
    <2>7. host \in {"fence", "clear", "closed"} => (Fenced(session + 1) => Fenced(session + 1)')
      BY <2>1, <2>3, <2>4 DEF Fenced, Since
    <2> QED
      BY <2>1, <2>5, <2>6, <2>7 DEF Fence, Fenced, Since
  <1>8. CASE Harvest
    <2>1. mail' = mail \cup asked /\ asked' = {}
                /\ UNCHANGED <<host, why, session, ticket, fulfilled, menus, alive>>
      BY <1>8 DEF Harvest, hostVars, lifeVars
    <2>2. \A s \in Nat : Fenced(s) => Fenced(s)' /\ (Since(mail, s) => Since(mail, s)')
      BY <2>1 DEF Fenced, Since
    <2> QED
      BY <2>1, <2>2 DEF Fence, Fenced, Since, Types
  <1>9. CASE Started
    BY <1>9
       DEF Started, lifeVars, queueVars, workVars, boardVars, menuVars, StartSucceeded, Fence,
           Fenced, Since
  <1>10. CASE Check
    BY <1>10 DEF Check, lifeVars, queueVars, workVars, boardVars, menuVars, Fence, Fenced, Since
  <1>11. CASE Rest
    BY <1>11 DEF Rest, lifeVars, queueVars, workVars, boardVars, menuVars, Fence, Fenced, Since
  <1>12. CASE StartModal \/ ModalDone \/ AfterModal
    BY <1>12
       DEF StartModal, ModalDone, AfterModal, lifeVars, queueVars, workVars, boardVars, menuVars,
           Fence, Fenced, Since
  <1>13. CASE Enqueue
    <2>1. host' = "wait"
      BY <1>13 DEF Enqueue
    <2> QED
      BY <2>1 DEF Fence
  <1>14. CASE Reset
    <2>1. CASE alive
      <3>1. host' = "fence" /\ ticket' = ticket + 1 /\ fulfilled' = fulfilled
        BY <1>14, <2>1 DEF Reset
      <3>2. ticket + 1 \notin fulfilled
        BY DEF Tickets, Types
      <3> QED
        BY <3>1, <3>2 DEF Fence
    <2>2. CASE ~alive
      BY <1>14, <2>2 DEF Reset, lifeVars, Fence
    <2> QED
      BY <2>1, <2>2
  <1>15. CASE FenceDone
    <2>1. ticket \in fulfilled \/ ~alive
      BY <1>15 DEF FenceDone, Passed, GivesUp, Tickets
    <2> QED
      BY <1>15, <2>1 DEF FenceDone, lifeVars, menuVars, Fence, Fenced, Since
  <1>16. CASE Clear
    <2>1. Since(mail, session + 1)'
      BY <1>16 DEF Clear, Dropped, Since
    <2> QED
      BY <1>16, <2>1 DEF Clear, lifeVars, menuVars, Fence, Fenced, Since
  <1>17. CASE Quit
    BY <1>17 DEF Quit, lifeVars, queueVars, workVars, boardVars, menuVars, Fence, Fenced, Since
  <1>18. CASE NextGame
    BY <1>18 DEF NextGame, lifeVars, queueVars, workVars, menuVars, NewBoard, Fence, Fenced, Since
  <1>19. CASE Shutdown
    BY <1>19 DEF Shutdown, queueVars, workVars, boardVars, menuVars, Fence, Fenced, Since
  <1>20. CASE Joined \/ Relaunch
    BY <1>20
       DEF Joined, Relaunch, lifeVars, workVars, boardVars, menuVars, queueVars, NewBoard, Fence,
           Fenced, Since
  <1>21. CASE Submit
    BY <1>21 DEF Submit, hostVars, lifeVars, queueVars, workVars, menuVars, Fence, Fenced, Since
  <1> QED
    BY <1>1, <1>2, <1>3, <1>4, <1>5, <1>6, <1>7, <1>8, <1>9, <1>10, <1>11, <1>12, <1>13, <1>14,
       <1>15, <1>16, <1>17, <1>18, <1>19, <1>20, <1>21
       DEF Next, Worker, Host

------------------------------------------------------------------------------
(* No worker runs at first and nothing waits for one. *)
LEMMA InitHolds == Init => Types /\ Claimed /\ Resources /\ Tickets /\ Fence
  <1> SUFFICES ASSUME Init PROVE Types /\ Claimed /\ Resources /\ Tickets /\ Fence
    OBVIOUS
  <1> USE DEF Init
  <1>1. Types
    <2>1. Nothing \in Contents
      BY DEF Nothing, Contents
    <2>2. screen \in [number : Nat, built : Contents, holds : Contents]
      BY <2>1
    <2>3. tasks \in Seq(Task) /\ hand \in Seq(Task)
      BY TaskSequences
    <2>4. board \in [Groups -> Nat \ {0}] /\ exported \in [Groups -> Nat]
      OBVIOUS
    <2>5. host \in Hosts /\ worker \in Workers /\ alive \in BOOLEAN /\ queued \in BOOLEAN
      BY DEF Hosts, Workers
    <2>6. session \in Nat \ {0} /\ ticket \in Nat /\ frames \in Nat /\ menus \in Nat
      OBVIOUS
    <2>7. pending = {} /\ drawing = {} /\ fulfilled = {} /\ asked = {} /\ mail = {}
      OBVIOUS
    <2> HIDE DEF Init
    <2> QED
      BY <2>2, <2>3, <2>4, <2>5, <2>6, <2>7 DEF Types
  <1>2. Claimed /\ Tickets /\ Fence
    BY DEF Claimed, Tickets, Within, Fence
  <1>3. Resources
    BY DEF Resources, Single, Chained, UpToDate
  <1> QED
    BY <1>1, <1>2, <1>3

(* A frame left for a worker that runs always has a task that will take it,  *)
(* whatever the worker is doing and whenever its mailbox is emptied.         *)
THEOREM NoFrameStrandedHolds == Spec => []NoFrameStranded
  <1>1. Types /\ Claimed /\ [Next]_vars => (Types /\ Claimed)'
    BY TypesStep, ClaimedStep
  <1>2. Types /\ Claimed => NoFrameStranded
    <2> SUFFICES ASSUME Types, Claimed, pending # {}, worker # "gone"
                 PROVE  \E i \in DOMAIN (tasks \o hand) : (tasks \o hand)[i] = Present
      BY DEF NoFrameStranded
    <2>1. tasks \in Seq(Task) /\ hand \in Seq(Task)
      BY DEF Types
    <2>2. CASE Claims(tasks)
      <3> PICK i \in DOMAIN tasks : tasks[i] = Present
        BY <2>2 DEF Claims
      <3>1. i \in DOMAIN (tasks \o hand) /\ (tasks \o hand)[i] = tasks[i]
        BY <2>1
      <3> QED
        BY <3>1
    <2>3. CASE hand = <<Present>>
      <3>1. Len(tasks) + 1 \in DOMAIN (tasks \o hand) /\ (tasks \o hand)[Len(tasks) + 1] = Present
        BY <2>1, <2>3
      <3> QED
        BY <3>1
    <2> QED
      BY <2>2, <2>3 DEF Claimed
  <1> QED
    BY <1>1, <1>2, InitHolds, PTL DEF Spec

(* Whatever frames are replaced in the mailbox or dropped with a session,    *)
(* each picture is drawn with the resources it was built with.               *)
THEOREM DrawnWithItsResourcesHolds == Spec => []DrawnWithItsResources
  <1>1. Types /\ Claimed /\ Resources /\ [Next]_vars => (Types /\ Claimed /\ Resources)'
    BY TypesStep, ClaimedStep, ResourcesStep
  <1>2. Resources => DrawnWithItsResources
    BY DEF Resources, Chained, DrawnWithItsResources
  <1> QED
    BY <1>1, <1>2, InitHolds, PTL DEF Spec

(* As long as reset_session waits for its fence, no request to edit the      *)
(* controls outlives the switch to another game.                             *)
THEOREM CleanStartHolds ==
    ASSUME Patient
    PROVE  Spec => []CleanStart
  <1> DEFINE Inv == Types /\ Claimed /\ Tickets /\ Fence
  <1>1. Init => Inv
    BY InitHolds
  <1>2. Inv /\ [Next]_vars => Inv'
    BY Patient, TypesStep, ClaimedStep, TicketsStep, FenceStep
  <1>3. Inv => CleanStart
    BY DEF Fence, Since, CleanStart
  <1> HIDE DEF Inv
  <1> QED
    BY <1>1, <1>2, <1>3, PTL DEF Spec

------------------------------------------------------------------------------
(* The screen shows an older frame than the one that is drawn, that an      *)
(* older one than the one in the mailbox.                                   *)
Ordered ==
    /\ screen.number <= frames
    /\ \A d \in drawing : screen.number < d.number /\ d.number <= frames
    /\ \A f \in pending : screen.number < f.number /\ f.number <= frames
    /\ \A f \in pending, d \in drawing : d.number < f.number

(* Between two games nothing is left to be shown, once the fence is passed. *)
LeftOver == pending # {} \/ drawing # {}
NothingLeftOver ==
    /\ host = "fence" => pending = {}
    /\ host \in {"starting", "launcher", "clear"} => ~LeftOver
    /\ host = "fence" /\ ticket \in fulfilled => ~LeftOver
    /\ host = "closed" /\ alive => ~LeftOver
    /\ host = "launcher" => worker = "gone"

LEMMA OrderedStep ==
    ASSUME Types, Claimed, Single, Ordered, [Next]_vars
    PROVE  Ordered'
  <1> USE DEF Ordered
  <1>1. ASSUME UNCHANGED <<screen, frames, drawing, pending>> PROVE Ordered'
    BY <1>1
  <1>2. ASSUME UNCHANGED <<screen, frames, drawing>>, pending' = {} PROVE Ordered'
    BY <1>2
  <1>3. CASE UNCHANGED vars \/ Boot \/ Pick \/ Leave \/ KeepPromise \/ Events \/ Harvest
    BY <1>1, <1>3
       DEF vars, Boot, Pick, Leave, KeepPromise, Events, Harvest, hostVars, lifeVars, queueVars,
           workVars, boardVars, menuVars
  <1>4. CASE Started \/ Check \/ Rest \/ StartModal \/ Enqueue \/ ModalDone \/ AfterModal
    BY <1>1, <1>4
       DEF Started, Check, Rest, StartModal, Enqueue, ModalDone, AfterModal, queueVars, workVars,
           boardVars
  <1>5. CASE FenceDone \/ Clear \/ NextGame \/ Shutdown \/ Quit
    BY <1>1, <1>5
       DEF FenceDone, Clear, NextGame, Shutdown, Quit, NewBoard, queueVars, workVars, boardVars
  <1>6. CASE TakeNewest
    <2>1. drawing = {} /\ drawing' = pending /\ pending' = {} /\ UNCHANGED <<screen, frames>>
      BY <1>6 DEF TakeNewest, Single, boardVars
    <2> QED
      BY <2>1
  <1>7. CASE Draw
    <2> PICK d \in drawing :
              screen' = [number |-> d.number, built |-> d.built, holds |-> Uploaded(d)]
      BY <1>7 DEF Draw
    <2>1. drawing' = {} /\ UNCHANGED <<pending, frames>> /\ screen'.number = d.number
      BY <1>7 DEF Draw, queueVars, boardVars
    <2> QED
      BY <2>1
  <1>8. CASE Reset
    <2>1. UNCHANGED <<screen, frames, drawing>> /\ (pending' = {} \/ pending' = pending)
      BY <1>8 DEF Reset, queueVars, workVars, boardVars
    <2> QED
      BY <1>1, <1>2, <2>1
  <1>9. CASE Joined
    BY <1>2, <1>9 DEF Joined, workVars, boardVars
  <1>10. CASE Relaunch
    <2>1. drawing' = {} /\ pending' = {} /\ screen'.number = 0 /\ frames' = frames
      BY <1>10 DEF Relaunch, NewBoard, queueVars, Claimed
    <2> QED
      BY <2>1 DEF Types
  <1>11. CASE Submit
    <2>1. UNCHANGED <<screen, drawing>> /\ frames' = frames + 1
      BY <1>11 DEF Submit, workVars
    <2>2. pending' = pending \/ pending' = {NewFrame}
      BY <1>11 DEF Submit, queueVars, Mailbox
    <2>3. NewFrame.number = frames + 1
      BY DEF NewFrame
    <2>4. frames \in Nat /\ screen.number \in Nat /\ (\A f \in pending : f.number \in Nat)
          /\ (\A d \in drawing : d.number \in Nat)
      BY DEF Types, Frame
    <2> HIDE DEF Ordered
    <2>5. CASE pending' = pending
      BY <2>1, <2>4, <2>5 DEF Ordered
    <2>6. CASE pending' = {NewFrame}
      <3> PICK new : new = NewFrame
        OBVIOUS
      <3>1. pending' = {new} /\ new.number = frames + 1
        BY <2>3, <2>6
      <3> QED
        BY <2>1, <2>4, <3>1 DEF Ordered
    <2> QED
      BY <2>2, <2>5, <2>6
  <1> QED
    BY <1>3, <1>4, <1>5, <1>6, <1>7, <1>8, <1>9, <1>10, <1>11 DEF Next, Worker, Host

LEMMA NothingLeftOverStep ==
    ASSUME Patient, Types, Claimed, Single, Tickets, NothingLeftOver, [Next]_vars
    PROVE  NothingLeftOver'
  <1> USE DEF NothingLeftOver, LeftOver
  <1>1. ASSUME UNCHANGED <<host, ticket, fulfilled, pending, drawing>>, alive' => alive, worker = "gone" => worker' = "gone"
        PROVE  NothingLeftOver'
    BY <1>1
  <1>2. CASE UNCHANGED vars
    BY <1>1, <1>2 DEF vars, hostVars, lifeVars, queueVars, workVars
  <1>14. CASE Boot
    BY <1>1, <1>14 DEF Boot, hostVars, queueVars
  <1>15. CASE Pick \/ Leave
    BY <1>1, <1>15 DEF Pick, Leave, hostVars, lifeVars, queueVars
  <1>16. CASE Events
    <2>1. worker = "events" /\ UNCHANGED <<host, ticket, fulfilled, pending, drawing>>
          /\ (alive' => alive)
      BY <1>16 DEF Events, hostVars, queueVars
    <2> QED
      BY <1>1, <2>1
  <1>17. CASE Harvest
    BY <1>1, <1>17 DEF Harvest, hostVars, lifeVars, queueVars
  <1>3. CASE TakeNewest
    <2>1. drawing = {} /\ drawing' = pending /\ pending' = {} /\ worker = "work"
          /\ UNCHANGED <<host, ticket, fulfilled, alive>>
      BY <1>3 DEF TakeNewest, Single, hostVars, lifeVars
    <2> QED
      BY <2>1
  <1>4. CASE Draw
    <2>1. drawing' = {} /\ worker = "draw" /\ UNCHANGED <<host, ticket, fulfilled, alive, pending>>
      BY <1>4 DEF Draw, hostVars, lifeVars, queueVars
    <2> QED
      BY <2>1
  <1>5. CASE KeepPromise
    <2>1. drawing = {} /\ worker = "work" /\ UNCHANGED <<host, ticket, alive, pending, drawing>>
      BY <1>5 DEF KeepPromise, Single, hostVars, lifeVars, queueVars
    <2> QED
      BY <2>1
  <1>6. CASE Started \/ Check \/ Rest \/ StartModal \/ Enqueue \/ ModalDone \/ AfterModal
    <2>1. host' \in {"check", "stop", "reset", "run", "enqueue", "wait", "modal"}
      BY <1>6 DEF Started, Check, Rest, StartModal, Enqueue, ModalDone, AfterModal
    <2> QED
      BY <2>1
  <1>7. CASE Reset
    <2>1. CASE alive
      <3>1. host' = "fence" /\ pending' = {} /\ ticket' = ticket + 1 /\ fulfilled' = fulfilled
        BY <1>7, <2>1 DEF Reset
      <3>2. ticket + 1 \notin fulfilled
        BY DEF Tickets, Types
      <3> QED
        BY <3>1, <3>2
    <2>2. CASE ~alive
      BY <1>7, <2>2 DEF Reset, lifeVars
    <2> QED
      BY <2>1, <2>2
  <1>8. CASE FenceDone
    <2>1. ticket \in fulfilled \/ worker = "gone"
      BY <1>8 DEF FenceDone, Passed, GivesUp
    <2>2. pending = {} /\ drawing = {}
      BY <1>8, <2>1 DEF FenceDone, Single
    <2> QED
      BY <1>8, <2>2 DEF FenceDone, queueVars, workVars
  <1>9. CASE Clear
    BY <1>9 DEF Clear, queueVars, workVars
  <1>10. CASE NextGame \/ Shutdown \/ Quit
    <2>1. host' \in {"check", "join", "over"}
      BY <1>10 DEF NextGame, Shutdown, Quit
    <2> QED
      BY <2>1
  <1>11. CASE Joined
    <2>1. pending' = {} /\ drawing' = drawing /\ worker = "gone" /\ worker' = worker /\ host' \in {"launcher", "over"}
      BY <1>11 DEF Joined, workVars
    <2> QED
      BY <2>1 DEF Single
  <1>12. CASE Relaunch
    <2>1. drawing' = {} /\ pending' = {} /\ host' = "starting"
      BY <1>12 DEF Relaunch, queueVars, Claimed
    <2> QED
      BY <2>1
  <1>13. CASE Submit
    <2>1. Playing /\ host' = host
      BY <1>13 DEF Submit, hostVars
    <2> QED
      BY <2>1 DEF Playing
  <1> QED
    BY <1>2, <1>3, <1>4, <1>5, <1>6, <1>7, <1>8, <1>9, <1>10, <1>11, <1>12, <1>13, <1>14, <1>15,
       <1>16, <1>17
       DEF Next, Worker, Host

------------------------------------------------------------------------------
Left == {Picture(f) : f \in pending \cup drawing}
Shown == [number |-> screen.number, built |-> screen.holds]
IsOpen == alive /\ Playing

(* Most steps show nothing, and at most end the game.                      *)
LEMMA Unseen ==
    ASSUME UNCHANGED <<frames, screen>>, pending' \cup drawing' = pending \cup drawing,
           IsOpen' => IsOpen
    PROVE  [Display!Next]_(Display!vars)
  <1>1. Left' = Left /\ Shown' = Shown
    BY DEF Left, Shown, Picture
  <1>2. CASE IsOpen' <=> IsOpen
    <2>1. IsOpen' = IsOpen
      BY <1>2, Zenon DEF IsOpen
    <2> QED
      BY <1>1, <2>1, Zenon DEF Display!vars, Left, Shown, IsOpen
  <1>3. CASE IsOpen /\ ~IsOpen'
    <2>1. (alive /\ Playing)' = FALSE
      BY <1>3, Zenon DEF IsOpen
    <2>2. Display!Close
      BY <1>1, <1>3, <2>1, Zenon DEF Display!Close, Left, Shown, IsOpen
    <2> QED
      BY <2>2 DEF Display!Next
  <1> QED
    BY <1>2, <1>3

(* A game begins.                                                          *)
LEMMA Begun ==
    ASSUME UNCHANGED <<frames, screen, pending, drawing>>, ~LeftOver, ~IsOpen
    PROVE  [Display!Next]_(Display!vars)
  <1>1. Left' = Left /\ Shown' = Shown /\ Left = {}
    BY DEF Left, Shown, Picture, LeftOver
  <1>2. CASE ~IsOpen'
    BY <1>2, Unseen
  <1>3. CASE IsOpen'
    <2>1. (alive /\ Playing)' = TRUE
      BY <1>3, Zenon DEF IsOpen
    <2>2. Display!Open
      BY <1>1, <1>3, <2>1, Zenon DEF Display!Open, Left, Shown, IsOpen
    <2> QED
      BY <2>2 DEF Display!Next
  <1> QED
    BY <1>2, <1>3

(* Frames are lost while no game runs.                                     *)
LEMMA Lost ==
    ASSUME UNCHANGED <<frames, screen, drawing>>, pending' = {}, ~IsOpen, ~IsOpen'
    PROVE  [Display!Next]_(Display!vars)
  <1>1. Left' \subseteq Left /\ Shown' = Shown
    BY DEF Left, Shown, Picture
  <1>2. IsOpen' = IsOpen
    BY Zenon DEF IsOpen
  <1>3. Display!Drop
    BY <1>1, <1>2, Zenon DEF Display!Drop, Left, Shown, IsOpen
  <1> QED
    BY <1>3 DEF Display!Next

LEMMA SubmitShows ==
    ASSUME Types, Submit PROVE Display!Submit
  <1> PICK new : new = NewFrame
    OBVIOUS
  <1>1. new.number = frames + 1
    BY DEF NewFrame
  <1>2. Playing /\ frames' = frames + 1 /\ UNCHANGED <<screen, drawing, alive, host>>
        /\ (alive => pending' = {new}) /\ (~alive => pending' = pending)
    BY DEF Submit, hostVars, lifeVars, workVars, queueVars, Mailbox
  <1>3. Shown' = Shown /\ (IsOpen' <=> IsOpen) /\ (IsOpen <=> alive)
    BY <1>2 DEF Shown, IsOpen, Playing
  <1>4. IsOpen' = IsOpen
    BY <1>3, Zenon DEF IsOpen
  <1>5. CASE alive
    <2>1. Picture(new) \in Left' /\ Picture(new).number = frames'
      BY <1>1, <1>2, <1>5 DEF Left, Picture
    <2>2. Left' \ {Picture(new)} \subseteq Left
      BY <1>2, <1>5 DEF Left
    <2>3. \E p \in Left' : p.number = frames' /\ Left' \ {p} \subseteq Left
      BY <2>1, <2>2
    <2> QED
      BY <1>2, <1>3, <1>4, <1>5, <2>3, Zenon DEF Display!Submit, Left, Shown, IsOpen
  <1>6. CASE ~alive
    <2>1. Left' = Left
      BY <1>2, <1>6 DEF Left
    <2> QED
      BY <1>2, <1>3, <1>4, <1>6, <2>1, Zenon DEF Display!Submit, Left, Shown, IsOpen
  <1> QED
    BY <1>5, <1>6

LEMMA DrawShows ==
    ASSUME Types, Single, Chained, Ordered, Draw PROVE Display!Show
  <1> PICK d \in drawing :
            screen' = [number |-> d.number, built |-> d.built, holds |-> Uploaded(d)]
    BY DEF Draw
  <1>1. drawing = {d} /\ drawing' = {} /\ UNCHANGED <<pending, frames, alive, host>>
    BY DEF Draw, Single, queueVars, boardVars, hostVars, lifeVars
  <1>2. Uploaded(d) = d.built
    <2>1. \A g \in Groups : Uploaded(d)[g] = d.built[g]
      BY DEF Chained, Completes, Uploaded
    <2>2. d.built = [g \in Groups |-> d.built[g]]
      BY DEF Types, Frame, Contents
    <2> QED
      BY <2>1, <2>2 DEF Uploaded
  <1>3. Shown' = Picture(d)
    BY <1>2 DEF Shown, Picture
  <1>4. Picture(d) \in Left /\ Picture(d).number = d.number
    BY DEF Left, Picture
  <1>5. d.number > screen.number /\ Shown.number = screen.number
    BY DEF Ordered, Shown, Types, Frame
  <1>6. Left' = {p \in Left : p.number > Picture(d).number}
    <2>1. Left' = {Picture(f) : f \in pending}
      BY <1>1 DEF Left
    <2>2. \A f \in pending : Picture(f).number > d.number
      BY DEF Picture, Ordered, Types, Frame
    <2>3. ~(Picture(d).number > d.number)
      BY <1>4 DEF Types, Frame
    <2>4. Left = {Picture(f) : f \in pending} \cup {Picture(d)}
      BY <1>1 DEF Left
    <2> QED
      BY <1>4, <2>1, <2>2, <2>3, <2>4
  <1>7. IsOpen' = IsOpen
    BY <1>1, Zenon DEF IsOpen, Playing
  <1>8. \E p \in Left : p.number > Shown.number /\ Shown' = p /\ Left' = {q \in Left : q.number > p.number}
    BY <1>3, <1>4, <1>5, <1>6
  <1> QED
    BY <1>1, <1>7, <1>8, Zenon DEF Display!Show, Left, Shown, IsOpen

LEMMA RelaunchShows ==
    ASSUME Claimed, NothingLeftOver, Relaunch PROVE Display!NewWindow
  <1>1. ~LeftOver /\ drawing' = {} /\ pending' = pending /\ frames' = frames /\ host = "launcher" /\ host' = "starting"
    BY DEF Relaunch, NothingLeftOver, queueVars, NewBoard
  <1>2. Left = {} /\ Left' = Left /\ Shown' = [number |-> 0, built |-> Nothing]
    BY <1>1 DEF Left, LeftOver, Shown, Relaunch
  <1>3. ~IsOpen /\ ~IsOpen'
    BY <1>1 DEF IsOpen, Playing
  <1>4. IsOpen' = IsOpen
    BY <1>3, Zenon DEF IsOpen
  <1> QED
    BY <1>1, <1>2, <1>3, <1>4, Zenon DEF Display!NewWindow, Left, Shown, IsOpen

LEMMA DisplayStep ==
    ASSUME Types, Claimed, Resources, Ordered, NothingLeftOver, [Next]_vars
    PROVE  [Display!Next]_(Display!vars)
  <1>1. ASSUME UNCHANGED <<frames, screen, pending, drawing>>, IsOpen' => IsOpen
        PROVE  [Display!Next]_(Display!vars)
    BY <1>1, Unseen
  <1>2. CASE UNCHANGED vars \/ Pick \/ Leave \/ KeepPromise \/ Harvest
    BY <1>1, <1>2
       DEF vars, Pick, Leave, KeepPromise, Harvest, hostVars, lifeVars, queueVars, workVars,
           boardVars, IsOpen, Playing
  <1>13. CASE Boot \/ Events
    <2>1. UNCHANGED <<frames, screen, pending, drawing, host>>
      BY <1>13 DEF Boot, Events, hostVars, queueVars, boardVars
    <2>2. alive' => alive
      BY <1>13, Zenon DEF Boot, Events
    <2> QED
      BY <1>1, <2>1, <2>2 DEF IsOpen, Playing
  <1>3. CASE Check \/ Rest \/ StartModal \/ Enqueue \/ ModalDone \/ AfterModal
    BY <1>1, <1>3
       DEF Check, Rest, StartModal, Enqueue, ModalDone, AfterModal, lifeVars, queueVars, workVars,
           boardVars, IsOpen, Playing
  <1>4. CASE FenceDone \/ Clear \/ Shutdown \/ Quit
    BY <1>1, <1>4
       DEF FenceDone, Clear, Shutdown, Quit, lifeVars, queueVars, workVars, boardVars, IsOpen, Playing
  <1>5. CASE TakeNewest
    <2>1. pending' \cup drawing' = pending \cup drawing /\ UNCHANGED <<frames, screen, alive, host>>
      BY <1>5 DEF TakeNewest, Resources, Single, hostVars, lifeVars, boardVars
    <2> QED
      BY <2>1, Unseen DEF IsOpen, Playing
  <1>6. CASE Draw
    BY <1>6, DrawShows DEF Resources, Display!Next
  <1>7. CASE Started
    BY <1>7, Begun DEF Started, NothingLeftOver, queueVars, workVars, boardVars, IsOpen, Playing
  <1>8. CASE NextGame
    <2>1. host = "closed" /\ UNCHANGED <<frames, screen, pending, drawing, alive>> /\ ~IsOpen
      BY <1>8 DEF NextGame, NewBoard, queueVars, workVars, lifeVars, IsOpen, Playing
    <2>2. CASE alive
      BY <2>1, <2>2, Begun DEF NothingLeftOver
    <2>3. CASE ~alive
      BY <1>1, <2>1, <2>3 DEF IsOpen
    <2> QED
      BY <2>2, <2>3
  <1>9. CASE Reset
    <2>1. UNCHANGED <<frames, screen, drawing>> /\ ~IsOpen /\ ~IsOpen'
      BY <1>9 DEF Reset, workVars, boardVars, IsOpen, Playing
    <2>2. pending' = pending \/ pending' = {}
      BY <1>9 DEF Reset, queueVars
    <2> QED
      BY <1>1, <2>1, <2>2, Lost
  <1>10. CASE Joined
    BY <1>10, Lost DEF Joined, workVars, boardVars, IsOpen, Playing
  <1>11. CASE Relaunch
    BY <1>11, RelaunchShows DEF Display!Next
  <1>12. CASE Submit
    BY <1>12, SubmitShows DEF Display!Next
  <1> QED
    BY <1>2, <1>3, <1>4, <1>5, <1>6, <1>7, <1>8, <1>9, <1>10, <1>11, <1>12, <1>13
       DEF Next, Worker, Host

LEMMA DisplayBegins == Init => Ordered /\ NothingLeftOver /\ Display!Init
  <1> SUFFICES ASSUME Init PROVE Ordered /\ NothingLeftOver /\ Display!Init
    OBVIOUS
  <1>1. Ordered /\ NothingLeftOver
    BY DEF Init, Ordered, NothingLeftOver, LeftOver
  <1>2. Left = {} /\ Shown = [number |-> 0, built |-> Nothing] /\ frames = 0
    BY DEF Init, Left, Shown
  <1>3. IsOpen = FALSE
    BY DEF Init, IsOpen, Playing
  <1> QED
    BY <1>1, <1>2, <1>3, Zenon DEF Display!Init, Left, Shown, IsOpen

(* As long as reset_session waits for its fence, the worker is the window    *)
(* that shows the latest frame: each frame as it was built, in their order,  *)
(* one skipped only for a newer one or because its game ends, and no game    *)
(* begun with a frame of another, for any number of frames, sessions and     *)
(* resources.                                                                *)
THEOREM ShowsLatestFrameHolds ==
    ASSUME Patient
    PROVE  Spec => Display!Spec
  <1> DEFINE Inv == Types /\ Claimed /\ Resources /\ Tickets /\ Ordered /\ NothingLeftOver
  <1>1. Init => Inv /\ Display!Init
    BY InitHolds, DisplayBegins
  <1>2. Inv /\ [Next]_vars => Inv'
    BY Patient, TypesStep, ClaimedStep, ResourcesStep, TicketsStep, OrderedStep, NothingLeftOverStep DEF Resources
  <1>3. Inv /\ [Next]_vars => [Display!Next]_(Display!vars)
    BY DisplayStep
  <1> HIDE DEF Inv
  <1> QED
    BY <1>1, <1>2, <1>3, PTL DEF Spec, Display!Spec
=============================================================================
