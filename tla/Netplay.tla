------------------------------- MODULE Netplay -------------------------------
(***************************************************************************)
(* The lockstep input link of src/src/arcade_input.cpp and the host loop   *)
(* of src/src/main.cpp that drives it.                                     *)
(*                                                                         *)
(* Two cabinets simulate the same board.  Each publishes its controls for  *)
(* a frame `Delay' ahead of the one it is about to run, files what the     *)
(* peer publishes in a ring of `Ring' slots, and runs a frame only with    *)
(* both inputs.  A datagram may be lost, duplicated or overtaken.  While a *)
(* cabinet has not heard its partner the host polls the link, which also   *)
(* publishes; a cabinet that waits in vain declares its partner lost and   *)
(* the host closes the application.                                        *)
(*                                                                         *)
(* Time is not modelled: the one-second wait is a choice (GiveUp) that,    *)
(* when Patient, is only made once nothing else could still happen.        *)
(***************************************************************************)
EXTENDS Integers, FiniteSets

CONSTANTS
    Inputs,        \* the values of input_state
    Neutral,       \* input_state{}
    Controls,      \* Controls[f]: what players may hold at the exchange of f
    Delay,         \* netplay_delay_frames
    Ring,          \* netplay_ring
    AgeLimit,      \* exchanges without a packet after which the peer is gone
    Patient,       \* the one-second wait outlasts every live partner
    QuitBefore,    \* bound: a player closes only before this frame, 0 never
    MaxFrame,      \* bound: frames a cabinet runs
    MaxPolls,      \* bound: announcements a waiting cabinet sends
    MaxLoss,       \* bound: datagrams lost
    MaxDup,        \* bound: datagrams delivered twice
    MaxLate,       \* bound: datagrams delivered ahead of an older one
    MaxMenus       \* bound: times the pause menu opens

ASSUME NetplayAssumption ==
    /\ Neutral \in Inputs
    /\ DOMAIN Controls = 0..(MaxFrame - 1)
    /\ \A f \in DOMAIN Controls : Controls[f] \in (SUBSET Inputs) \ {{}}
    /\ Delay \in Nat \ {0}
    /\ Ring \in Nat /\ 2 * Delay + 2 < Ring
    /\ AgeLimit \in Nat /\ 2 * Delay + 3 < AgeLimit
    /\ Patient \in BOOLEAN
    /\ QuitBefore \in Nat
    /\ MaxFrame \in Nat /\ MaxPolls \in Nat
    /\ MaxLoss \in Nat /\ MaxDup \in Nat /\ MaxLate \in Nat /\ MaxMenus \in Nat

Node == 1..2
Peer(n) == 3 - n
Slots == 0..(Ring - 1)
(* Slip: the ring is as short as the delay. *)
SlotShort(f) == f % (Delay + 1)
(* The slot of a frame in either ring. *)
Slot(f) == f % Ring

Packet == [seq : Nat, frame : Nat, state : Inputs]

VARIABLES
    frame,     \* m_netplay_frame: the frame about to run
    local,     \* m_netplay_local: own published inputs by slot
    peerIn,    \* m_netplay_peer: the peer's inputs by slot
    known,     \* m_netplay_peer_known
    peerFrame, \* m_netplay_peer_frame: highest frame filed
    seq,       \* m_network_sequence
    peerSeq,   \* m_network_peer_sequence, 0 before the first packet
    age,       \* m_network_peer_age, capped at AgeLimit
    everSeen,  \* m_netplay_peer_ever_seen
    seen,      \* network_peer_seen
    stalled,   \* g_netplay_stalled
    lost,      \* g_netplay_peer_lost
    pc,        \* where the host thread is
    got,       \* received_peer of the drain in progress
    menu,      \* the two flags the video thread publishes: see Paused
    closed,    \* the application has exited
    net,       \* datagrams on their way to a node
    budget,    \* faults and menu openings left
    pub,       \* history: <<frame, input>> pairs published
    played,    \* history: <<frame, own input, peer input>> of each frame run
    strayed    \* history: the board ran a frame outside the lockstep

linkVars == <<frame, local, peerIn, known, peerFrame, seq, peerSeq, age,
              everSeen>>
flagVars == <<seen, stalled, lost>>
hostVars == <<pc, got, menu, closed>>
histVars == <<pub, played, strayed>>
vars == <<linkVars, flagVars, hostVars, net, budget, histVars>>

(* The video thread stores settings_visible before paused, on the way up   *)
(* and on the way down, so the pair passes through two mixed states.       *)
Suppressed(n) == menu[n] \in {"opening", "open"}
Paused(n) == menu[n] \in {"open", "closing"}

(* netplay_waiting in the host loop *)
Waiting(n) == stalled[n] \/ ~seen[n]

(* Slip: the loss of the partner is not looked at. *)
RunningDeaf(n) == ~closed[n]
(* The host loop goes on until its partner is lost. *)
Running(n) == ~closed[n] /\ ~lost[n]

(* Frames nobody publishes, known from the start to be neutral. *)
Seeded(f) == f < Delay

(* publish_frame of send_link_packet *)
PublishFrame(n) == frame[n] + Delay

(* Slip: the board runs without waiting for the partner. *)
ArrivedUnasked(n) == frame[n] >= 0
(* m_netplay_peer_known for the frame about to run *)
Arrived(n) == known[n][Slot(frame[n])]

(* Slip: the slot is left known after its frame is consumed. *)
ConsumedNot(n) == known
(* The slot of the frame just run, forgotten. *)
Consumed(n) == [known EXCEPT ![n][Slot(frame[n])] = FALSE]

(* Slip: running out of time is not a lost partner. *)
TimedOutQuietly(n) == lost[n]
(* A wait that ran out, for a partner that had been there. *)
TimedOut(n) == lost[n] \/ everSeen[n]

(* Slip: the age has no ceiling. *)
OlderUncapped(a) == a + 1
(* One more exchange without a packet. *)
Older(a) == IF a < AgeLimit THEN a + 1 ELSE a

(* Slip: a partner that was never there counts as gone. *)
GoneUnseen(n, a) == a = AgeLimit
(* The partner was there and has been silent for too long. *)
Gone(n, a) == everSeen[n] /\ a = AgeLimit

TypeOK ==
    /\ frame \in [Node -> Nat]
    /\ local \in [Node -> [Slots -> Inputs]]
    /\ peerIn \in [Node -> [Slots -> Inputs]]
    /\ known \in [Node -> [Slots -> BOOLEAN]]
    /\ peerFrame \in [Node -> Nat]
    /\ seq \in [Node -> Nat]
    /\ peerSeq \in [Node -> Nat]
    /\ age \in [Node -> 0..AgeLimit]
    /\ everSeen \in [Node -> BOOLEAN]
    /\ seen \in [Node -> BOOLEAN]
    /\ stalled \in [Node -> BOOLEAN]
    /\ lost \in [Node -> BOOLEAN]
    /\ pc \in [Node -> {"host", "poll", "frame", "exchange", "wait"}]
    /\ got \in [Node -> BOOLEAN]
    /\ menu \in [Node -> {"off", "opening", "open", "closing"}]
    /\ closed \in [Node -> BOOLEAN]
    /\ net \in [Node -> SUBSET Packet]
    /\ budget \in [loss : Nat, dup : Nat, late : Nat, menu : Nat]
    /\ pub \in [Node -> SUBSET (Nat \X Inputs)]
    /\ played \in [Node -> SUBSET (Nat \X Inputs \X Inputs)]
    /\ strayed \in [Node -> BOOLEAN]

Init ==
    /\ frame = [n \in Node |-> 0]
    /\ local = [n \in Node |-> [s \in Slots |-> Neutral]]
    /\ peerIn = [n \in Node |-> [s \in Slots |-> Neutral]]
    /\ known = [n \in Node |-> [s \in Slots |-> Seeded(s)]]
    /\ peerFrame = [n \in Node |-> 0]
    /\ seq = [n \in Node |-> 0]
    /\ peerSeq = [n \in Node |-> 0]
    /\ age = [n \in Node |-> AgeLimit]
    /\ everSeen = [n \in Node |-> FALSE]
    /\ seen = [n \in Node |-> FALSE]
    /\ stalled = [n \in Node |-> FALSE]
    /\ lost = [n \in Node |-> FALSE]
    /\ pc = [n \in Node |-> "host"]
    /\ got = [n \in Node |-> FALSE]
    /\ menu = [n \in Node |-> "off"]
    /\ closed = [n \in Node |-> FALSE]
    /\ net = [n \in Node |-> {}]
    /\ budget = [loss |-> MaxLoss, dup |-> MaxDup, late |-> MaxLate,
                 menu |-> MaxMenus]
    /\ pub = [n \in Node |-> {}]
    /\ played = [n \in Node |-> {}]
    /\ strayed = [n \in Node |-> FALSE]

------------------------------------------------------------------------------
(* send_link_packet: publish the controls for the frame Delay ahead.  A    *)
(* closed application no longer holds its socket.                          *)
Send(n, input) ==
    LET f == PublishFrame(n)
        packet == [seq |-> seq[n] + 1, frame |-> f, state |-> input]
    IN  /\ seq' = [seq EXCEPT ![n] = @ + 1]
        /\ local' = [local EXCEPT ![n][Slot(f)] = input]
        /\ pub' = [pub EXCEPT ![n] = @ \cup {<<f, input>>}]
        /\ net' = IF closed[Peer(n)] THEN net
                  ELSE [net EXCEPT ![Peer(n)] = @ \cup {packet}]

(* Bound: of the announcements before the first frame, those beyond        *)
(* MaxPolls are not heard, nor those after the first of a stall.           *)
Announces(n) ==
    seq[n] < MaxPolls + (IF stalled[n] THEN frame[n] + 2 ELSE 0)

(* The host loop found its partner missing and pumps the link; poll_link   *)
(* announces itself with m_state, which no update() has touched yet.       *)
PollSend(n) ==
    /\ pc[n] = "host" /\ Running(n)
    /\ Waiting(n)
    /\ IF Announces(n) THEN Send(n, Neutral)
       ELSE UNCHANGED <<seq, local, pub, net>>
    /\ pc' = [pc EXCEPT ![n] = "poll"]
    /\ got' = [got EXCEPT ![n] = FALSE]
    /\ UNCHANGED <<frame, peerIn, known, peerFrame, peerSeq, age, everSeen,
                   flagVars, menu, closed, budget, played, strayed>>

(* poll_link after the drain. *)
PollEnd(n) ==
    /\ pc[n] = "poll"
    /\ pc' = [pc EXCEPT ![n] = "host"]
    /\ IF got[n]
       THEN /\ age' = [age EXCEPT ![n] = 0]
            /\ everSeen' = [everSeen EXCEPT ![n] = TRUE]
            /\ seen' = [seen EXCEPT ![n] = TRUE]
            /\ UNCHANGED lost
       ELSE /\ age' = [age EXCEPT ![n] = Older(@)]
            /\ lost' = [lost EXCEPT ![n] = @ \/ Gone(n, Older(age[n]))]
            /\ seen' = [seen EXCEPT ![n] = @ /\ ~Gone(n, Older(age[n]))]
            /\ UNCHANGED everSeen
    /\ UNCHANGED <<frame, local, peerIn, known, peerFrame, seq, peerSeq,
                   stalled, got, menu, closed, net, budget, histVars>>

(* The host loop read paused = false and goes on to run_frame. *)
BeginFrame(n) ==
    /\ pc[n] = "host" /\ Running(n)
    /\ ~Waiting(n) /\ ~Paused(n)
    /\ frame[n] < MaxFrame
    /\ pc' = [pc EXCEPT ![n] = "frame"]
    /\ UNCHANGED <<linkVars, flagVars, got, menu, closed, net, budget,
                   histVars>>

(* run_frame with the controls suppressed: update() returns before the     *)
(* exchange and the board runs on input_state{}.                           *)
SuppressedFrame(n) ==
    /\ pc[n] = "frame" /\ Suppressed(n)
    /\ pc' = [pc EXCEPT ![n] = "host"]
    /\ strayed' = [strayed EXCEPT ![n] = TRUE]
    /\ UNCHANGED <<linkVars, flagVars, got, menu, closed, net, budget, pub,
                   played>>

(* update() reads the controls and exchange_network_input sends them. *)
FrameSend(n) ==
    /\ pc[n] = "frame" /\ ~Suppressed(n)
    /\ \E input \in Controls[frame[n]] : Send(n, input)
    /\ pc' = [pc EXCEPT ![n] = "exchange"]
    /\ got' = [got EXCEPT ![n] = FALSE]
    /\ UNCHANGED <<frame, peerIn, known, peerFrame, peerSeq, age, everSeen,
                   flagVars, menu, closed, budget, played, strayed>>

(* exchange_network_input between the drain and the lockstep: age the peer *)
(* and decide whether it is still connected.                               *)
ExchangeEnd(n) ==
    /\ pc[n] = "exchange"
    /\ LET older == IF got[n] THEN age[n] ELSE Older(age[n])
           connected == older < AgeLimit
       IN  /\ age' = [age EXCEPT ![n] = older]
           /\ everSeen' = [everSeen EXCEPT ![n] = @ \/ connected]
           /\ seen' = [seen EXCEPT ![n] = connected]
           /\ lost' = [lost EXCEPT ![n] = @ \/ (everSeen[n] /\ ~connected)]
           /\ pc' = [pc EXCEPT ![n] = IF connected THEN "wait" ELSE "host"]
           /\ strayed' = [strayed EXCEPT ![n] = @ \/ ~connected]
    /\ UNCHANGED <<frame, local, peerIn, known, peerFrame, seq, peerSeq,
                   stalled, got, menu, closed, net, budget, pub, played>>

(* The peer's input for the frame is there: consume it and run the board.  *)
Play(n) ==
    LET s == Slot(frame[n])
    IN  /\ pc[n] = "wait" /\ Arrived(n)
        /\ known' = Consumed(n)
        /\ frame' = [frame EXCEPT ![n] = @ + 1]
        /\ stalled' = [stalled EXCEPT ![n] = FALSE]
        /\ played' = [played EXCEPT ![n] =
                        @ \cup {<<frame[n], local[n][s], peerIn[n][s]>>}]
        /\ pc' = [pc EXCEPT ![n] = "host"]
        /\ UNCHANGED <<local, peerIn, peerFrame, seq, peerSeq, age, everSeen,
                       seen, lost, got, menu, closed, net, budget, pub,
                       strayed>>

(* The peer will not send again without hearing from n: it has exited, is  *)
(* paused at the top of its loop, waits itself, or has reached a bound.    *)
Silent(m) ==
    \/ closed[m]
    \/ pc[m] = "host" /\ (Paused(m) \/ frame[m] = MaxFrame)
    \/ pc[m] = "wait" /\ ~Arrived(m) /\ net[m] = {}
    \/ Waiting(m) /\ ~got[m] /\ seq[m] >= MaxPolls /\ net[m] = {}

(* wait_for_peer_frame ran out of time; update() returns and run_frame     *)
(* still runs the board, on the local input alone.                         *)
GiveUp(n) ==
    /\ pc[n] = "wait" /\ ~Arrived(n)
    /\ Patient => net[n] = {} /\ Silent(Peer(n))
    /\ lost' = [lost EXCEPT ![n] = TimedOut(n)]
    /\ stalled' = [stalled EXCEPT ![n] = TRUE]
    /\ strayed' = [strayed EXCEPT ![n] = TRUE]
    /\ pc' = [pc EXCEPT ![n] = "host"]
    /\ UNCHANGED <<linkVars, seen, got, menu, closed, net, budget, pub,
                   played>>

(* The host loop notices the lost partner and closes the application. *)
HostExit(n) ==
    /\ pc[n] = "host" /\ ~closed[n] /\ lost[n]
    /\ closed' = [closed EXCEPT ![n] = TRUE]
    /\ net' = [net EXCEPT ![n] = {}]
    /\ UNCHANGED <<linkVars, flagVars, pc, got, menu, budget, histVars>>

(* The player closes the window: process_events ends the loop. *)
Quit(n) ==
    /\ frame[n] < QuitBefore
    /\ pc[n] = "host" /\ ~closed[n]
    /\ closed' = [closed EXCEPT ![n] = TRUE]
    /\ net' = [net EXCEPT ![n] = {}]
    /\ UNCHANGED <<linkVars, flagVars, pc, got, menu, budget, histVars>>

------------------------------------------------------------------------------
(* drain_network_input on one datagram.  Only a sequence number above the  *)
(* last one accepted is filed; the slot is the packet's frame.             *)
(* Slip: a packet that was overtaken or copied is filed again. *)
FreshAlways(n, p) == p.seq > 0
Fresh(n, p) == peerSeq[n] = 0 \/ p.seq > peerSeq[n]

Filed(n, p) ==
    /\ peerIn' = [peerIn EXCEPT ![n][Slot(p.frame)] = p.state]
    /\ known' = [known EXCEPT ![n][Slot(p.frame)] = TRUE]
    /\ peerFrame' = [peerFrame EXCEPT ![n] =
                        IF p.frame > @ THEN p.frame ELSE @]
    /\ peerSeq' = [peerSeq EXCEPT ![n] = p.seq]
    /\ age' = [age EXCEPT ![n] = 0]
    /\ got' = [got EXCEPT ![n] = TRUE]

Handle(n, p) ==
    /\ pc[n] \in {"poll", "exchange", "wait"}
    /\ IF Fresh(n, p) THEN Filed(n, p)
       ELSE UNCHANGED <<peerIn, known, peerFrame, peerSeq, age, got>>
    /\ UNCHANGED <<frame, local, seq, everSeen, flagVars, pc, menu, closed,
                   histVars>>

Oldest(n, p) == \A q \in net[n] : p.seq <= q.seq

Recv(n) ==
    \E p \in net[n] :
        /\ Oldest(n, p)
        /\ Handle(n, p)
        /\ net' = [net EXCEPT ![n] = @ \ {p}]
        /\ UNCHANGED budget

(* A datagram overtakes an older one. *)
RecvLate(n) ==
    \E p \in net[n] :
        /\ budget.late > 0 /\ ~Oldest(n, p)
        /\ Handle(n, p)
        /\ net' = [net EXCEPT ![n] = @ \ {p}]
        /\ budget' = [budget EXCEPT !.late = @ - 1]

(* A second copy stays behind.  With one instance per computer the packet  *)
(* also reaches a second local instance by loopback and by broadcast.      *)
RecvDup(n) ==
    \E p \in net[n] :
        /\ budget.dup > 0 /\ Oldest(n, p)
        /\ Handle(n, p)
        /\ budget' = [budget EXCEPT !.dup = @ - 1]
        /\ UNCHANGED net

Lose(n) ==
    \E p \in net[n] :
        /\ budget.loss > 0
        /\ net' = [net EXCEPT ![n] = @ \ {p}]
        /\ budget' = [budget EXCEPT !.loss = @ - 1]
        /\ UNCHANGED <<linkVars, flagVars, hostVars, histVars>>

(* harvest_frontend publishes the pause menu's two flags one at a time.    *)
MenuStep(n, from, to) ==
    /\ menu[n] = from
    /\ menu' = [menu EXCEPT ![n] = to]
    /\ UNCHANGED <<linkVars, flagVars, pc, got, closed, net, histVars>>

ShowSettings(n) ==
    /\ budget.menu > 0 /\ ~closed[n]
    /\ MenuStep(n, "off", "opening")
    /\ budget' = [budget EXCEPT !.menu = @ - 1]
ShowPaused(n) == MenuStep(n, "opening", "open") /\ UNCHANGED budget
HideSettings(n) == MenuStep(n, "open", "closing") /\ UNCHANGED budget
HidePaused(n) == MenuStep(n, "closing", "off") /\ UNCHANGED budget

(* Nothing is left to do within the bounds. *)
Done ==
    /\ \A n \in Node : \/ closed[n]
                       \/ pc[n] = "host" /\ frame[n] = MaxFrame /\ ~lost[n]
    /\ UNCHANGED vars

Host(n) ==
    \/ PollSend(n) \/ PollEnd(n)
    \/ BeginFrame(n) \/ SuppressedFrame(n) \/ FrameSend(n)
    \/ ExchangeEnd(n) \/ Play(n) \/ GiveUp(n) \/ HostExit(n)

Next ==
    \/ \E n \in Node :
        \/ Host(n) \/ Quit(n)
        \/ Recv(n) \/ RecvLate(n) \/ RecvDup(n) \/ Lose(n)
        \/ ShowSettings(n) \/ ShowPaused(n) \/ HideSettings(n) \/ HidePaused(n)
    \/ Done

Spec == Init /\ [][Next]_vars

(* The host thread of a running process is scheduled, the video thread     *)
(* finishes a flag update it began, and a datagram that is on its way to a *)
(* socket drained again and again is eventually read from it.  No player   *)
(* is obliged to open, or to close, the menu.                              *)
FairSpec ==
    /\ Spec
    /\ \A n \in Node : /\ WF_vars(Host(n))
                       /\ SF_vars(Recv(n))
                       /\ WF_vars(ShowPaused(n)) /\ WF_vars(HidePaused(n))

------------------------------------------------------------------------------
(* Frames whose input can only come from one publication: the announcement *)
(* and the exchange of frame 0 both publish frame Delay, so its slot is    *)
(* left out here and has statements of its own below.                      *)
Single(f) == Slot(f) # Slot(Delay)

(* What "publishing" covers: the seeded frames, and whatever n sent.       *)
Published(n, f, input) ==
    IF Seeded(f) THEN input = Neutral ELSE <<f, input>> \in pub[n]

(* p is a frame n ran, with its own input and its partner's.               *)
RanOwn(n, p) ==
    Published(n, p[1], p[2]) /\ Published(Peer(n), p[1], p[3])

(* A board that ran frame f ran it with exactly the two inputs published   *)
(* for frame f: no slot is overwritten before it is read or read a lap     *)
(* late, whatever is lost, copied or overtaken.                            *)
OwnFrameInput ==
    \A n \in Node : \A p \in played[n] : Single(p[1]) => RanOwn(n, p)

(* Two boards that both ran a frame merged the same pair of inputs.        *)
SameMerge(f) ==
    \A p \in played[1], q \in played[2] :
        p[1] = f /\ q[1] = f => p[2] = q[3] /\ p[3] = q[2]
Agreement == \A f \in 0..MaxFrame : Single(f) => SameMerge(f)

(* A board is never more than the delay and one frame ahead of the other,  *)
(* and one more only by running a frame that shares the slot of frame      *)
(* Delay: the lockstep window, which the ring must hold twice over.        *)
Lead ==
    \A n \in Node :
        /\ frame[n] <= frame[Peer(n)] + Delay + 2
        /\ Single(frame[n] - 1) => frame[n] <= frame[Peer(n)] + Delay + 1

(* A board that ran a frame outside the lockstep belongs to a session that *)
(* has ended: it never goes on as if it were in step.                      *)
NoSilentDrift == \A n \in Node : strayed[n] => lost[n]

(* A partner is declared lost only when it has closed.                     *)
NoFalseLoss == \A n \in Node : lost[n] => closed[Peer(n)]

(* After the partner is declared lost nothing revives the session: no      *)
(* frame is run, nothing is published.                                     *)
LostIsFinal ==
    [][\A n \in Node : lost[n] =>
          /\ lost'[n] /\ frame'[n] = frame[n]
          /\ seq'[n] = seq[n] /\ played'[n] = played[n]]_vars

(* When one application closes, the other, if it was ever connected and is *)
(* not left in the pause menu or at the frame bound, closes too.           *)
CloseTogether ==
    \A n \in Node :
        closed[n] /\ everSeen[Peer(n)] ~>
            \/ closed[Peer(n)] \/ Paused(Peer(n))
            \/ frame[Peer(n)] = MaxFrame

------------------------------------------------------------------------------
(* Read through its histories the link is the abstract lockstep: the log   *)
(* of a player is what it published, frame by frame, and its board went    *)
(* through the pairs it played, player 1 first.                            *)
LogOf(n) ==
    [k \in 1..(Delay + Cardinality(pub[n])) |->
        IF Seeded(k - 1) THEN Neutral
        ELSE CHOOSE input \in Inputs : <<k - 1, input>> \in pub[n]]

BoardOf(n) ==
    [k \in 1..frame[n] |->
        LET p == CHOOSE q \in played[n] : q[1] = k - 1
        IN  IF n = 1 THEN <<p[2], p[3]>> ELSE <<p[3], p[2]>>]

Abstract == INSTANCE Lockstep WITH
    log <- [n \in Node |-> LogOf(n)], board <- [n \in Node |-> BoardOf(n)]

(* On a network that delivers in order, with players at rest at frame 0    *)
(* and within a lap of the ring, the link behaves as the abstract lockstep *)
(* promises and no board is held up for good.                              *)
ImplementsLiveLockstep == Abstract!FairSpec
=============================================================================
