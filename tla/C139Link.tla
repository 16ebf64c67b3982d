------------------------------ MODULE C139Link ------------------------------
(* The serial link of two System 22 cabinets: the C139 registers of each bus, *)
(* the UDP transport that carries the frames, and the games, which write and  *)
(* acknowledge.  The words of a frame are its run and number and whether the  *)
(* game had finished writing it.  The interrupt that a cause raises is in     *)
(* System22Board, with the other sources of the controller.                   *)
EXTENDS Integers, Sequences, FiniteSets

CONSTANTS
    Receivers,      \* the cabinets that packets reach: both, or one direction of the link
    Silence,        \* exchanges without a packet before the link is down: 180
    MaxExchanges,   \* bound: exchanges of one run of a cabinet
    MaxLinkEvents   \* bound: frames written, cabinets closed and started again, packets lost,
                    \* overtaken or from another pair

ASSUME C139Assumption ==
    /\ Receivers \subseteq {1, 2} /\ Silence \in Nat \ {0} /\ MaxExchanges \in Nat
    /\ MaxLinkEvents \in Nat

VARIABLES
    cOn,            \* the session of the cabinet runs, its link is enabled
    cRun,           \* how often the cabinet was started
    cStatus,        \* m_c139_status: a set of causes
    cFifo,          \* the frame in the TX part of m_sci_ram
    cPending,       \* m_c139_transmit_pending
    cSequence,      \* m_sequence
    cLast,          \* m_last_peer_sequence
    cSilent,        \* m_tick - m_last_peer_tick
    cLinked,        \* m_linked
    cWire,          \* external: packets on their way to the socket of the cabinet, or in it
    cFrames,        \* external: frames the games have written
    cFaults,        \* external: what went wrong on the wire
    cHeard,         \* newest frame received since the link came up
    cUnread,        \* a frame was received that the game has not acknowledged
    cDeaf           \* exchanges that refused all the peer's present run sent

cboard == << cStatus, cFifo, cPending >>
ctransport == << cSequence, cLast, cSilent, cLinked >>
cnet == << cWire, cFaults >>
cseen == << cHeard, cUnread, cDeaf >>
cvars == << cOn, cRun, cFrames, cboard, ctransport, cnet, cseen >>

LinkedCabinets == {1, 2}
Peer(c) == 3 - c
NoFrame == [run |-> 0, number |-> 0, whole |-> TRUE]

C139Init ==
    /\ cOn = [c \in LinkedCabinets |-> FALSE] /\ cRun = [c \in LinkedCabinets |-> 0]
    /\ cStatus = [c \in LinkedCabinets |-> {"ready"}]
    /\ cFifo = [c \in LinkedCabinets |-> NoFrame] /\ cPending = [c \in LinkedCabinets |-> FALSE]
    /\ cSequence = [c \in LinkedCabinets |-> 0] /\ cLast = [c \in LinkedCabinets |-> 0]
    /\ cSilent = [c \in LinkedCabinets |-> 0] /\ cLinked = [c \in LinkedCabinets |-> FALSE]
    /\ cWire = [c \in LinkedCabinets |-> << >>]
    /\ cFrames = 0 /\ cFaults = 0
    /\ cHeard = [c \in LinkedCabinets |-> NoFrame] /\ cUnread = [c \in LinkedCabinets |-> FALSE]
    /\ cDeaf = [c \in LinkedCabinets |-> 0]

-----------------------------------------------------------------------------
(* A cabinet is started, or closed and started again: bus and transport are   *)
(* new, and so is the socket, which has missed some packets.  The port may be *)
(* taken or the launch single: then the link stays disabled and nothing of    *)
(* this module runs in the cabinet.                                          *)
Restarts == cRun[1] + cRun[2] - Cardinality({c \in LinkedCabinets : cOn[c]})
MayHappen == cFrames + Restarts + cFaults < MaxLinkEvents
StartCabinet(c) ==
    /\ cOn[c] => MayHappen
    /\ cOn' = [cOn EXCEPT ![c] = TRUE] /\ cRun' = [cRun EXCEPT ![c] = @ + 1]
    /\ cStatus' = [cStatus EXCEPT ![c] = {"ready"}]
    /\ cFifo' = [cFifo EXCEPT ![c] = NoFrame] /\ cPending' = [cPending EXCEPT ![c] = FALSE]
    /\ cSequence' = [cSequence EXCEPT ![c] = 0] /\ cLast' = [cLast EXCEPT ![c] = 0]
    /\ cSilent' = [cSilent EXCEPT ![c] = 0] /\ cLinked' = [cLinked EXCEPT ![c] = FALSE]
    /\ \E missed \in 0..Len(cWire[c]) :
           cWire' = [cWire EXCEPT ![c] = SubSeq(@, missed + 1, Len(@))]
    /\ cHeard' = [cHeard EXCEPT ![c] = NoFrame] /\ cUnread' = [cUnread EXCEPT ![c] = FALSE]
    /\ cDeaf' = [x \in LinkedCabinets |-> 0]
    /\ UNCHANGED << cFrames, cFaults >>

-----------------------------------------------------------------------------
(* The registers, as the game uses them. *)

cgame == << cOn, cRun, cHeard, cDeaf >>

(* A write of 1 to the TX control takes back a frame not sent yet; the FIFO  *)
(* is being filled from there on.  A write of 3 hands it over.               *)
TakenBackSlip(pending) == pending
TakenBack(pending) == FALSE
OpenFifo(c) ==
    /\ cOn[c] /\ MayHappen /\ Peer(c) \in Receivers
    /\ cPending' = [cPending EXCEPT ![c] = TakenBack(@)]
    /\ cFrames' = cFrames + 1
    /\ cFifo' = [cFifo EXCEPT ![c] = [run |-> cRun[c], number |-> cFrames + 1, whole |-> FALSE]]
    /\ UNCHANGED << cStatus, cUnread >>
    /\ UNCHANGED cgame /\ UNCHANGED ctransport /\ UNCHANGED cnet
HandOver(c) ==
    /\ cOn[c] /\ ~cFifo[c].whole
    /\ cFifo' = [cFifo EXCEPT ![c].whole = TRUE] /\ cPending' = [cPending EXCEPT ![c] = TRUE]
    /\ UNCHANGED << cStatus, cUnread, cFrames >>
    /\ UNCHANGED cgame /\ UNCHANGED ctransport /\ UNCHANGED cnet

(* A write to RX Status acknowledges, as the interrupt routine does after it *)
(* has found the cause there.                                                *)
AcknowledgeStatus(c) ==
    /\ cOn[c] /\ cStatus[c] # {}
    /\ cStatus' = [cStatus EXCEPT ![c] = {}] /\ cUnread' = [cUnread EXCEPT ![c] = FALSE]
    /\ UNCHANGED << cFifo, cPending, cFrames >>
    /\ UNCHANGED cgame /\ UNCHANGED ctransport /\ UNCHANGED cnet
(* signal_vblank: the ready cause, unless a frame or its sync is waiting. *)
ReadySlip(status) == {"ready"}
Ready(status) == IF status \cap {"sync", "received"} = {} THEN status \cup {"ready"} ELSE status

-----------------------------------------------------------------------------
(* exchange, at the end of a frame, and signal_vblank, with which the next    *)
(* frame begins before the game runs.                                        *)

PacketOf(c) == [node |-> c, run |-> cRun[c], sequence |-> cSequence[c] + 1,
                frame |-> IF cPending[c] THEN << cFifo[c] >> ELSE << >>]

Accepts(c, last, p) == p.node # c /\ (last = 0 \/ p.sequence - last > 0)

(* What the drain loop accepts of the packets in the socket, by their places:  *)
(* each must also be newer than those of the peer before it.                 *)
AcceptedOf(c, packets) ==
    { i \in DOMAIN packets :
        /\ Accepts(c, cLast[c], packets[i])
        /\ \A j \in 1..(i - 1) : packets[j].node # c => Accepts(c, packets[j].sequence, packets[i]) }
Newest(places) == CHOOSE i \in places : \A j \in places : j <= i

(* receive_c139_frame of the frames in the order accepted. *)
Receive(c, framed) ==
    IF framed = {}
    THEN cStatus' = [cStatus EXCEPT ![c] = Ready(@)] /\ UNCHANGED cUnread
    ELSE /\ cStatus' = [cStatus EXCEPT ![c] = Ready((@ \ {"sync"}) \cup {"received"})]
         /\ cUnread' = [cUnread EXCEPT ![c] = TRUE]

(* A link that was up and is silent for too long is down, and the next packet *)
(* is taken whatever its number.                                             *)
ForgottenSlip(last) == last
Forgotten(last) == 0
Down(c, silent) == cLinked[c] /\ silent > Silence

Exchange(c, arrived) ==
    /\ cOn[c] /\ cSequence[c] < MaxExchanges
    /\ cSequence' = [cSequence EXCEPT ![c] = @ + 1]
    /\ cWire' = [cWire EXCEPT ![Peer(c)] = IF Peer(c) \in Receivers
                                               THEN Append(@, PacketOf(c)) ELSE @,
                              ![c] = SubSeq(@, arrived + 1, Len(@))]
    /\ cPending' = [cPending EXCEPT ![c] = FALSE]
    /\ LET packets == SubSeq(cWire[c], 1, arrived)
           accepted == AcceptedOf(c, packets)
           framed == { i \in accepted : packets[i].frame # << >> }
           silent == IF accepted # {} THEN 0 ELSE IF cLinked[c] THEN cSilent[c] + 1 ELSE 0
           down == Down(c, silent)
       IN /\ Receive(c, framed)
          /\ cSilent' = [cSilent EXCEPT ![c] = IF down THEN 0 ELSE silent]
          /\ cLinked' = [cLinked EXCEPT ![c] = (@ \/ accepted # {}) /\ ~down]
          /\ cLast' = [cLast EXCEPT ![c] = IF down THEN Forgotten(@)
                                           ELSE IF accepted # {} THEN packets[Newest(accepted)].sequence ELSE @]
          /\ cHeard' = [cHeard EXCEPT ![c] = IF down THEN NoFrame
                                             ELSE IF framed # {} THEN packets[Newest(framed)].frame[1] ELSE @]
          /\ cDeaf' = [cDeaf EXCEPT ![c] =
                 IF accepted # {} THEN 0
                 ELSE IF \E i \in DOMAIN packets : /\ packets[i].node = Peer(c)
                                                  /\ packets[i].run = cRun[Peer(c)]
                 THEN @ + 1 ELSE @]
    /\ UNCHANGED << cOn, cRun, cFrames, cFifo, cFaults >>

-----------------------------------------------------------------------------
(* UDP: packets arrive in order unless overtaken, or are lost.  Another pair  *)
(* on the network may have a cabinet of the same number.                     *)
cstill == << cOn, cRun, cFrames, cboard, ctransport, cseen >>
Overtake(c) ==
    /\ Len(cWire[c]) > 1 /\ MayHappen /\ cFaults' = cFaults + 1
    /\ cWire' = [cWire EXCEPT ![c] = << @[2], @[1] >> \o SubSeq(@, 3, Len(@))]
    /\ UNCHANGED cstill
LosePacket(c) ==
    /\ cWire[c] # << >> /\ MayHappen /\ cFaults' = cFaults + 1
    /\ cWire' = [cWire EXCEPT ![c] = Tail(@)]
    /\ UNCHANGED cstill
Namesake(c) ==
    /\ cOn[c] /\ c \in Receivers /\ MayHappen /\ cFaults' = cFaults + 1
    /\ cWire' = [cWire EXCEPT ![c] =
                    Append(@, [node |-> c, run |-> 0, sequence |-> MaxExchanges,
                               frame |-> << [NoFrame EXCEPT !.number = 1] >>])]
    /\ UNCHANGED cstill

C139Next ==
    \E c \in LinkedCabinets :
       \/ StartCabinet(c)
       \/ OpenFifo(c) \/ HandOver(c) \/ AcknowledgeStatus(c)
       \/ \E arrived \in 0..Len(cWire[c]) : Exchange(c, arrived)
       \/ Overtake(c) \/ LosePacket(c) \/ Namesake(c)
C139Spec == C139Init /\ [][C139Next]_cvars

-----------------------------------------------------------------------------
(* No frame travels that the game has not finished writing. *)
WholeFrames == \A c \in LinkedCabinets : cHeard[c].whole

(* A received frame stays announced until the game acknowledges it ("left     *)
(* intact until the game acknowledges RX Status").                           *)
FrameAnnounced == \A c \in LinkedCabinets : cOn[c] /\ cUnread[c] => "received" \in cStatus[c]

(* A peer that was started again, and counts from one again, is not ignored   *)
(* for longer than the silence that takes the link down.                     *)
NotDeafForLong == \A c \in LinkedCabinets : cDeaf[c] <= Silence + 1
=============================================================================
