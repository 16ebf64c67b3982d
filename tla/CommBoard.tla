------------------------------- MODULE CommBoard -------------------------------
(***************************************************************************)
(* The communication boards of two linked Sega Model 2 cabinets            *)
(* (src/src/sega/model2/model2_bus.cpp), one per process, over UDP.        *)
(*                                                                         *)
(* A board's RAM is a ring of slots, one per station.  The game writes its *)
(* own state into slot 0.  Every vertical blank the board sends the slots  *)
(* from 0 on and stores what came from the partner one slot further, so    *)
(* that a state travels down the ring, one slot a hop.  A cabinet without  *)
(* a partner is a ring of its own (loopback) or has its cable cut.         *)
(***************************************************************************)
EXTENDS Integers, Sequences

CONSTANTS
    Slots,     \* slots sent; the RAM holds one more (8 and 9 in the code)
    Discovery, \* vertical blanks a loopback ring takes to link (0x00e8)
    Writers,   \* the cabinets whose game writes its state
    MaxWrites, \* bound: states written by each
    MaxResets, \* bound: resets, power cycles and CN switches, of both
    MaxFaults, \* bound: packets lost or overtaken
    MaxWire,   \* bound: packets on their way to a cabinet
    MaxInbox   \* bound: packets its socket has room for

Cabinets == 1..2
Other(n) == 3 - n

ASSUME CommBoardAssumption ==
    /\ Slots \in Nat \ {0} /\ Discovery \in Nat
    /\ Writers \subseteq Cabinets /\ MaxWrites \in Nat /\ MaxResets \in Nat /\ MaxFaults \in Nat
    /\ MaxWire \in Nat \ {0} /\ MaxInbox \in Nat \ {0}

VARIABLES
    mode,     \* what the launch asked of each cabinet
    power,    \* the process runs
    cn,       \* m_comm_cn
    fg,       \* m_comm_fg
    socket,   \* m_comm_socket is open
    seen,     \* m_comm_peer_seen
    linked,   \* m_comm_link_alive
    reported, \* m_comm_link_reported
    timer,    \* m_comm_link_timer
    status,   \* bytes 0, 2 and 3 of the RAM: linked, node, stations
    ram,      \* the slots of the RAM
    staging,  \* m_comm_loopback_frame, a sequence of at most one
    wire,     \* packets on their way to a cabinet
    inbox,    \* packets in its socket
    writes,   \* states its game has written
    resets,   \* resets so far
    faults,   \* faults so far
    since     \* history: states written before the board last started over

boardVars == <<cn, fg, seen, linked, reported, timer, status, ram,
               staging, since>>
netVars == <<socket, wire, inbox>>
vars == <<mode, power, boardVars, netVars, writes, resets, faults>>

(* What a launch asks of the cabinets: to be linked to each other, or each   *)
(* to be on its own, the first a ring of one and the second with no ring.    *)
Linked == [n \in Cabinets |-> "peer"]
Apart == [n \in Cabinets |-> IF n = 1 THEN "loopback" ELSE "cut"]
Modes == {Linked, Apart}

(* A state is told by the cabinet whose game wrote it and by its number.   *)
Blank == [by |-> 0, number |-> 0]
State == [by : 0..2, number : 0..2 * MaxWrites]
Sent == [0..Slots - 1 -> State]
NoRing == [linked |-> 0, node |-> 255, stations |-> 255]
Zeroed == [linked |-> 0, node |-> 0, stations |-> 0]
Packet == [by : Cabinets, slots : Sent]

(* The two views of the RAM, which overlap: what is sent ...               *)
Outgoing(r) == [k \in 0..Slots - 1 |-> r[k]]

(* ... and where a frame is stored.                                        *)
(* Slip: it is stored where it is sent from. *)
StoredInPlace(r, slots) ==
    [k \in 0..Slots |-> IF k = Slots THEN r[k] ELSE slots[k]]
(* Slip: a slot that comes empty is not stored. *)
StoredKnown(r, slots) ==
    [k \in 0..Slots |-> IF k = 0 \/ slots[k - 1] = Blank THEN r[k]
                        ELSE slots[k - 1]]
Stored(r, slots) == [k \in 0..Slots |-> IF k = 0 THEN r[k] ELSE slots[k - 1]]

Init ==
    /\ mode \in Modes
    /\ power = [n \in Cabinets |-> FALSE]
    /\ cn = [n \in Cabinets |-> 0] /\ fg = cn
    /\ socket = power /\ seen = power /\ linked = power /\ reported = power
    /\ timer = cn
    /\ status = [n \in Cabinets |-> Zeroed]
    /\ ram = [n \in Cabinets |-> [k \in 0..Slots |-> Blank]]
    /\ staging = [n \in Cabinets |-> <<>>]
    /\ since = cn
    /\ wire = [n \in Cabinets |-> <<>>] /\ inbox = wire
    /\ writes = cn /\ resets = 0 /\ faults = 0

------------------------------------------------------------------------------
(* m_comm_loopback_frame_valid is reset wherever the board starts over.    *)
(* Slip: it is not. *)
NotEmptied(n) == staging
Emptied(n) == [staging EXCEPT ![n] = <<>>]

(* initialize_comm_board: the RAM is filled with zeros, the search starts  *)
(* over and, with a partner, a socket is opened anew, which may fail.      *)
Initialized(n) ==
    /\ seen' = [seen EXCEPT ![n] = FALSE]
    /\ linked' = [linked EXCEPT ![n] = FALSE]
    /\ reported' = [reported EXCEPT ![n] = FALSE]
    /\ timer' = [timer EXCEPT ![n] = Discovery]
    /\ status' = [status EXCEPT ![n] = NoRing]
    /\ ram' = [ram EXCEPT ![n] = [k \in 0..Slots |-> Blank]]
    /\ staging' = Emptied(n)
    /\ since' = [since EXCEPT ![n] = writes[n]]
    /\ IF mode[n] = "peer"
       THEN \E opened \in BOOLEAN : socket' = [socket EXCEPT ![n] = opened]
       ELSE UNCHANGED socket
    /\ inbox' = [inbox EXCEPT ![n] = <<>>]

(* The reset of a board that has no partner leaves it off.                 *)
Cleared(n) ==
    /\ seen' = [seen EXCEPT ![n] = FALSE]
    /\ linked' = [linked EXCEPT ![n] = FALSE]
    /\ timer' = [timer EXCEPT ![n] = 0]
    /\ status' = [status EXCEPT ![n] = Zeroed]
    /\ ram' = [ram EXCEPT ![n] = [k \in 0..Slots |-> Blank]]
    /\ staging' = Emptied(n)
    /\ since' = [since EXCEPT ![n] = writes[n]]
    /\ UNCHANGED reported

(* The process starts, or the service menu restarts the board: a cabinet   *)
(* launched with a partner has its communication board on from the start.  *)
Restart(n) ==
    /\ resets < MaxResets \/ ~power[n]
    /\ resets' = IF power[n] THEN resets + 1 ELSE resets
    /\ power' = [power EXCEPT ![n] = TRUE]
    /\ cn' = [cn EXCEPT ![n] = IF mode[n] = "peer" THEN 1 ELSE 0]
    /\ fg' = [fg EXCEPT ![n] = 0]
    /\ IF mode[n] = "peer" THEN Initialized(n)
                           ELSE Cleared(n) /\ UNCHANGED <<socket, inbox>>
    /\ UNCHANGED <<mode, wire, writes, faults>>

(* The process ends, with its memory and its socket.                       *)
PowerOff(n) ==
    /\ power[n] /\ resets < MaxResets
    /\ resets' = resets + 1
    /\ power' = [power EXCEPT ![n] = FALSE]
    /\ cn' = [cn EXCEPT ![n] = 0] /\ fg' = [fg EXCEPT ![n] = 0]
    /\ Cleared(n)
    /\ socket' = [socket EXCEPT ![n] = FALSE]
    /\ inbox' = [inbox EXCEPT ![n] = <<>>]
    /\ UNCHANGED <<mode, wire, writes, faults>>

(* The game switches its communication board off ...                       *)
SwitchOff(n) ==
    /\ power[n] /\ cn[n] = 1 /\ resets < MaxResets
    /\ resets' = resets + 1
    /\ cn' = [cn EXCEPT ![n] = 0]
    /\ fg' = [fg EXCEPT ![n] = 0]
    /\ seen' = [seen EXCEPT ![n] = FALSE]
    /\ linked' = [linked EXCEPT ![n] = FALSE]
    /\ timer' = [timer EXCEPT ![n] = 0]
    /\ staging' = Emptied(n)
    /\ socket' = [socket EXCEPT ![n] = FALSE]
    /\ inbox' = [inbox EXCEPT ![n] = <<>>]
    /\ UNCHANGED <<mode, power, reported, status, ram, since, wire, writes,
                   faults>>

(* ... and on: the board is initialized.                                   *)
SwitchOn(n) ==
    /\ power[n] /\ cn[n] = 0
    /\ cn' = [cn EXCEPT ![n] = 1]
    /\ Initialized(n)
    /\ UNCHANGED <<mode, power, fg, wire, writes, resets, faults>>

(* FG selects the master of a ring; with a partner nothing depends on it.  *)
SelectMaster(n) ==
    /\ power[n] /\ mode[n] # "peer" /\ fg[n] = 0 /\ fg' = [fg EXCEPT ![n] = 1]
    /\ UNCHANGED <<mode, power, cn, seen, linked, reported, timer,
                   status, ram, staging, since, netVars, writes, resets,
                   faults>>

(* The game writes its next state.                                         *)
Write(n) ==
    /\ power[n] /\ n \in Writers /\ writes[n] < MaxWrites
    /\ writes' = [writes EXCEPT ![n] = @ + 1]
    /\ ram' = [ram EXCEPT ![n][0] = [by |-> n, number |-> writes'[n]]]
    /\ UNCHANGED <<mode, power, cn, fg, seen, linked, reported, timer,
                   status, staging, since, netVars, resets, faults>>

------------------------------------------------------------------------------
(* vblank with a partner: tick_comm_peer sends, drains the socket, of      *)
(* which the last frame stays, and links on the first packet.              *)
(* Slip: the sender's own packets are taken, the partner's left. *)
OwnOnly(n, p) == p.by = n
Foreign(n, p) == p.by # n

Heard(n) == {i \in 1..Len(inbox[n]) : Foreign(n, inbox[n][i])}

TickPeer(n) ==
    /\ power[n] /\ cn[n] = 1 /\ mode[n] = "peer" /\ socket[n]
    /\ LET heard == Heard(n)
           live == seen[n] \/ heard # {}
       IN /\ seen' = [seen EXCEPT ![n] = live]
          /\ linked' = [linked EXCEPT ![n] = live]
          /\ status' =
                IF linked[n] THEN status
                ELSE [status EXCEPT ![n] =
                        IF live THEN [linked |-> 1, node |-> n, stations |-> 2]
                                ELSE NoRing]
          /\ IF heard = {}
             THEN UNCHANGED ram
             ELSE \E last \in heard :
                    /\ \A i \in heard : i <= last
                    /\ ram' = [ram EXCEPT ![n] =
                                   Stored(ram[n], inbox[n][last].slots)]
    /\ inbox' = [inbox EXCEPT ![n] = <<>>]
    /\ wire' = IF Len(wire[Other(n)]) < MaxWire
               THEN [wire EXCEPT ![Other(n)] =
                        Append(@, [by |-> n, slots |-> Outgoing(ram[n])])]
               ELSE wire
    /\ UNCHANGED <<mode, power, cn, fg, reported, timer, staging, since,
                   socket, writes, resets, faults>>

(* vblank on a ring of its own, before it is linked: the master counts     *)
(* down.  The report that no cabinet answered is made here.                *)
Search(n) ==
    /\ power[n] /\ cn[n] = 1 /\ mode[n] = "loopback" /\ ~linked[n]
    /\ timer' = [timer EXCEPT ![n] =
                    IF fg[n] = 1 /\ @ # 0 THEN @ - 1 ELSE @]
    /\ LET over == fg[n] = 1 /\ timer'[n] = 0
       IN /\ reported' = [reported EXCEPT ![n] =
                @ \/ (over /\ mode[n] = "peer" /\ ~seen[n])]
          /\ linked' = [linked EXCEPT ![n] = over]
          /\ status' = [status EXCEPT ![n] =
                IF over THEN [linked |-> 1, node |-> 1, stations |-> 1]
                        ELSE NoRing]
    /\ UNCHANGED <<mode, power, cn, fg, seen, ram, staging, since, netVars, writes,
                   resets, faults>>

(* vblank on a ring of its own, once linked: the preceding frame is        *)
(* received and the present one staged, after it was written over.         *)
Circulate(n) ==
    /\ power[n] /\ cn[n] = 1 /\ mode[n] = "loopback" /\ linked[n]
    /\ IF staging[n] # <<>>
       THEN ram' = [ram EXCEPT ![n] = Stored(ram[n], Head(staging[n]))]
       ELSE UNCHANGED ram
    /\ staging' = [staging EXCEPT ![n] = <<Outgoing(ram'[n])>>]
    /\ UNCHANGED <<mode, power, cn, fg, seen, linked, reported, timer,
                   status, since, netVars, writes, resets, faults>>

(* vblank with the cable cut.                                              *)
Unreachable(n) ==
    /\ power[n] /\ cn[n] = 1 /\ mode[n] = "cut"
    /\ status' = [status EXCEPT ![n] = NoRing]
    /\ UNCHANGED <<mode, power, cn, fg, seen, linked, reported, timer,
                   ram, staging, since, netVars, writes, resets, faults>>

VBlank(n) == TickPeer(n) \/ Search(n) \/ Circulate(n) \/ Unreachable(n)

(* The network hands a packet to the socket of its receiver, if that has   *)
(* one with room for it; a fault loses it, or lets the next overtake it.   *)
Without(s, i) == SubSeq(s, 1, i - 1) \o SubSeq(s, i + 1, Len(s))
Arrive(n) ==
    /\ \E i \in 1..Len(wire[n]) :
        /\ i = 1 \/ faults < MaxFaults
        /\ faults' = IF i = 1 THEN faults ELSE faults + 1
        /\ wire' = [wire EXCEPT ![n] = Without(@, i)]
        /\ inbox' = IF socket[n] /\ Len(inbox[n]) < MaxInbox
                    THEN [inbox EXCEPT ![n] = Append(@, wire[n][i])]
                    ELSE inbox
    /\ UNCHANGED <<mode, power, boardVars, socket, writes, resets>>

Lose(n) ==
    /\ wire[n] # <<>> /\ faults < MaxFaults
    /\ faults' = faults + 1
    /\ wire' = [wire EXCEPT ![n] = Tail(@)]
    /\ UNCHANGED <<mode, power, boardVars, socket, inbox, writes, resets>>

Next == \E n \in Cabinets :
    \/ Restart(n) \/ PowerOff(n) \/ SwitchOff(n) \/ SwitchOn(n)
    \/ SelectMaster(n) \/ Write(n) \/ VBlank(n) \/ Arrive(n) \/ Lose(n)

Spec == Init /\ [][Next]_vars

(* A board that is on sees its vertical blanks, and the network moves.     *)
FairSpec ==
    /\ Spec
    /\ \A n \in Cabinets : WF_vars(VBlank(n)) /\ WF_vars(Arrive(n))

------------------------------------------------------------------------------
(* On two cabinets' ring the even slots hold a cabinet's own states and    *)
(* the odd ones its partner's, although the frame sent and the frame       *)
(* stored overlap in the RAM and each board starts, stops and is reset on  *)
(* its own.                                                                *)
RingAlternates ==
    \A n \in Cabinets : mode[n] = "peer" =>
        \A k \in 0..Slots :
            ram[n][k].by \in {0, IF k % 2 = 0 THEN n ELSE Other(n)}

(* Two hops further down the ring there is never a newer state of the same *)
(* cabinet, whatever packets are lost or overtaken and whoever restarts:   *)
(* a frame is stored as a whole.                                           *)
OlderDownTheRing ==
    \A n \in Cabinets : mode[n] = "peer" =>
        \A k \in 0..Slots - 2 :
            ram[n][k].by # 0 => ram[n][k + 2].number <= ram[n][k].number

(* A ring of its own starts over empty: no state of before the board was   *)
(* last initialized comes back from the staged frame.                      *)
NothingFromBefore ==
    \A n \in Cabinets : mode[n] # "peer" =>
        \A k \in 0..Slots :
            ram[n][k].by # 0 => ram[n][k].number > since[n]

(* Cabinets that stay on with their sockets open end up linked for good.   *)
Attached == \A n \in Cabinets : mode[n] = "peer" /\ cn[n] = 1 /\ socket[n]
LinkForms == <>[]Attached => <>[](\A n \in Cabinets : linked[n])

=============================================================================
