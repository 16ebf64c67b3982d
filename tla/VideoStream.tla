----------------------------- MODULE VideoStream -----------------------------
(* Player 1's picture sent to player 2's cabinet over TCP: network_video_link *)
(* of both, with the renderer at either end.  A picture is its sequence       *)
(* number and size; a compressed difference is what it shows and what it is   *)
(* to be laid over.                                                           *)
EXTENDS Naturals, Sequences

CONSTANTS
    FrameSizes,     \* bytes of a picture
    KeyEvery,       \* differences between two whole pictures: 120
    MaxSubmits,     \* bound: pictures
    MaxConnects,    \* bound: connections
    MaxStreamFaults \* bound: connections cut, and processes restarted

ASSUME VideoStreamAssumption ==
    /\ FrameSizes # {} /\ FrameSizes \subseteq Nat \ {0} /\ KeyEvery \in Nat \ {0}
    /\ MaxSubmits \in Nat /\ MaxConnects \in Nat /\ MaxStreamFaults \in Nat

VARIABLES
    nvSequence,         \* m_network_video_sequence
    nvPending,          \* m_pending_send, << >> when m_send_pending is false
    nvClient,           \* player 1's end of a connection, 0: none
    nvBacklog,          \* connections not yet accepted
    nvBase, nvDeltas,   \* previous_frame of the sender, delta_frames
    nvServer,           \* player 2's end of a connection, 0: none
    nvOver,             \* previous_frame of the receiver
    nvReceived,         \* m_received, << >> when m_receive_pending is false
    nvShown,            \* m_network_frame_texture
    nvWire,             \* what is on its way to player 2's end
    nvCut,              \* player 2's connection is broken
    nvConnects, nvFaults

nvSender == << nvSequence, nvPending, nvClient, nvBase, nvDeltas >>
nvReceiver == << nvServer, nvOver, nvReceived, nvShown >>
nvLink == << nvBacklog, nvWire, nvCut, nvConnects >>
nvvars == << nvSender, nvReceiver, nvLink, nvFaults >>

NoPicture == << >>
Picture(sequence, size) == << [sequence |-> sequence, size |-> size] >>

NvInit ==
    /\ nvSequence = 0 /\ nvPending = NoPicture /\ nvClient = 0 /\ nvBase = NoPicture /\ nvDeltas = 0
    /\ nvServer = 0 /\ nvOver = NoPicture /\ nvReceived = NoPicture /\ nvShown = NoPicture
    /\ nvBacklog = << >> /\ nvWire = << >> /\ nvCut = FALSE /\ nvConnects = 0 /\ nvFaults = 0

-----------------------------------------------------------------------------
(* Player 1.  The renderer leaves its newest picture; run_sender waits for a  *)
(* display, then for a picture.                                               *)

CaptureFrame(size) ==
    /\ nvSequence < MaxSubmits /\ nvSequence' = nvSequence + 1
    /\ nvPending' = Picture(nvSequence', size)
    /\ UNCHANGED << nvClient, nvBase, nvDeltas, nvReceiver, nvLink, nvFaults >>

AcceptDisplay ==
    /\ nvClient = 0 /\ nvBacklog # << >>
    /\ nvClient' = Head(nvBacklog) /\ nvBacklog' = Tail(nvBacklog)
    /\ nvBase' = NoPicture /\ nvDeltas' = 0
    /\ UNCHANGED << nvSequence, nvPending, nvReceiver, nvWire, nvCut, nvConnects, nvFaults >>

IsDelta(picture) == nvBase # NoPicture /\ nvBase[1].size = picture[1].size /\ nvDeltas < KeyEvery
Message(picture) ==
    [sequence |-> picture[1].sequence, size |-> picture[1].size,
     over |-> IF IsDelta(picture) THEN nvBase ELSE NoPicture]
Reaches == nvClient = nvServer /\ ~nvCut
SendPicture ==
    /\ nvClient # 0 /\ nvPending # NoPicture /\ nvPending' = NoPicture
    /\ nvWire' = IF Reaches THEN Append(nvWire, Message(nvPending)) ELSE nvWire
    /\ nvBase' = nvPending /\ nvDeltas' = IF IsDelta(nvPending) THEN nvDeltas + 1 ELSE 0
    /\ UNCHANGED << nvSequence, nvClient, nvReceiver, nvBacklog, nvCut, nvConnects, nvFaults >>
BaseAfterSkipSlip == nvPending
BaseAfterSkip == nvBase             \* the display still has the picture before
CompressionFails ==                 \* or the picture is too large: it is left out
    /\ nvClient # 0 /\ nvPending # NoPicture /\ nvPending' = NoPicture /\ nvBase' = BaseAfterSkip
    /\ UNCHANGED << nvSequence, nvClient, nvDeltas, nvReceiver, nvLink, nvFaults >>
SendFails ==
    /\ nvClient # 0 /\ nvPending # NoPicture /\ ~Reaches
    /\ nvPending' = NoPicture /\ nvClient' = 0 /\ nvBase' = NoPicture /\ nvDeltas' = 0
    /\ UNCHANGED << nvSequence, nvReceiver, nvLink, nvFaults >>

-----------------------------------------------------------------------------
(* Player 2.  run_receiver connects to the address the input link has seen,   *)
(* and leaves the newest picture for the renderer.                            *)

ConnectToPeer ==
    /\ nvServer = 0 /\ nvConnects < MaxConnects /\ nvConnects' = nvConnects + 1
    /\ nvServer' = nvConnects' /\ nvBacklog' = Append(nvBacklog, nvServer')
    /\ nvOver' = NoPicture /\ nvWire' = << >> /\ nvCut' = FALSE
    /\ UNCHANGED << nvSender, nvReceived, nvShown, nvFaults >>
Disconnect == nvServer' = 0 /\ nvWire' = << >>
Misfit(message) ==
    message.over # NoPicture /\ (nvOver = NoPicture \/ nvOver[1].size # message.size)
(* A difference laid over another picture than its own shows neither.         *)
Laid(message) == IF message.over = NoPicture \/ message.over = nvOver THEN message.sequence ELSE 0
Receive ==
    /\ nvServer # 0 /\ nvWire # << >>
    /\ LET message == Head(nvWire)
       IN IF Misfit(message) THEN Disconnect /\ UNCHANGED << nvOver, nvReceived >>
          ELSE /\ nvOver' = Picture(Laid(message), message.size)
               /\ nvReceived' = << [sequence |-> message.sequence, shows |-> Laid(message)] >>
               /\ nvWire' = Tail(nvWire) /\ UNCHANGED nvServer
    /\ UNCHANGED << nvSender, nvShown, nvBacklog, nvCut, nvConnects, nvFaults >>
ReceiveFails ==
    /\ nvServer # 0 /\ nvCut /\ Disconnect
    /\ UNCHANGED << nvSender, nvOver, nvReceived, nvShown, nvBacklog, nvCut, nvConnects, nvFaults >>
ShowReceived ==
    /\ nvReceived # NoPicture /\ nvShown' = nvReceived /\ nvReceived' = NoPicture
    /\ UNCHANGED << nvSender, nvServer, nvOver, nvLink, nvFaults >>

-----------------------------------------------------------------------------
(* The connection breaks; a process is started again.                         *)

Fault == nvFaults < MaxStreamFaults /\ nvFaults' = nvFaults + 1
CutConnection ==
    /\ Fault /\ nvServer # 0 /\ ~nvCut /\ nvCut' = TRUE
    /\ \E n \in 0..Len(nvWire) : nvWire' = SubSeq(nvWire, 1, n)
    /\ UNCHANGED << nvSender, nvReceiver, nvBacklog, nvConnects >>
RestartSender ==
    /\ Fault /\ nvSequence' = 0 /\ nvPending' = NoPicture /\ nvClient' = 0
    /\ nvBase' = NoPicture /\ nvDeltas' = 0 /\ nvBacklog' = << >> /\ nvCut' = TRUE
    /\ UNCHANGED << nvReceiver, nvWire, nvConnects >>
RestartReceiver ==
    /\ Fault /\ nvServer' = 0 /\ nvOver' = NoPicture /\ nvReceived' = NoPicture /\ nvShown' = NoPicture
    /\ nvWire' = << >> /\ UNCHANGED << nvSender, nvBacklog, nvCut, nvConnects >>

NvNext ==
    \/ (\E size \in FrameSizes : CaptureFrame(size)) \/ AcceptDisplay
    \/ SendPicture \/ CompressionFails \/ SendFails
    \/ ConnectToPeer \/ Receive \/ ReceiveFails \/ ShowReceived
    \/ CutConnection \/ RestartSender \/ RestartReceiver
NvSpec == NvInit /\ [][NvNext]_nvvars

-----------------------------------------------------------------------------
(* What player 2 sees is the picture player 1 drew: through pictures that are *)
(* overwritten before they are sent or left out, whole pictures and           *)
(* differences, and connections that break in the middle of either.           *)
TrueToTheFrame ==
    /\ nvReceived # NoPicture => nvReceived[1].shows = nvReceived[1].sequence
    /\ nvShown # NoPicture => nvShown[1].shows = nvShown[1].sequence
=============================================================================
