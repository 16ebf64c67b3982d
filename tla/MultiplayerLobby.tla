---------------------------- MODULE MultiplayerLobby ----------------------------
(***************************************************************************)
(* The launcher-level discovery of src/src/multiplayer_lobby.cpp, with the *)
(* launcher of src/src/arcade_frontend.cpp that uses it.                   *)
(*                                                                         *)
(* Two applications announce themselves on one UDP port.  Each derives its *)
(* role from where the other's packet came from and, between two owners of *)
(* the port, from the two nonces.  The launcher of player 1 stores a game  *)
(* under a mutex and then counts it; the lobby thread copies the count and *)
(* then the game into every announcement, and the launcher of player 2     *)
(* launches what it receives under a new count.                            *)
(*                                                                         *)
(* Bounds: an announcement on its way is replaced by the next one (which   *)
(* is also how one is lost); Nonces bounds the times an application is     *)
(* started and MaxLaunch the launches of one run of it.                    *)
(***************************************************************************)
EXTENDS Integers, Sequences, SequencesExt

CONSTANTS
    Games,      \* short names in the catalogue
    Installed,  \* Installed[n]: the games in the library of n
    Nonces,     \* Nonces[n]: what the starts of n may draw as m_nonce
    MaxLaunch,  \* bound: launches
    MaxTrouble  \* bound: restarts, and silences of 1.5 s while running

ASSUME LobbyAssumption ==
    /\ Installed \in [1..2 -> SUBSET Games]
    /\ Nonces \in [1..2 -> SUBSET (Nat \ {0})]
    /\ Nonces[1] \cap Nonces[2] = {}
    /\ MaxLaunch \in Nat /\ MaxTrouble \in Nat

Node == 1..2
Peer(n) == 3 - n

VARIABLES
    samePC,     \* both applications run on one computer
    pc,         \* where the launcher of n is
    choice,     \* the game being launched, as a set of at most one
    nonce,      \* m_nonce, 0 while the application is not running
    unused,     \* nonces no run has drawn yet
    owns,       \* owns_lobby_port
    loop,       \* where the lobby thread is
    told,       \* node and launch_sequence already put in the next hello
    heard,      \* nonce behind the endpoint in `peer', 0 without have_peer
    connected,  \* m_connected
    role,       \* m_node
    peerGames,  \* m_peer_games
    outGame,    \* m_outgoing_game, and how many were stored before it
    launchSeq,  \* m_launch_sequence
    incoming,   \* m_incoming_game: the announcement it was copied from
    received,   \* m_received_launch_sequence
    taken,      \* history: who was taken into a game by which launch of whom
    troubles,   \* restarts and silences left
    launches,   \* launches so far
    wire        \* the announcement on its way to n

lobbyVars == <<loop, told, heard, connected, role, peerGames>>
launchVars == <<outGame, launchSeq, launches>>
inVars == <<incoming, received>>
runVars == <<samePC, nonce, unused, owns>>
launcherVars == <<pc, choice, taken>>
vars == <<lobbyVars, launchVars, inVars, runVars, launcherVars, troubles, wire>>

(* Playing: as player 1 of a game on both computers, or any other way.      *)
InGame == {"player1", "playing"}

Init ==
    /\ samePC \in BOOLEAN
    /\ pc = [n \in Node |-> "off"]
    /\ choice = [n \in Node |-> {}]
    /\ nonce = [n \in Node |-> 0]
    /\ unused = Nonces[1] \cup Nonces[2]
    /\ owns = [n \in Node |-> FALSE]
    /\ loop = [n \in Node |-> "drain"]
    /\ told = [n \in Node |-> [node |-> 0, seq |-> 0]]
    /\ heard = [n \in Node |-> 0]
    /\ connected = [n \in Node |-> FALSE]
    /\ role = [n \in Node |-> 0]
    /\ peerGames = [n \in Node |-> {}]
    /\ outGame = [n \in Node |-> [game |-> {}, pick |-> 0]]
    /\ launchSeq = [n \in Node |-> 0]
    /\ incoming = [n \in Node |-> {}]
    /\ received = [n \in Node |-> 0]
    /\ taken = <<>>
    /\ troubles = MaxTrouble /\ launches = 0
    /\ wire = [n \in Node |-> {}]

Running(n) == pc[n] # "off"

------------------------------------------------------------------------------
(* The application starts: the constructor draws a nonce and the lobby     *)
(* thread takes the port unless the other application has it.              *)
Start(n) ==
    /\ pc[n] = "off"
    /\ \E x \in unused \cap Nonces[n] :
        /\ nonce' = [nonce EXCEPT ![n] = x]
        /\ unused' = unused \ {x}
    /\ troubles' = IF Nonces[n] \subseteq unused THEN troubles ELSE troubles - 1
    /\ troubles' >= 0
    /\ owns' = [owns EXCEPT ![n] = ~(samePC /\ owns[Peer(n)])]
    /\ pc' = [pc EXCEPT ![n] = "menu"]
    /\ UNCHANGED <<samePC, choice, taken, lobbyVars, launchVars, inVars, wire>>

(* The application exits; every variable of its lobby goes with it.        *)
Exit(n) ==
    /\ pc[n] \in {"menu"} \cup InGame
    /\ pc' = [pc EXCEPT ![n] = "off"]
    /\ choice' = [choice EXCEPT ![n] = {}]
    /\ nonce' = [nonce EXCEPT ![n] = 0]
    /\ owns' = [owns EXCEPT ![n] = FALSE]
    /\ loop' = [loop EXCEPT ![n] = "drain"]
    /\ told' = [told EXCEPT ![n] = [node |-> 0, seq |-> 0]]
    /\ heard' = [heard EXCEPT ![n] = 0]
    /\ connected' = [connected EXCEPT ![n] = FALSE]
    /\ role' = [role EXCEPT ![n] = 0]
    /\ peerGames' = [peerGames EXCEPT ![n] = {}]
    /\ outGame' = [outGame EXCEPT ![n] = [game |-> {}, pick |-> 0]]
    /\ launchSeq' = [launchSeq EXCEPT ![n] = 0]
    /\ incoming' = [incoming EXCEPT ![n] = {}]
    /\ received' = [received EXCEPT ![n] = 0]
    /\ wire' = [wire EXCEPT ![n] = {}]
    /\ UNCHANGED <<samePC, unused, taken, launches, troubles>>

------------------------------------------------------------------------------
(* The launcher.  Two menus lead to a game on both computers: the grid     *)
(* asks only whether a machine is connected ...                            *)
OfferedByGrid(n, g) == connected[n] /\ g \in Installed[n]
(* ... and Network Play whether n is not player 2 and the peer has g.      *)
OfferedByNetworkPlay(n, g) ==
    connected[n] /\ role[n] # 2 /\ g \in Installed[n] \cap peerGames[n]

Choose(n, g) ==
    /\ pc[n] = "menu"
    /\ OfferedByGrid(n, g) \/ OfferedByNetworkPlay(n, g)
    /\ pc' = [pc EXCEPT ![n] = "chosen"]
    /\ choice' = [choice EXCEPT ![n] = {g}]
    /\ UNCHANGED <<taken, lobbyVars, launchVars, inVars, runVars,
                   troubles, wire>>

(* Slip: a selection is stored only when none was. *)
StoredOnce(n) ==
    [outGame EXCEPT ![n] = IF @.game = {} THEN [game |-> choice[n], pick |-> 1]
                           ELSE @]
Stored(n) == [outGame EXCEPT ![n] = [game |-> choice[n], pick |-> @.pick + 1]]

(* launch_game under the mutex ...                                         *)
StoreGame(n) ==
    /\ pc[n] = "chosen" /\ role[n] = 1 /\ launches < MaxLaunch
    /\ outGame' = Stored(n)
    /\ launches' = launches + 1
    /\ pc' = [pc EXCEPT ![n] = "stored"]
    /\ UNCHANGED <<choice, taken, launchSeq, lobbyVars, inVars,
                   runVars, troubles, wire>>
(* ... and after it.  The launcher returns to start the game as player 1.  *)
CountLaunch(n) ==
    /\ pc[n] = "stored"
    /\ launchSeq' = [launchSeq EXCEPT ![n] = @ + 1]
    /\ pc' = [pc EXCEPT ![n] = "player1"]
    /\ UNCHANGED <<choice, taken, outGame, launches, lobbyVars, inVars,
                   runVars, troubles, wire>>
(* launch_game for a cabinet that is not player 1 does nothing; the        *)
(* launcher returns all the same.                                          *)
LaunchRefused(n) ==
    /\ pc[n] = "chosen" /\ role[n] # 1
    /\ pc' = [pc EXCEPT ![n] = "player1"]
    /\ UNCHANGED <<choice, taken, launchVars, lobbyVars, inVars,
                   runVars, troubles, wire>>

(* take_remote_launch: a game that is not installed is only reported.      *)
TakeLaunch(n) ==
    \E p \in incoming[n] :
        /\ pc[n] = "menu"
        /\ incoming' = [incoming EXCEPT ![n] = {}]
        /\ IF p.game \subseteq Installed[n]
           THEN /\ pc' = [pc EXCEPT ![n] = "playing"]
                /\ taken' = Append(taken, <<nonce[n], p.nonce, p.seq>>)
           ELSE UNCHANGED <<pc, taken>>
        /\ UNCHANGED <<choice, received, launchVars, lobbyVars,
                       runVars, troubles, wire>>

(* A game for this cabinet alone, and back to the menu from any game.      *)
PlaySolo(n) ==
    /\ pc[n] = "menu"
    /\ pc' = [pc EXCEPT ![n] = "playing"]
    /\ UNCHANGED <<choice, taken, launchVars, lobbyVars, inVars,
                   runVars, troubles, wire>>
ReturnToMenu(n) ==
    /\ pc[n] \in InGame
    /\ pc' = [pc EXCEPT ![n] = "menu"]
    /\ choice' = [choice EXCEPT ![n] = {}]
    /\ UNCHANGED <<taken, launchVars, lobbyVars, inVars, runVars,
                   troubles, wire>>

------------------------------------------------------------------------------
(* The lobby thread.                                                       *)
(* Slip: between two owners of the port whoever hears is player 1. *)
RoleOfHearer(n, p) == IF owns[n] \/ ~p.owner THEN 1 ELSE 2
(* One owner of the port is player 1; between two, the lower nonce.        *)
Role(n, p) ==
    IF owns[n] # p.owner THEN (IF owns[n] THEN 1 ELSE 2)
    ELSE (IF nonce[n] < p.nonce THEN 1 ELSE 2)

(* Slip: the sequence is not compared with the last one received. *)
LaunchesAnew(n, p) ==
    Role(n, p) = 2 /\ p.node = 1 /\ p.seq # 0 /\ p.game # {}
(* The announcement holds a launch n has not received yet.                 *)
Launches(n, p) ==
    /\ Role(n, p) = 2 /\ p.node = 1
    /\ p.seq # 0 /\ p.seq # received[n] /\ p.game # {}

(* One announcement; the next hello follows at once.                       *)
Receive(n) ==
    \E p \in wire[n] :
        /\ Running(n) /\ loop[n] = "drain"
        /\ heard' = [heard EXCEPT ![n] = p.nonce]
        /\ peerGames' = [peerGames EXCEPT ![n] = p.games]
        /\ role' = [role EXCEPT ![n] = Role(n, p)]
        /\ connected' = [connected EXCEPT ![n] = TRUE]
        /\ IF Launches(n, p)
           THEN /\ received' = [received EXCEPT ![n] = p.seq]
                /\ incoming' = [incoming EXCEPT ![n] = {p}]
           ELSE UNCHANGED inVars
        /\ loop' = [loop EXCEPT ![n] = "count"]
        /\ wire' = [wire EXCEPT ![n] = {}]
        /\ UNCHANGED <<told, launchVars, runVars, launcherVars, troubles>>

(* The peer has been silent for too long: the run that was heard is over,  *)
(* or its announcements stayed away for 1.5 seconds.                       *)
Forget(n) ==
    /\ loop[n] = "drain" /\ wire[n] = {} /\ heard[n] # 0
    /\ troubles' = IF heard[n] = nonce[Peer(n)] THEN troubles - 1 ELSE troubles
    /\ troubles' >= 0
    /\ heard' = [heard EXCEPT ![n] = 0]
    /\ connected' = [connected EXCEPT ![n] = FALSE]
    /\ role' = [role EXCEPT ![n] = 0]
    /\ peerGames' = [peerGames EXCEPT ![n] = {}]
    /\ loop' = [loop EXCEPT ![n] = "count"]
    /\ UNCHANGED <<told, launchVars, inVars, runVars, launcherVars, wire>>

(* Nothing to receive, and the next hello comes due.                       *)
HelloDue(n) ==
    /\ Running(n) /\ loop[n] = "drain" /\ wire[n] = {}
    /\ loop' = [loop EXCEPT ![n] = "count"]
    /\ UNCHANGED <<told, heard, connected, role, peerGames,
                   launchVars, inVars, runVars, launcherVars, troubles, wire>>

(* The hello copies the role and the launch count ...                      *)
CopyCount(n) ==
    /\ loop[n] = "count"
    /\ told' = [told EXCEPT ![n] = [node |-> role[n], seq |-> launchSeq[n]]]
    /\ loop' = [loop EXCEPT ![n] = "send"]
    /\ UNCHANGED <<heard, connected, role, peerGames, launchVars,
                   inVars, runVars, launcherVars, troubles, wire>>

(* Slip: the answer to a join candidate's own port is left out. *)
BroadcastOnly(n) == owns[Peer(n)]
(* The broadcast reaches the owner of a lobby port, the direct answer the  *)
(* endpoint heard last.                                                    *)
Reaches(n) == owns[Peer(n)] \/ heard[n] = nonce[Peer(n)]

(* ... then, under the mutex, the game, and is sent.                       *)
SendHello(n) ==
    /\ loop[n] = "send"
    /\ LET p == [node |-> told[n].node, nonce |-> nonce[n],
                 owner |-> owns[n], games |-> Installed[n],
                 seq |-> told[n].seq,
                 game |-> outGame[n].game, pick |-> outGame[n].pick]
       IN  wire' = IF Running(Peer(n)) /\ Reaches(n)
                   THEN [wire EXCEPT ![Peer(n)] = {p}] ELSE wire
    /\ loop' = [loop EXCEPT ![n] = "drain"]
    /\ told' = [told EXCEPT ![n] = [node |-> 0, seq |-> 0]]
    /\ UNCHANGED <<heard, connected, role, peerGames,
                   launchVars, inVars, runVars, launcherVars, troubles>>

Lobby(n) ==
    \/ Receive(n) \/ HelloDue(n) \/ Forget(n)
    \/ CopyCount(n) \/ SendHello(n)

Launcher(n) == StoreGame(n) \/ CountLaunch(n) \/ LaunchRefused(n)

Next ==
    \E n \in Node :
        \/ Lobby(n) \/ Launcher(n) \/ TakeLaunch(n)
        \/ \E g \in Games : Choose(n, g)
        \/ Start(n) \/ Exit(n) \/ PlaySolo(n) \/ ReturnToMenu(n)

Spec == Init /\ [][Next]_vars

(* The lobby thread of a running application keeps going round its loop.   *)
(* Nothing obliges a player to choose, to leave a game or to come back.    *)
FairSpec == Spec /\ \A n \in Node : WF_vars(Lobby(n)) /\ WF_vars(Launcher(n))

------------------------------------------------------------------------------
(* Two applications that have heard each other as they are now agree who   *)
(* is player 1, however they were started and on however many computers.   *)
OppositeRoles ==
    \A n \in Node :
        nonce[n] # 0 /\ heard[n] = nonce[Peer(n)] /\ heard[Peer(n)] = nonce[n]
            => role[n] # role[Peer(n)]

(* The count and the game of an announcement are read apart, while the     *)
(* launcher writes both: a count never travels with the game of an older   *)
(* launch.                                                                 *)
NeverAnOlderGame == \A n \in Node : \A p \in wire[n] : p.seq <= p.pick

(* An announcement is repeated for as long as the launcher runs, yet one    *)
(* run of the partner follows its launch into the game once at most,       *)
(* however often either application is started anew in between.            *)
FollowedOnce == IsInjective(taken)

(* A launch gets through: once player 1 has left for the game, the partner *)
(* comes to hold the number of its latest launch, unless one of the two    *)
(* exits or they have changed roles.                                       *)
LaunchArrives ==
    \A n \in Node :
        pc[n] = "player1" /\ role[n] = 1 /\ launchSeq[n] # 0 ~>
            \/ received[Peer(n)] = launchSeq[n]
            \/ ~Running(n) \/ ~Running(Peer(n)) \/ role[n] = 2
=============================================================================
