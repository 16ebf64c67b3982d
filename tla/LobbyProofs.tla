------------------------------- MODULE LobbyProofs -------------------------------
(***************************************************************************)
(* Proofs about the two lobbies of module MultiplayerLobby, for any games, *)
(* libraries and nonces, and however often either application is started.  *)
(***************************************************************************)
EXTENDS MultiplayerLobby, TLAPS

(* The values the variables take. *)
Hello ==
    [node : 0..2, nonce : Nat, owner : BOOLEAN, games : SUBSET Games,
     seq : Nat, game : SUBSET Games, pick : Nat]
Types ==
    /\ pc \in [Node -> {"off", "menu", "chosen", "stored"} \cup InGame]
    /\ choice \in [Node -> SUBSET Games]
    /\ nonce \in [Node -> Nat]
    /\ unused \in SUBSET (Nat \ {0})
    /\ owns \in [Node -> BOOLEAN]
    /\ loop \in [Node -> {"drain", "count", "send"}]
    /\ told \in [Node -> [node : 0..2, seq : Nat]]
    /\ heard \in [Node -> Nat]
    /\ role \in [Node -> 0..2]
    /\ outGame \in [Node -> [game : SUBSET Games, pick : Nat]]
    /\ launchSeq \in [Node -> Nat]
    /\ wire \in [Node -> SUBSET Hello]

(* A launch is stored before it is counted, and counted before it is told. *)
Counts(n) ==
    /\ told[n].seq <= launchSeq[n]
    /\ launchSeq[n] <= outGame[n].pick
    /\ pc[n] = "stored" => launchSeq[n] < outGame[n].pick
    /\ \A p \in wire[n] : p.seq <= p.pick

(* An application that does not run has heard nobody and is told nothing. *)
Idle(n) ==
    /\ Running(n) <=> nonce[n] # 0
    /\ ~Running(n) => heard[n] = 0 /\ loop[n] = "drain" /\ wire[n] = {}

(* No nonce is drawn twice: one that is in use, on its way or heard is not *)
(* drawn any more.                                                         *)
Drawn(n) ==
    /\ nonce[n] \notin unused
    /\ nonce[n] # 0 => nonce[n] # nonce[Peer(n)]
    /\ heard[n] \notin unused
    /\ \A p \in wire[n] : p.nonce # 0 /\ p.nonce \notin unused

(* A hello of the partner's present run tells whether it owns the port, and *)
(* who has heard that run has settled its role by the two.                  *)
Agreed(n) ==
    /\ \A p \in wire[n] : p.nonce = nonce[Peer(n)] => p.owner = owns[Peer(n)]
    /\ heard[n] # 0 /\ heard[n] = nonce[Peer(n)] =>
        role[n] = IF owns[n] # owns[Peer(n)] THEN (IF owns[n] THEN 1 ELSE 2)
                  ELSE (IF nonce[n] < nonce[Peer(n)] THEN 1 ELSE 2)

(* What n has received, and the history of what was followed.               *)
Arrivals ==
    /\ incoming \in [Node -> SUBSET Hello]
    /\ received \in [Node -> Nat]
    /\ taken \in Seq(Nat \X Nat \X Nat)

(* Run x of the partner has taken run f into a game by its launch s; or n,   *)
(* as it runs now, has received that launch.                                *)
Took(f, x, s) == \E i \in DOMAIN taken : taken[i] = <<f, x, s>>
Has(n, x, s) == Took(nonce[n], x, s) \/ \E p \in incoming[n] : p.nonce = x /\ p.seq = s

(* Nonces in the history and in what was received are drawn and not zero.   *)
Old(x) == x # 0 /\ x \notin unused
History == \A i \in DOMAIN taken : Old(taken[i][1]) /\ Old(taken[i][2])

(* A hello of the partner's present run has no number it has yet to count.  *)
Told(n) ==
    \A p \in wire[n] : p.nonce = nonce[Peer(n)] =>
        /\ p.seq <= launchSeq[Peer(n)]
        /\ loop[Peer(n)] = "send" => p.seq <= told[Peer(n)].seq

(* What n has received is the last of its run, and has yet to be followed;  *)
(* no hello on its way to n carries a number of that run before it.         *)
Received(n) ==
    /\ ~Running(n) => incoming[n] = {}
    /\ \A p \in incoming[n] :
            Old(p.nonce) /\ p.seq = received[n] /\ ~Took(nonce[n], p.nonce, p.seq)
    /\ \A x, s : Has(n, x, s) =>
            /\ \A p \in wire[n] : p.nonce = x => s <= received[n] /\ received[n] <= p.seq
            /\ x = nonce[Peer(n)] =>
                    /\ s <= received[n] /\ received[n] <= launchSeq[Peer(n)]
                    /\ loop[Peer(n)] = "send" => received[n] <= told[Peer(n)].seq
                    /\ \A p \in wire[n] : p.nonce = x

Followed ==
    Arrivals /\ History /\ IsInjective(taken) /\ \A n \in Node : Told(n) /\ Received(n)

LobbyInv ==
    Types /\ (\A n \in Node : Counts(n) /\ Idle(n) /\ Drawn(n) /\ Agreed(n)) /\ Followed

(* The two applications are each other's partner. *)
LEMMA PeerIsNode ==
    ASSUME NEW n \in Node
    PROVE  Peer(n) \in Node /\ Peer(n) # n /\ Peer(Peer(n)) = n
           /\ \A m \in Node : m = n \/ m = Peer(n)
  BY DEF Node, Peer

(* Neither application runs at first, and nothing was ever sent or followed. *)
LEMMA LobbyInit == Init => LobbyInv
  <1> SUFFICES ASSUME Init PROVE LobbyInv
    OBVIOUS
  <1>1. Types /\ \A n \in Node : Counts(n) /\ Idle(n) /\ Drawn(n) /\ Agreed(n)
    BY LobbyAssumption DEF Init, Types, Counts, Idle, Drawn, Agreed, Running, Node, Peer, InGame
  <1>2. taken = << >> /\ \A i : i \notin DOMAIN taken
    BY DEF Init
  <1>3. Arrivals
    BY <1>2 DEF Init, Arrivals
  <1>4. History /\ IsInjective(taken) /\ \A f, x, s : ~Took(f, x, s)
    BY <1>2 DEF History, IsInjective, Took
  <1>5. \A n \in Node : incoming[n] = {} /\ wire[n] = {}
    BY DEF Init
  <1>6. \A n \in Node : Told(n) /\ Received(n)
    BY <1>4, <1>5 DEF Told, Received, Has
  <1> QED
    BY <1>1, <1>3, <1>4, <1>6 DEF LobbyInv, Followed

(* Every variable keeps its type. *)
LEMMA TypesStep == Types /\ [Next]_vars => Types'
  <1> SUFFICES ASSUME Types, [Next]_vars PROVE Types'
    OBVIOUS
  <1> USE DEF Types, InGame
  <1>1. CASE UNCHANGED vars
    BY <1>1 DEF vars, lobbyVars, launchVars, inVars, runVars, launcherVars
  <1>2. ASSUME NEW n \in Node, Start(n) PROVE Types'
    BY <1>2, LobbyAssumption DEF Start, lobbyVars, launchVars, inVars
  <1>3. ASSUME NEW n \in Node, Exit(n) PROVE Types'
    BY <1>3 DEF Exit
  <1>4. ASSUME NEW n \in Node, NEW g \in Games, Choose(n, g) PROVE Types'
    BY <1>4 DEF Choose, lobbyVars, launchVars, inVars, runVars
  <1>5. ASSUME NEW n \in Node, StoreGame(n) PROVE Types'
    BY <1>5 DEF StoreGame, Stored, lobbyVars, launchVars, inVars, runVars
  <1>6. ASSUME NEW n \in Node, CountLaunch(n) PROVE Types'
    BY <1>6 DEF CountLaunch, lobbyVars, inVars, runVars
  <1>7. ASSUME NEW n \in Node, LaunchRefused(n) PROVE Types'
    BY <1>7 DEF LaunchRefused, launchVars, lobbyVars, inVars, runVars
  <1>8. ASSUME NEW n \in Node, TakeLaunch(n) PROVE Types'
    BY <1>8 DEF TakeLaunch, launchVars, lobbyVars, runVars
  <1>9. ASSUME NEW n \in Node, PlaySolo(n) \/ ReturnToMenu(n) PROVE Types'
    BY <1>9 DEF PlaySolo, ReturnToMenu, launchVars, lobbyVars, inVars, runVars
  <1>10. ASSUME NEW n \in Node, Receive(n) PROVE Types'
    <2> PICK p \in wire[n] : heard' = [heard EXCEPT ![n] = p.nonce]
              /\ role' = [role EXCEPT ![n] = Role(n, p)]
      BY <1>10 DEF Receive
    <2>1. p.nonce \in Nat /\ Role(n, p) \in 0..2
      BY DEF Hello, Role
    <2> QED
      BY <1>10, <2>1 DEF Receive, launchVars, runVars, launcherVars
  <1>11. ASSUME NEW n \in Node, HelloDue(n) PROVE Types'
    BY <1>11 DEF HelloDue, launchVars, inVars, runVars, launcherVars
  <1>12. ASSUME NEW n \in Node, Forget(n) PROVE Types'
    BY <1>12 DEF Forget, launchVars, inVars, runVars, launcherVars
  <1>13. ASSUME NEW n \in Node, CopyCount(n) PROVE Types'
    <2>1. [node |-> role[n], seq |-> launchSeq[n]] \in [node : 0..2, seq : Nat]
      OBVIOUS
    <2> QED
      BY <1>13, <2>1 DEF CopyCount, launchVars, inVars, runVars, launcherVars
  <1>14. ASSUME NEW n \in Node, SendHello(n) PROVE Types'
    <2> DEFINE p == [node |-> told[n].node, nonce |-> nonce[n],
                 owner |-> owns[n], games |-> Installed[n],
                 seq |-> told[n].seq,
                 game |-> outGame[n].game, pick |-> outGame[n].pick]
    <2>1. p \in Hello
      BY LobbyAssumption DEF Hello, Node
    <2>2. wire' = wire \/ wire' = [wire EXCEPT ![Peer(n)] = {p}]
      BY <1>14 DEF SendHello
    <2> HIDE DEF p
    <2> QED
      BY <1>14, <2>1, <2>2, PeerIsNode DEF SendHello, launchVars, inVars, runVars, launcherVars
  <1> HIDE DEF Types, InGame
  <1> QED
    BY <1>1, <1>2, <1>3, <1>4, <1>5, <1>6, <1>7, <1>8, <1>9, <1>10, <1>11, <1>12, <1>13, <1>14
       DEF Next, Lobby, Launcher

(* The count of a launch never runs ahead of its game. *)
LEMMA CountsStep ==
    ASSUME Types, Types', [Next]_vars, \A n \in Node : Counts(n)
    PROVE  \A n \in Node : Counts(n)'
  <1> USE DEF Types, Counts
  <1>1. CASE UNCHANGED vars
    BY <1>1 DEF vars, lobbyVars, launchVars, inVars, runVars, launcherVars
  <1>2. ASSUME NEW n \in Node, Start(n) PROVE \A m \in Node : Counts(m)'
    BY <1>2 DEF Start, lobbyVars, launchVars, inVars
  <1>3. ASSUME NEW n \in Node, Exit(n) PROVE \A m \in Node : Counts(m)'
    BY <1>3 DEF Exit, InGame
  <1>4. ASSUME NEW n \in Node, NEW g \in Games, Choose(n, g) PROVE \A m \in Node : Counts(m)'
    BY <1>4 DEF Choose, lobbyVars, launchVars, inVars, runVars
  <1>5. ASSUME NEW n \in Node, StoreGame(n) PROVE \A m \in Node : Counts(m)'
    BY <1>5 DEF StoreGame, Stored, lobbyVars, inVars, runVars
  <1>6. ASSUME NEW n \in Node, CountLaunch(n) PROVE \A m \in Node : Counts(m)'
    BY <1>6 DEF CountLaunch, lobbyVars, inVars, runVars
  <1>7. ASSUME NEW n \in Node, LaunchRefused(n) \/ PlaySolo(n) \/ ReturnToMenu(n)
        PROVE  \A m \in Node : Counts(m)'
    BY <1>7 DEF LaunchRefused, PlaySolo, ReturnToMenu, lobbyVars, launchVars, inVars, runVars
  <1>8. ASSUME NEW n \in Node, TakeLaunch(n) PROVE \A m \in Node : Counts(m)'
    BY <1>8 DEF TakeLaunch, lobbyVars, launchVars, runVars
  <1>9. ASSUME NEW n \in Node, Receive(n) \/ Forget(n) \/ HelloDue(n)
        PROVE  \A m \in Node : Counts(m)'
    BY <1>9 DEF Receive, Forget, HelloDue, launchVars, inVars, runVars, launcherVars
  <1>10. ASSUME NEW n \in Node, CopyCount(n) PROVE \A m \in Node : Counts(m)'
    BY <1>10 DEF CopyCount, launchVars, inVars, runVars, launcherVars
  <1>11. ASSUME NEW n \in Node, SendHello(n) PROVE \A m \in Node : Counts(m)'
    BY <1>11, PeerIsNode DEF SendHello, launchVars, inVars, runVars, launcherVars
  <1> HIDE DEF Types, Counts
  <1> QED
    BY <1>1, <1>2, <1>3, <1>4, <1>5, <1>6, <1>7, <1>8, <1>9, <1>10, <1>11
       DEF Next, Lobby, Launcher

(* No nonce is drawn twice, and only a running application has one. *)
LEMMA DrawnStep ==
    ASSUME Types, Types', [Next]_vars, \A n \in Node : Idle(n) /\ Drawn(n)
    PROVE  \A n \in Node : Idle(n)' /\ Drawn(n)'
  <1> USE DEF Types, Idle, Drawn, Running
  <1> DEFINE Goal == \A m \in Node : Idle(m)' /\ Drawn(m)'
  <1>1. CASE UNCHANGED vars
    BY <1>1 DEF vars, lobbyVars, launchVars, inVars, runVars, launcherVars
  <1>2. ASSUME NEW n \in Node, Start(n) PROVE Goal
    BY <1>2, PeerIsNode DEF Start, lobbyVars, launchVars, inVars
  <1>3. ASSUME NEW n \in Node, Exit(n) PROVE Goal
    BY <1>3, PeerIsNode DEF Exit, InGame
  <1>4. ASSUME NEW n \in Node, NEW g \in Games, Choose(n, g) PROVE Goal
    BY <1>4 DEF Choose, lobbyVars, launchVars, inVars, runVars
  <1>5. ASSUME NEW n \in Node, StoreGame(n) \/ CountLaunch(n) PROVE Goal
    BY <1>5 DEF StoreGame, CountLaunch, lobbyVars, inVars, runVars
  <1>6. ASSUME NEW n \in Node, LaunchRefused(n) \/ PlaySolo(n) \/ ReturnToMenu(n) PROVE Goal
    BY <1>6
       DEF LaunchRefused, PlaySolo, ReturnToMenu, lobbyVars, launchVars, inVars, runVars, InGame
  <1>7. ASSUME NEW n \in Node, TakeLaunch(n) PROVE Goal
    BY <1>7 DEF TakeLaunch, lobbyVars, launchVars, runVars
  <1>8. ASSUME NEW n \in Node, Receive(n) PROVE Goal
    BY <1>8 DEF Receive, launchVars, inVars, runVars, launcherVars
  <1>9. ASSUME NEW n \in Node, Forget(n) \/ HelloDue(n) \/ CopyCount(n) PROVE Goal
    BY <1>9 DEF Forget, HelloDue, CopyCount, launchVars, inVars, runVars, launcherVars
  <1>10. ASSUME NEW n \in Node, SendHello(n) PROVE Goal
    BY <1>10, PeerIsNode DEF SendHello, launchVars, inVars, runVars, launcherVars
  <1> HIDE DEF Types, Idle, Drawn, Running, Goal
  <1>11. Goal
    BY <1>1, <1>2, <1>3, <1>4, <1>5, <1>6, <1>7, <1>8, <1>9, <1>10 DEF Next, Lobby, Launcher, Goal
  <1> QED
    BY <1>11 DEF Goal

(* What an application has heard of its partner's present run stays true of *)
(* it: a new run of either has a nonce nobody has heard.                    *)
LEMMA AgreedStep ==
    ASSUME Types, Types', [Next]_vars, \A n \in Node : Idle(n) /\ Drawn(n) /\ Agreed(n)
    PROVE  \A n \in Node : Agreed(n)'
  <1> USE DEF Types, Idle, Drawn, Agreed, Running
  <1> DEFINE Goal == \A m \in Node : Agreed(m)'
  <1>1. CASE UNCHANGED vars
    BY <1>1 DEF vars, lobbyVars, launchVars, inVars, runVars, launcherVars
  <1>2. ASSUME NEW n \in Node, Start(n) PROVE Goal
    BY <1>2, PeerIsNode DEF Start, lobbyVars, launchVars, inVars
  <1>3. ASSUME NEW n \in Node, Exit(n) PROVE Goal
    <2> SUFFICES ASSUME NEW m \in Node PROVE Agreed(m)'
      BY DEF Goal
    <2>1. CASE m = n
      BY <1>3, <2>1 DEF Exit
    <2>2. CASE m # n
      <3>1. m \in Node /\ Peer(m) = n
        BY <2>2, PeerIsNode
      <3>2. nonce'[n] = 0 /\ wire'[m] = wire[m] /\ heard'[m] = heard[m] /\ nonce'[m] = nonce[m]
        BY <1>3, <2>2 DEF Exit
      <3> QED
        BY <3>1, <3>2
    <2> QED
      BY <2>1, <2>2
  <1>4. ASSUME NEW n \in Node, NEW g \in Games, Choose(n, g) PROVE Goal
    BY <1>4 DEF Choose, lobbyVars, launchVars, inVars, runVars
  <1>5. ASSUME NEW n \in Node, StoreGame(n) \/ CountLaunch(n) PROVE Goal
    BY <1>5 DEF StoreGame, CountLaunch, lobbyVars, inVars, runVars
  <1>6. ASSUME NEW n \in Node, LaunchRefused(n) \/ PlaySolo(n) \/ ReturnToMenu(n) PROVE Goal
    BY <1>6 DEF LaunchRefused, PlaySolo, ReturnToMenu, lobbyVars, launchVars, inVars, runVars
  <1>7. ASSUME NEW n \in Node, TakeLaunch(n) PROVE Goal
    BY <1>7 DEF TakeLaunch, lobbyVars, launchVars, runVars
  <1>8. ASSUME NEW n \in Node, Receive(n) PROVE Goal
    BY <1>8, PeerIsNode DEF Receive, Role, launchVars, inVars, runVars, launcherVars
  <1>9. ASSUME NEW n \in Node, Forget(n) \/ HelloDue(n) \/ CopyCount(n) PROVE Goal
    BY <1>9 DEF Forget, HelloDue, CopyCount, launchVars, inVars, runVars, launcherVars
  <1>10. ASSUME NEW n \in Node, SendHello(n) PROVE Goal
    BY <1>10, PeerIsNode DEF SendHello, launchVars, inVars, runVars, launcherVars
  <1> HIDE DEF Types, Idle, Drawn, Agreed, Running, Goal
  <1>11. Goal
    BY <1>1, <1>2, <1>3, <1>4, <1>5, <1>6, <1>7, <1>8, <1>9, <1>10 DEF Next, Lobby, Launcher, Goal
  <1> QED
    BY <1>11 DEF Goal

(* What was received is a hello; the history has runs and numbers. *)
LEMMA ArrivalsStep ==
    ASSUME Types, Arrivals, [Next]_vars
    PROVE  Arrivals'
  <1> USE DEF Arrivals
  <1>1. CASE UNCHANGED <<incoming, received, taken>>
    BY <1>1
  <1>2. ASSUME NEW n \in Node, Exit(n) PROVE Arrivals'
    BY <1>2 DEF Exit
  <1>3. ASSUME NEW n \in Node, Receive(n) PROVE Arrivals'
    <2> PICK p \in wire[n] : IF Launches(n, p)
                             THEN /\ received' = [received EXCEPT ![n] = p.seq]
                                  /\ incoming' = [incoming EXCEPT ![n] = {p}]
                             ELSE UNCHANGED <<incoming, received>>
      BY <1>3 DEF Receive, inVars
    <2>1. p \in Hello /\ p.seq \in Nat /\ taken' = taken
      BY <1>3 DEF Types, Hello, Receive, launcherVars
    <2> QED
      BY <2>1
  <1>4. ASSUME NEW n \in Node, TakeLaunch(n) PROVE Arrivals'
    <2> PICK p \in incoming[n] :
            /\ incoming' = [incoming EXCEPT ![n] = {}] /\ received' = received
            /\ taken' = Append(taken, <<nonce[n], p.nonce, p.seq>>) \/ taken' = taken
      BY <1>4 DEF TakeLaunch
    <2>1. <<nonce[n], p.nonce, p.seq>> \in Nat \X Nat \X Nat
      BY DEF Types, Hello
    <2>2. Append(taken, <<nonce[n], p.nonce, p.seq>>) \in Seq(Nat \X Nat \X Nat)
      BY <2>1
    <2>3. taken' \in Seq(Nat \X Nat \X Nat) /\ incoming' \in [Node -> SUBSET Hello]
      BY <2>2
    <2> QED
      BY <2>3
  <1>5. ASSUME NEW n \in Node,
               \/ HelloDue(n) \/ Forget(n) \/ CopyCount(n) \/ SendHello(n)
               \/ StoreGame(n) \/ CountLaunch(n) \/ LaunchRefused(n)
               \/ (\E g \in Games : Choose(n, g)) \/ Start(n) \/ PlaySolo(n) \/ ReturnToMenu(n)
        PROVE  Arrivals'
    <2>1. UNCHANGED <<incoming, received, taken>>
      BY <1>5 DEF HelloDue, Forget, CopyCount, SendHello, StoreGame, CountLaunch, LaunchRefused,
         Choose, Start, PlaySolo, ReturnToMenu, inVars, launcherVars
    <2> QED
      BY <1>1, <2>1
  <1>6. CASE UNCHANGED vars
    BY <1>1, <1>6 DEF vars, inVars, launcherVars
  <1> HIDE DEF Arrivals
  <1> QED
    BY <1>2, <1>3, <1>4, <1>5, <1>6 DEF Next, Lobby, Launcher

(* While nothing is received, followed, started or left, hellos go on with   *)
(* later numbers.                                                           *)
LEMMA StillReceived ==
    ASSUME Types, Types', Followed, \A n \in Node : Counts(n),
           UNCHANGED <<taken, incoming, received, nonce, unused>>,
           \A n \in Node : Running(n)' = Running(n) /\ launchSeq[n] <= launchSeq'[n],
           \A n \in Node : loop'[n] = "send" =>
                \/ loop[n] = "send" /\ told'[n] = told[n]
                \/ told'[n].seq = launchSeq'[n],
           \A n \in Node :
                \/ wire'[n] \subseteq wire[n]
                \/ \E p \in Hello :
                        /\ wire'[n] = {p} /\ p.nonce = nonce[Peer(n)]
                        /\ p.seq = told[Peer(n)].seq
                        /\ loop[Peer(n)] = "send" /\ loop'[Peer(n)] # "send"
    PROVE  Followed'
  <1>1. Arrivals' /\ History' /\ IsInjective(taken)'
    BY DEF Followed, Arrivals, History, Old
  <1>2. \A n, x, s : Took(nonce[n], x, s)' = Took(nonce[n], x, s) /\ Has(n, x, s)' = Has(n, x, s)
    BY DEF Took, Has
  <1>3. ASSUME NEW n \in Node PROVE Told(n)' /\ Received(n)'
    <2> DEFINE m == Peer(n)
    <2>1. m \in Node
      BY PeerIsNode
    <2>2. /\ launchSeq[m] \in Nat /\ launchSeq'[m] \in Nat /\ launchSeq[m] <= launchSeq'[m]
          /\ told[m].seq \in Nat /\ told'[m].seq \in Nat /\ received[n] \in Nat
      BY <2>1 DEF Types, Followed, Arrivals
    <2>3. \A p \in wire[n] : p.seq \in Nat
      BY DEF Types, Hello
    <2>4. Told(n) /\ Received(n) /\ told[m].seq <= launchSeq[m]
      BY <2>1 DEF Followed, Counts
    <2>5. \/ wire'[n] \subseteq wire[n]
          \/ \E p \in Hello : /\ wire'[n] = {p} /\ p.nonce = nonce[m] /\ p.seq = told[m].seq
                              /\ loop[m] = "send" /\ loop'[m] # "send"
      OBVIOUS
    <2>6. loop'[m] = "send" => \/ loop[m] = "send" /\ told'[m] = told[m]
                               \/ told'[m].seq = launchSeq'[m]
      BY <2>1
    <2> HIDE DEF m
    <2>7. Told(n)'
      <3> SUFFICES ASSUME NEW p \in wire'[n], p.nonce = nonce[m]
                   PROVE  p.seq <= launchSeq'[m] /\ (loop'[m] = "send" => p.seq <= told'[m].seq)
        BY DEF Told, m
      <3>1. CASE wire'[n] \subseteq wire[n]
        <4>1. p.seq \in Nat /\ p.seq <= launchSeq[m] /\ (loop[m] = "send" => p.seq <= told[m].seq)
          BY <2>3, <2>4, <3>1 DEF Told, m
        <4> QED
          BY <2>2, <2>6, <4>1
      <3>2. CASE p.seq = told[m].seq /\ loop'[m] # "send"
        BY <2>2, <2>4, <3>2
      <3> QED
        BY <2>5, <3>1, <3>2
    <2>8. ~Running(n)' => incoming'[n] = {}
      BY <2>4 DEF Received
    <2>9. \A p \in incoming'[n] :
             Old(p.nonce)' /\ p.seq = received'[n] /\ ~Took(nonce[n], p.nonce, p.seq)'
      <3> SUFFICES ASSUME NEW p \in incoming'[n]
                   PROVE  /\ Old(p.nonce)' /\ p.seq = received'[n]
                          /\ ~Took(nonce[n], p.nonce, p.seq)'
        OBVIOUS
      <3>1. p \in incoming[n] /\ received' = received /\ unused' = unused
        OBVIOUS
      <3>2. Old(p.nonce) /\ p.seq = received[n] /\ ~Took(nonce[n], p.nonce, p.seq)
        BY <2>4, <3>1 DEF Received
      <3>3. ~Took(nonce[n], p.nonce, p.seq)'
        BY <1>2, <3>2
      <3> QED
        BY <3>1, <3>2, <3>3 DEF Old
    <2>10. ASSUME NEW x, NEW s, Has(n, x, s)
           PROVE  /\ \A p \in wire'[n] : p.nonce = x => s <= received[n] /\ received[n] <= p.seq
                  /\ x = nonce[m] =>
                        /\ s <= received[n] /\ received[n] <= launchSeq'[m]
                        /\ loop'[m] = "send" => received[n] <= told'[m].seq
                        /\ \A p \in wire'[n] : p.nonce = x
      <3>1. \A p \in wire[n] : p.nonce = x => s <= received[n] /\ received[n] <= p.seq
        BY <2>4, <2>10 DEF Received
      <3>2. x = nonce[m] => /\ s <= received[n] /\ received[n] <= launchSeq[m]
                            /\ loop[m] = "send" => received[n] <= told[m].seq
                            /\ \A p \in wire[n] : p.nonce = x
        BY <2>4, <2>10 DEF Received, m
      <3> QED
        BY <2>2, <2>3, <2>5, <2>6, <3>1, <3>2
    <2> QED
      BY <1>2, <2>7, <2>8, <2>9, <2>10 DEF Received, m
  <1> QED
    BY <1>1, <1>3 DEF Followed

(* A run that starts has received nothing, and nobody has heard it.         *)
LEMMA StartFollowed ==
    ASSUME Types, Types', Followed, NEW n \in Node, Start(n),
           \A m \in Node : Counts(m) /\ Idle(m) /\ Drawn(m)
    PROVE  Followed'
  <1>1. PICK x \in unused \cap Nonces[n] :
            nonce' = [nonce EXCEPT ![n] = x] /\ unused' = unused \ {x}
    BY DEF Start
  <1>2. UNCHANGED <<taken, incoming, received, wire, launchSeq, told, loop>>
    BY DEF Start, lobbyVars, launchVars, inVars
  <1>3. pc[n] = "off" /\ pc' = [pc EXCEPT ![n] = "menu"]
    BY DEF Start
  <1>4. x # 0 /\ x \in unused /\ nonce'[n] = x /\ \A m \in Node : m # n => nonce'[m] = nonce[m]
    BY <1>1 DEF Types
  <1>5. Arrivals' /\ History' /\ IsInjective(taken)'
    BY <1>1, <1>2 DEF Followed, Arrivals, History, Old
  <1>6. \A f, y, s : Took(f, y, s)' = Took(f, y, s)
    BY <1>2 DEF Took
  <1>7. \A f, y, s : Took(f, y, s) => f # x /\ y # x
    BY <1>4 DEF Took, Followed, History, Old
  <1>8. ASSUME NEW m \in Node PROVE Told(m)' /\ Received(m)'
    <2>1. Told(m) /\ Received(m) /\ Drawn(m) /\ Idle(m)
      BY DEF Followed
    <2>2. Peer(m) \in Node /\ (Peer(m) = n <=> m # n)
      BY PeerIsNode
    <2>3. \A p \in wire[m] : p.nonce # x
      BY <1>4, <2>1 DEF Drawn
    <2>4. \A p \in incoming[m] : p.nonce # x
      BY <1>4, <2>1 DEF Received, Old
    <2>5. CASE m = n
      <3>1. incoming[m] = {} /\ wire[m] = {}
        BY <1>3, <2>1, <2>5 DEF Received, Idle, Running
      <3>2. \A y, s : ~Has(m, y, s)'
        BY <1>2, <1>4, <1>6, <1>7, <2>5, <3>1 DEF Has
      <3> QED
        BY <1>2, <3>1, <3>2 DEF Told, Received
    <2>6. CASE m # n
      <3>1. nonce'[m] = nonce[m] /\ nonce'[Peer(m)] = x /\ Running(m)' = Running(m)
        BY <1>3, <1>4, <2>2, <2>6 DEF Running, Types
      <3>2. \A y, s : Has(m, y, s)' = Has(m, y, s)
        BY <1>2, <1>6, <3>1 DEF Has
      <3>3. \A y, s : Has(m, y, s) => y # x
        BY <1>7, <2>4 DEF Has
      <3>4. Told(m)'
        BY <1>2, <2>3, <3>1 DEF Told
      <3>5. \A p \in incoming'[m] : Old(p.nonce)' /\ p.seq = received'[m]
                  /\ ~Took(nonce[m], p.nonce, p.seq)'
        BY <1>1, <1>2, <1>6, <2>1, <3>1 DEF Received, Old
      <3>6. \A y, s : Has(m, y, s)' =>
               /\ \A p \in wire'[m] : p.nonce = y => s <= received'[m] /\ received'[m] <= p.seq
               /\ y # nonce'[Peer(m)]
        BY <1>2, <2>1, <3>1, <3>2, <3>3 DEF Received
      <3> QED
        BY <1>2, <2>1, <3>1, <3>4, <3>5, <3>6 DEF Received
    <2> QED
      BY <2>5, <2>6
  <1> QED
    BY <1>5, <1>8 DEF Followed

(* A run that ends leaves nothing received behind.                          *)
LEMMA ExitFollowed ==
    ASSUME Types, Types', Arrivals', Followed, NEW n \in Node, Exit(n),
           \A m \in Node : Counts(m) /\ Idle(m) /\ Drawn(m)
    PROVE  Followed'
  <1>1. /\ nonce' = [nonce EXCEPT ![n] = 0] /\ pc' = [pc EXCEPT ![n] = "off"]
        /\ incoming' = [incoming EXCEPT ![n] = {}] /\ received' = [received EXCEPT ![n] = 0]
        /\ wire' = [wire EXCEPT ![n] = {}] /\ UNCHANGED <<taken, unused>>
    BY DEF Exit
  <1>2. History' /\ IsInjective(taken)'
    BY <1>1 DEF Followed, History, Old
  <1>3. \A f, y, s : Took(f, y, s)' = Took(f, y, s)
    BY <1>1 DEF Took
  <1>4. \A f, y, s : Took(f, y, s) => f # 0 /\ y # 0
    BY DEF Took, Followed, History, Old
  <1>5. ASSUME NEW m \in Node PROVE Told(m)' /\ Received(m)'
    <2>1. Told(m) /\ Received(m) /\ Drawn(m)
      BY DEF Followed
    <2>2. Peer(m) \in Node /\ (Peer(m) = n <=> m # n)
      BY PeerIsNode
    <2>3. CASE m = n
      <3>1. incoming'[m] = {} /\ wire'[m] = {} /\ nonce'[m] = 0
        BY <1>1, <2>3 DEF Types, Followed, Arrivals
      <3>2. \A y, s : ~Has(m, y, s)'
        BY <1>3, <1>4, <3>1 DEF Has
      <3> QED
        BY <3>1, <3>2 DEF Told, Received
    <2>4. CASE m # n
      <3>1. /\ nonce'[m] = nonce[m] /\ nonce'[Peer(m)] = 0 /\ Running(m)' = Running(m)
            /\ incoming'[m] = incoming[m] /\ received'[m] = received[m] /\ wire'[m] = wire[m]
        BY <1>1, <2>2, <2>4 DEF Running, Types, Followed, Arrivals
      <3>2. \A y, s : Has(m, y, s)' = Has(m, y, s)
        BY <1>3, <3>1 DEF Has
      <3>3. \A p \in incoming[m] : p.nonce # 0
        BY <2>1 DEF Received, Old
      <3>4. \A y, s : Has(m, y, s) => y # 0
        BY <1>4, <3>3 DEF Has
      <3>5. Told(m)'
        BY <2>1, <3>1 DEF Told, Drawn
      <3>6. \A p \in incoming'[m] : Old(p.nonce)' /\ p.seq = received'[m]
                  /\ ~Took(nonce[m], p.nonce, p.seq)'
        BY <1>1, <1>3, <2>1, <3>1 DEF Received, Old
      <3>7. \A y, s : Has(m, y, s)' =>
               /\ \A p \in wire'[m] : p.nonce = y => s <= received'[m] /\ received'[m] <= p.seq
               /\ y # nonce'[Peer(m)]
        BY <2>1, <3>1, <3>2, <3>4 DEF Received
      <3> QED
        BY <2>1, <3>1, <3>5, <3>6, <3>7 DEF Received
    <2> QED
      BY <2>3, <2>4
  <1> QED
    BY <1>2, <1>5 DEF Followed

(* A launch that is received is a later one than all received of that run.  *)
LEMMA ReceiveFollowed ==
    ASSUME Types, Types', Arrivals', Followed, NEW n \in Node, Receive(n),
           \A m \in Node : Counts(m) /\ Idle(m) /\ Drawn(m)
    PROVE  Followed'
  <1> PICK p \in wire[n] : IF Launches(n, p)
                           THEN /\ received' = [received EXCEPT ![n] = p.seq]
                                /\ incoming' = [incoming EXCEPT ![n] = {p}]
                           ELSE UNCHANGED <<incoming, received>>
    BY DEF Receive, inVars
  <1>1. /\ UNCHANGED <<taken, nonce, unused, told, launchSeq, pc>> /\ Running(n)
        /\ loop' = [loop EXCEPT ![n] = "count"] /\ wire' = [wire EXCEPT ![n] = {}]
    BY DEF Receive, runVars, launcherVars, launchVars
  <1>2. History' /\ IsInjective(taken)'
    BY <1>1 DEF Followed, History, Old
  <1>3. \A f, y, s : Took(f, y, s)' = Took(f, y, s)
    BY <1>1 DEF Took
  <1>4. \A m \in Node : Running(m)' = Running(m)
    BY <1>1 DEF Running
  <1>5. ASSUME NEW m \in Node, m # n PROVE Told(m)' /\ Received(m)'
    <2>1. Told(m) /\ Received(m) /\ Peer(m) = n
      BY <1>5, PeerIsNode DEF Followed
    <2>2. incoming'[m] = incoming[m] /\ received'[m] = received[m] /\ wire'[m] = wire[m]
                /\ loop'[n] = "count"
      BY <1>1, <1>5 DEF Types, Followed, Arrivals
    <2>3. \A y, s : Has(m, y, s)' = Has(m, y, s)
      BY <1>1, <1>3, <2>2 DEF Has
    <2> QED
      BY <1>1, <1>3, <1>4, <2>1, <2>2, <2>3 DEF Told, Received, Old
  <1>6. Told(n)' /\ Received(n)'
    <2> DEFINE m == Peer(n)
    <2>1. Told(n) /\ Received(n) /\ Drawn(n) /\ m \in Node /\ m # n
      BY PeerIsNode DEF Followed
    <2>2. wire'[n] = {} /\ loop'[m] = loop[m]
      BY <1>1, <2>1 DEF Types
    <2>3. Told(n)'
      BY <2>2 DEF Told
    <2>4. /\ p.seq \in Nat /\ received[n] \in Nat /\ launchSeq[m] \in Nat /\ told[m].seq \in Nat
      <3>1. wire[n] \in SUBSET Hello /\ received[n] \in Nat /\ launchSeq[m] \in Nat
                  /\ told[m].seq \in Nat
        BY <2>1 DEF Types, Followed, Arrivals
      <3> QED
        BY <3>1 DEF Hello
    <2>5. CASE ~Launches(n, p)
      <3>1. incoming' = incoming /\ received' = received
        BY <2>5
      <3>2. \A y, s : Has(n, y, s)' = Has(n, y, s)
        BY <1>1, <1>3, <3>1 DEF Has
      <3> HIDE DEF m
      <3> QED
        BY <1>1, <1>3, <1>4, <2>1, <2>2, <2>3, <3>1, <3>2 DEF Received, Old, m
    <2>6. CASE Launches(n, p)
      <3>1. incoming'[n] = {p} /\ received'[n] = p.seq /\ p.seq # received[n]
        BY <2>6 DEF Launches, Followed, Arrivals
      <3>2. \A y, s : Has(n, y, s)' => Took(nonce[n], y, s) \/ (y = p.nonce /\ s = p.seq)
        BY <1>1, <1>3, <3>1 DEF Has
      <3>3. \A y, s : Took(nonce[n], y, s) => Has(n, y, s)
        BY DEF Has
      <3>4. \A s : Took(nonce[n], p.nonce, s) => s <= received[n] /\ received[n] <= p.seq
        BY <2>1, <3>3 DEF Received
      <3>5. Old(p.nonce)' /\ ~Took(nonce[n], p.nonce, p.seq)
        BY <1>1, <2>1, <2>4, <3>1, <3>4 DEF Drawn, Old
      <3>6. \A s : Took(nonce[n], nonce[m], s) => p.nonce = nonce[m]
        BY <2>1, <3>3 DEF Received
      <3>7. p.nonce = nonce[m] => p.seq <= launchSeq[m]
                  /\ (loop[m] = "send" => p.seq <= told[m].seq)
        BY <2>1 DEF Told
      <3>8. ASSUME NEW s, Took(nonce[n], p.nonce, s) PROVE s <= p.seq
        <4>1. s \in Nat
          <5>1. PICK i \in DOMAIN taken : taken[i] = <<nonce[n], p.nonce, s>>
            BY <3>8 DEF Took
          <5>2. taken[i] \in Nat \X Nat \X Nat
            BY <5>1 DEF Followed, Arrivals
          <5> QED
            BY <5>1, <5>2
        <4> QED
          BY <2>4, <3>4, <3>8, <4>1
      <3>9. \A y, s : Has(n, y, s)' /\ y = nonce[m] =>
                /\ s <= p.seq /\ p.seq <= launchSeq[m]
                /\ loop[m] = "send" => p.seq <= told[m].seq
        BY <2>4, <3>2, <3>6, <3>7, <3>8
      <3> HIDE DEF m
      <3>10. \A q \in incoming'[n] : q = p
        BY <3>1
      <3>11. \A q \in incoming'[n] :
                Old(q.nonce)' /\ q.seq = received'[n] /\ ~Took(nonce[n], q.nonce, q.seq)'
        BY <1>1, <1>3, <3>1, <3>5, <3>10
      <3> QED
        BY <1>1, <1>4, <2>2, <2>3, <3>1, <3>9, <3>11 DEF Received, m
    <2> QED
      BY <2>5, <2>6
  <1> QED
    BY <1>2, <1>5, <1>6 DEF Followed

(* A launch that is followed was received and not followed before.          *)
LEMMA TakeFollowed ==
    ASSUME Types, Types', Arrivals', Followed, NEW n \in Node, TakeLaunch(n),
           \A m \in Node : Counts(m) /\ Idle(m) /\ Drawn(m)
    PROVE  Followed'
  <1> PICK p \in incoming[n] :
        /\ incoming' = [incoming EXCEPT ![n] = {}] /\ pc[n] = "menu"
        /\ \/ taken' = Append(taken, <<nonce[n], p.nonce, p.seq>>)
              /\ pc' = [pc EXCEPT ![n] = "playing"]
           \/ taken' = taken /\ pc' = pc
    BY DEF TakeLaunch
  <1>1. UNCHANGED <<received, nonce, unused, told, loop, launchSeq, wire>>
    BY DEF TakeLaunch, launchVars, lobbyVars, runVars
  <1> DEFINE e == <<nonce[n], p.nonce, p.seq>>
  <1>2. taken \in Seq(Nat \X Nat \X Nat) /\ e \in Nat \X Nat \X Nat
    BY DEF Types, Hello, Followed, Arrivals
  <1>3. Received(n) /\ Idle(n) /\ Drawn(n)
    BY DEF Followed
  <1>4. Old(p.nonce) /\ ~Took(nonce[n], p.nonce, p.seq) /\ Old(nonce[n])
    BY <1>3 DEF Received, Idle, Drawn, Old, Running
  <1>5. taken' = taken \/ taken' = Append(taken, e)
    OBVIOUS
  <1> HIDE DEF e
  <1>6. \A i \in DOMAIN taken' : taken'[i] = e \/ (i \in DOMAIN taken /\ taken'[i] = taken[i])
    <2>1. CASE taken' = taken
      BY <2>1
    <2>2. CASE taken' = Append(taken, e)
      BY <1>2, <2>2
    <2> QED
      BY <1>5, <2>1, <2>2
  <1>7. e[1] = nonce[n] /\ e[2] = p.nonce
    BY DEF e
  <1>8. History'
    BY <1>1, <1>4, <1>6, <1>7 DEF Followed, History, Old
  <1>9. \A i \in DOMAIN taken : taken[i] # e
    BY <1>4 DEF Took, e
  <1>10. IsInjective(taken)'
    <2>1. CASE taken' = taken
      BY <2>1 DEF Followed
    <2>2. CASE taken' = Append(taken, e)
      <3>1. /\ DOMAIN taken' = 1..(Len(taken) + 1) /\ DOMAIN taken = 1..Len(taken)
                  /\ Len(taken) \in Nat
            /\ taken'[Len(taken) + 1] = e /\ \A i \in 1..Len(taken) : taken'[i] = taken[i]
        BY <1>2, <2>2
      <3>2. \A i, j \in 1..Len(taken) : taken[i] = taken[j] => i = j
        BY <3>1 DEF Followed, IsInjective
      <3>3. \A i \in 1..Len(taken) : taken[i] # e
        BY <1>9, <3>1
      <3>4. \A i, j \in DOMAIN taken' : taken'[i] = taken'[j] => i = j
        BY <3>1, <3>2, <3>3
      <3> QED
        BY <3>4 DEF IsInjective
    <2> QED
      BY <1>5, <2>1, <2>2
  <1>11. \A f, y, s : Took(f, y, s)' => Took(f, y, s) \/ <<f, y, s>> = e
    BY <1>6 DEF Took
  <1>12. \A y, s : Has(n, y, s)' => Has(n, y, s)
    <2>1. incoming'[n] = {}
      BY DEF Followed, Arrivals
    <2>2. \A y, s : <<nonce[n], y, s>> = e => y = p.nonce /\ s = p.seq
      BY DEF e
    <2> QED
      BY <1>1, <1>11, <2>1, <2>2 DEF Has
  <1>13. ASSUME NEW m \in Node PROVE Told(m)' /\ Received(m)'
    <2>1. Told(m) /\ Received(m)
      BY DEF Followed
    <2>2. Told(m)'
      BY <1>1, <2>1 DEF Told
    <2>3. Running(m)' = Running(m)
      BY DEF Running, Types
    <2>4. CASE m = n
      <3>1. incoming'[m] = {}
        BY <2>4 DEF Followed, Arrivals
      <3> QED
        BY <1>1, <1>12, <2>1, <2>2, <2>4, <3>1 DEF Received
    <2>5. CASE m # n
      <3>1. nonce[m] # nonce[n]
        BY <1>4, <2>5, PeerIsNode DEF Drawn, Old
      <3>2. incoming'[m] = incoming[m]
        BY <2>5 DEF Followed, Arrivals
      <3>3. \A y, s : Took(nonce[m], y, s)' => Took(nonce[m], y, s)
        BY <1>1, <1>7, <1>11, <3>1
      <3>4. \A y, s : Has(m, y, s)' => Has(m, y, s)
        BY <1>1, <3>2, <3>3 DEF Has
      <3>5. \A q \in incoming'[m] : Old(q.nonce)' /\ q.seq = received'[m]
                  /\ ~Took(nonce[m], q.nonce, q.seq)'
        BY <1>1, <2>1, <3>2, <3>3 DEF Received, Old
      <3> QED
        BY <1>1, <2>1, <2>2, <2>3, <3>2, <3>4, <3>5 DEF Received
    <2> QED
      BY <2>4, <2>5
  <1> QED
    BY <1>8, <1>10, <1>13 DEF Followed

(* No step makes a run follow a launch again.                               *)
LEMMA FollowedStep ==
    ASSUME Types, Types', Arrivals', Followed, [Next]_vars,
           \A n \in Node : Counts(n) /\ Idle(n) /\ Drawn(n)
    PROVE  Followed'
  <1>1. CASE UNCHANGED vars
    <2>1. /\ UNCHANGED <<taken, incoming, received, nonce, unused, launchSeq, loop, told, wire, pc>>
      BY <1>1 DEF vars, lobbyVars, launchVars, inVars, runVars, launcherVars
    <2>2. \A n \in Node : Running(n)' = Running(n) /\ launchSeq[n] <= launchSeq'[n]
      BY <2>1 DEF Running, Types
    <2> QED
      BY <2>1, <2>2, StillReceived
  <1>2. ASSUME NEW n \in Node, HelloDue(n) \/ Forget(n) \/ CopyCount(n) PROVE Followed'
    <2>1. /\ UNCHANGED <<taken, incoming, received, nonce, unused, launchSeq, wire, pc>>
          /\ \/ told' = told /\ loop' = [loop EXCEPT ![n] = "count"]
             \/ told' = [told EXCEPT ![n] = [node |-> role[n], seq |-> launchSeq[n]]]
      BY <1>2 DEF HelloDue, Forget, CopyCount, launchVars, inVars, runVars, launcherVars
    <2>2. loop' = [loop EXCEPT ![n] = "count"] \/ loop' = [loop EXCEPT ![n] = "send"]
      BY <1>2 DEF HelloDue, Forget, CopyCount
    <2>3. \A m \in Node : Running(m)' = Running(m) /\ launchSeq[m] <= launchSeq'[m]
      BY <2>1 DEF Running, Types
    <2>4. \A m \in Node : loop'[m] = "send" =>
             \/ loop[m] = "send" /\ told'[m] = told[m]
             \/ told'[m].seq = launchSeq'[m]
      BY <2>1, <2>2 DEF Types
    <2> QED
      BY <2>1, <2>3, <2>4, StillReceived
  <1>3. ASSUME NEW n \in Node, SendHello(n) PROVE Followed'
    <2> DEFINE p == [node |-> told[n].node, nonce |-> nonce[n],
                 owner |-> owns[n], games |-> Installed[n],
                 seq |-> told[n].seq,
                 game |-> outGame[n].game, pick |-> outGame[n].pick]
    <2>1. p \in Hello /\ p.nonce = nonce[n] /\ p.seq = told[n].seq
      BY LobbyAssumption DEF Hello, Node, Types
    <2>2. wire' = wire \/ wire' = [wire EXCEPT ![Peer(n)] = {p}]
      BY <1>3 DEF SendHello
    <2> HIDE DEF p
    <2>3. /\ UNCHANGED <<taken, incoming, received, nonce, unused, launchSeq, pc>>
          /\ loop[n] = "send" /\ loop' = [loop EXCEPT ![n] = "drain"]
          /\ told' = [told EXCEPT ![n] = [node |-> 0, seq |-> 0]]
      BY <1>3 DEF SendHello, launchVars, inVars, runVars, launcherVars
    <2>4. \A m \in Node : Running(m)' = Running(m) /\ launchSeq[m] <= launchSeq'[m]
      BY <2>3 DEF Running, Types
    <2>5. \A m \in Node : loop'[m] = "send" => loop[m] = "send" /\ told'[m] = told[m]
      BY <2>3 DEF Types
    <2>6. \A m \in Node : wire'[m] = wire[m] \/ (m = Peer(n) /\ wire'[m] = {p})
      BY <2>2 DEF Types
    <2>7. \A m \in Node : \/ wire'[m] \subseteq wire[m]
                          \/ \E q \in Hello :
                                /\ wire'[m] = {q} /\ q.nonce = nonce[Peer(m)]
                                /\ q.seq = told[Peer(m)].seq
                                /\ loop[Peer(m)] = "send" /\ loop'[Peer(m)] # "send"
      <3>1. Peer(Peer(n)) = n /\ loop'[n] = "drain"
        BY <2>3, PeerIsNode DEF Types
      <3> QED
        BY <2>1, <2>3, <2>6, <3>1
    <2> QED
      BY <2>3, <2>4, <2>5, <2>7, StillReceived
  <1>4. ASSUME NEW n \in Node,
               \/ StoreGame(n) \/ CountLaunch(n) \/ LaunchRefused(n)
               \/ (\E g \in Games : Choose(n, g)) \/ PlaySolo(n) \/ ReturnToMenu(n)
        PROVE  Followed'
    <2>1. /\ UNCHANGED <<taken, incoming, received, nonce, unused, loop, told, wire>>
          /\ launchSeq' = launchSeq \/ launchSeq' = [launchSeq EXCEPT ![n] = launchSeq[n] + 1]
      BY <1>4 DEF StoreGame, CountLaunch, LaunchRefused, Choose, PlaySolo, ReturnToMenu,
         lobbyVars, launchVars, inVars, runVars
    <2>2. pc[n] # "off" /\ \E s \in {"menu", "chosen", "stored", "player1", "playing"} :
                                pc' = [pc EXCEPT ![n] = s]
      BY <1>4 DEF StoreGame, CountLaunch, LaunchRefused, Choose, PlaySolo, ReturnToMenu, InGame
    <2>3. \A m \in Node : Running(m)' = Running(m) /\ launchSeq[m] <= launchSeq'[m]
      BY <2>1, <2>2 DEF Running, Types
    <2> QED
      BY <2>1, <2>3, StillReceived
  <1>5. ASSUME NEW n \in Node, Start(n) \/ Exit(n) \/ Receive(n) \/ TakeLaunch(n) PROVE Followed'
    BY <1>5, StartFollowed, ExitFollowed, ReceiveFollowed, TakeFollowed
  <1> QED
    BY <1>1, <1>2, <1>3, <1>4, <1>5 DEF Next, Lobby, Launcher

(* In every state the lobbies are as their hellos can account for.           *)
THEOREM LobbySafe == Spec => []LobbyInv
  <1>1. LobbyInv /\ [Next]_vars => LobbyInv'
    BY TypesStep, CountsStep, DrawnStep, AgreedStep, ArrivalsStep, FollowedStep
       DEF LobbyInv, Followed
  <1> QED
    BY <1>1, LobbyInit, PTL DEF Spec

(* Two applications that have heard each other as they are now never are both *)
(* player 1 or both player 2: Role decides the same question on either side. *)
THEOREM RolesOpposite == Spec => []OppositeRoles
  <1>1. LobbyInv => OppositeRoles
    <2> SUFFICES ASSUME LobbyInv, NEW n \in Node, nonce[n] # 0,
                        heard[n] = nonce[Peer(n)], heard[Peer(n)] = nonce[n]
                 PROVE  role[n] # role[Peer(n)]
      BY DEF OppositeRoles
    <2> DEFINE m == Peer(n)
    <2>1. m \in Node /\ Peer(m) = n
      BY PeerIsNode
    <2>2. Idle(n) /\ Idle(m) /\ Drawn(n) /\ Agreed(n) /\ Agreed(m)
      BY <2>1 DEF LobbyInv
    <2>3. nonce[m] # 0
      BY <2>1, <2>2 DEF Idle
    <2>4. nonce[n] # nonce[m]
      BY <2>2 DEF Drawn
    <2>5. role[n] = (IF owns[n] # owns[m] THEN (IF owns[n] THEN 1 ELSE 2)
                     ELSE (IF nonce[n] < nonce[m] THEN 1 ELSE 2))
      BY <2>2, <2>3 DEF Agreed
    <2>6. role[m] = (IF owns[m] # owns[n] THEN (IF owns[m] THEN 1 ELSE 2)
                     ELSE (IF nonce[m] < nonce[n] THEN 1 ELSE 2))
      BY <2>1, <2>2 DEF Agreed
    <2>7. nonce[n] \in Nat /\ nonce[m] \in Nat /\ owns[n] \in BOOLEAN /\ owns[m] \in BOOLEAN
      BY <2>1 DEF LobbyInv, Types
    <2> QED
      BY <2>4, <2>5, <2>6, <2>7
  <1> QED
    BY <1>1, LobbySafe, PTL

(* A hello never announces a launch with the game of an earlier one, though  *)
(* CopyCount and SendHello read the two apart.                               *)
THEOREM GameNeverOlder == Spec => []NeverAnOlderGame
  <1>1. LobbyInv => NeverAnOlderGame
    BY DEF LobbyInv, Counts, NeverAnOlderGame
  <1> QED
    BY <1>1, LobbySafe, PTL

(* One run of an application follows a launch once at most, though the launch *)
(* is announced again and again and either application may start anew.       *)
THEOREM FollowedOnceHolds == Spec => []FollowedOnce
  <1>1. LobbyInv => FollowedOnce
    BY DEF LobbyInv, Followed, FollowedOnce
  <1> QED
    BY <1>1, LobbySafe, PTL
=============================================================================
