---------------------------- MODULE NetplayProofs ----------------------------
(***************************************************************************)
(* Proofs about the lockstep link of module Netplay, for every delay, ring *)
(* size and bound, and whatever the network does.                          *)
(***************************************************************************)
EXTENDS Netplay, Sequences, FiniteSetTheorems, TLAPS

(***************************************************************************)
(* Why the lockstep is safe: the inductive invariant the proofs rest on,   *)
(* in named parts about one cabinet n.                                     *)
(***************************************************************************)
(* How far n is: a cabinet announces itself only until it has heard its    *)
(* partner, and one that has lost its partner is back in the host loop.    *)
Phase(n) ==
    /\ pc[n] \in {"frame", "exchange", "wait"} => frame[n] < MaxFrame
    /\ pc[n] \in {"frame", "exchange", "wait"} \/ frame[n] > 0 => everSeen[n]
    /\ pc[n] = "poll" => ~everSeen[n]
    /\ seen[n] => everSeen[n]
    /\ everSeen[n] => seen[n] \/ lost[n]
    /\ stalled[n] => lost[n]
    /\ lost[n] => pc[n] = "host"

(* n is in a running session and has yet to publish for this frame.        *)
Unsent(n) == frame[n] > 0 /\ ~lost[n] /\ pc[n] \in {"host", "frame"}

(* What n published lies between the delay and the delay past its frame.   *)
PubWindow(n) ==
    \A e \in pub[n] :
        /\ e[1] \in Delay..(frame[n] + Delay)
        /\ Unsent(n) => e[1] # frame[n] + Delay

(* Every frame but the first published one is published once.              *)
PubOnce(n) ==
    \A d, e \in pub[n] : d[1] = e[1] /\ d[1] # Delay => d[2] = e[2]

(* The ring of n holds its own input for each frame it may yet run.        *)
OwnRing(n) ==
    \A f \in frame[n]..(frame[n] + Delay) :
        f < frame[n] + Delay \/ pc[n] \in {"exchange", "wait"} =>
            Published(n, f, local[n][Slot(f)])

(* Later frames travel under later numbers; only frame Delay has two.      *)
Later(f, g) == f < g \/ (f = Delay /\ g = Delay)

(* The datagrams on their way to n.                                        *)
Wire(n) ==
    /\ \A p \in net[n] :
        /\ <<p.frame, p.state>> \in pub[Peer(n)]
        /\ p.seq \in 1..seq[Peer(n)]
        /\ p.seq > peerSeq[n] =>
                \/ p.frame > peerFrame[n]
                \/ p.frame = Delay /\ peerFrame[n] <= Delay
    /\ \A p, q \in net[n] : p.seq < q.seq => Later(p.frame, q.frame)

(* The newest datagram n has accepted.                                     *)
PeerTop(n) ==
    /\ peerSeq[n] <= seq[Peer(n)]
    /\ peerFrame[n] # 0 => \E e \in pub[Peer(n)] : e[1] = peerFrame[n]

(* A known slot holds the partner's input for a frame n has yet to run.    *)
Pending(n, s, f) ==
    /\ Slot(f) = s
    /\ Published(Peer(n), f, peerIn[n][s])
    /\ Seeded(f) \/ f <= peerFrame[n]
PeerRing(n) ==
    \A s \in Slots : known[n][s] /\ s # Slot(Delay) =>
        \E f \in frame[n]..(frame[Peer(n)] + Delay) : Pending(n, s, f)

(* n has run no frame it had not heard of.                                 *)
Behind(n) ==
    \A f \in Delay..(frame[n] - 1) : Single(f) => f <= peerFrame[n]

IInv ==
    /\ TypeOK
    /\ \A n \in Node :
        /\ Phase(n) /\ PubWindow(n) /\ PubOnce(n) /\ OwnRing(n)
        /\ Wire(n) /\ PeerTop(n) /\ PeerRing(n) /\ Behind(n)
    /\ OwnFrameInput

------------------------------------------------------------------------------

(* The two cabinets are each other's partner. *)
LEMMA PeerIsNode ==
    ASSUME NEW n \in Node
    PROVE  Peer(n) \in Node /\ Peer(Peer(n)) = n /\ Peer(n) # n
BY DEF Node, Peer

(* Every frame has a slot. *)
LEMMA SlotIsSlot ==
    ASSUME NEW f \in Nat
    PROVE  Slot(f) \in Slots
BY NetplayAssumption DEF Slot, Slots

(* Frames less than a lap of the ring apart have slots of their own. *)
LEMMA SlotApart ==
    ASSUME NEW f \in Nat, NEW g \in Nat, f < g, g < f + Ring
    PROVE  Slot(f) # Slot(g)
<1>1. Ring \in Nat /\ Ring > 0
  BY NetplayAssumption
<1>2. f = Ring * (f \div Ring) + (f % Ring) /\ f \div Ring \in Int /\ f % Ring \in Int
  BY <1>1
<1>3. g = Ring * (g \div Ring) + (g % Ring) /\ g \div Ring \in Int /\ g % Ring \in Int
  BY <1>1
<1>4. SUFFICES ASSUME f % Ring = g % Ring PROVE FALSE
  BY DEF Slot
<1> DEFINE k == (g \div Ring) - (f \div Ring)
<1>5. k \in Int /\ g - f = Ring * k
  BY <1>1, <1>2, <1>3, <1>4
<1> HIDE DEF k
<1>6. CASE k <= 0
  <2>1. Ring * k <= 0
    BY <1>1, <1>5, <1>6
  <2> QED BY <2>1, <1>5
<1>7. CASE k >= 1
  <2>1. Ring * k >= Ring
    BY <1>1, <1>5, <1>7
  <2> QED BY <2>1, <1>5, <1>1
<1> QED BY <1>5, <1>6, <1>7

------------------------------------------------------------------------------
(* The initial state is within the types. *)
LEMMA InitType == Init => TypeOK
BY NetplayAssumption DEF Init, TypeOK, Node, Slots, Seeded

(* The inputs a cabinet publishes and files are inputs. *)
LEMMA SendType ==
    ASSUME TypeOK, NEW n \in Node, NEW input \in Inputs, Send(n, input)
    PROVE  /\ seq' \in [Node -> Nat]
           /\ local' \in [Node -> [Slots -> Inputs]]
           /\ pub' \in [Node -> SUBSET (Nat \X Inputs)]
           /\ net' \in [Node -> SUBSET Packet]
<1> DEFINE f == PublishFrame(n)
<1>0. f \in Nat
  <2>1. frame[n] \in Nat
    BY DEF TypeOK
  <2>2. Delay \in Nat
    BY NetplayAssumption
  <2> QED BY <2>1, <2>2 DEF PublishFrame
<1>1. f \in Nat /\ Slot(f) \in Slots
  BY <1>0, SlotIsSlot
<1>2. seq' \in [Node -> Nat] /\ seq[n] + 1 \in Nat
  BY DEF Send, TypeOK
<1>3. local' \in [Node -> [Slots -> Inputs]]
  BY <1>1 DEF Send, TypeOK
<1>4. pub' \in [Node -> SUBSET (Nat \X Inputs)]
  BY <1>1 DEF Send, TypeOK
<1>5. [seq |-> seq[n] + 1, frame |-> f, state |-> input] \in Packet
  BY <1>1, <1>2 DEF Packet
<1>6. net' \in [Node -> SUBSET Packet]
  BY <1>5, PeerIsNode DEF Send, TypeOK
<1> QED BY <1>2, <1>3, <1>4, <1>6

(* So are those it takes from a datagram. *)
LEMMA HandleType ==
    ASSUME TypeOK, NEW n \in Node, NEW p \in Packet, Handle(n, p)
    PROVE  /\ peerIn' \in [Node -> [Slots -> Inputs]]
           /\ known' \in [Node -> [Slots -> BOOLEAN]]
           /\ peerFrame' \in [Node -> Nat]
           /\ peerSeq' \in [Node -> Nat]
           /\ age' \in [Node -> 0..AgeLimit]
           /\ got' \in [Node -> BOOLEAN]
<1>1. p.frame \in Nat /\ p.seq \in Nat /\ p.state \in Inputs
  BY DEF Packet
<1>2. Slot(p.frame) \in Slots /\ 0 \in 0..AgeLimit
  BY <1>1, SlotIsSlot, NetplayAssumption
<1>3. CASE Fresh(n, p)
  <2>0. Filed(n, p)
    BY <1>3, Zenon DEF Handle, Filed
  <2>1. peerIn' \in [Node -> [Slots -> Inputs]]
    BY <1>1, <1>2, <2>0 DEF Filed, TypeOK
  <2>2. known' \in [Node -> [Slots -> BOOLEAN]]
    BY <1>2, <2>0 DEF Filed, TypeOK
  <2>3. peerFrame' \in [Node -> Nat] /\ peerSeq' \in [Node -> Nat]
    BY <1>1, <2>0 DEF Filed, TypeOK
  <2>4. age' \in [Node -> 0..AgeLimit] /\ got' \in [Node -> BOOLEAN]
    BY <1>2, <2>0 DEF Filed, TypeOK
  <2> QED BY <2>1, <2>2, <2>3, <2>4
<1>4. CASE ~Fresh(n, p)
  BY <1>4 DEF Handle, TypeOK
<1> QED BY <1>3, <1>4

(* Taking a datagram off the wire keeps the rest. *)
LEMMA TakenType ==
    ASSUME TypeOK, NEW n \in Node, NEW p \in net[n],
           net' = [net EXCEPT ![n] = @ \ {p}] \/ UNCHANGED net
    PROVE  p \in Packet /\ net' \in [Node -> SUBSET Packet]
<1>1. net \in [Node -> SUBSET Packet] /\ net[n] \subseteq Packet
  BY DEF TypeOK
<1>2. net[n] \ {p} \in SUBSET Packet
  BY <1>1
<1>3. [net EXCEPT ![n] = @ \ {p}] \in [Node -> SUBSET Packet]
  BY <1>1, <1>2
<1> QED BY <1>1, <1>3

(* Using up a fault keeps the budget. *)
LEMMA BudgetType ==
    ASSUME TypeOK,
           \/ UNCHANGED budget
           \/ budget.loss > 0 /\ budget' = [budget EXCEPT !.loss = @ - 1]
           \/ budget.dup > 0 /\ budget' = [budget EXCEPT !.dup = @ - 1]
           \/ budget.late > 0 /\ budget' = [budget EXCEPT !.late = @ - 1]
           \/ budget.menu > 0 /\ budget' = [budget EXCEPT !.menu = @ - 1]
    PROVE  budget' \in [loss : Nat, dup : Nat, late : Nat, menu : Nat]
<1>1. budget \in [loss : Nat, dup : Nat, late : Nat, menu : Nat]
  BY DEF TypeOK
<1>2. \A k \in Nat : k > 0 => k - 1 \in Nat
  OBVIOUS
<1> QED BY <1>1, <1>2

(* No step leaves the types. *)
LEMMA NextType ==
    ASSUME TypeOK, \A n \in Node : Phase(n), [Next]_vars
    PROVE  TypeOK'
<1> USE DEF linkVars, flagVars, hostVars, histVars
<1>1. ASSUME NEW n \in Node, PollSend(n) PROVE TypeOK'
  <2>1. CASE Announces(n)
    <3>1. Send(n, Neutral) /\ Neutral \in Inputs
      BY <1>1, <2>1, NetplayAssumption DEF PollSend
    <3> QED BY <1>1, <3>1, SendType DEF PollSend, TypeOK
  <2>2. CASE ~Announces(n)
    BY <1>1, <2>2 DEF PollSend, TypeOK
  <2> QED BY <2>1, <2>2
<1>2. ASSUME NEW n \in Node, PollEnd(n) PROVE TypeOK'
  <2>1. Older(age[n]) \in 0..AgeLimit /\ 0 \in 0..AgeLimit
    BY NetplayAssumption DEF Older, TypeOK
  <2>2. age' \in [Node -> 0..AgeLimit]
    BY <1>2, <2>1 DEF PollEnd, TypeOK
  <2>3. lost' \in [Node -> BOOLEAN]
    BY <1>2, Zenon DEF PollEnd, TypeOK
  <2>4. seen' \in [Node -> BOOLEAN]
    BY <1>2, Zenon DEF PollEnd, TypeOK
  <2>5. everSeen' \in [Node -> BOOLEAN] /\ pc' \in [Node -> {"host", "poll", "frame", "exchange", "wait"}]
    BY <1>2 DEF PollEnd, TypeOK
  <2> QED BY <1>2, <2>2, <2>3, <2>4, <2>5 DEF PollEnd, TypeOK
<1>3. ASSUME NEW n \in Node, BeginFrame(n) PROVE TypeOK'
  BY <1>3 DEF BeginFrame, TypeOK
<1>4. ASSUME NEW n \in Node, SuppressedFrame(n) PROVE TypeOK'
  BY <1>4 DEF SuppressedFrame, TypeOK
<1>5. ASSUME NEW n \in Node, FrameSend(n) PROVE TypeOK'
  <2>1. frame[n] \in DOMAIN Controls
    BY <1>5, NetplayAssumption DEF FrameSend, Phase, TypeOK
  <2>2. PICK input \in Inputs : Send(n, input)
    BY <1>5, <2>1, NetplayAssumption DEF FrameSend
  <2> QED BY <1>5, <2>2, SendType DEF FrameSend, TypeOK
<1>6. ASSUME NEW n \in Node, ExchangeEnd(n) PROVE TypeOK'
  <2>1. Older(age[n]) \in 0..AgeLimit
    BY NetplayAssumption DEF Older, TypeOK
  <2> QED BY <1>6, <2>1 DEF ExchangeEnd, TypeOK
<1>7. ASSUME NEW n \in Node, Play(n) PROVE TypeOK'
  <2>1. Slot(frame[n]) \in Slots
    BY SlotIsSlot DEF TypeOK
  <2>2. <<frame[n], local[n][Slot(frame[n])], peerIn[n][Slot(frame[n])]>>
          \in Nat \X Inputs \X Inputs
    BY <2>1 DEF TypeOK
  <2>3. played' \in [Node -> SUBSET (Nat \X Inputs \X Inputs)]
    BY <1>7, <2>2 DEF Play, TypeOK
  <2>4. known' \in [Node -> [Slots -> BOOLEAN]]
    BY <1>7, <2>1 DEF Play, Consumed, TypeOK
  <2> QED BY <1>7, <2>3, <2>4 DEF Play, TypeOK
<1>8. ASSUME NEW n \in Node, GiveUp(n) PROVE TypeOK'
  BY <1>8 DEF GiveUp, TimedOut, TypeOK
<1>9. ASSUME NEW n \in Node, HostExit(n) \/ Quit(n) PROVE TypeOK'
  BY <1>9 DEF HostExit, Quit, TypeOK
<1>10. ASSUME NEW n \in Node, Recv(n) \/ RecvLate(n) \/ RecvDup(n)
       PROVE  TypeOK'
  <2>1. PICK p \in net[n] :
          /\ Handle(n, p)
          /\ net' = [net EXCEPT ![n] = @ \ {p}] \/ UNCHANGED net
          /\ \/ UNCHANGED budget
             \/ budget.late > 0 /\ budget' = [budget EXCEPT !.late = @ - 1]
             \/ budget.dup > 0 /\ budget' = [budget EXCEPT !.dup = @ - 1]
    BY <1>10 DEF Recv, RecvLate, RecvDup
  <2>2. p \in Packet /\ net' \in [Node -> SUBSET Packet]
    BY <2>1, TakenType
  <2>4. budget' \in [loss : Nat, dup : Nat, late : Nat, menu : Nat]
    BY <2>1, BudgetType
  <2>5. UNCHANGED <<frame, local, seq, everSeen, flagVars, pc, menu, closed,
                    histVars>>
    BY <2>1 DEF Handle
  <2> QED BY <2>1, <2>2, <2>4, <2>5, HandleType DEF TypeOK
<1>11. ASSUME NEW n \in Node, Lose(n) PROVE TypeOK'
  <2>1. PICK p \in net[n] : net' = [net EXCEPT ![n] = @ \ {p}]
    BY <1>11 DEF Lose
  <2>2. net' \in [Node -> SUBSET Packet]
    BY <2>1, TakenType
  <2>3. budget' \in [loss : Nat, dup : Nat, late : Nat, menu : Nat]
    BY <1>11, BudgetType DEF Lose
  <2> QED BY <1>11, <2>2, <2>3 DEF Lose, TypeOK
<1>12. ASSUME NEW n \in Node, ShowSettings(n) \/ ShowPaused(n)
                              \/ HideSettings(n) \/ HidePaused(n)
       PROVE  TypeOK'
  <2>1. budget' \in [loss : Nat, dup : Nat, late : Nat, menu : Nat]
    BY <1>12, BudgetType
       DEF ShowSettings, ShowPaused, HideSettings, HidePaused
  <2>2. menu' \in [Node -> {"off", "opening", "open", "closing"}]
    <3>1. PICK to \in {"off", "opening", "open", "closing"} :
            menu' = [menu EXCEPT ![n] = to]
      BY <1>12, Zenon
         DEF ShowSettings, ShowPaused, HideSettings, HidePaused, MenuStep
    <3> QED BY <3>1 DEF TypeOK
  <2>3. UNCHANGED <<linkVars, flagVars, pc, got, closed, net, histVars>>
    BY <1>12 DEF ShowSettings, ShowPaused, HideSettings, HidePaused, MenuStep
  <2> QED BY <2>1, <2>2, <2>3 DEF TypeOK
<1>13. ASSUME UNCHANGED vars PROVE TypeOK'
  BY <1>13 DEF vars, TypeOK
<1> QED BY <1>1, <1>2, <1>3, <1>4, <1>5, <1>6, <1>7, <1>8, <1>9, <1>10,
           <1>11, <1>12, <1>13 DEF Next, Host, Done

------------------------------------------------------------------------------
(* The initial state is in phase. *)
LEMMA InitPhase == Init => \A n \in Node : Phase(n)
BY NetplayAssumption DEF Init, Phase

(* What Phase looks at. *)
phaseVars == <<frame, pc, everSeen, seen, stalled, lost>>

(* No step takes a cabinet out of phase. *)
LEMMA NextPhase ==
    ASSUME TypeOK, \A n \in Node : Phase(n), [Next]_vars
    PROVE  \A n \in Node : Phase(n)'
<1> USE DEF linkVars, flagVars, hostVars, histVars
<1>1. ASSUME NEW n \in Node, PollSend(n) PROVE \A m \in Node : Phase(m)'
  <2>1. ~everSeen[n]
    BY <1>1 DEF PollSend, Running, Waiting, Phase
  <2>2. /\ pc[n] = "host" /\ pc' = [pc EXCEPT ![n] = "poll"]
        /\ UNCHANGED <<frame, everSeen, seen, stalled, lost>> /\ ~lost[n]
    BY <1>1 DEF PollSend, Running
  <2> QED BY <2>1, <2>2 DEF Phase, TypeOK
<1>2. ASSUME NEW n \in Node, PollEnd(n) PROVE \A m \in Node : Phase(m)'
  <2>1. CASE got[n]
    <3>1. /\ pc[n] = "poll" /\ pc' = [pc EXCEPT ![n] = "host"]
          /\ everSeen' = [everSeen EXCEPT ![n] = TRUE]
          /\ seen' = [seen EXCEPT ![n] = TRUE]
          /\ UNCHANGED <<frame, stalled, lost>>
      BY <1>2, <2>1 DEF PollEnd
    <3> QED BY <3>1 DEF Phase, TypeOK
  <2>2. CASE ~got[n]
    <3>1. ~Gone(n, Older(age[n]))
      BY <1>2 DEF PollEnd, Phase, Gone
    <3>2. /\ pc[n] = "poll" /\ pc' = [pc EXCEPT ![n] = "host"]
          /\ lost' = [lost EXCEPT ![n] = @ \/ Gone(n, Older(age[n]))]
          /\ seen' = [seen EXCEPT ![n] = @ /\ ~Gone(n, Older(age[n]))]
          /\ UNCHANGED <<frame, stalled, everSeen>>
      BY <1>2, <2>2 DEF PollEnd
    <3>3. UNCHANGED <<seen, lost>>
      BY <3>1, <3>2 DEF TypeOK
    <3> QED BY <3>2, <3>3 DEF Phase, TypeOK
  <2> QED BY <2>1, <2>2
<1>3. ASSUME NEW n \in Node, BeginFrame(n) PROVE \A m \in Node : Phase(m)'
  BY <1>3 DEF BeginFrame, Running, Waiting, Phase, TypeOK
<1>4. ASSUME NEW n \in Node, SuppressedFrame(n)
      PROVE  \A m \in Node : Phase(m)'
  BY <1>4 DEF SuppressedFrame, Phase, TypeOK
<1>5. ASSUME NEW n \in Node, FrameSend(n) PROVE \A m \in Node : Phase(m)'
  BY <1>5 DEF FrameSend, Phase, TypeOK
<1>6. ASSUME NEW n \in Node, ExchangeEnd(n) PROVE \A m \in Node : Phase(m)'
  <2> DEFINE older == IF got[n] THEN age[n] ELSE Older(age[n])
             connected == older < AgeLimit
  <2>1. /\ pc[n] = "exchange" /\ everSeen[n]
        /\ everSeen' = [everSeen EXCEPT ![n] = @ \/ connected]
        /\ seen' = [seen EXCEPT ![n] = connected]
        /\ lost' = [lost EXCEPT ![n] = @ \/ (everSeen[n] /\ ~connected)]
        /\ pc' = [pc EXCEPT ![n] = IF connected THEN "wait" ELSE "host"]
        /\ UNCHANGED <<frame, stalled>>
    BY <1>6 DEF ExchangeEnd, Phase
  <2> HIDE DEF connected
  <2>2. CASE connected
    BY <2>1, <2>2 DEF Phase, TypeOK
  <2>3. CASE ~connected
    BY <2>1, <2>3 DEF Phase, TypeOK
  <2> QED BY <2>2, <2>3
<1>7. ASSUME NEW n \in Node, Play(n) PROVE \A m \in Node : Phase(m)'
  <2>1. /\ pc[n] = "wait" /\ pc' = [pc EXCEPT ![n] = "host"]
        /\ frame' = [frame EXCEPT ![n] = @ + 1]
        /\ stalled' = [stalled EXCEPT ![n] = FALSE]
        /\ UNCHANGED <<everSeen, seen, lost>>
    BY <1>7 DEF Play
  <2> QED BY <2>1 DEF Phase, TypeOK
<1>8. ASSUME NEW n \in Node, GiveUp(n) PROVE \A m \in Node : Phase(m)'
  BY <1>8 DEF GiveUp, TimedOut, Phase, TypeOK
<1>9. ASSUME UNCHANGED phaseVars PROVE \A m \in Node : Phase(m)'
  BY <1>9 DEF phaseVars, Phase
<1>10. ASSUME NEW n \in Node, \/ HostExit(n) \/ Quit(n) \/ Recv(n)
                              \/ RecvLate(n) \/ RecvDup(n) \/ Lose(n)
                              \/ ShowSettings(n) \/ ShowPaused(n)
                              \/ HideSettings(n) \/ HidePaused(n)
       PROVE  UNCHANGED phaseVars
  BY <1>10 DEF HostExit, Quit, Recv, RecvLate, RecvDup, Lose, ShowSettings,
               ShowPaused, HideSettings, HidePaused, MenuStep, Handle,
               phaseVars
<1>11. ASSUME UNCHANGED vars PROVE UNCHANGED phaseVars
  BY <1>11 DEF vars, phaseVars
<1> QED BY <1>1, <1>2, <1>3, <1>4, <1>5, <1>6, <1>7, <1>8, <1>9, <1>10, <1>11
        DEF Next, Host, Done

------------------------------------------------------------------------------
(* What a step does to the inputs, whoever takes it: it publishes one, it  *)
(* files one, it runs a frame, or it leaves them alone.                    *)
inputVars == <<frame, local, peerIn, known, peerFrame, seq, peerSeq, pub,
               played>>

PublishStep(n, input) ==
    /\ Send(n, input)
    /\ frame[n] = 0 \/ Unsent(n)
    /\ frame[n] = 0 => input \in Controls[0] \cup {Neutral}
    /\ frame[n] = 0 \/ frame[n] < MaxFrame
    /\ pc[n] \notin {"exchange", "wait"}
    /\ \/ pc' = [pc EXCEPT ![n] = "exchange"]
       \/ pc' = [pc EXCEPT ![n] = "poll"]
    /\ UNCHANGED <<frame, peerIn, known, peerFrame, peerSeq, played, lost>>

FileStep(n, p) ==
    /\ p \in net[n]
    /\ Fresh(n, p) /\ Filed(n, p)
    /\ net' = [net EXCEPT ![n] = @ \ {p}] \/ UNCHANGED net
    /\ UNCHANGED <<frame, local, seq, pub, played, pc, lost>>

QuietStep ==
    /\ UNCHANGED inputVars
    /\ \A n \in Node :
        /\ net'[n] \subseteq net[n]
        /\ Unsent(n)' => Unsent(n)
        /\ pc'[n] \in {"exchange", "wait"} => pc[n] \in {"exchange", "wait"}

LEMMA StepKinds ==
    ASSUME TypeOK, \A n \in Node : Phase(n), [Next]_vars
    PROVE  \/ \E n \in Node : \E input \in Inputs : PublishStep(n, input)
           \/ \E n \in Node : \E p \in Packet : FileStep(n, p)
           \/ \E n \in Node : Play(n)
           \/ QuietStep
<1> USE DEF linkVars, flagVars, hostVars, histVars
<1>1. ASSUME NEW n \in Node, PollSend(n), Announces(n)
      PROVE  PublishStep(n, Neutral) /\ Neutral \in Inputs
  <2>1. frame[n] = 0
    BY <1>1 DEF PollSend, Running, Waiting, Phase, TypeOK
  <2> QED BY <1>1, <2>1, NetplayAssumption DEF PollSend, PublishStep
<1>2. ASSUME NEW n \in Node, PollSend(n), ~Announces(n)
      PROVE  QuietStep
  <2>1. /\ pc' = [pc EXCEPT ![n] = "poll"]
        /\ UNCHANGED inputVars /\ UNCHANGED <<net, lost>>
    BY <1>2 DEF PollSend, inputVars
  <2> QED BY <2>1 DEF QuietStep, inputVars, Unsent, TypeOK
<1>3. ASSUME NEW n \in Node, PollEnd(n) PROVE QuietStep
  <2>1. /\ pc[n] = "poll" /\ pc' = [pc EXCEPT ![n] = "host"]
        /\ UNCHANGED inputVars /\ UNCHANGED net
        /\ \A m \in Node : m # n => lost'[m] = lost[m]
    BY <1>3 DEF PollEnd, inputVars, TypeOK
  <2>2. frame[n] = 0
    BY <2>1 DEF Phase, TypeOK
  <2> QED BY <2>1, <2>2 DEF QuietStep, inputVars, Unsent, TypeOK
<1>4. ASSUME NEW n \in Node, BeginFrame(n) PROVE QuietStep
  <2>1. /\ pc[n] = "host" /\ pc' = [pc EXCEPT ![n] = "frame"]
        /\ UNCHANGED inputVars /\ UNCHANGED <<net, lost>>
    BY <1>4 DEF BeginFrame, inputVars
  <2> QED BY <2>1 DEF QuietStep, inputVars, Unsent, TypeOK
<1>5. ASSUME NEW n \in Node, SuppressedFrame(n) PROVE QuietStep
  <2>1. /\ pc[n] = "frame" /\ pc' = [pc EXCEPT ![n] = "host"]
        /\ UNCHANGED inputVars /\ UNCHANGED <<net, lost>>
    BY <1>5 DEF SuppressedFrame, inputVars
  <2> QED BY <2>1 DEF QuietStep, inputVars, Unsent, TypeOK
<1>6. ASSUME NEW n \in Node, FrameSend(n)
      PROVE  \E input \in Inputs : PublishStep(n, input)
  <2>1. /\ frame[n] \in DOMAIN Controls /\ frame[n] < MaxFrame
        /\ pc[n] = "frame" /\ ~lost[n]
    BY <1>6, NetplayAssumption DEF FrameSend, Phase, TypeOK
  <2>2. PICK input \in Inputs : Send(n, input) /\ input \in Controls[frame[n]]
    BY <1>6, <2>1, NetplayAssumption DEF FrameSend
  <2>3. frame[n] = 0 \/ Unsent(n)
    BY <2>1 DEF Unsent, TypeOK
  <2> QED BY <1>6, <2>1, <2>2, <2>3 DEF FrameSend, PublishStep
<1>7. ASSUME NEW n \in Node, ExchangeEnd(n) PROVE QuietStep
  <2> DEFINE older == IF got[n] THEN age[n] ELSE Older(age[n])
             connected == older < AgeLimit
  <2>1. /\ pc[n] = "exchange" /\ everSeen[n]
        /\ lost' = [lost EXCEPT ![n] = @ \/ (everSeen[n] /\ ~connected)]
        /\ pc' = [pc EXCEPT ![n] = IF connected THEN "wait" ELSE "host"]
        /\ UNCHANGED inputVars /\ UNCHANGED net
    BY <1>7 DEF ExchangeEnd, Phase, inputVars
  <2> HIDE DEF connected
  <2>2. CASE connected
    BY <2>1, <2>2 DEF QuietStep, inputVars, Unsent, TypeOK
  <2>3. CASE ~connected
    BY <2>1, <2>3 DEF QuietStep, inputVars, Unsent, TypeOK
  <2> QED BY <2>2, <2>3
<1>8. ASSUME NEW n \in Node, GiveUp(n) PROVE QuietStep
  <2>1. /\ pc[n] = "wait" /\ everSeen[n]
        /\ lost' = [lost EXCEPT ![n] = lost[n] \/ everSeen[n]]
        /\ pc' = [pc EXCEPT ![n] = "host"]
        /\ UNCHANGED inputVars /\ UNCHANGED net
    BY <1>8 DEF GiveUp, TimedOut, Phase, inputVars
  <2> QED BY <2>1 DEF QuietStep, inputVars, Unsent, TypeOK
<1>9. ASSUME NEW n \in Node, HostExit(n) \/ Quit(n) PROVE QuietStep
  <2>1. /\ net' = [net EXCEPT ![n] = {}]
        /\ UNCHANGED inputVars /\ UNCHANGED <<pc, lost>>
    BY <1>9 DEF HostExit, Quit, inputVars
  <2> QED BY <2>1 DEF QuietStep, inputVars, Unsent, TypeOK
<1>10. ASSUME NEW n \in Node, Recv(n) \/ RecvLate(n) \/ RecvDup(n)
       PROVE  QuietStep \/ \E p \in Packet : FileStep(n, p)
  <2>1. PICK p \in net[n] :
          /\ Handle(n, p)
          /\ net' = [net EXCEPT ![n] = @ \ {p}] \/ UNCHANGED net
    BY <1>10 DEF Recv, RecvLate, RecvDup
  <2>2. p \in Packet
    BY <2>1, TakenType
  <2>3. UNCHANGED <<frame, local, seq, pub, played, pc, lost>>
    BY <2>1 DEF Handle
  <2>4. CASE Fresh(n, p)
    <3>1. Filed(n, p)
      BY <2>1, <2>4, Zenon DEF Handle
    <3> QED BY <2>1, <2>2, <2>3, <2>4, <3>1 DEF FileStep
  <2>5. CASE ~Fresh(n, p)
    <3>1. UNCHANGED <<peerIn, known, peerFrame, peerSeq>>
      BY <2>1, <2>5, Zenon DEF Handle
    <3> QED BY <2>1, <2>3, <3>1 DEF QuietStep, inputVars, Unsent, TypeOK
  <2> QED BY <2>4, <2>5
<1>11. ASSUME NEW n \in Node, Lose(n) PROVE QuietStep
  <2>1. PICK p \in net[n] : net' = [net EXCEPT ![n] = @ \ {p}]
    BY <1>11 DEF Lose
  <2>2. UNCHANGED inputVars /\ UNCHANGED <<pc, lost>>
    BY <1>11 DEF Lose, inputVars
  <2> QED BY <2>1, <2>2 DEF QuietStep, inputVars, Unsent, TypeOK
<1>12. ASSUME NEW n \in Node, ShowSettings(n) \/ ShowPaused(n)
                              \/ HideSettings(n) \/ HidePaused(n)
       PROVE  QuietStep
  <2>1. UNCHANGED inputVars /\ UNCHANGED <<pc, lost, net>>
    BY <1>12 DEF ShowSettings, ShowPaused, HideSettings, HidePaused, MenuStep,
                 inputVars
  <2> QED BY <2>1 DEF QuietStep, inputVars, Unsent
<1>13. ASSUME UNCHANGED vars PROVE QuietStep
  BY <1>13 DEF vars, QuietStep, inputVars, Unsent
<1> QED BY <1>1, <1>2, <1>3, <1>4, <1>5, <1>6, <1>7, <1>8, <1>9, <1>10,
           <1>11, <1>12, <1>13 DEF Next, Host, Done

------------------------------------------------------------------------------
(* The parts of the invariant that are about inputs. *)
InputInv ==
    /\ \A n \in Node :
        /\ PubWindow(n) /\ PubOnce(n) /\ OwnRing(n)
        /\ Wire(n) /\ PeerTop(n) /\ PeerRing(n) /\ Behind(n)
    /\ OwnFrameInput

LEMMA InitInputs == Init => InputInv
<1> SUFFICES ASSUME Init PROVE InputInv
  OBVIOUS
<1>1. Delay \in Nat /\ Delay > 0 /\ Ring \in Nat /\ 2 * Delay + 2 < Ring
  BY NetplayAssumption
<1>2. ASSUME NEW n \in Node
      PROVE  /\ PubWindow(n) /\ PubOnce(n) /\ Wire(n) /\ PeerTop(n)
             /\ Behind(n)
  BY <1>1, <1>2, PeerIsNode
     DEF Init, PubWindow, PubOnce, Wire, PeerTop, Behind
<1>3. ASSUME NEW n \in Node PROVE OwnRing(n)
  <2>1. frame[n] = 0 /\ pc[n] = "host"
        /\ local = [m \in Node |-> [s \in Slots |-> Neutral]]
    BY DEF Init
  <2>2. ASSUME NEW f \in 0..(Delay - 1)
        PROVE  Published(n, f, local[n][Slot(f)])
    BY <1>1, <2>1, <2>2, SlotIsSlot DEF Published, Seeded
  <2>3. \A f \in 0..(0 + Delay) : f < 0 + Delay => f \in 0..(Delay - 1)
    BY <1>1
  <2> QED BY <2>1, <2>2, <2>3 DEF OwnRing
<1>4. ASSUME NEW n \in Node PROVE PeerRing(n)
  <2>1. SUFFICES ASSUME NEW s \in Slots, known[n][s]
                 PROVE  \E f \in frame[n]..(frame[Peer(n)] + Delay) :
                            Pending(n, s, f)
    BY DEF PeerRing
  <2>0. frame = [m \in Node |-> 0] /\ known[n][s] = Seeded(s)
    BY <2>1 DEF Init
  <2>7. Seeded(s)
    BY <2>0, <2>1, Zenon
  <2>2. s \in 0..(Delay - 1) /\ frame[n] = 0 /\ frame[Peer(n)] = 0
    BY <1>1, <2>0, <2>1, <2>7, PeerIsNode DEF Seeded, Slots
  <2>3. Slot(s) = s
    BY <1>1, <2>2 DEF Slot
  <2>4. peerIn[n][s] = Neutral
    BY DEF Init
  <2>5. Pending(n, s, s)
    BY <1>1, <2>2, <2>3, <2>4 DEF Pending, Published, Seeded
  <2> QED BY <1>1, <2>2, <2>5
<1>5. OwnFrameInput
  BY DEF Init, OwnFrameInput
<1> QED BY <1>2, <1>3, <1>4, <1>5 DEF InputInv

(* A step that leaves the inputs alone keeps the invariant. *)
LEMMA QuietKeeps ==
    ASSUME TypeOK, InputInv, QuietStep
    PROVE  InputInv'
<1>1. ASSUME NEW n \in Node
      PROVE  /\ PubWindow(n)' /\ PubOnce(n)' /\ OwnRing(n)' /\ Wire(n)'
             /\ PeerTop(n)' /\ PeerRing(n)' /\ Behind(n)'
  <2>1. PubWindow(n)' /\ PubOnce(n)'
    BY <1>1 DEF QuietStep, inputVars, InputInv, PubWindow, PubOnce
  <2>2. OwnRing(n)'
    BY <1>1 DEF QuietStep, inputVars, InputInv, OwnRing, Published
  <2>3. Wire(n)'
    BY <1>1, PeerIsNode DEF QuietStep, inputVars, InputInv, Wire
  <2>4. PeerTop(n)' /\ PeerRing(n)' /\ Behind(n)'
    BY <1>1, PeerIsNode
       DEF QuietStep, inputVars, InputInv, PeerTop, PeerRing, Behind, Pending,
           Published
  <2> QED BY <2>1, <2>2, <2>3, <2>4
<1>2. OwnFrameInput'
  BY PeerIsNode
     DEF QuietStep, inputVars, InputInv, OwnFrameInput, RanOwn, Published
<1> QED BY <1>1, <1>2 DEF InputInv

(* Publishing more leaves what was published published. *)
LEMMA PublishedGrows ==
    ASSUME NEW n \in Node, NEW f, NEW i, pub[n] \subseteq pub'[n],
           Published(n, f, i)
    PROVE  Published(n, f, i)'
BY DEF Published

(* Publishing an input keeps the invariant. *)
LEMMA PublishKeeps ==
    ASSUME TypeOK, InputInv, NEW n \in Node, NEW input \in Inputs,
           PublishStep(n, input)
    PROVE  InputInv'
<1> DEFINE f == PublishFrame(n)
           packet == [seq |-> seq[n] + 1, frame |-> f, state |-> input]
<1>0. Delay \in Nat /\ Delay > 0 /\ Ring \in Nat /\ 2 * Delay + 2 < Ring
  BY NetplayAssumption
<1>1. f \in Nat /\ f = frame[n] + Delay /\ f >= Delay /\ frame[n] \in Nat
  BY <1>0 DEF PublishFrame, TypeOK
<1>2. /\ seq' = [seq EXCEPT ![n] = @ + 1]
      /\ local' = [local EXCEPT ![n][Slot(f)] = input]
      /\ pub' = [pub EXCEPT ![n] = @ \cup {<<f, input>>}]
      /\ net' = net \/ net' = [net EXCEPT ![Peer(n)] = @ \cup {packet}]
  BY DEF PublishStep, Send
<1>3. UNCHANGED <<frame, peerIn, known, peerFrame, peerSeq, played, lost>>
  BY DEF PublishStep
<1>4. pc' = [pc EXCEPT ![n] = "exchange"] \/ pc' = [pc EXCEPT ![n] = "poll"]
  BY DEF PublishStep
<1>5. \A e \in pub[n] : Later(e[1], f)
  <2>1. SUFFICES ASSUME NEW e \in pub[n] PROVE Later(e[1], f)
    OBVIOUS
  <2>2. e[1] \in Delay..f /\ (Unsent(n) => e[1] # f)
    BY <1>1 DEF InputInv, PubWindow
  <2>3. frame[n] = 0 \/ Unsent(n)
    BY DEF PublishStep
  <2> QED BY <1>0, <1>1, <2>2, <2>3 DEF Later
<1>6. \A m \in Node : pub[m] \subseteq pub'[m]
  BY <1>2 DEF TypeOK
<1> HIDE DEF f
<1>7. ASSUME NEW m \in Node PROVE PubWindow(m)' /\ PubOnce(m)'
  <2>1. CASE m = n
    <3>1. pub'[n] = pub[n] \cup {<<f, input>>} /\ ~Unsent(n)'
      BY <1>2, <1>4 DEF TypeOK, Unsent
    <3>2. PubWindow(n) /\ PubOnce(n)
      BY DEF InputInv
    <3>3. PubWindow(n)'
      BY <1>0, <1>1, <1>3, <3>1, <3>2 DEF PubWindow
    <3>4. PubOnce(n)'
      BY <1>5, <3>1, <3>2, <1>0, <1>1 DEF PubOnce, Later
    <3> QED BY <2>1, <3>3, <3>4
  <2>2. CASE m # n
    <3>1. pub'[m] = pub[m] /\ pc'[m] = pc[m]
      BY <1>2, <1>4, <2>2 DEF TypeOK
    <3> QED BY <1>3, <3>1 DEF InputInv, PubWindow, PubOnce, Unsent
  <2> QED BY <2>1, <2>2
<1>8. ASSUME NEW m \in Node PROVE OwnRing(m)'
  <2>1. CASE m = n
    <3>1. SUFFICES ASSUME NEW g \in frame[n]..f
                   PROVE  Published(n, g, local[n][Slot(g)])'
      BY <1>1, <1>3, <2>1 DEF OwnRing
    <3>2. g \in Nat /\ Slot(g) \in Slots /\ Slot(f) \in Slots
      BY <1>1, <3>1, SlotIsSlot
    <3>3. CASE g = f
      <4>1. local'[n][Slot(g)] = input
        BY <1>2, <3>2, <3>3 DEF TypeOK
      <4>2. <<f, input>> \in pub'[n]
        BY <1>2 DEF TypeOK
      <4> QED BY <1>0, <1>1, <3>3, <4>1, <4>2 DEF Published, Seeded
    <3>4. CASE g < f
      <4>1. Slot(g) # Slot(f)
        BY <1>0, <1>1, <3>1, <3>2, <3>4, SlotApart
      <4>2. local'[n][Slot(g)] = local[n][Slot(g)]
        BY <1>2, <3>2, <4>1 DEF TypeOK
      <4>3. Published(n, g, local[n][Slot(g)])
        BY <1>1, <3>1, <3>4 DEF InputInv, OwnRing
      <4> QED BY <1>6, <4>2, <4>3, PublishedGrows
    <3> QED BY <1>1, <3>1, <3>3, <3>4
  <2>2. CASE m # n
    <3>1. pub'[m] = pub[m] /\ pc'[m] = pc[m] /\ local'[m] = local[m]
      BY <1>2, <1>4, <2>2 DEF TypeOK
    <3> QED BY <1>3, <3>1 DEF InputInv, OwnRing, Published
  <2> QED BY <2>1, <2>2
<1>9. ASSUME NEW m \in Node PROVE Wire(m)'
  <2>1. CASE m = n
    <3>1. /\ net'[m] = net[m] /\ pub'[Peer(m)] = pub[Peer(m)]
          /\ seq'[Peer(m)] = seq[Peer(m)]
      BY <1>2, <2>1, PeerIsNode DEF TypeOK
    <3> QED BY <1>3, <3>1 DEF InputInv, Wire
  <2>2. CASE m # n
    <3>0. Peer(m) = n /\ Peer(n) = m
      BY <2>2 DEF Node, Peer
    <3>1. /\ net'[m] \subseteq net[m] \cup {packet}
          /\ pub'[n] = pub[n] \cup {<<f, input>>}
          /\ seq'[n] = seq[n] + 1 /\ seq[n] \in Nat
      BY <1>2, <3>0 DEF TypeOK
    <3>2. Wire(m) /\ PeerTop(m)
      BY DEF InputInv
    <3>3. /\ packet.seq = seq[n] + 1 /\ packet.frame = f
          /\ packet.state = input
      OBVIOUS
    <3>4. f > peerFrame[m] \/ (f = Delay /\ peerFrame[m] <= Delay)
      <4>1. CASE peerFrame[m] = 0
        BY <1>0, <1>1, <4>1
      <4>2. CASE peerFrame[m] # 0
        <5>1. PICK e \in pub[n] : e[1] = peerFrame[m]
          BY <3>0, <3>2, <4>2 DEF PeerTop
        <5> QED BY <1>5, <5>1, <1>0, <1>1 DEF Later
      <4> QED BY <4>1, <4>2
    <3>5. \A q \in net[m] : q.seq \in 1..seq[n] /\ Later(q.frame, f)
      <4>1. SUFFICES ASSUME NEW q \in net[m]
                     PROVE  q.seq \in 1..seq[n] /\ Later(q.frame, f)
        OBVIOUS
      <4>2. <<q.frame, q.state>> \in pub[n] /\ q.seq \in 1..seq[n]
        BY <3>0, <3>2 DEF Wire
      <4> QED BY <1>5, <4>2
    <3>6. ASSUME NEW p \in net'[m]
          PROVE  /\ <<p.frame, p.state>> \in pub'[n]
                 /\ p.seq \in 1..seq'[n]
                 /\ p.seq > peerSeq[m] =>
                        \/ p.frame > peerFrame[m]
                        \/ p.frame = Delay /\ peerFrame[m] <= Delay
      <4>1. CASE p \in net[m]
        BY <3>0, <3>1, <3>2, <4>1 DEF Wire
      <4>2. CASE p = packet
        BY <3>1, <3>3, <3>4, <4>2
      <4> QED BY <3>1, <4>1, <4>2
    <3>7. ASSUME NEW p \in net'[m], NEW q \in net'[m], p.seq < q.seq
          PROVE  Later(p.frame, q.frame)
      <4>1. CASE p \in net[m] /\ q \in net[m]
        BY <3>2, <3>7, <4>1 DEF Wire
      <4>2. CASE p \in net[m] /\ q = packet
        BY <3>3, <3>5, <4>2
      <4>3. CASE p = packet /\ q \in net[m]
        BY <3>1, <3>3, <3>5, <3>7, <4>3
      <4>4. CASE p = packet /\ q = packet
        BY <3>1, <3>3, <3>7, <4>4
      <4> QED BY <3>1, <4>1, <4>2, <4>3, <4>4
    <3> QED BY <1>3, <3>0, <3>6, <3>7 DEF Wire
  <2> QED BY <2>1, <2>2
<1>10. ASSUME NEW m \in Node PROVE PeerTop(m)' /\ PeerRing(m)' /\ Behind(m)'
  <2>1. Peer(m) \in Node
    BY PeerIsNode
  <2>2. seq'[Peer(m)] >= seq[Peer(m)] /\ seq[Peer(m)] \in Nat
    BY <1>2, <2>1 DEF TypeOK
  <2>3. PeerTop(m)'
    <3>1. peerSeq[m] \in Nat /\ seq'[Peer(m)] \in Nat
      BY <1>2, <2>1 DEF TypeOK
    <3> QED BY <1>3, <1>6, <2>1, <2>2, <3>1 DEF InputInv, PeerTop
  <2>4. PeerRing(m)'
    <3>1. SUFFICES ASSUME NEW s \in Slots, known[m][s], s # Slot(Delay)
                   PROVE  \E g \in frame[m]..(frame[Peer(m)] + Delay) :
                              Pending(m, s, g)'
      BY <1>3 DEF PeerRing
    <3>2. PICK g \in frame[m]..(frame[Peer(m)] + Delay) : Pending(m, s, g)
      BY <3>1 DEF InputInv, PeerRing
    <3>3. Published(Peer(m), g, peerIn[m][s])'
      BY <1>3, <1>6, <2>1, <3>2, PublishedGrows DEF Pending
    <3>4. Pending(m, s, g)'
      BY <1>3, <3>2, <3>3 DEF Pending
    <3> QED BY <3>4
  <2>5. Behind(m)'
    BY <1>3 DEF InputInv, Behind
  <2> QED BY <2>3, <2>4, <2>5
<1>11. OwnFrameInput'
  <2>1. SUFFICES ASSUME NEW m \in Node, NEW p \in played[m], Single(p[1])
                 PROVE  RanOwn(m, p)'
    BY <1>3 DEF OwnFrameInput
  <2>2. RanOwn(m, p)
    BY <2>1 DEF InputInv, OwnFrameInput
  <2> QED BY <1>6, <2>2, PeerIsNode, PublishedGrows DEF RanOwn
<1> QED BY <1>7, <1>8, <1>9, <1>10, <1>11 DEF InputInv

------------------------------------------------------------------------------
(* The partner's inputs a cabinet has filed reach at most Delay frames     *)
(* past the frame the partner is at.                                       *)
LEMMA FiledBound ==
    ASSUME TypeOK, InputInv, NEW n \in Node
    PROVE  peerFrame[n] <= frame[Peer(n)] + Delay
<1>1. Peer(n) \in Node /\ Delay \in Nat
  BY PeerIsNode, NetplayAssumption
<1>2. peerFrame[n] \in Nat /\ frame[Peer(n)] \in Nat
  BY <1>1 DEF TypeOK
<1>3. CASE peerFrame[n] = 0
  BY <1>1, <1>2, <1>3
<1>4. CASE peerFrame[n] # 0
  <2>1. PICK e \in pub[Peer(n)] : e[1] = peerFrame[n]
    BY <1>4 DEF InputInv, PeerTop
  <2>2. e[1] \in Delay..(frame[Peer(n)] + Delay)
    BY <1>1 DEF InputInv, PubWindow
  <2> QED BY <1>1, <1>2, <2>1, <2>2
<1> QED BY <1>3, <1>4

(* The lockstep window follows: a frame is run only after the partner's    *)
(* input for it, or for the frame before it, was filed.                    *)
LEMMA LeadBound ==
    ASSUME TypeOK, InputInv
    PROVE  Lead
<1> SUFFICES ASSUME NEW n \in Node
             PROVE  /\ frame[n] <= frame[Peer(n)] + Delay + 2
                    /\ Single(frame[n] - 1) =>
                            frame[n] <= frame[Peer(n)] + Delay + 1
  BY DEF Lead
<1>1. Peer(n) \in Node /\ Delay \in Nat /\ Ring \in Nat /\ 2 < Ring
  BY PeerIsNode, NetplayAssumption
<1>2. frame[n] \in Nat /\ frame[Peer(n)] \in Nat /\ peerFrame[n] \in Nat
  BY <1>1 DEF TypeOK
<1>3. peerFrame[n] <= frame[Peer(n)] + Delay
  BY FiledBound
<1>4. CASE frame[n] <= Delay + 1
  BY <1>1, <1>2, <1>4
<1>5. CASE frame[n] > Delay + 1
  <2> DEFINE f == frame[n] - 1
  <2>1. f \in Delay..(frame[n] - 1) /\ f - 1 \in Delay..(frame[n] - 1)
        /\ f \in Nat /\ f - 1 \in Nat
    BY <1>1, <1>2, <1>5
  <2>2. \A g \in Delay..(frame[n] - 1) : Single(g) => g <= peerFrame[n]
    BY DEF InputInv, Behind
  <2>3. Slot(f - 1) # Slot(f)
    BY <1>1, <2>1, SlotApart
  <2>4. Single(f) \/ Single(f - 1)
    BY <2>3 DEF Single
  <2>5. CASE Single(f)
    BY <1>1, <1>2, <1>3, <2>1, <2>2, <2>5
  <2>6. CASE ~Single(f)
    BY <1>1, <1>2, <1>3, <2>1, <2>2, <2>4, <2>6
  <2> QED BY <2>5, <2>6
<1> QED BY <1>1, <1>2, <1>4, <1>5

(* A known slot holds the input of the very frame the cabinet is about to  *)
(* run, never that of a frame a lap of the ring away.                      *)
LEMMA ArrivedIsOwn ==
    ASSUME TypeOK, InputInv, NEW n \in Node, Arrived(n), Single(frame[n])
    PROVE  Pending(n, Slot(frame[n]), frame[n])
<1>1. Peer(n) \in Node /\ Delay \in Nat /\ Ring \in Nat /\ 2 * Delay + 2 < Ring
  BY PeerIsNode, NetplayAssumption
<1>2. frame[n] \in Nat /\ frame[Peer(n)] \in Nat
  BY <1>1 DEF TypeOK
<1>3. Slot(frame[n]) \in Slots
  BY <1>2, SlotIsSlot
<1>4. PICK f \in frame[n]..(frame[Peer(n)] + Delay) :
        Pending(n, Slot(frame[n]), f)
  BY <1>3 DEF Arrived, Single, InputInv, PeerRing
<1>5. frame[Peer(n)] <= frame[n] + Delay + 2
  BY <1>1, LeadBound, PeerIsNode DEF Lead
<1>6. f < frame[n] + Ring /\ f \in Nat
  BY <1>1, <1>2, <1>4, <1>5
<1>7. Slot(f) = Slot(frame[n])
  BY <1>4 DEF Pending
<1>8. f = frame[n]
  BY <1>2, <1>4, <1>6, <1>7, SlotApart
<1> QED BY <1>4, <1>8

(* Filing a datagram keeps the invariant. *)
LEMMA FileKeeps ==
    ASSUME TypeOK, InputInv, NEW n \in Node, NEW p \in Packet, FileStep(n, p)
    PROVE  InputInv'
<1> DEFINE f == p.frame
           m == Peer(n)
<1>0. /\ Delay \in Nat /\ Delay > 0 /\ Ring \in Nat
      /\ m \in Node /\ Peer(m) = n /\ m # n
  BY NetplayAssumption, PeerIsNode
<1>1. f \in Nat /\ p.seq \in Nat /\ Slot(f) \in Slots /\ p.state \in Inputs
  BY SlotIsSlot DEF Packet
<1>2. UNCHANGED <<frame, local, seq, pub, played, pc, lost>>
  BY DEF FileStep
<1>3. /\ peerIn' = [peerIn EXCEPT ![n][Slot(f)] = p.state]
      /\ known' = [known EXCEPT ![n][Slot(f)] = TRUE]
      /\ peerSeq' = [peerSeq EXCEPT ![n] = p.seq]
      /\ peerFrame' = [peerFrame EXCEPT ![n] =
                          IF f > peerFrame[n] THEN f ELSE peerFrame[n]]
  BY DEF FileStep, Filed
<1>4. \A k \in Node : net'[k] \subseteq net[k]
  <2>1. net' = [net EXCEPT ![n] = net[n] \ {p}] \/ net' = net
    BY DEF FileStep
  <2>2. CASE net' = net
    BY <2>2
  <2>3. CASE net' = [net EXCEPT ![n] = net[n] \ {p}]
    BY <2>3 DEF TypeOK
  <2> QED BY <2>1, <2>2, <2>3
<1>5. /\ <<f, p.state>> \in pub[m] /\ p.seq \in 1..seq[m]
      /\ p.seq > peerSeq[n] =>
            \/ f > peerFrame[n]
            \/ f = Delay /\ peerFrame[n] <= Delay
  <2>1. p \in net[n] /\ Wire(n)
    BY DEF InputInv, FileStep
  <2>2. <<p.frame, p.state>> \in pub[Peer(n)]
    BY <2>1 DEF Wire
  <2>3. p.seq \in 1..seq[Peer(n)]
    BY <2>1 DEF Wire
  <2>4. p.seq > peerSeq[n] =>
           \/ p.frame > peerFrame[n]
           \/ p.frame = Delay /\ peerFrame[n] <= Delay
    BY <2>1 DEF Wire
  <2> QED BY <2>2, <2>3, <2>4 DEF f, m
<1>6. f > peerFrame[n] \/ (f = Delay /\ peerFrame[n] <= Delay)
  <2>1. p.seq > peerSeq[n]
    BY <1>1, <1>5 DEF FileStep, Fresh
  <2> QED BY <1>5, <2>1
<1>7. peerFrame'[n] = f /\ f >= peerFrame[n] /\ peerFrame[n] \in Nat
  BY <1>0, <1>1, <1>3, <1>6 DEF TypeOK
<1>8. f \in Delay..(frame[m] + Delay)
  BY <1>5, <1>0 DEF InputInv, PubWindow
<1>9. /\ peerSeq'[n] = p.seq /\ peerSeq'[m] = peerSeq[m]
      /\ peerFrame'[m] = peerFrame[m]
      /\ peerIn'[m] = peerIn[m] /\ known'[m] = known[m]
  BY <1>0, <1>3 DEF TypeOK
<1> HIDE DEF f, m
<1>10. ASSUME NEW k \in Node PROVE PubWindow(k)' /\ PubOnce(k)' /\ OwnRing(k)'
  BY <1>2
     DEF InputInv, PubWindow, PubOnce, OwnRing, Published, Unsent
<1>11. Wire(m)' /\ PeerTop(m)' /\ PeerRing(m)' /\ Behind(m)'
  <2>1. Wire(m) /\ PeerTop(m) /\ PeerRing(m) /\ Behind(m)
    BY <1>0 DEF InputInv
  <2>2. Wire(m)'
    BY <1>0, <1>2, <1>4, <1>9, <2>1 DEF Wire
  <2>3. PeerTop(m)' /\ Behind(m)'
    BY <1>2, <1>9, <2>1 DEF PeerTop, Behind
  <2>4. PeerRing(m)'
    BY <1>2, <1>9, <2>1 DEF PeerRing, Pending, Published
  <2> QED BY <2>2, <2>3, <2>4
<1>12. Wire(n)'
  <2>1. Wire(n) /\ p \in net[n] /\ m = Peer(n)
    BY DEF InputInv, FileStep, m
  <2>2. ASSUME NEW q \in net'[n], q.seq > p.seq
        PROVE  q.frame > f \/ (q.frame = Delay /\ f <= Delay)
    <3>1. q \in net[n]
      BY <1>4
    <3>2. Later(f, q.frame)
      BY <2>1, <2>2, <3>1 DEF Wire, f
    <3>3. q.frame \in Nat
      BY <3>1 DEF TypeOK, Packet
    <3> QED BY <1>0, <1>1, <3>2, <3>3 DEF Later
  <2>3. \A q \in net'[n] : <<q.frame, q.state>> \in pub[m] /\ q.seq \in 1..seq[m]
    BY <1>4, <2>1 DEF Wire
  <2>4. \A q, r \in net'[n] : q.seq < r.seq => Later(q.frame, r.frame)
    BY <1>4, <2>1 DEF Wire
  <2> QED BY <1>2, <1>7, <1>9, <2>1, <2>2, <2>3, <2>4 DEF Wire
<1>13. PeerTop(n)'
  BY <1>1, <1>2, <1>5, <1>7, <1>9 DEF PeerTop, m
<1>14. PeerRing(n)'
  <2>1. SUFFICES ASSUME NEW s \in Slots, known'[n][s], s # Slot(Delay)
                 PROVE  \E g \in frame[n]..(frame[m] + Delay) :
                            Pending(n, s, g)'
    BY <1>2 DEF PeerRing, m
  <2>2. CASE s = Slot(f)
    <3>1. f # Delay /\ Single(f)
      BY <2>1, <2>2 DEF Single
    <3>2. f >= frame[n]
      <4>1. CASE f < frame[n]
        <5>1. f \in Delay..(frame[n] - 1)
          BY <1>0, <1>8, <4>1 DEF TypeOK
        <5>2. f <= peerFrame[n]
          BY <3>1, <5>1 DEF InputInv, Behind
        <5> QED BY <1>1, <1>6, <1>7, <3>1, <5>2
      <4> QED BY <1>1, <4>1 DEF TypeOK
    <3>3. peerIn'[n][s] = p.state
      BY <1>1, <1>3, <2>2 DEF TypeOK
    <3>4. Pending(n, s, f)'
      BY <1>0, <1>2, <1>5, <1>7, <1>8, <2>2, <3>3
         DEF Pending, Published, Seeded, m
    <3>5. f \in frame[n]..(frame[m] + Delay)
      BY <1>0, <1>8, <3>2 DEF TypeOK
    <3> QED BY <3>4, <3>5
  <2>3. CASE s # Slot(f)
    <3>1. known[n][s] /\ peerIn'[n][s] = peerIn[n][s]
      BY <1>1, <1>3, <2>1, <2>3 DEF TypeOK
    <3>2. PICK g \in frame[n]..(frame[m] + Delay) : Pending(n, s, g)
      BY <2>1, <3>1 DEF InputInv, PeerRing, m
    <3>3. g <= peerFrame[n] => g <= peerFrame'[n]
      BY <1>0, <1>1, <1>7, <3>2 DEF TypeOK
    <3>4. Pending(n, s, g)'
      BY <1>2, <3>1, <3>2, <3>3 DEF Pending, Published, Seeded
    <3> QED BY <3>4
  <2> QED BY <2>2, <2>3
<1>15. Behind(n)'
  <2>1. SUFFICES ASSUME NEW g \in Delay..(frame[n] - 1), Single(g)
                 PROVE  g <= peerFrame'[n]
    BY <1>2 DEF Behind
  <2>2. g <= peerFrame[n] /\ g \in Nat
    BY <1>0, <2>1 DEF InputInv, Behind, TypeOK
  <2> QED BY <1>1, <1>7, <2>2
<1>16. OwnFrameInput'
  BY <1>2 DEF InputInv, OwnFrameInput, RanOwn, Published
<1>17. \A k \in Node : k = n \/ k = m
  BY DEF Node, Peer, m
<1> QED BY <1>10, <1>11, <1>12, <1>13, <1>14, <1>15, <1>16, <1>17 DEF InputInv

(* Running a frame keeps the invariant. *)
LEMMA PlayKeeps ==
    ASSUME TypeOK, InputInv, NEW n \in Node, Play(n)
    PROVE  InputInv'
<1> DEFINE f == frame[n]
           s == Slot(frame[n])
           m == Peer(n)
           p == <<f, local[n][s], peerIn[n][s]>>
<1>0. /\ Delay \in Nat /\ Delay > 0 /\ Ring \in Nat
      /\ m \in Node /\ Peer(m) = n /\ m # n
  BY NetplayAssumption, PeerIsNode
<1>1. f \in Nat /\ s \in Slots
  BY SlotIsSlot DEF TypeOK
<1>2. /\ pc[n] = "wait" /\ Arrived(n)
      /\ known' = [known EXCEPT ![n][s] = FALSE]
      /\ frame' = [frame EXCEPT ![n] = f + 1]
      /\ played' = [played EXCEPT ![n] = @ \cup {p}]
      /\ pc' = [pc EXCEPT ![n] = "host"]
      /\ UNCHANGED <<local, peerIn, peerFrame, seq, peerSeq, lost, net, pub>>
  BY DEF Play, Consumed
<1>3. /\ frame'[n] = f + 1 /\ frame'[m] = frame[m]
      /\ pc'[m] = pc[m] /\ known'[m] = known[m] /\ pc'[n] = "host"
  BY <1>0, <1>2 DEF TypeOK
<1>4. Single(f) => Pending(n, s, f)
  BY <1>2, ArrivedIsOwn
<1>5. \A k \in Node : k = n \/ k = m
  BY DEF Node, Peer
<1>6. \A k \in Node : \A g, i : Published(k, g, i)' <=> Published(k, g, i)
  BY <1>2 DEF Published
<1>7. ASSUME NEW k \in Node PROVE Wire(k)' /\ PeerTop(k)' /\ PubOnce(k)'
  BY <1>2 DEF InputInv, Wire, PeerTop, PubOnce
<1>8. PubWindow(m)' /\ OwnRing(m)'
  <2>1. PubWindow(m) /\ OwnRing(m)
    BY <1>0 DEF InputInv
  <2>2. Unsent(m)' <=> Unsent(m)
    BY <1>2, <1>3 DEF Unsent
  <2>3. PubWindow(m)'
    BY <1>2, <1>3, <2>1, <2>2 DEF PubWindow
  <2>4. OwnRing(m)'
    BY <1>0, <1>2, <1>3, <1>6, <2>1 DEF OwnRing
  <2> QED BY <2>3, <2>4
<1>9. PubWindow(n)'
  <2>1. \A e \in pub[n] : e[1] \in Delay..(f + Delay)
    BY DEF InputInv, PubWindow
  <2> QED BY <1>0, <1>1, <1>2, <1>3, <2>1 DEF PubWindow
<1>10. OwnRing(n)'
  <2>1. SUFFICES ASSUME NEW g \in (f + 1)..(f + Delay)
                 PROVE  Published(n, g, local[n][Slot(g)])
    BY <1>0, <1>1, <1>2, <1>3, <1>6 DEF OwnRing
  <2> QED BY <1>0, <1>1, <1>2 DEF InputInv, OwnRing
<1>11. PeerRing(m)'
  <2>1. SUFFICES ASSUME NEW r \in Slots, known[m][r], r # Slot(Delay)
                 PROVE  \E g \in frame[m]..(f + 1 + Delay) : Pending(m, r, g)'
    BY <1>0, <1>3 DEF PeerRing
  <2>2. PICK g \in frame[m]..(f + Delay) : Pending(m, r, g)
    BY <1>0, <2>1 DEF InputInv, PeerRing
  <2>3. Pending(m, r, g)'
    BY <1>0, <1>2, <1>6, <2>2 DEF Pending
  <2>4. g \in frame[m]..(f + 1 + Delay)
    BY <1>0, <1>1, <2>2 DEF TypeOK
  <2> QED BY <2>3, <2>4
<1>12. PeerRing(n)'
  <2>1. SUFFICES ASSUME NEW r \in Slots, known'[n][r], r # Slot(Delay)
                 PROVE  \E g \in (f + 1)..(frame[m] + Delay) : Pending(n, r, g)'
    BY <1>3 DEF PeerRing
  <2>2. r # s /\ known[n][r]
    BY <1>1, <1>2, <2>1 DEF TypeOK
  <2>3. PICK g \in f..(frame[m] + Delay) : Pending(n, r, g)
    BY <2>1, <2>2 DEF InputInv, PeerRing
  <2>4. g # f
    BY <2>2, <2>3 DEF Pending
  <2>5. Pending(n, r, g)'
    BY <1>0, <1>2, <1>6, <2>3 DEF Pending
  <2>7. frame[m] \in Nat
    BY <1>0 DEF TypeOK
  <2>6. g \in (f + 1)..(frame[m] + Delay)
    BY <1>0, <1>1, <2>3, <2>4, <2>7
  <2> QED BY <2>5, <2>6
<1>13. Behind(m)'
  BY <1>0, <1>2, <1>3 DEF InputInv, Behind
<1>14. Behind(n)'
  <2>1. SUFFICES ASSUME NEW g \in Delay..f, Single(g)
                 PROVE  g <= peerFrame[n]
    BY <1>0, <1>1, <1>2, <1>3 DEF Behind
  <2>2. CASE g < f
    BY <1>0, <1>1, <2>1, <2>2 DEF InputInv, Behind
  <2>3. CASE g = f
    BY <1>0, <1>1, <1>4, <2>1, <2>3 DEF Pending, Seeded
  <2> QED BY <1>0, <1>1, <2>1, <2>2, <2>3
<1>15. OwnFrameInput'
  <2>1. SUFFICES ASSUME NEW k \in Node, NEW q \in played'[k], Single(q[1])
                 PROVE  RanOwn(k, q)
    BY <1>6, PeerIsNode DEF OwnFrameInput, RanOwn
  <2>2. CASE q \in played[k]
    BY <2>1, <2>2 DEF InputInv, OwnFrameInput
  <2>3. CASE q \notin played[k]
    <3>1. k = n /\ q = p
      BY <1>2, <2>1, <2>3 DEF TypeOK
    <3>2. Published(m, f, peerIn[n][s])
      BY <1>4, <2>1, <3>1 DEF Pending
    <3>3. Published(n, f, local[n][s])
      BY <1>0, <1>1 DEF InputInv, OwnRing
    <3> QED BY <3>1, <3>2, <3>3 DEF RanOwn
  <2> QED BY <2>2, <2>3
<1> QED BY <1>5, <1>7, <1>8, <1>9, <1>10, <1>11, <1>12, <1>13, <1>14, <1>15
        DEF InputInv

------------------------------------------------------------------------------
(* The invariant is inductive. *)
LEMMA Inductive == Spec => []IInv
<1>1. Init => IInv
  BY InitType, InitPhase, InitInputs DEF IInv, InputInv
<1>2. IInv /\ [Next]_vars => IInv'
  <2> SUFFICES ASSUME IInv, [Next]_vars PROVE IInv'
    OBVIOUS
  <2>1. TypeOK /\ (\A n \in Node : Phase(n)) /\ InputInv
    BY DEF IInv, InputInv
  <2>2. TypeOK' /\ \A n \in Node : Phase(n)'
    BY <2>1, NextType, NextPhase
  <2>3. InputInv'
    BY <2>1, StepKinds, QuietKeeps, PublishKeeps, FileKeeps, PlayKeeps
  <2> QED BY <2>2, <2>3 DEF IInv, InputInv
<1> QED BY <1>1, <1>2, PTL DEF Spec

(* Every reachable state is within the types. *)
THEOREM TypesHold == Spec => []TypeOK
<1>1. IInv => TypeOK
  BY DEF IInv
<1> QED BY <1>1, Inductive, PTL

(* A board runs a frame only with the two inputs published for it, however *)
(* many datagrams are lost, copied or overtaken.                           *)
THEOREM OwnFrameInputHolds == Spec => []OwnFrameInput
<1>1. IInv => OwnFrameInput
  BY DEF IInv
<1> QED BY <1>1, Inductive, PTL

(* Neither board gets further ahead than the delay and one frame, or two.  *)
THEOREM LeadHolds == Spec => []Lead
<1>1. IInv => Lead
  BY LeadBound DEF IInv, InputInv
<1> QED BY <1>1, Inductive, PTL

(* Boards that both ran a frame merged the same pair of inputs.            *)
THEOREM AgreementHolds == Spec => []Agreement
<1>1. ASSUME IInv PROVE Agreement
  <2>1. SUFFICES ASSUME NEW f \in 0..MaxFrame, Single(f),
                        NEW p \in played[1], NEW q \in played[2],
                        p[1] = f, q[1] = f
                 PROVE  p[2] = q[3] /\ p[3] = q[2]
    BY DEF Agreement, SameMerge
  <2>2. 1 \in Node /\ 2 \in Node /\ Peer(1) = 2 /\ Peer(2) = 1
    BY DEF Node, Peer
  <2>3. /\ Published(1, f, p[2]) /\ Published(2, f, p[3])
        /\ Published(2, f, q[2]) /\ Published(1, f, q[3])
    BY <1>1, <2>1, <2>2 DEF IInv, OwnFrameInput, RanOwn
  <2>4. f # Delay
    BY <2>1 DEF Single
  <2>5. PubOnce(1) /\ PubOnce(2)
    BY <1>1, <2>2 DEF IInv
  <2> QED BY <2>3, <2>4, <2>5 DEF Published, PubOnce
<1> QED BY <1>1, Inductive, PTL

(* What a lost partner settles for n. *)
Settled(n) ==
    /\ lost'[n] /\ frame'[n] = frame[n]
    /\ seq'[n] = seq[n] /\ played'[n] = played[n]

(* No step of either cabinet unsettles it. *)
LEMMA LostStays ==
    ASSUME TypeOK, \A k \in Node : Phase(k), [Next]_vars,
           NEW n \in Node, lost[n]
    PROVE  Settled(n)
<1> USE DEF linkVars, flagVars, hostVars, histVars
<1>0. pc[n] = "host"
  BY DEF Phase
<1>1. ASSUME NEW k \in Node, PollSend(k) \/ FrameSend(k) PROVE Settled(n)
  <2>1. k # n
    BY <1>0, <1>1 DEF PollSend, FrameSend, Running
  <2>2. UNCHANGED <<frame, lost, played>>
    BY <1>1 DEF PollSend, FrameSend
  <2>3. seq' = seq \/ seq' = [seq EXCEPT ![k] = @ + 1]
    BY <1>1 DEF PollSend, FrameSend, Send
  <2> QED BY <2>1, <2>2, <2>3 DEF Settled, TypeOK
<1>2. ASSUME NEW k \in Node, PollEnd(k) PROVE Settled(n)
  <2>1. UNCHANGED <<frame, seq, played>> /\ k # n
    BY <1>0, <1>2 DEF PollEnd
  <2>2. lost'[n] = lost[n]
    BY <1>2, <2>1 DEF PollEnd, TypeOK
  <2> QED BY <2>1, <2>2 DEF Settled
<1>3. ASSUME NEW k \in Node, ExchangeEnd(k) \/ GiveUp(k) PROVE Settled(n)
  <2>1. UNCHANGED <<frame, seq, played>> /\ k # n
    BY <1>0, <1>3 DEF ExchangeEnd, GiveUp
  <2>2. lost'[n] = lost[n]
    BY <1>3, <2>1 DEF ExchangeEnd, GiveUp, TypeOK
  <2> QED BY <2>1, <2>2 DEF Settled
<1>4. ASSUME NEW k \in Node, Play(k) PROVE Settled(n)
  BY <1>0, <1>4 DEF Play, Settled, TypeOK
<1>5. ASSUME UNCHANGED <<frame, seq, played, lost>> PROVE Settled(n)
  BY <1>5 DEF Settled
<1>6. ASSUME NEW k \in Node,
             \/ BeginFrame(k) \/ SuppressedFrame(k) \/ HostExit(k) \/ Quit(k)
             \/ Recv(k) \/ RecvLate(k) \/ RecvDup(k) \/ Lose(k)
             \/ ShowSettings(k) \/ ShowPaused(k)
             \/ HideSettings(k) \/ HidePaused(k)
      PROVE  UNCHANGED <<frame, seq, played, lost>>
  BY <1>6 DEF BeginFrame, SuppressedFrame, HostExit, Quit, Recv, RecvLate,
              RecvDup, Lose, Handle, ShowSettings, ShowPaused, HideSettings,
              HidePaused, MenuStep
<1>7. ASSUME UNCHANGED vars PROVE UNCHANGED <<frame, seq, played, lost>>
  BY <1>7 DEF vars
<1> QED BY <1>1, <1>2, <1>3, <1>4, <1>5, <1>6, <1>7 DEF Next, Host, Done

(* Once the partner is lost the session is over: no further frame is run,  *)
(* nothing more is published.                                              *)
THEOREM LostIsFinalHolds == Spec => LostIsFinal
<1>1. IInv /\ [Next]_vars => [\A n \in Node : lost[n] =>
          /\ lost'[n] /\ frame'[n] = frame[n]
          /\ seq'[n] = seq[n] /\ played'[n] = played[n]]_vars
  BY LostStays DEF IInv, Settled
<1> QED BY <1>1, Inductive, PTL DEF Spec, LostIsFinal

(* The pause menu is never opened. *)
MenuShut == budget.menu = 0 /\ \A n \in Node : menu[n] = "off"

(* Without the menu a board leaves the lockstep only by losing its partner. *)
LEMMA DriftStep ==
    ASSUME TypeOK, \A n \in Node : Phase(n), [Next]_vars, MenuShut, NoSilentDrift
    PROVE  MenuShut' /\ NoSilentDrift'
<1> USE DEF linkVars, flagVars, hostVars, histVars
<1>1. ASSUME NEW n \in Node PROVE lost[n] => lost'[n]
  BY <1>1, LostStays DEF Settled
<1>2. ASSUME NEW n \in Node, ExchangeEnd(n) PROVE MenuShut' /\ NoSilentDrift'
  <2>1. everSeen[n] /\ UNCHANGED <<menu, budget>>
    BY <1>2 DEF ExchangeEnd, Phase
  <2>2. \A m \in Node : m # n => strayed'[m] = strayed[m]
    BY <1>2 DEF ExchangeEnd, TypeOK
  <2>3. \/ strayed'[n] = strayed[n]
        \/ lost'[n]
    BY <1>2, <2>1 DEF ExchangeEnd, TypeOK
  <2> QED BY <1>1, <2>1, <2>2, <2>3 DEF MenuShut, NoSilentDrift
<1>3. ASSUME NEW n \in Node, GiveUp(n) PROVE MenuShut' /\ NoSilentDrift'
  <2>1. everSeen[n] /\ UNCHANGED <<menu, budget>>
    BY <1>3 DEF GiveUp, Phase
  <2>2. lost'[n] /\ \A m \in Node : m # n => strayed'[m] = strayed[m]
    BY <1>3, <2>1 DEF GiveUp, TimedOut, TypeOK
  <2> QED BY <1>1, <2>1, <2>2 DEF MenuShut, NoSilentDrift
<1>4. ASSUME NEW n \in Node, SuppressedFrame(n) \/ ShowSettings(n) \/ ShowPaused(n)
                              \/ HideSettings(n) \/ HidePaused(n)
      PROVE  FALSE
  BY <1>4 DEF SuppressedFrame, Suppressed, ShowSettings, ShowPaused, HideSettings,
              HidePaused, MenuStep, MenuShut
<1>5. ASSUME UNCHANGED <<menu, strayed>>, budget'.menu = budget.menu
      PROVE  MenuShut' /\ NoSilentDrift'
  BY <1>1, <1>5 DEF MenuShut, NoSilentDrift
<1>6. ASSUME NEW n \in Node,
             \/ PollSend(n) \/ PollEnd(n) \/ BeginFrame(n) \/ FrameSend(n) \/ Play(n)
             \/ HostExit(n) \/ Quit(n) \/ Recv(n)
      PROVE  UNCHANGED <<menu, strayed, budget>>
  BY <1>6 DEF PollSend, PollEnd, BeginFrame, FrameSend, Play, HostExit, Quit, Recv, Handle
<1>7. ASSUME NEW n \in Node, RecvLate(n) \/ RecvDup(n) \/ Lose(n)
      PROVE  UNCHANGED <<menu, strayed>> /\ budget'.menu = budget.menu
  BY <1>7 DEF RecvLate, RecvDup, Lose, Handle, TypeOK
<1>8. ASSUME UNCHANGED vars PROVE UNCHANGED <<menu, strayed, budget>>
  BY <1>8 DEF vars
<1> QED BY <1>2, <1>3, <1>4, <1>5, <1>6, <1>7, <1>8 DEF Next, Host, Done

(* As long as nobody opens the pause menu, a board that ran a frame outside *)
(* the lockstep has lost its partner and stops, whatever the network does.  *)
THEOREM NoSilentDriftHolds ==
    ASSUME MaxMenus = 0
    PROVE  Spec => []NoSilentDrift
<1>1. Init => MenuShut /\ NoSilentDrift
  BY MaxMenus = 0 DEF Init, MenuShut, NoSilentDrift
<1>2. IInv /\ MenuShut /\ NoSilentDrift /\ [Next]_vars => (MenuShut /\ NoSilentDrift)'
  BY DriftStep DEF IInv
<1> QED BY <1>1, <1>2, Inductive, PTL DEF Spec
------------------------------------------------------------------------------
(***************************************************************************)
(* The refinement of the abstract lockstep, step by step, for players at   *)
(* rest at frame 0 and a session within a lap of the ring.  Then frame     *)
(* Delay has one input too, though it is published more than once.         *)
(***************************************************************************)
Rested == MaxFrame \in 1..(Delay + Ring) /\ Controls[0] = {Neutral}

(* The frame at the delay is published.                                    *)
HasSent(n) == \E i \in Inputs : <<frame[n] + Delay, i>> \in pub[n]

(* What n published is a log: no frame is missing, none has two inputs.    *)
Committed(n) ==
    /\ IsFiniteSet(pub[n])
    /\ Cardinality(pub[n]) = frame[n] + (IF HasSent(n) THEN 1 ELSE 0)
    /\ \A i : <<Delay, i>> \in pub[n] => i = Neutral
    /\ \A f \in Delay..(frame[n] + Delay - 1) :
            \E i \in Inputs : <<f, i>> \in pub[n]

(* Before frame Delay is run its slot holds what the partner published.    *)
FirstSlot(n) ==
    frame[n] <= Delay /\ known[n][Slot(Delay)] =>
        peerIn[n][Slot(Delay)] = Neutral /\ <<Delay, Neutral>> \in pub[Peer(n)]

(* n ran each frame so far, on the inputs published for it.                *)
Ran(n) ==
    /\ \A q \in played[n] : q[1] \in 0..(frame[n] - 1) /\ RanOwn(n, q)
    /\ \A f \in 0..(frame[n] - 1) : \E q \in played[n] : q[1] = f

LogInv == \A n \in Node : Committed(n) /\ FirstSlot(n) /\ Ran(n)

LEMMA InitLog == ASSUME Init PROVE LogInv
<1>1. Delay \in Nat /\ Delay > 0 /\ Ring \in Nat /\ Delay < Ring
  BY NetplayAssumption
<1> SUFFICES ASSUME NEW n \in Node PROVE Committed(n) /\ FirstSlot(n) /\ Ran(n)
  BY DEF LogInv
<1>2. frame[n] = 0 /\ pub[n] = {} /\ played[n] = {}
  BY DEF Init
<1>3. Committed(n)
  BY <1>1, <1>2, FS_EmptySet DEF Committed, HasSent
<1>4. ~known[n][Slot(Delay)]
  <2>1. Slot(Delay) = Delay /\ Slot(Delay) \in Slots
    BY <1>1, SlotIsSlot DEF Slot
  <2>2. ~Seeded(Delay)
    BY <1>1 DEF Seeded
  <2>3. known[n][Slot(Delay)] = Seeded(Slot(Delay))
    BY <2>1 DEF Init
  <2> QED BY <2>1, <2>2, <2>3
<1>5. FirstSlot(n)
  BY <1>4 DEF FirstSlot
<1>6. Ran(n)
  BY <1>2 DEF Ran
<1> QED BY <1>3, <1>5, <1>6

(* A frame has one published input.                                        *)
LEMMA PubUnique ==
    ASSUME TypeOK, LogInv, InputInv, NEW n \in Node, NEW f \in Nat,
           NEW i \in Inputs, NEW j \in Inputs, Published(n, f, i), Published(n, f, j)
    PROVE  i = j
<1>1. CASE Seeded(f)
  BY <1>1 DEF Published
<1>2. CASE ~Seeded(f)
  <2>1. <<f, i>> \in pub[n] /\ <<f, j>> \in pub[n]
    BY <1>2 DEF Published
  <2>2. CASE f = Delay
    BY <2>1, <2>2 DEF LogInv, Committed
  <2>3. CASE f # Delay
    BY <2>1, <2>3 DEF InputInv, PubOnce
  <2> QED BY <2>2, <2>3
<1> QED BY <1>1, <1>2

(* A function from 1..m is a sequence of length m.                         *)
LEMMA IsSequence ==
    ASSUME NEW S, NEW m \in Nat, NEW g \in [1..m -> S]
    PROVE  g \in Seq(S) /\ Len(g) = m
OBVIOUS

(* The log of n, read off what it published.                               *)
LEMMA LogIs ==
    ASSUME TypeOK, LogInv, InputInv, NEW n \in Node
    PROVE  /\ LogOf(n) \in Seq(Inputs)
           /\ Len(LogOf(n)) = frame[n] + Delay + (IF HasSent(n) THEN 1 ELSE 0)
           /\ \A k \in 1..Len(LogOf(n)) : Published(n, k - 1, LogOf(n)[k])
<1> DEFINE c == IF HasSent(n) THEN 1 ELSE 0
           l == Delay + Cardinality(pub[n])
<1>1. Delay \in Nat /\ frame[n] \in Nat /\ c \in Nat /\ Neutral \in Inputs
  BY NetplayAssumption DEF TypeOK
<1>2. l = frame[n] + Delay + c /\ l \in Nat
  BY <1>1 DEF LogInv, Committed
<1>3. LogOf(n) = [k \in 1..l |-> IF Seeded(k - 1) THEN Neutral
                   ELSE CHOOSE input \in Inputs : <<k - 1, input>> \in pub[n]]
  BY DEF LogOf
<1> HIDE DEF l
<1>4. ASSUME NEW k \in 1..l
      PROVE  LogOf(n)[k] \in Inputs /\ Published(n, k - 1, LogOf(n)[k])
  <2>1. CASE Seeded(k - 1)
    <3>1. LogOf(n)[k] = Neutral
      BY <1>3, <2>1
    <3> QED BY <1>1, <2>1, <3>1 DEF Published
  <2>2. CASE ~Seeded(k - 1)
    <3>1. k - 1 \in Delay..(frame[n] + Delay - 1 + c) /\ k - 1 \in Int
      BY <1>1, <1>2, <2>2 DEF Seeded
    <3>2. \E i \in Inputs : <<k - 1, i>> \in pub[n]
      <4>1. CASE k - 1 \in Delay..(frame[n] + Delay - 1)
        BY <4>1 DEF LogInv, Committed
      <4>2. CASE k - 1 = frame[n] + Delay /\ HasSent(n)
        BY <4>2 DEF HasSent
      <4> QED BY <1>1, <3>1, <4>1, <4>2
    <3>3. LogOf(n)[k] = CHOOSE input \in Inputs : <<k - 1, input>> \in pub[n]
      BY <1>3, <2>2
    <3> QED BY <2>2, <3>2, <3>3 DEF Published
  <2> QED BY <2>1, <2>2
<1>5. LogOf(n) \in Seq(Inputs) /\ Len(LogOf(n)) = l
  <2>1. LogOf(n) \in [1..l -> Inputs]
    <3>1. LogOf(n) = [k \in 1..l |-> LogOf(n)[k]]
      BY <1>3
    <3> HIDE DEF LogOf
    <3> QED BY <1>4, <3>1
  <2> QED BY <1>2, <2>1, IsSequence
<1> QED BY <1>2, <1>4, <1>5

(* The log holds what was published for a frame.                           *)
LEMMA LogHolds ==
    ASSUME TypeOK, LogInv, InputInv, NEW n \in Node, NEW k \in Nat \ {0},
           NEW i \in Inputs, Published(n, k - 1, i)
    PROVE  k <= Len(LogOf(n)) /\ LogOf(n)[k] = i
<1>1. Delay \in Nat /\ frame[n] \in Nat /\ k - 1 \in Nat
  BY NetplayAssumption DEF TypeOK
<1>2. Len(LogOf(n)) = frame[n] + Delay + (IF HasSent(n) THEN 1 ELSE 0)
  BY LogIs
<1>3. k <= Len(LogOf(n))
  <2>1. CASE Seeded(k - 1)
    BY <1>1, <1>2, <2>1 DEF Seeded
  <2>2. CASE ~Seeded(k - 1)
    <3>1. <<k - 1, i>> \in pub[n]
      BY <2>2 DEF Published
    <3>2. k - 1 \in Delay..(frame[n] + Delay)
      BY <3>1 DEF InputInv, PubWindow
    <3>3. k - 1 = frame[n] + Delay => HasSent(n)
      BY <3>1 DEF HasSent
    <3> QED BY <1>1, <1>2, <3>2, <3>3
  <2> QED BY <2>1, <2>2
<1>4. k \in 1..Len(LogOf(n))
  BY <1>1, <1>2, <1>3
<1>5. Published(n, k - 1, LogOf(n)[k]) /\ LogOf(n)[k] \in Inputs
  <2>1. LogOf(n) \in Seq(Inputs) /\ \A j \in 1..Len(LogOf(n)) : Published(n, j - 1, LogOf(n)[j])
    BY LogIs
  <2> QED BY <1>4, <2>1
<1> QED BY <1>1, <1>3, <1>5, PubUnique

(* The board of n ran the pairs that the logs hold.                        *)
LEMMA BoardIs ==
    ASSUME TypeOK, LogInv, InputInv, NEW n \in Node
    PROVE  /\ BoardOf(n) \in Seq(Inputs \X Inputs) /\ Len(BoardOf(n)) = frame[n]
           /\ \A k \in 1..frame[n] : BoardOf(n)[k] = <<LogOf(1)[k], LogOf(2)[k]>>
<1>1. frame[n] \in Nat
  BY DEF TypeOK
<1>2. ASSUME NEW k \in 1..frame[n]
      PROVE  BoardOf(n)[k] \in Inputs \X Inputs /\ BoardOf(n)[k] = <<LogOf(1)[k], LogOf(2)[k]>>
  <2> DEFINE p == CHOOSE q \in played[n] : q[1] = k - 1
  <2>1. k - 1 \in 0..(frame[n] - 1) /\ k - 1 \in Nat /\ (k - 1) + 1 = k
    BY <1>1
  <2>2. p \in played[n] /\ p[1] = k - 1
    BY <2>1 DEF LogInv, Ran
  <2>3. BoardOf(n)[k] = IF n = 1 THEN <<p[2], p[3]>> ELSE <<p[3], p[2]>>
    BY DEF BoardOf
  <2> HIDE DEF p
  <2>4. p[2] \in Inputs /\ p[3] \in Inputs
    BY <2>2 DEF TypeOK
  <2>5. Published(n, k - 1, p[2]) /\ Published(Peer(n), k - 1, p[3]) /\ Peer(n) \in Node
    BY <2>2, PeerIsNode DEF LogInv, Ran, RanOwn
  <2>6. LogOf(n)[k] = p[2] /\ LogOf(Peer(n))[k] = p[3]
    <3>1. k \in Nat \ {0}
      BY <1>1
    <3> QED BY <2>4, <2>5, <3>1, LogHolds
  <2>7. (n = 1 /\ Peer(n) = 2) \/ (n = 2 /\ Peer(n) = 1)
    BY DEF Node, Peer
  <2>8. BoardOf(n)[k] = <<LogOf(1)[k], LogOf(2)[k]>>
    BY <2>3, <2>6, <2>7
  <2>9. BoardOf(n)[k] \in Inputs \X Inputs
    BY <2>3, <2>4, <2>7
  <2> QED BY <2>8, <2>9
<1>3. BoardOf(n) \in Seq(Inputs \X Inputs) /\ Len(BoardOf(n)) = frame[n]
  <2>1. BoardOf(n) = [k \in 1..frame[n] |-> BoardOf(n)[k]]
    BY DEF BoardOf
  <2>2. BoardOf(n) \in [1..frame[n] -> Inputs \X Inputs]
    BY <1>2, <2>1
  <2> QED BY <1>1, <2>2, IsSequence
<1> QED BY <1>2, <1>3

------------------------------------------------------------------------------
(* A step that leaves the inputs alone keeps the logs.                     *)
LEMMA LogQuiet ==
    ASSUME LogInv, QuietStep
    PROVE  LogInv'
BY DEF QuietStep, inputVars, LogInv, Committed, HasSent, FirstSlot, Ran, RanOwn,
       Published

(* Filing a datagram does: only frame Delay can reach its slot in time.    *)
LEMMA LogFile ==
    ASSUME TypeOK, LogInv, InputInv, NEW n \in Node, NEW p \in Packet, FileStep(n, p)
    PROVE  LogInv'
<1> DEFINE m == Peer(n)
           d == Slot(Delay)
<1>0. /\ Delay \in Nat /\ Ring \in Nat /\ 2 * Delay + 2 < Ring
      /\ m \in Node /\ Peer(m) = n
  BY NetplayAssumption, PeerIsNode
<1>1. d \in Slots /\ p.frame \in Nat /\ Slot(p.frame) \in Slots
  BY <1>0, SlotIsSlot DEF Packet
<1>2. /\ peerIn' = [peerIn EXCEPT ![n][Slot(p.frame)] = p.state]
      /\ known' = [known EXCEPT ![n][Slot(p.frame)] = TRUE]
      /\ UNCHANGED <<frame, pub, played>>
  BY DEF FileStep, Filed
<1>3. ASSUME NEW k \in Node PROVE Committed(k)' /\ Ran(k)'
  BY <1>2 DEF LogInv, Committed, HasSent, Ran, RanOwn, Published
<1>4. ASSUME NEW k \in Node, k # n PROVE FirstSlot(k)'
  <2>1. peerIn'[k] = peerIn[k] /\ known'[k] = known[k]
    BY <1>2, <1>4 DEF TypeOK
  <2> QED BY <1>2, <2>1 DEF LogInv, FirstSlot
<1>5. FirstSlot(n)'
  <2>1. CASE Slot(p.frame) # d
    <3>1. peerIn'[n][d] = peerIn[n][d] /\ known'[n][d] = known[n][d]
      BY <1>1, <1>2, <2>1 DEF TypeOK
    <3> QED BY <1>2, <3>1 DEF LogInv, FirstSlot
  <2>2. CASE Slot(p.frame) = d
    <3>1. SUFFICES ASSUME frame[n] <= Delay
                   PROVE  peerIn'[n][d] = Neutral /\ <<Delay, Neutral>> \in pub[m]
      BY <1>2 DEF FirstSlot
    <3>2. <<p.frame, p.state>> \in pub[m] /\ p.frame \in Delay..(frame[m] + Delay)
      BY <1>0 DEF FileStep, InputInv, Wire, PubWindow
    <3>3. frame[m] <= frame[n] + Delay + 2 /\ frame[m] \in Nat /\ frame[n] \in Nat
      BY <1>0, LeadBound DEF Lead, TypeOK
    <3>4. p.frame < Delay + Ring
      BY <1>0, <3>1, <3>2, <3>3
    <3>5. p.frame = Delay
      BY <1>0, <1>1, <2>2, <3>2, <3>4, SlotApart
    <3>6. p.state = Neutral
      BY <1>0, <3>2, <3>5 DEF LogInv, Committed
    <3>7. peerIn'[n][d] = p.state
      BY <1>1, <1>2, <2>2 DEF TypeOK
    <3> QED BY <3>2, <3>5, <3>6, <3>7
  <2> QED BY <2>1, <2>2
<1> QED BY <1>3, <1>4, <1>5 DEF LogInv

(* Publishing adds one frame to a log, or the same input once more.        *)
LEMMA LogPublish ==
    ASSUME Rested, TypeOK, LogInv, InputInv, NEW n \in Node, NEW input \in Inputs,
           PublishStep(n, input)
    PROVE  /\ LogInv'
           /\ HasSent(n)' /\ <<frame[n] + Delay, input>> \in pub'[n]
           /\ HasSent(n) => pub' = pub
<1> DEFINE f == frame[n] + Delay
<1>0. Delay \in Nat /\ frame[n] \in Nat
  BY NetplayAssumption DEF TypeOK
<1>1. /\ pub' = [pub EXCEPT ![n] = @ \cup {<<f, input>>}]
      /\ UNCHANGED <<frame, peerIn, known, played>>
      /\ frame[n] = 0 => input = Neutral
      /\ frame[n] = 0 \/ Unsent(n)
  BY DEF PublishStep, Send, PublishFrame, Rested
<1>2. /\ pub'[n] = pub[n] \cup {<<f, input>>}
      /\ \A k \in Node : pub[k] \subseteq pub'[k] /\ (k # n => pub'[k] = pub[k])
  BY <1>1 DEF TypeOK
<1>3. HasSent(n)' /\ <<f, input>> \in pub'[n]
  BY <1>1, <1>2 DEF HasSent
<1>4. ASSUME HasSent(n) PROVE pub'[n] = pub[n]
  <2>1. PICK i \in Inputs : <<f, i>> \in pub[n]
    BY <1>4 DEF HasSent
  <2>2. ~Unsent(n)
    BY <2>1 DEF InputInv, PubWindow
  <2>3. frame[n] = 0 /\ f = Delay /\ input = Neutral
    BY <1>0, <1>1, <2>2
  <2>4. i = Neutral
    BY <2>1, <2>3 DEF LogInv, Committed
  <2> QED BY <1>2, <2>1, <2>3, <2>4
<1>5. Committed(n)'
  <2>1. Committed(n)
    BY DEF LogInv
  <2>2. IsFiniteSet(pub'[n]) /\ Cardinality(pub'[n]) = frame[n] + 1
    <3>1. CASE HasSent(n)
      BY <1>4, <2>1, <3>1 DEF Committed
    <3>2. CASE ~HasSent(n)
      <4>1. <<f, input>> \notin pub[n]
        BY <3>2 DEF HasSent
      <4>2. IsFiniteSet(pub[n]) /\ Cardinality(pub[n]) = frame[n] + 0
        BY <2>1, <3>2 DEF Committed
      <4>3. Cardinality(pub[n] \cup {<<f, input>>}) = Cardinality(pub[n]) + 1
            /\ IsFiniteSet(pub[n] \cup {<<f, input>>})
        BY <4>1, <4>2, FS_AddElement
      <4> QED BY <1>0, <1>2, <4>2, <4>3
    <3> QED BY <3>1, <3>2
  <2>3. \A i : <<Delay, i>> \in pub'[n] => i = Neutral
    <3>1. f = Delay => input = Neutral
      BY <1>0, <1>1
    <3> QED BY <1>2, <2>1, <3>1 DEF Committed
  <2>4. \A g \in Delay..(frame[n] + Delay - 1) : \E i \in Inputs : <<g, i>> \in pub'[n]
    BY <1>2, <2>1 DEF Committed
  <2> QED BY <1>1, <1>3, <2>2, <2>3, <2>4 DEF Committed
<1>6. ASSUME NEW k \in Node, k # n PROVE Committed(k)'
  BY <1>1, <1>2, <1>6 DEF LogInv, Committed, HasSent
<1>7. ASSUME NEW k \in Node PROVE FirstSlot(k)' /\ Ran(k)'
  <2>1. Peer(k) \in Node
    BY PeerIsNode
  <2>2. FirstSlot(k)'
    BY <1>1, <1>2, <2>1 DEF LogInv, FirstSlot
  <2>3. ASSUME NEW q \in played[k], RanOwn(k, q) PROVE RanOwn(k, q)'
    BY <1>2, <2>1, <2>3, PublishedGrows DEF RanOwn
  <2>4. Ran(k)'
    BY <1>1, <2>3 DEF LogInv, Ran
  <2> QED BY <2>2, <2>4
<1>8. HasSent(n) => pub' = pub
  BY <1>1, <1>4 DEF TypeOK
<1> QED BY <1>3, <1>5, <1>6, <1>7, <1>8 DEF LogInv

(* Running a frame uses what both logs hold for it.                        *)
LEMMA LogPlay ==
    ASSUME Rested, TypeOK, LogInv, InputInv, NEW n \in Node, Phase(n), Play(n)
    PROVE  LogInv' /\ HasSent(n) /\ ~HasSent(n)'
<1> DEFINE f == frame[n]
           s == Slot(f)
           p == <<f, local[n][s], peerIn[n][s]>>
<1>0. /\ Delay \in Nat /\ Delay > 0 /\ Ring \in Nat /\ 2 * Delay + 2 < Ring
      /\ f \in Nat /\ s \in Slots /\ MaxFrame \in Nat /\ MaxFrame <= Delay + Ring
  BY NetplayAssumption, SlotIsSlot DEF TypeOK, Rested
<1>1. /\ pc[n] = "wait" /\ known[n][s]
      /\ known' = [known EXCEPT ![n][s] = FALSE]
      /\ frame' = [frame EXCEPT ![n] = f + 1]
      /\ played' = [played EXCEPT ![n] = @ \cup {p}]
      /\ UNCHANGED <<peerIn, pub>>
  BY DEF Play, Arrived, Consumed
<1>2. /\ frame'[n] = f + 1 /\ played'[n] = played[n] \cup {p}
      /\ \A k \in Node : k # n => /\ frame'[k] = frame[k] /\ known'[k] = known[k]
                                 /\ played'[k] = played[k]
  BY <1>1 DEF TypeOK
<1>3. \A k \in Node : \A g, i : Published(k, g, i)' <=> Published(k, g, i)
  BY <1>1 DEF Published
<1>4. ASSUME NEW k \in Node, k # n
      PROVE  Committed(k)' /\ FirstSlot(k)' /\ Ran(k)'
  <2>1. Committed(k)' /\ FirstSlot(k)'
    BY <1>1, <1>2, <1>4 DEF LogInv, Committed, HasSent, FirstSlot
  <2>2. Ran(k)'
    BY <1>2, <1>3, <1>4, PeerIsNode DEF LogInv, Ran, RanOwn
  <2> QED BY <2>1, <2>2
<1>5. HasSent(n)
  <2>1. f + Delay \in f..(f + Delay) /\ f + Delay \in Nat /\ ~Seeded(f + Delay)
    BY <1>0 DEF Seeded
  <2>2. Published(n, f + Delay, local[n][Slot(f + Delay)])
    BY <1>1, <2>1 DEF InputInv, OwnRing
  <2>3. local[n][Slot(f + Delay)] \in Inputs
    BY <2>1, SlotIsSlot DEF TypeOK
  <2> QED BY <2>1, <2>2, <2>3 DEF Published, HasSent
<1>6. ~HasSent(n)'
  <2>1. \A e \in pub[n] : e[1] \in Delay..(f + Delay)
    BY DEF InputInv, PubWindow
  <2>2. \A i : <<(f + 1) + Delay, i>> \notin pub[n]
    BY <1>0, <2>1
  <2> QED BY <1>1, <1>2, <2>2 DEF HasSent
<1>7. Committed(n)'
  <2>1. Committed(n) /\ Cardinality(pub[n]) = f + 1
    BY <1>5 DEF LogInv, Committed
  <2>2. \A g \in Delay..(f + 1 + Delay - 1) :
            g \in Delay..(f + Delay - 1) \/ g = f + Delay
    BY <1>0
  <2>3. \A g \in Delay..(f + 1 + Delay - 1) : \E i \in Inputs : <<g, i>> \in pub[n]
    BY <1>5, <2>1, <2>2 DEF Committed, HasSent
  <2>4. Cardinality(pub'[n]) = frame'[n] + 0
    BY <1>0, <1>1, <1>2, <2>1
  <2> QED BY <1>1, <1>2, <1>6, <2>1, <2>3, <2>4 DEF Committed
<1>8. FirstSlot(n)'
  <2>1. SUFFICES ASSUME f < Delay
                 PROVE  known'[n][Slot(Delay)] = known[n][Slot(Delay)]
    BY <1>0, <1>1, <1>2 DEF LogInv, FirstSlot
  <2>2. Slot(Delay) # s /\ Slot(Delay) \in Slots
    BY <1>0, <2>1, SlotApart, SlotIsSlot
  <2> QED BY <1>1, <2>2 DEF TypeOK
<1>9. RanOwn(n, p)
  <2>1. Published(n, f, local[n][s])
    BY <1>0 DEF InputInv, OwnRing
  <2>2. Published(Peer(n), f, peerIn[n][s])
    <3>1. CASE Single(f)
      BY <1>1, <3>1, ArrivedIsOwn DEF Arrived, Pending
    <3>2. CASE ~Single(f)
      <4>1. f < Delay + Ring /\ Delay < f + Ring
        BY <1>0, <1>1 DEF Phase
      <4>2. f = Delay
        BY <1>0, <3>2, <4>1, SlotApart DEF Single
      <4>3. peerIn[n][s] = Neutral /\ <<f, Neutral>> \in pub[Peer(n)]
        BY <1>0, <1>1, <4>2 DEF LogInv, FirstSlot
      <4> QED BY <1>0, <4>2, <4>3 DEF Published, Seeded
    <3> QED BY <3>1, <3>2
  <2> QED BY <2>1, <2>2 DEF RanOwn
<1>10. Ran(n)'
  <2>1. Ran(n)
    BY DEF LogInv
  <2>2. \A q \in played'[n] : q[1] \in 0..(frame'[n] - 1) /\ RanOwn(n, q)
    BY <1>0, <1>2, <1>9, <2>1 DEF Ran
  <2>3. \A g \in 0..(frame'[n] - 1) : \E q \in played'[n] : q[1] = g
    <3>1. \A g \in 0..(frame'[n] - 1) : g \in 0..(f - 1) \/ g = f
      BY <1>0, <1>2
    <3>2. p \in played'[n] /\ p[1] = f
      BY <1>2
    <3> QED BY <1>2, <2>1, <3>1, <3>2 DEF Ran
  <2> QED BY <1>3, <2>2, <2>3, PeerIsNode DEF Ran, RanOwn
<1> QED BY <1>4, <1>5, <1>6, <1>7, <1>8, <1>10 DEF LogInv

------------------------------------------------------------------------------
(* What can be read off the histories: the logs hold what was published,   *)
(* the boards the pairs of the logs.                                       *)
HistoriesRead ==
    \A n \in Node :
        /\ LogOf(n) \in Seq(Inputs)
        /\ Len(LogOf(n)) = frame[n] + Delay + (IF HasSent(n) THEN 1 ELSE 0)
        /\ \A k \in 1..Len(LogOf(n)) : Published(n, k - 1, LogOf(n)[k])
        /\ \A k \in Nat \ {0}, i \in Inputs :
                Published(n, k - 1, i) => k <= Len(LogOf(n)) /\ LogOf(n)[k] = i
        /\ BoardOf(n) \in Seq(Inputs \X Inputs) /\ Len(BoardOf(n)) = frame[n]
        /\ \A k \in 1..frame[n] : BoardOf(n)[k] = <<LogOf(1)[k], LogOf(2)[k]>>

RunInv == IInv /\ LogInv

LEMMA ReadNow == RunInv => HistoriesRead
BY LogIs, LogHolds, BoardIs DEF RunInv, IInv, InputInv, HistoriesRead

LEMMA ReadNext == RunInv' => HistoriesRead'
BY ReadNow, PTL

(* They are inductive. *)
LEMMA RunInductive ==
    ASSUME Rested
    PROVE  Spec => []RunInv
<1>1. Init => LogInv
  BY InitLog
<1>2. IInv /\ LogInv /\ [Next]_vars => LogInv'
  <2> SUFFICES ASSUME IInv, LogInv, [Next]_vars PROVE LogInv'
    OBVIOUS
  <2>1. TypeOK /\ (\A n \in Node : Phase(n)) /\ InputInv
    BY DEF IInv, InputInv
  <2> QED BY <2>1, StepKinds, LogQuiet, LogPublish, LogFile, LogPlay, Rested
<1> QED BY <1>1, <1>2, Inductive, PTL DEF Spec, RunInv

(* A sequence that holds another and one element more.                     *)
LEMMA IsAppend ==
    ASSUME NEW S, NEW s \in Seq(S), NEW t \in Seq(S), NEW x \in S,
           Len(t) = Len(s) + 1, \A k \in 1..Len(s) : t[k] = s[k],
           t[Len(s) + 1] = x
    PROVE  t = Append(s, x)
OBVIOUS

(* The boards and the logs of the abstract lockstep. *)
LEMMA AbstractStays ==
    ASSUME UNCHANGED <<frame, pub, played>>
    PROVE  UNCHANGED Abstract!vars
BY DEF Abstract!vars, LogOf, BoardOf

(* Publishing an input commits it, or stutters when it was committed.      *)
LEMMA PublishCommits ==
    ASSUME Rested, RunInv, RunInv', NEW n \in Node, NEW input \in Inputs,
           PublishStep(n, input), NEW f \in Nat, f = frame[n] + Delay
    PROVE  [Abstract!Next]_(Abstract!vars)
<1>0. HistoriesRead /\ HistoriesRead'
  BY ReadNow, ReadNext
<1>1. TypeOK /\ LogInv /\ InputInv /\ Delay \in Nat /\ frame[n] \in Nat
  BY NetplayAssumption DEF RunInv, IInv, InputInv, TypeOK
<1>2. /\ pub' = [pub EXCEPT ![n] = @ \cup {<<f, input>>}]
      /\ UNCHANGED <<frame, played>>
  BY DEF PublishStep, Send, PublishFrame
<1>3. /\ HasSent(n)' /\ <<f, input>> \in pub'[n]
      /\ HasSent(n) => pub' = pub
  BY <1>1, LogPublish
<1>4. CASE HasSent(n)
  BY <1>2, <1>3, <1>4, AbstractStays
<1>5. CASE ~HasSent(n)
  <2>0. frame[n] < MaxFrame
    BY <1>1 DEF PublishStep, Rested
  <2>1. Len(LogOf(n)) = f /\ Len(LogOf(n)') = f + 1
    BY <1>0, <1>1, <1>2, <1>3, <1>5 DEF HistoriesRead
  <2>2. ASSUME NEW k \in 1..f PROVE LogOf(n)'[k] = LogOf(n)[k]
    <3>1. PICK i \in Inputs : i = LogOf(n)[k] /\ Published(n, k - 1, i)
      BY <1>0, <2>1 DEF HistoriesRead
    <3>2. pub[n] \subseteq pub'[n]
      BY <1>1, <1>2 DEF TypeOK
    <3>3. Published(n, k - 1, i)' /\ k \in Nat \ {0}
      BY <3>1, <3>2 DEF Published
    <3> QED BY <1>0, <3>1, <3>3 DEF HistoriesRead
  <2>3. LogOf(n)'[f + 1] = input
    <3>1. Published(n, (f + 1) - 1, input)'
      BY <1>1, <1>3 DEF Published, Seeded
    <3> QED BY <1>0, <1>1, <3>1 DEF HistoriesRead
  <2>4. LogOf(n)' = Append(LogOf(n), input)
    BY <1>0, <1>1, <2>1, <2>2, <2>3, IsAppend DEF HistoriesRead
  <2>5. \A m \in Node : m # n => LogOf(m)' = LogOf(m)
    BY <1>1, <1>2 DEF TypeOK, LogOf
  <2>6. \A m \in Node : BoardOf(m)' = BoardOf(m)
    BY <1>2 DEF BoardOf
  <2>7. Len(BoardOf(n)) = frame[n]
    BY <1>0 DEF HistoriesRead
  <2> HIDE DEF LogOf, BoardOf
  <2>8. Abstract!Commit(n)
    BY <2>0, <2>1, <2>4, <2>5, <2>6, <2>7 DEF Abstract!Commit, Abstract!AtFront
  <2> QED BY <2>8 DEF Abstract!Next, Abstract!Node, Node
<1> QED BY <1>4, <1>5

(* Running a frame is the board's step. *)
LEMMA PlaySteps ==
    ASSUME Rested, RunInv, RunInv', NEW n \in Node, Play(n),
           NEW f \in Nat, f = frame[n]
    PROVE  Abstract!Next
<1>0. HistoriesRead /\ HistoriesRead' /\ Delay \in Nat /\ 1 \in Node /\ 2 \in Node
  BY ReadNow, ReadNext, NetplayAssumption DEF Node
<1>1. TypeOK /\ LogInv /\ InputInv /\ Phase(n)
  BY DEF RunInv, IInv, InputInv
<1>2. HasSent(n)
  BY <1>1, LogPlay
<1>3. /\ frame' = [frame EXCEPT ![n] = f + 1] /\ pub' = pub
      /\ \A m \in Node : m # n => played'[m] = played[m] /\ frame'[m] = frame[m]
      /\ frame'[n] = f + 1
  BY <1>1 DEF Play, TypeOK
<1>4. \A m \in Node : LogOf(m)' = LogOf(m)
  BY <1>3 DEF LogOf
<1>5. \A m \in Node : f + 1 <= Len(LogOf(m))
  <2>1. PICK q \in played'[n] : q[1] = f /\ RanOwn(n, q)'
    BY <1>1, <1>3 DEF RunInv, LogInv, Ran
  <2>2. q[2] \in Inputs /\ q[3] \in Inputs
    BY <2>1 DEF RunInv, IInv, TypeOK
  <2>3. /\ Published(n, (f + 1) - 1, q[2])' /\ Published(Peer(n), (f + 1) - 1, q[3])'
        /\ f + 1 \in Nat \ {0}
    BY <2>1 DEF RanOwn
  <2>4. ASSUME NEW m \in Node, NEW i \in Inputs, Published(m, (f + 1) - 1, i)'
        PROVE  f + 1 <= Len(LogOf(m)')
    BY <1>0, <2>3, <2>4 DEF HistoriesRead
  <2>5. \A m \in Node : m = n \/ m = Peer(n)
    BY DEF Node, Peer
  <2> QED BY <1>4, <2>2, <2>3, <2>4, <2>5, PeerIsNode
<1>6. /\ Len(BoardOf(n)) = f /\ Len(BoardOf(n)') = f + 1
      /\ Len(LogOf(n)) = f + Delay + 1
  BY <1>0, <1>1, <1>2, <1>3 DEF HistoriesRead
<1>7. BoardOf(n)' = Append(BoardOf(n), <<LogOf(1)[f + 1], LogOf(2)[f + 1]>>)
  <2> DEFINE x == <<LogOf(1)[f + 1], LogOf(2)[f + 1]>>
  <2>1. ASSUME NEW m \in Node PROVE LogOf(m)[f + 1] \in Inputs
    <3>1. LogOf(m) \in Seq(Inputs)
      BY <1>0 DEF HistoriesRead
    <3>2. f + 1 \in 1..Len(LogOf(m))
      BY <1>5, <3>1
    <3> QED BY <3>1, <3>2
  <2>2. /\ BoardOf(n) \in Seq(Inputs \X Inputs)
        /\ BoardOf(n)' \in Seq(Inputs \X Inputs)
        /\ x \in Inputs \X Inputs
    BY <1>0, <2>1 DEF HistoriesRead
  <2>3. \A k \in 1..(f + 1) : BoardOf(n)'[k] = <<LogOf(1)[k], LogOf(2)[k]>>
    <3>1. \A k \in 1..frame'[n] : BoardOf(n)'[k] = <<LogOf(1)'[k], LogOf(2)'[k]>>
      BY <1>0 DEF HistoriesRead
    <3>2. LogOf(1)' = LogOf(1) /\ LogOf(2)' = LogOf(2)
      BY <1>0, <1>4
    <3> QED BY <1>3, <3>1, <3>2
  <2>4. \A k \in 1..f : BoardOf(n)[k] = <<LogOf(1)[k], LogOf(2)[k]>>
    BY <1>0 DEF HistoriesRead
  <2>5. BoardOf(n)'[f + 1] = x /\ \A k \in 1..f : BoardOf(n)'[k] = BoardOf(n)[k]
    BY <1>1, <2>3, <2>4
  <2> HIDE DEF x
  <2>6. BoardOf(n)' = Append(BoardOf(n), x)
    BY <1>1, <1>6, <2>2, <2>5, IsAppend
  <2> QED BY <2>6 DEF x
<1>8. ASSUME NEW m \in Node, m # n PROVE BoardOf(m)' = BoardOf(m)
  <2>1. frame'[m] = frame[m] /\ played'[m] = played[m]
    BY <1>3, <1>8
  <2> QED BY <2>1 DEF BoardOf
<1> HIDE DEF LogOf, BoardOf
<1> DEFINE log == [m \in Node |-> LogOf(m)]
           board == [m \in Node |-> BoardOf(m)]
<1>9. Abstract!Step(n)
  <2>1. log' = log
    BY <1>4
  <2>2. board' = [board EXCEPT ![n] = Append(@, <<log[1][f + 1], log[2][f + 1]>>)]
    BY <1>0, <1>7, <1>8
  <2>3. Len(board[n]) + 1 = f + 1 /\ ~(Len(log[n]) = Len(board[n]) + Delay)
    BY <1>0, <1>6
  <2>4. \A m \in Node : f + 1 <= Len(log[m])
    BY <1>5
  <2> QED BY <2>1, <2>2, <2>3, <2>4
     DEF Abstract!Step, Abstract!AtFront, Abstract!Pair, Abstract!Node, Node
<1> QED BY <1>9 DEF Abstract!Next, Abstract!Node, Node

(* Nothing is published yet. *)
LEMMA InitAbstract == Init => Abstract!Init
<1> SUFFICES ASSUME Init, NEW n \in Node
             PROVE  /\ LogOf(n) = [k \in 1..Delay |-> Neutral]
                    /\ BoardOf(n) = <<>>
  BY DEF Abstract!Init, Abstract!Node, Node
<1>1. pub[n] = {} /\ frame[n] = 0 /\ Delay \in Nat /\ Cardinality({}) = 0
  BY NetplayAssumption, FS_EmptySet DEF Init
<1>2. Delay + Cardinality(pub[n]) = Delay /\ \A k \in 1..Delay : Seeded(k - 1)
  BY <1>1 DEF Seeded
<1>3. LogOf(n) = [k \in 1..Delay |-> Neutral]
  BY <1>2 DEF LogOf
<1>4. BoardOf(n) = <<>>
  BY <1>1 DEF BoardOf
<1> QED BY <1>3, <1>4

(* Read through its histories the link is the abstract lockstep, whatever  *)
(* is lost, copied or overtaken and whoever opens the menu: for players at *)
(* rest at frame 0 and a session within a lap of the ring, one log per     *)
(* player, and boards that run exactly the pairs the two logs hold.        *)
THEOREM LockstepImplemented ==
    ASSUME Rested
    PROVE  Spec => Abstract!Spec
<1>1. Init => Abstract!Init
  BY InitAbstract
<1>2. RunInv /\ RunInv' /\ [Next]_vars => [Abstract!Next]_(Abstract!vars)
  <2> SUFFICES ASSUME RunInv, RunInv', [Next]_vars
               PROVE  [Abstract!Next]_(Abstract!vars)
    OBVIOUS
  <2>1. TypeOK /\ \A n \in Node : Phase(n)
    BY DEF RunInv, IInv
  <2>2. ASSUME NEW n \in Node, NEW input \in Inputs, PublishStep(n, input)
        PROVE  [Abstract!Next]_(Abstract!vars)
    <3>1. frame \in [Node -> Nat]
      BY <2>1 DEF TypeOK
    <3>2. frame[n] + Delay \in Nat
      BY <3>1, NetplayAssumption
    <3> QED BY <2>2, <3>2, PublishCommits, Rested
  <2>3. ASSUME NEW n \in Node, NEW p \in Packet, FileStep(n, p)
        PROVE  UNCHANGED Abstract!vars
    BY <2>3, AbstractStays DEF FileStep
  <2>4. ASSUME QuietStep PROVE UNCHANGED Abstract!vars
    BY <2>4, AbstractStays DEF QuietStep, inputVars
  <2>5. ASSUME NEW n \in Node, Play(n) PROVE Abstract!Next
    <3>1. frame[n] \in Nat
      BY DEF RunInv, IInv, TypeOK
    <3> QED BY <2>5, <3>1, PlaySteps, Rested
  <2> QED BY <2>1, <2>2, <2>3, <2>4, <2>5, StepKinds
<1> QED BY <1>1, <1>2, RunInductive, Rested, PTL DEF Spec, Abstract!Spec

------------------------------------------------------------------------------
(***************************************************************************)
(* A partner who is there is never given up: on a network that loses and    *)
(* overtakes nothing the packets a cabinet has not accepted are all on their *)
(* way to it, so its wait is answered, and its partner's age stays below    *)
(* the limit because neither runs far past what it has heard.               *)
(***************************************************************************)
(* The network loses nothing and overtakes nothing, nobody opens the menu, and *)
(* the wait outlasts a partner who is there; the silence that counts as gone   *)
(* is longer than the lead of one over the other can make it.                  *)
WithinALap == MaxFrame <= Delay + Ring
Slack == IF WithinALap THEN 0 ELSE 1
Lossless ==
    /\ MaxLoss = 0 /\ MaxLate = 0 /\ MaxMenus = 0 /\ Patient
    /\ WithinALap \/ 2 * Delay + 5 < AgeLimit

(* The last frame n has heard of, and the last one it has published.           *)
Heard(n) == IF peerFrame[n] < Delay THEN Delay - 1 ELSE peerFrame[n]
LastPub(n) ==
    IF seq[n] = 0 \/ (frame[n] > 0 /\ pc[n] \in {"host", "frame"})
    THEN frame[n] + Delay - 1 ELSE frame[n] + Delay

(* Everything n has not accepted is on its way to it, frame by frame.          *)
Stream(n) ==
    /\ \A s \in (peerSeq[n] + 1)..seq[Peer(n)] : \E p \in net[n] : p.seq = s
    /\ \A p \in net[n] : LastPub(Peer(n)) <= p.frame + (seq[Peer(n)] - p.seq)
    /\ LastPub(Peer(n)) <= Heard(n) + (seq[Peer(n)] - peerSeq[n])
    /\ \A p, q \in net[n] : q.seq = p.seq + 1 => q.frame <= p.frame + 1
    /\ \A p \in net[n] : p.seq = peerSeq[n] + 1 => p.frame <= Heard(n) + 1

(* n knows the inputs of every frame up to the last it has heard of, knows its *)
(* partner as soon as it has heard of it, and has sent before it runs.         *)
InStep(n) ==
    /\ \A f \in frame[n]..Heard(n) : known[n][Slot(f)]
    /\ got[n] \/ everSeen[n] => Delay <= peerFrame[n]
    /\ peerSeq[n] > 0 => everSeen[n] \/ (pc[n] = "poll" /\ got[n])
    /\ frame[n] > 0 \/ pc[n] \in {"exchange", "wait"} => seq[n] > 0
    /\ frame[n] <= MaxFrame

(* The age of a partner counts the frames run since it was heard.              *)
Counted(n) == IF pc[n] = "wait" THEN 1 ELSE 0
Young(n) ==
    everSeen[n] => age[n] + Heard(n) <= frame[n] + Counted(n) + 2 * Delay + 1 + Slack

InTouch == \A n \in Node : Stream(n) /\ InStep(n) /\ Young(n)

Faultless == budget.loss = 0 /\ budget.late = 0 /\ MenuShut
LiveInv ==
    /\ Faultless /\ NoFalseLoss
    /\ \A n \in Node : closed[n] => pc[n] = "host"
    /\ (\A n \in Node : ~closed[n]) => InTouch
Open == \A n \in Node : ~closed[n]

(* What the invariant says of the numbers of one cabinet. *)
LEMMA LiveNumbers ==
    ASSUME TypeOK, NEW n \in Node
    PROVE  /\ Delay \in Nat /\ Delay >= 1 /\ Ring \in Nat /\ 2 * Delay + 2 < Ring
           /\ AgeLimit \in Nat /\ 2 * Delay + 3 < AgeLimit /\ MaxFrame \in Nat
           /\ Slack \in {0, 1}
           /\ frame[n] \in Nat /\ seq[n] \in Nat /\ peerSeq[n] \in Nat /\ peerFrame[n] \in Nat /\ age[n] \in Nat
           /\ Heard(n) \in Nat /\ LastPub(n) \in Nat /\ Counted(n) \in {0, 1}
           /\ Heard(n) = Delay - 1 \/ (Heard(n) = peerFrame[n] /\ peerFrame[n] >= Delay)
           /\ LastPub(n) = frame[n] + Delay \/ LastPub(n) = frame[n] + Delay - 1
<1>1. Delay \in Nat /\ Delay >= 1 /\ Ring \in Nat /\ 2 * Delay + 2 < Ring
      /\ AgeLimit \in Nat /\ 2 * Delay + 3 < AgeLimit /\ MaxFrame \in Nat
  BY NetplayAssumption
<1>2. frame[n] \in Nat /\ seq[n] \in Nat /\ peerSeq[n] \in Nat /\ peerFrame[n] \in Nat /\ age[n] \in 0..AgeLimit
  BY DEF TypeOK
<1>3. Slack \in {0, 1} /\ Counted(n) \in {0, 1}
  BY DEF Slack, Counted
<1>4. Heard(n) \in Nat /\ (Heard(n) = Delay - 1 \/ (Heard(n) = peerFrame[n] /\ peerFrame[n] >= Delay))
  BY <1>1, <1>2 DEF Heard
<1>5. LastPub(n) \in Nat /\ (LastPub(n) = frame[n] + Delay \/ LastPub(n) = frame[n] + Delay - 1)
  BY <1>1, <1>2 DEF LastPub
<1> QED BY <1>1, <1>2, <1>3, <1>4, <1>5

(* No cabinet runs more than a frame past what it has heard of; beyond a lap   *)
(* of the ring, where the slot of frame Delay may be known too early, two.     *)
LEMMA KeepsUp ==
    ASSUME IInv, NEW n \in Node, InStep(n)
    PROVE  frame[n] <= Heard(n) + 1 + Slack
<1>1. /\ Delay \in Nat /\ Delay >= 1 /\ Ring \in Nat /\ 2 * Delay + 2 < Ring /\ MaxFrame \in Nat
      /\ frame[n] \in Nat /\ peerFrame[n] \in Nat /\ Heard(n) \in Nat /\ Slack \in {0, 1}
      /\ Heard(n) >= Delay - 1 /\ Heard(n) >= peerFrame[n]
  <2>1. TypeOK
    BY DEF IInv
  <2> QED BY <2>1, LiveNumbers DEF Heard
<1>2. CASE frame[n] <= Delay
  BY <1>1, <1>2
<1>3. CASE frame[n] = Delay + 1
  <2>1. everSeen[n]
    BY <1>1, <1>3 DEF IInv, Phase
  <2>2. Delay <= peerFrame[n]
    BY <2>1 DEF InStep
  <2> QED BY <1>1, <1>3, <2>2
<1>4. CASE frame[n] > Delay + 1
  <2>1. PICK f \in Nat : f + 1 = frame[n] /\ f > Delay
    <3>1. frame[n] - 1 \in Nat /\ frame[n] - 1 + 1 = frame[n] /\ frame[n] - 1 > Delay
      BY <1>1, <1>4
    <3> QED BY <3>1
  <2>2. \A g \in Delay..f : Single(g) => g <= peerFrame[n]
    <3>1. f = frame[n] - 1
      BY <1>1, <2>1
    <3> QED BY <3>1 DEF IInv, Behind
  <2>3. CASE Single(f)
    <3>1. f <= peerFrame[n]
      BY <1>1, <2>1, <2>2, <2>3
    <3> QED BY <1>1, <2>1, <3>1
  <2>4. CASE ~Single(f)
    <3>1. f >= Delay + Ring
      <4>1. ~(f < Delay + Ring)
        BY <1>1, <2>1, <2>4, SlotApart DEF Single
      <4> QED BY <1>1, <2>1, <4>1
    <3>2. ~WithinALap
      BY <1>1, <2>1, <3>1 DEF InStep, WithinALap
    <3>3. Slack = 1
      BY <3>2 DEF Slack
    <3>4. f - 1 \in Delay..f /\ f - 1 \in Nat /\ f - 1 < f /\ f < f - 1 + Ring
      BY <1>1, <2>1
    <3>5. Slot(f - 1) # Slot(f)
      BY <2>1, <3>4, SlotApart
    <3>6. Single(f - 1)
      BY <2>4, <3>5 DEF Single
    <3>7. f - 1 <= peerFrame[n]
      BY <2>2, <3>4, <3>6
    <3> QED BY <1>1, <2>1, <3>3, <3>7
  <2> QED BY <2>3, <2>4
<1> QED BY <1>1, <1>2, <1>3, <1>4

(* What a cabinet has heard of is not far ahead of it: its partner runs no      *)
(* frame that it has not published for.                                       *)
HeardNearby == \A n \in Node : Heard(n) <= frame[n] + 2 * Delay + 1 + Slack
LEMMA NearbyNow == IInv /\ (\A n \in Node : InStep(n)) => HeardNearby
<1> SUFFICES ASSUME IInv, \A n \in Node : InStep(n), NEW n \in Node
             PROVE  Heard(n) <= frame[n] + 2 * Delay + 1 + Slack
  BY DEF HeardNearby
<1>1. ASSUME NEW k \in Node PROVE Heard(k) <= frame[Peer(k)] + Delay
  <2>1. Peer(k) \in Node /\ TypeOK
    BY PeerIsNode DEF IInv
  <2>2. /\ Delay \in Nat /\ Delay >= 1 /\ frame[Peer(k)] \in Nat
        /\ Heard(k) = Delay - 1 \/ (Heard(k) = peerFrame[k] /\ peerFrame[k] >= Delay)
    BY <2>1, LiveNumbers
  <2>3. CASE peerFrame[k] >= Delay /\ Heard(k) = peerFrame[k]
    <3>1. peerFrame[k] # 0
      BY <2>2, <2>3
    <3>2. PICK e \in pub[Peer(k)] : e[1] = peerFrame[k]
      BY <2>1, <3>1 DEF IInv, PeerTop
    <3>3. e[1] <= frame[Peer(k)] + Delay
      BY <2>1 DEF IInv, PubWindow
    <3> QED BY <2>3, <3>2, <3>3
  <2> QED BY <2>2, <2>3
<1>2. Peer(n) \in Node /\ Peer(Peer(n)) = n /\ TypeOK
  BY PeerIsNode DEF IInv
<1>3. /\ Delay \in Nat /\ Slack \in {0, 1} /\ frame[n] \in Nat /\ frame[Peer(n)] \in Nat
      /\ Heard(n) \in Nat /\ Heard(Peer(n)) \in Nat
  BY <1>2, LiveNumbers
<1>4. Heard(n) <= frame[Peer(n)] + Delay /\ Heard(Peer(n)) <= frame[n] + Delay
  <2>1. Heard(Peer(n)) <= frame[Peer(Peer(n))] + Delay
    BY <1>1, <1>2
  <2> QED BY <1>1, <1>2, <2>1
<1>5. frame[Peer(n)] <= Heard(Peer(n)) + 1 + Slack
  BY <1>2, KeepsUp
<1> QED BY <1>3, <1>4, <1>5
LEMMA NearbyNext == (IInv /\ \A n \in Node : InStep(n))' => HeardNearby'
BY NearbyNow, PTL

(* Within its types a packet on the wire has a number and a frame. *)
LEMMA WireNumbers ==
    ASSUME IInv, NEW n \in Node, NEW p \in net[n]
    PROVE  p.seq \in Nat /\ p.frame \in Nat /\ p.seq >= 1 /\ p.seq <= seq[Peer(n)] /\ p.frame >= Delay
<1>1. p \in Packet
  BY DEF IInv, TypeOK
<1>2. p.seq \in 1..seq[Peer(n)] /\ <<p.frame, p.state>> \in pub[Peer(n)]
  BY DEF IInv, Wire
<1>3. Peer(n) \in Node /\ TypeOK
  BY PeerIsNode DEF IInv
<1>4. p.frame \in Delay..(frame[Peer(n)] + Delay)
  <2>1. \A e \in pub[Peer(n)] : e[1] \in Delay..(frame[Peer(n)] + Delay)
    BY <1>3 DEF IInv, PubWindow
  <2> QED BY <1>2, <2>1
<1>5. p.seq \in Nat /\ p.frame \in Nat
  BY <1>1 DEF Packet
<1> QED BY <1>2, <1>4, <1>5, <1>3, LiveNumbers

(* Sending the next frame continues the stream. *)
LEMMA SendContinues ==
    ASSUME IInv, InTouch, Open, NEW k \in Node, NEW input, Send(k, input),
           UNCHANGED <<frame, peerFrame, peerSeq>>,
           \/ pc' = [pc EXCEPT ![k] = "exchange"]
           \/ pc' = [pc EXCEPT ![k] = "poll"]
    PROVE  \A n \in Node : Stream(n)'
<1>0. TypeOK
  BY DEF IInv
<1>1. PICK m \in Node : m = Peer(k) /\ Peer(m) = k /\ m # k
  BY PeerIsNode
<1>2. PICK F : F = frame[k] + Delay
  OBVIOUS
<1>3. PICK new : new = [seq |-> seq[k] + 1, frame |-> F, state |-> input]
  OBVIOUS
<1>4. new.seq = seq[k] + 1 /\ new.frame = F
  BY <1>3
<1>5. /\ net'[m] = net[m] \cup {new} /\ net'[k] = net[k]
      /\ seq'[k] = seq[k] + 1 /\ seq'[m] = seq[m]
  BY <1>0, <1>1, <1>2, <1>3 DEF Send, PublishFrame, TypeOK, Open
<1>6. /\ Delay \in Nat /\ frame[k] \in Nat /\ seq[k] \in Nat /\ LastPub(k) \in Nat /\ Heard(m) \in Nat
      /\ peerSeq[m] \in Nat
      /\ LastPub(k) = frame[k] + Delay \/ LastPub(k) = frame[k] + Delay - 1
  BY <1>0, LiveNumbers
<1>7. LastPub(k)' = F /\ F \in Nat /\ F <= LastPub(k) + 1
  <2>1. pc'[k] \in {"exchange", "poll"} /\ seq'[k] # 0 /\ frame'[k] = frame[k]
    BY <1>0, <1>5, <1>6 DEF TypeOK
  <2>2. LastPub(k)' = frame[k] + Delay
    BY <2>1 DEF LastPub
  <2> QED BY <1>2, <1>6, <2>2
<1>8. Heard(m)' = Heard(m) /\ Heard(k)' = Heard(k) /\ LastPub(m)' = LastPub(m) /\ peerSeq' = peerSeq
  <2>1. pc'[m] = pc[m] /\ seq'[m] = seq[m]
    BY <1>0, <1>1, <1>5 DEF TypeOK
  <2> QED BY <2>1 DEF Heard, LastPub
<1>9. Stream(k)'
  BY <1>1, <1>5, <1>8 DEF InTouch, Stream
<1>10. Stream(m)'
  <2>0. Stream(m) /\ IInv
    BY DEF InTouch
  <2>1. ASSUME NEW s \in (peerSeq[m] + 1)..(seq[k] + 1) PROVE \E p \in net'[m] : p.seq = s
    <3>1. CASE s = seq[k] + 1
      BY <1>4, <1>5, <3>1
    <3>2. CASE s # seq[k] + 1
      <4>1. s \in (peerSeq[m] + 1)..seq[k]
        BY <1>6, <3>2
      <4> QED BY <1>1, <1>5, <2>0, <4>1 DEF Stream
    <3> QED BY <3>1, <3>2
  <2>2. ASSUME NEW p \in net[m]
        PROVE  /\ p.seq \in Nat /\ p.frame \in Nat /\ p.seq <= seq[k]
               /\ LastPub(k) <= p.frame + (seq[k] - p.seq)
    BY <1>1, <2>0, WireNumbers DEF Stream
  <2>3. ASSUME NEW p \in net'[m]
        PROVE  p.seq \in Nat /\ p.frame \in Nat /\ F <= p.frame + (seq[k] + 1 - p.seq)
    <3>1. CASE p \in net[m]
      BY <1>6, <1>7, <2>2, <3>1
    <3>2. CASE p = new
      <4>1. p.seq = seq[k] + 1 /\ p.frame = F
        BY <1>4, <3>2
      <4> QED BY <1>6, <1>7, <4>1
    <3> QED BY <1>5, <3>1, <3>2
  <2>4. LastPub(k) <= Heard(m) + (seq[k] - peerSeq[m])
    BY <1>1, <2>0 DEF Stream
  <2>5. F <= Heard(m) + (seq[k] + 1 - peerSeq[m])
    BY <1>6, <1>7, <2>4
  <2>6. ASSUME NEW p \in net'[m], NEW q \in net'[m], q.seq = p.seq + 1 PROVE q.frame <= p.frame + 1
    <3>1. CASE p \in net[m] /\ q \in net[m]
      BY <2>0, <2>6, <3>1 DEF Stream
    <3>2. CASE p \in net[m] /\ q = new
      <4>1. p.seq = seq[k]
        BY <1>4, <1>6, <2>2, <2>6, <3>2
      <4> QED BY <1>4, <1>6, <1>7, <2>2, <3>2, <4>1
    <3>3. CASE p = new
      <4>1. q.seq = seq[k] + 2
        BY <1>4, <1>6, <2>6, <3>3
      <4>2. q \notin net[m] /\ q # new
        BY <1>4, <1>6, <2>2, <4>1
      <4> QED BY <1>5, <4>2
    <3> QED BY <1>5, <3>1, <3>2, <3>3
  <2>7. ASSUME NEW p \in net'[m], p.seq = peerSeq[m] + 1 PROVE p.frame <= Heard(m) + 1
    <3>1. CASE p \in net[m]
      BY <2>0, <2>7, <3>1 DEF Stream
    <3>2. CASE p = new
      <4>0. p.seq = seq[k] + 1 /\ p.frame = F
        BY <1>4, <3>2
      <4>1. peerSeq[m] = seq[k]
        BY <1>6, <2>7, <4>0
      <4> QED BY <1>6, <1>7, <2>4, <4>0, <4>1
    <3> QED BY <1>5, <3>1, <3>2
  <2>8. /\ seq'[Peer(m)] = seq[k] + 1 /\ LastPub(Peer(m))' = F /\ Heard(m)' = Heard(m)
        /\ peerSeq'[m] = peerSeq[m]
    BY <1>1, <1>5, <1>7, <1>8
  <2>9. ASSUME NEW s \in (peerSeq'[m] + 1)..seq'[Peer(m)] PROVE \E p \in net'[m] : p.seq = s
    <3>1. s \in (peerSeq[m] + 1)..(seq[k] + 1)
      BY <2>8
    <3> QED BY <2>1, <3>1
  <2>10. ASSUME NEW p \in net'[m] PROVE LastPub(Peer(m))' <= p.frame + (seq'[Peer(m)] - p.seq)
    <3>1. p.seq \in Nat /\ p.frame \in Nat /\ F <= p.frame + (seq[k] + 1 - p.seq)
      BY <2>3
    <3>2. F <= p.frame + (seq'[Peer(m)] - p.seq)
      BY <1>6, <2>8, <3>1
    <3> QED BY <2>8, <3>2
  <2>11. LastPub(Peer(m))' <= Heard(m)' + (seq'[Peer(m)] - peerSeq'[m])
    BY <1>6, <1>7, <2>5, <2>8
  <2>12. \A p, q \in net'[m] : q.seq = p.seq + 1 => q.frame <= p.frame + 1
    BY <2>6
  <2>13. \A p \in net'[m] : p.seq = peerSeq'[m] + 1 => p.frame <= Heard(m)' + 1
    BY <2>7, <2>8
  <2> QED BY <2>9, <2>10, <2>11, <2>12, <2>13 DEF Stream
<1>11. \A n \in Node : n = k \/ n = m
  BY <1>1 DEF Node, Peer
<1> QED BY <1>9, <1>10, <1>11


(* A cabinet that does not move is where it was. *)
LEMMA OtherKeeps ==
    ASSUME NEW m \in Node, InStep(m), Young(m),
           frame'[m] = frame[m], pc'[m] = pc[m], seq'[m] = seq[m], peerSeq'[m] = peerSeq[m],
           peerFrame'[m] = peerFrame[m], age'[m] = age[m], everSeen'[m] = everSeen[m],
           got'[m] = got[m], known'[m] = known[m]
    PROVE  InStep(m)' /\ Young(m)' /\ LastPub(m)' = LastPub(m) /\ Heard(m)' = Heard(m)
<1>1. LastPub(m)' = LastPub(m) /\ Heard(m)' = Heard(m) /\ Counted(m)' = Counted(m)
  BY DEF LastPub, Heard, Counted
<1>2. InStep(m)'
  <2>1. \A f \in frame'[m]..Heard(m)' : known'[m][Slot(f)]
    BY <1>1 DEF InStep
  <2> QED BY <2>1 DEF InStep
<1>3. Young(m)'
  BY <1>1 DEF Young, Slack, WithinALap
<1> QED BY <1>1, <1>2, <1>3

LEMMA StreamSame ==
    ASSUME NEW n \in Node, Stream(n), net'[n] = net[n], peerSeq'[n] = peerSeq[n], Heard(n)' = Heard(n),
           seq'[Peer(n)] = seq[Peer(n)], LastPub(Peer(n))' = LastPub(Peer(n))
    PROVE  Stream(n)'
BY DEF Stream

(* What the invariant says while nobody is closed. *)
LEMMA OpenFacts ==
    ASSUME IInv, LiveInv, Open, NEW n \in Node
    PROVE  /\ TypeOK /\ InTouch /\ Stream(n) /\ InStep(n) /\ Young(n) /\ Phase(n)
           /\ ~lost[n] /\ ~stalled[n] /\ (seen[n] <=> everSeen[n])
           /\ Peer(n) \in Node /\ Peer(Peer(n)) = n /\ Peer(n) # n
           /\ ~closed[n] /\ ~Paused(n) /\ ~Suppressed(n)
<1>1. TypeOK /\ Phase(n) /\ InTouch /\ MenuShut /\ NoFalseLoss
  BY DEF IInv, LiveInv, Open, Faultless
<1>2. Peer(n) \in Node /\ Peer(Peer(n)) = n /\ Peer(n) # n
  BY PeerIsNode
<1>3. ~lost[n] /\ ~closed[n]
  BY <1>1, <1>2 DEF NoFalseLoss, Open
<1>4. ~stalled[n] /\ (seen[n] <=> everSeen[n])
  BY <1>1, <1>3 DEF Phase, TypeOK
<1>5. ~Paused(n) /\ ~Suppressed(n)
  BY <1>1 DEF MenuShut, Paused, Suppressed
<1> QED BY <1>1, <1>2, <1>3, <1>4, <1>5 DEF InTouch

(* What one cabinet does, its partner still: enough to see about the mover. *)
Elsewhere(m) ==
    /\ frame'[m] = frame[m] /\ pc'[m] = pc[m] /\ seq'[m] = seq[m] /\ peerSeq'[m] = peerSeq[m]
    /\ peerFrame'[m] = peerFrame[m] /\ age'[m] = age[m] /\ everSeen'[m] = everSeen[m]
    /\ got'[m] = got[m] /\ known'[m] = known[m]
LEMMA MoverKeeps ==
    ASSUME IInv, LiveInv, Open, NEW k \in Node, Elsewhere(Peer(k)), UNCHANGED <<net, seq, peerSeq>>,
           Heard(k)' = Heard(k), LastPub(k)' = LastPub(k), InStep(k)', Young(k)'
    PROVE  InTouch'
<1>1. PICK m \in Node : m = Peer(k) /\ Peer(m) = k /\ m # k
  BY PeerIsNode
<1>2. Elsewhere(m) /\ InStep(m) /\ Young(m) /\ Stream(m) /\ Stream(k)
  BY <1>1, OpenFacts
<1>3. InStep(m)' /\ Young(m)' /\ LastPub(m)' = LastPub(m) /\ Heard(m)' = Heard(m)
  BY <1>2, OtherKeeps DEF Elsewhere
<1>4. Stream(k)'
  <2>1. LastPub(Peer(k))' = LastPub(Peer(k))
    BY <1>1, <1>3
  <2> QED BY <1>2, <2>1, StreamSame
<1>5. Stream(m)'
  <2>1. LastPub(Peer(m))' = LastPub(Peer(m))
    BY <1>1
  <2> QED BY <1>2, <1>3, <2>1, StreamSame
<1>6. \A n \in Node : n = k \/ n = m
  BY <1>1 DEF Node, Peer
<1> QED BY <1>3, <1>4, <1>5, <1>6 DEF InTouch


(* Publishing a frame, after which the exchange or the poll begins. *)
LEMMA SendTouch ==
    ASSUME IInv, LiveInv, Open, NEW k \in Node, NEW input, Send(k, input),
           UNCHANGED <<frame, known, peerFrame, peerSeq, age, everSeen>>,
           got' = [got EXCEPT ![k] = FALSE], pc[k] \in {"host", "frame"},
           \/ pc' = [pc EXCEPT ![k] = "exchange"]
           \/ pc' = [pc EXCEPT ![k] = "poll"]
    PROVE  InTouch'
<1>1. PICK m \in Node : m = Peer(k) /\ Peer(m) = k /\ m # k
  BY PeerIsNode
<1>2. TypeOK /\ InTouch /\ InStep(k) /\ Young(k) /\ Phase(k) /\ InStep(m) /\ Young(m)
  BY OpenFacts
<1>3. \A n \in Node : Stream(n)'
  BY <1>2, SendContinues
<1>4. Elsewhere(m)
  BY <1>1, <1>2 DEF Elsewhere, Send, TypeOK
<1>5. InStep(m)' /\ Young(m)'
  BY <1>2, <1>4, OtherKeeps DEF Elsewhere
<1>6. /\ pc'[k] \in {"exchange", "poll"} /\ ~got'[k] /\ seq'[k] = seq[k] + 1 /\ seq[k] \in Nat
      /\ UNCHANGED <<frame, known, peerFrame, peerSeq, age, everSeen>>
  BY <1>2 DEF TypeOK, Send
<1>7. Heard(k)' = Heard(k) /\ Counted(k)' = Counted(k)
  BY <1>6 DEF Heard, Counted
<1>8. InStep(k)'
  <2>1. \A f \in frame'[k]..Heard(k)' : known'[k][Slot(f)]
    BY <1>2, <1>6, <1>7 DEF InStep
  <2>2. everSeen'[k] => Delay <= peerFrame'[k]
    BY <1>2, <1>6 DEF InStep
  <2>3. peerSeq'[k] > 0 => everSeen'[k]
    BY <1>2, <1>6 DEF InStep
  <2>4. seq'[k] > 0
    BY <1>6
  <2>5. frame'[k] <= MaxFrame
    BY <1>2, <1>6 DEF InStep
  <2> QED BY <1>6, <2>1, <2>2, <2>3, <2>4, <2>5 DEF InStep
<1>9. Young(k)'
  BY <1>2, <1>6, <1>7 DEF Young, Slack, WithinALap
<1>10. \A n \in Node : n = k \/ n = m
  BY <1>1 DEF Node, Peer
<1> QED BY <1>3, <1>5, <1>8, <1>9, <1>10 DEF InTouch

LEMMA PollTouch ==
    ASSUME IInv, LiveInv, Open, NEW k \in Node, PollSend(k)
    PROVE  InTouch' /\ lost' = lost
<1> USE DEF linkVars, flagVars, hostVars, histVars
<1>1. TypeOK /\ InStep(k) /\ Young(k) /\ Phase(k) /\ (seen[k] <=> everSeen[k]) /\ ~stalled[k]
  BY OpenFacts
<1>2. CASE Announces(k)
  <2>1. Send(k, Neutral)
    BY <1>2 DEF PollSend
  <2>2. /\ UNCHANGED <<frame, known, peerFrame, peerSeq, age, everSeen>> /\ lost' = lost
        /\ got' = [got EXCEPT ![k] = FALSE] /\ pc[k] \in {"host", "frame"}
        /\ pc' = [pc EXCEPT ![k] = "poll"]
    BY DEF PollSend
  <2> QED BY <2>1, <2>2, SendTouch
<1>3. CASE ~Announces(k)
  <2>1. /\ UNCHANGED <<frame, known, peerFrame, peerSeq, age, everSeen, net, seq, lost>>
        /\ pc'[k] = "poll" /\ ~got'[k] /\ pc[k] = "host" /\ ~everSeen[k]
    BY <1>1, <1>3 DEF PollSend, TypeOK, Waiting
  <2>2. Elsewhere(Peer(k))
    BY <1>1, <2>1, PeerIsNode DEF Elsewhere, PollSend, TypeOK
  <2>3. Heard(k)' = Heard(k) /\ LastPub(k)' = LastPub(k) /\ Counted(k)' = Counted(k)
    <3>1. ~(frame[k] > 0)
      BY <1>1, <2>1 DEF Phase
    <3> QED BY <2>1, <3>1 DEF Heard, LastPub, Counted
  <2>4. InStep(k)'
    <3>1. \A f \in frame'[k]..Heard(k)' : known'[k][Slot(f)]
      BY <1>1, <2>1, <2>3 DEF InStep
    <3>2. ~(peerSeq[k] > 0) /\ (frame[k] > 0 => seq[k] > 0) /\ frame[k] <= MaxFrame
      BY <1>1, <2>1 DEF InStep
    <3> QED BY <2>1, <3>1, <3>2 DEF InStep
  <2>5. Young(k)'
    BY <2>1 DEF Young
  <2> QED BY <2>1, <2>2, <2>3, <2>4, <2>5, MoverKeeps
<1> QED BY <1>2, <1>3

LEMMA PollEndTouch ==
    ASSUME IInv, LiveInv, Open, NEW k \in Node, PollEnd(k)
    PROVE  InTouch' /\ lost' = lost
<1> USE DEF linkVars, flagVars, hostVars, histVars
<1>1. TypeOK /\ InTouch /\ InStep(k) /\ Young(k) /\ Phase(k)
  BY OpenFacts
<1>2. /\ UNCHANGED <<frame, known, peerFrame, peerSeq, net, seq, got>>
      /\ pc'[k] = "host" /\ pc[k] = "poll" /\ ~everSeen[k] /\ ~(frame[k] > 0)
  BY <1>1 DEF PollEnd, TypeOK, Phase
<1>3. Elsewhere(Peer(k))
  BY <1>1, <1>2, PeerIsNode DEF Elsewhere, PollEnd, TypeOK
<1>4. Heard(k)' = Heard(k) /\ LastPub(k)' = LastPub(k) /\ Counted(k)' = Counted(k)
  BY <1>2 DEF Heard, LastPub, Counted
<1>5. lost' = lost
  <2>1. CASE got[k]
    BY <2>1 DEF PollEnd
  <2>2. CASE ~got[k]
    <3>1. ~Gone(k, Older(age[k]))
      BY <1>2 DEF Gone
    <3>2. lost' = [lost EXCEPT ![k] = lost[k]]
      BY <1>1, <2>2, <3>1 DEF PollEnd, TypeOK
    <3> QED BY <1>1, <3>2 DEF TypeOK
  <2> QED BY <2>1, <2>2
<1>6. everSeen'[k] => got[k] /\ age'[k] = 0
  BY <1>1, <1>2 DEF PollEnd, TypeOK
<1>7. got[k] => everSeen'[k]
  BY <1>1, <1>2 DEF PollEnd, TypeOK
<1>8. InStep(k)'
  <2>1. \A f \in frame'[k]..Heard(k)' : known'[k][Slot(f)]
    BY <1>1, <1>2, <1>4 DEF InStep
  <2>2. got'[k] \/ everSeen'[k] => Delay <= peerFrame'[k]
    BY <1>1, <1>2, <1>6 DEF InStep
  <2>3. peerSeq'[k] > 0 => everSeen'[k]
    BY <1>1, <1>2, <1>7 DEF InStep
  <2>4. frame'[k] <= MaxFrame
    BY <1>1, <1>2 DEF InStep
  <2> QED BY <1>2, <2>1, <2>2, <2>3, <2>4 DEF InStep
<1>9. Young(k)'
  <2>1. Heard(k) <= frame[k] + 2 * Delay + 1 + Slack
    BY <1>1, NearbyNow DEF HeardNearby, InTouch
  <2>2. /\ frame[k] \in Nat /\ Delay \in Nat /\ Slack \in {0, 1} /\ Heard(k) \in Nat /\ Slack' = Slack
        /\ Counted(k)' = 0
    BY <1>1, <1>2, LiveNumbers DEF Slack, WithinALap, Counted
  <2>3. everSeen'[k] => age'[k] + Heard(k) <= frame[k] + 0 + 2 * Delay + 1 + Slack
    BY <1>6, <2>1, <2>2
  <2> QED BY <1>2, <1>4, <2>2, <2>3 DEF Young
<1> QED BY <1>2, <1>3, <1>4, <1>5, <1>8, <1>9, MoverKeeps

LEMMA BeginTouch ==
    ASSUME IInv, LiveInv, Open, NEW k \in Node, BeginFrame(k)
    PROVE  InTouch' /\ lost' = lost
<1> USE DEF linkVars, flagVars, hostVars, histVars
<1>1. TypeOK /\ InStep(k) /\ Young(k)
  BY OpenFacts
<1>2. /\ UNCHANGED <<frame, known, peerFrame, peerSeq, net, seq, got, age, everSeen, lost>>
      /\ pc'[k] = "frame" /\ pc[k] = "host"
  BY <1>1 DEF BeginFrame, TypeOK
<1>3. Elsewhere(Peer(k))
  BY <1>1, <1>2, PeerIsNode DEF Elsewhere, BeginFrame, TypeOK
<1>4. Heard(k)' = Heard(k) /\ LastPub(k)' = LastPub(k) /\ Counted(k)' = Counted(k)
  BY <1>2 DEF Heard, LastPub, Counted
<1>5. InStep(k)'
  <2>1. \A f \in frame'[k]..Heard(k)' : known'[k][Slot(f)]
    BY <1>1, <1>2, <1>4 DEF InStep
  <2> QED BY <1>1, <1>2, <2>1 DEF InStep
<1>6. Young(k)'
  BY <1>1, <1>2, <1>4 DEF Young, Slack, WithinALap
<1> QED BY <1>2, <1>3, <1>4, <1>5, <1>6, MoverKeeps

LEMMA FrameTouch ==
    ASSUME IInv, LiveInv, Open, NEW k \in Node, FrameSend(k)
    PROVE  InTouch' /\ lost' = lost
<1> USE DEF linkVars, flagVars, hostVars, histVars
<1>1. PICK input : Send(k, input)
  BY DEF FrameSend
<1>2. /\ UNCHANGED <<frame, known, peerFrame, peerSeq, age, everSeen>> /\ lost' = lost
      /\ got' = [got EXCEPT ![k] = FALSE] /\ pc[k] \in {"host", "frame"}
      /\ pc' = [pc EXCEPT ![k] = "exchange"]
  BY DEF FrameSend
<1> QED BY <1>1, <1>2, SendTouch


(* A partner who is there is never silent for as long as one who is gone. *)
LEMMA ExchangeTouch ==
    ASSUME IInv, LiveInv, Open, Lossless, NEW k \in Node, ExchangeEnd(k)
    PROVE  InTouch' /\ lost' = lost
<1> USE DEF linkVars, flagVars, hostVars, histVars
<1>1. TypeOK /\ InStep(k) /\ Young(k) /\ Phase(k) /\ pc[k] = "exchange"
  BY OpenFacts DEF ExchangeEnd
<1>2. everSeen[k] /\ seq[k] > 0
  BY <1>1 DEF Phase, InStep
<1>3. /\ Delay \in Nat /\ AgeLimit \in Nat /\ 2 * Delay + 3 < AgeLimit /\ Slack \in {0, 1}
      /\ frame[k] \in Nat /\ age[k] \in Nat /\ Heard(k) \in Nat
  BY <1>1, LiveNumbers
<1>4. PICK older : older = IF got[k] THEN age[k] ELSE Older(age[k])
  OBVIOUS
<1>5. older \in Nat /\ older <= age[k] + 1
  BY <1>3, <1>4 DEF Older
<1>6. age[k] + Heard(k) <= frame[k] + 2 * Delay + 1 + Slack
  <2>1. Counted(k) = 0
    BY <1>1 DEF Counted
  <2>2. age[k] + Heard(k) <= frame[k] + 0 + 2 * Delay + 1 + Slack
    BY <1>1, <1>2, <2>1 DEF Young
  <2> QED BY <1>3, <2>2
<1>7. older < AgeLimit
  <2>1. frame[k] <= Heard(k) + 1 + Slack
    BY <1>1, KeepsUp
  <2>2. Slack = 0 \/ 2 * Delay + 5 < AgeLimit
    BY DEF Lossless, Slack
  <2> QED BY <1>3, <1>5, <1>6, <2>1, <2>2
<1>8. /\ UNCHANGED <<frame, known, peerFrame, peerSeq, net, seq, got>>
      /\ age' = [age EXCEPT ![k] = older] /\ everSeen' = [everSeen EXCEPT ![k] = TRUE]
      /\ pc' = [pc EXCEPT ![k] = "wait"]
      /\ lost' = [lost EXCEPT ![k] = lost[k]]
  BY <1>1, <1>2, <1>4, <1>7 DEF ExchangeEnd, TypeOK
<1>9. pc'[k] = "wait" /\ age'[k] = older /\ everSeen'[k] /\ lost' = lost
  BY <1>1, <1>8 DEF TypeOK
<1>10. Elsewhere(Peer(k))
  BY <1>1, <1>8, PeerIsNode DEF Elsewhere, TypeOK
<1>11. Heard(k)' = Heard(k) /\ LastPub(k)' = LastPub(k) /\ Counted(k)' = 1 /\ Slack' = Slack
  BY <1>1, <1>8, <1>9 DEF Heard, LastPub, Counted, Slack, WithinALap
<1>12. InStep(k)'
  <2>1. \A f \in frame'[k]..Heard(k)' : known'[k][Slot(f)]
    BY <1>1, <1>8, <1>11 DEF InStep
  <2> QED BY <1>1, <1>2, <1>8, <1>9, <2>1 DEF InStep
<1>13. Young(k)'
  <2>1. age'[k] + Heard(k)' <= frame'[k] + 1 + 2 * Delay + 1 + Slack
    BY <1>3, <1>5, <1>6, <1>8, <1>9, <1>11
  <2> QED BY <1>11, <2>1 DEF Young
<1> QED BY <1>8, <1>9, <1>10, <1>11, <1>12, <1>13, MoverKeeps

(* The slot a frame gives back is not one that n still waits to use. *)
LEMMA PlayTouch ==
    ASSUME IInv, LiveInv, Open, NEW k \in Node, Play(k)
    PROVE  InTouch' /\ lost' = lost
<1> USE DEF linkVars, flagVars, hostVars, histVars
<1>1. TypeOK /\ InTouch /\ InStep(k) /\ Young(k) /\ Phase(k) /\ pc[k] = "wait"
  BY OpenFacts DEF Play
<1>2. everSeen[k] /\ seq[k] > 0 /\ frame[k] < MaxFrame
  BY <1>1 DEF Phase, InStep
<1>3. /\ Delay \in Nat /\ Ring \in Nat /\ 2 * Delay + 2 < Ring /\ Slack \in {0, 1} /\ MaxFrame \in Nat
      /\ frame[k] \in Nat /\ age[k] \in Nat /\ Heard(k) \in Nat /\ seq[k] \in Nat
  BY <1>1, LiveNumbers
<1>4. /\ UNCHANGED <<peerFrame, peerSeq, net, seq, got, age, everSeen, lost>>
      /\ frame'[k] = frame[k] + 1 /\ pc'[k] = "host"
      /\ known' = [known EXCEPT ![k][Slot(frame[k])] = FALSE]
  BY <1>1 DEF Play, Consumed, TypeOK
<1>5. Elsewhere(Peer(k))
  BY <1>1, <1>4, PeerIsNode DEF Elsewhere, Play, TypeOK
<1>6. Heard(k)' = Heard(k) /\ Counted(k)' = 0 /\ Slack' = Slack /\ Counted(k) = 1
  BY <1>1, <1>4 DEF Heard, Counted, Slack, WithinALap
<1>7. LastPub(k)' = LastPub(k)
  <2>1. LastPub(k) = frame[k] + Delay
    BY <1>1, <1>2, <1>3 DEF LastPub
  <2>2. frame'[k] > 0 /\ pc'[k] \in {"host", "frame"}
    BY <1>3, <1>4
  <2>3. LastPub(k)' = frame'[k] + Delay - 1
    BY <2>2 DEF LastPub
  <2> QED BY <1>3, <1>4, <2>1, <2>3
<1>8. InStep(k)'
  <2>1. ASSUME NEW f \in (frame[k] + 1)..Heard(k) PROVE known'[k][Slot(f)]
    <3>1. Heard(k) <= frame[k] + 2 * Delay + 1 + Slack
      BY <1>1, NearbyNow DEF HeardNearby, InTouch
    <3>2. f \in Nat /\ frame[k] < f /\ f < frame[k] + Ring /\ f \in frame[k]..Heard(k)
      BY <1>3, <3>1
    <3>3. Slot(f) # Slot(frame[k])
      BY <1>3, <3>2, SlotApart
    <3>4. known[k][Slot(f)]
      BY <1>1, <3>2 DEF InStep
    <3>5. known'[k] = [known[k] EXCEPT ![Slot(frame[k])] = FALSE] /\ DOMAIN known[k] = Slots
      BY <1>1, <1>4 DEF TypeOK
    <3>6. Slot(f) \in Slots
      BY <3>2, SlotIsSlot
    <3> QED BY <3>3, <3>4, <3>5, <3>6
  <2>2. \A f \in frame'[k]..Heard(k)' : known'[k][Slot(f)]
    BY <1>4, <1>6, <2>1
  <2>3. got'[k] \/ everSeen'[k] => Delay <= peerFrame'[k]
    BY <1>1, <1>4 DEF InStep
  <2>4. frame'[k] <= MaxFrame
    BY <1>2, <1>3, <1>4
  <2> QED BY <1>2, <1>4, <2>2, <2>3, <2>4 DEF InStep
<1>9. Young(k)'
  <2>1. age[k] + Heard(k) <= frame[k] + 1 + 2 * Delay + 1 + Slack
    BY <1>1, <1>2, <1>6 DEF Young
  <2>2. age'[k] + Heard(k)' <= frame'[k] + 0 + 2 * Delay + 1 + Slack
    BY <1>3, <1>4, <1>6, <2>1
  <2> QED BY <1>6, <2>2 DEF Young
<1> QED BY <1>4, <1>5, <1>6, <1>7, <1>8, <1>9, MoverKeeps

(* A cabinet whose partner is there does not wait in vain. *)
LEMMA WaitIsAnswered ==
    ASSUME IInv, LiveInv, Open, Lossless, NEW k \in Node PROVE ~GiveUp(k)
<1> SUFFICES ASSUME GiveUp(k) PROVE FALSE
  OBVIOUS
<1>1. PICK m \in Node : m = Peer(k) /\ Peer(m) = k /\ m # k
  BY PeerIsNode
<1>2. net[k] = {} /\ Silent(m) /\ pc[k] = "wait" /\ ~Arrived(k)
  BY <1>1 DEF GiveUp, Lossless
<1>3. ASSUME NEW a \in Node, net[a] = {}, pc[a] = "wait", ~Arrived(a)
      PROVE  LastPub(Peer(a)) < frame[a]
  <2>0. TypeOK /\ Stream(a) /\ InStep(a) /\ Peer(a) \in Node
    BY OpenFacts
  <2>1. /\ Heard(a) \in Nat /\ frame[a] \in Nat /\ peerSeq[a] \in Nat /\ seq[Peer(a)] \in Nat
        /\ LastPub(Peer(a)) \in Nat
    BY <2>0, LiveNumbers
  <2>2. ~(frame[a] <= Heard(a))
    <3>1. SUFFICES ASSUME frame[a] <= Heard(a) PROVE FALSE
      OBVIOUS
    <3>2. frame[a] \in frame[a]..Heard(a)
      BY <2>1, <3>1
    <3> QED BY <1>3, <2>0, <3>2 DEF InStep, Arrived
  <2>3. ~(peerSeq[a] + 1 <= seq[Peer(a)])
    <3>1. SUFFICES ASSUME peerSeq[a] + 1 <= seq[Peer(a)] PROVE FALSE
      OBVIOUS
    <3>2. peerSeq[a] + 1 \in (peerSeq[a] + 1)..seq[Peer(a)]
      BY <2>1, <3>1
    <3> QED BY <1>3, <2>0, <3>2 DEF Stream
  <2>4. LastPub(Peer(a)) <= Heard(a) + (seq[Peer(a)] - peerSeq[a])
    BY <2>0 DEF Stream
  <2> QED BY <2>1, <2>2, <2>3, <2>4
<1>4. LastPub(m) < frame[k]
  BY <1>1, <1>2, <1>3
<1>5. TypeOK /\ ~closed[m] /\ ~Paused(m) /\ ~lost[m] /\ ~stalled[m] /\ (seen[m] <=> everSeen[m])
      /\ InStep(m) /\ InStep(k) /\ Phase(k) /\ Phase(m) /\ Stream(m)
  BY OpenFacts
<1>6. /\ frame[k] \in Nat /\ frame[m] \in Nat /\ seq[k] \in Nat /\ peerSeq[m] \in Nat /\ MaxFrame \in Nat
      /\ Delay \in Nat /\ Delay >= 1
      /\ LastPub(m) = frame[m] + Delay \/ LastPub(m) = frame[m] + Delay - 1
      /\ LastPub(k) = frame[k] + Delay \/ LastPub(k) = frame[k] + Delay - 1
  BY <1>5, LiveNumbers
<1>7. CASE frame[m] = MaxFrame
  <2>1. frame[k] < MaxFrame
    BY <1>2, <1>5 DEF Phase
  <2> QED BY <1>4, <1>6, <1>7, <2>1
<1>8. CASE pc[m] = "wait" /\ ~Arrived(m) /\ net[m] = {}
  <2>1. LastPub(k) < frame[m]
    BY <1>1, <1>3, <1>8
  <2> QED BY <1>4, <1>6, <2>1
<1>9. CASE Waiting(m) /\ ~got[m] /\ net[m] = {}
  <2>1. ~everSeen[m]
    BY <1>5, <1>9 DEF Waiting
  <2>2. ~(peerSeq[m] > 0)
    BY <1>5, <1>9, <2>1 DEF InStep
  <2>3. ~(peerSeq[m] + 1 <= seq[k])
    <3>1. SUFFICES ASSUME peerSeq[m] + 1 <= seq[k] PROVE FALSE
      OBVIOUS
    <3>2. peerSeq[m] + 1 \in (peerSeq[m] + 1)..seq[k]
      BY <1>6, <3>1
    <3> QED BY <1>1, <1>5, <1>9, <3>2 DEF Stream
  <2>4. seq[k] > 0
    BY <1>2, <1>5 DEF InStep
  <2> QED BY <1>6, <2>2, <2>3, <2>4
<1> QED BY <1>2, <1>5, <1>7, <1>8, <1>9 DEF Silent


(* Taking the oldest datagram, which is the next one or one n already has. *)
LEMMA TakeTouch ==
    ASSUME IInv, IInv', LiveInv, Open, NEW n \in Node, NEW p \in net[n], Oldest(n, p), Handle(n, p),
           \/ net' = [net EXCEPT ![n] = @ \ {p}]
           \/ net' = net
    PROVE  InTouch' /\ lost' = lost
<1> USE DEF linkVars, flagVars, hostVars, histVars
<1>1. PICK m \in Node : m = Peer(n) /\ Peer(m) = n /\ m # n
  BY PeerIsNode
<1>2. /\ TypeOK /\ InTouch /\ InStep(n) /\ Young(n) /\ Phase(n) /\ Stream(n) /\ pc[n] \in {"poll", "exchange", "wait"}
      /\ InStep(m) /\ Young(m) /\ Stream(m)
  BY OpenFacts DEF Handle
<1>3. /\ UNCHANGED <<frame, seq, everSeen, pc, lost>>
      /\ net'[m] = net[m] /\ net'[n] \in SUBSET net[n] /\ net[n] \ {p} \in SUBSET net'[n]
  BY <1>1, <1>2 DEF Handle, TypeOK
<1>4. Elsewhere(m)
  BY <1>1, <1>2 DEF Elsewhere, Handle, Filed, TypeOK
<1>5. InStep(m)' /\ Young(m)' /\ LastPub(m)' = LastPub(m) /\ Heard(m)' = Heard(m)
  BY <1>2, <1>4, OtherKeeps DEF Elsewhere
<1>6. LastPub(n)' = LastPub(n)
  BY <1>3 DEF LastPub
<1>7. Stream(m)'
  <2>1. LastPub(Peer(m))' = LastPub(Peer(m)) /\ seq'[Peer(m)] = seq[Peer(m)] /\ peerSeq'[m] = peerSeq[m]
    BY <1>1, <1>3, <1>4, <1>6 DEF Elsewhere
  <2> QED BY <1>2, <1>3, <1>5, <2>1, StreamSame
<1>8. \A k \in Node : k = n \/ k = m
  BY <1>1 DEF Node, Peer
<1>9. /\ Delay \in Nat /\ Delay >= 1 /\ Heard(n) \in Nat /\ peerFrame[n] \in Nat /\ peerSeq[n] \in Nat
      /\ seq[m] \in Nat /\ frame[n] \in Nat /\ Slack \in {0, 1} /\ LastPub(m) \in Nat
      /\ Heard(n) = Delay - 1 \/ (Heard(n) = peerFrame[n] /\ peerFrame[n] >= Delay)
  BY <1>2, LiveNumbers
<1>10. p.seq \in Nat /\ p.frame \in Nat /\ p.seq >= 1 /\ p.seq <= seq[m] /\ p.frame >= Delay
  BY <1>1, WireNumbers
<1>11. \A q \in net[n] : q.seq \in Nat /\ q.frame \in Nat
  BY WireNumbers
<1>12. /\ \A s \in (peerSeq[n] + 1)..seq[m] : \E q \in net[n] : q.seq = s
       /\ \A q \in net[n] : LastPub(m) <= q.frame + (seq[m] - q.seq)
       /\ \A a, b \in net[n] : b.seq = a.seq + 1 => b.frame <= a.frame + 1
       /\ \A q \in net[n] : q.seq = peerSeq[n] + 1 => q.frame <= Heard(n) + 1
       /\ LastPub(m) <= Heard(n) + (seq[m] - peerSeq[n])
  BY <1>1, <1>2 DEF Stream
<1>13. seq'[Peer(n)] = seq[m] /\ LastPub(Peer(n))' = LastPub(m)
  BY <1>1, <1>3, <1>5
<1>14. CASE ~Fresh(n, p)
  <2>1. UNCHANGED <<peerIn, known, peerFrame, peerSeq, age, got>>
    BY <1>14 DEF Handle
  <2>2. p.seq <= peerSeq[n]
    BY <1>9, <1>10, <1>14 DEF Fresh
  <2>3. Heard(n)' = Heard(n) /\ Counted(n)' = Counted(n) /\ Slack' = Slack
    BY <1>3, <2>1 DEF Heard, Counted, Slack, WithinALap
  <2>4. InStep(n)'
    <3>1. \A f \in frame'[n]..Heard(n)' : known'[n][Slot(f)]
      BY <1>2, <1>3, <2>1, <2>3 DEF InStep
    <3> QED BY <1>2, <1>3, <2>1, <3>1 DEF InStep
  <2>5. Young(n)'
    BY <1>2, <1>3, <2>1, <2>3 DEF Young
  <2>6. ASSUME NEW s \in (peerSeq[n] + 1)..seq[m] PROVE \E q \in net'[n] : q.seq = s
    <3>1. PICK q \in net[n] : q.seq = s
      BY <1>12
    <3>2. q # p
      BY <1>9, <1>10, <2>2, <3>1
    <3> QED BY <1>3, <3>1, <3>2
  <2>7. Stream(n)'
    <3>1. \A s \in (peerSeq'[n] + 1)..seq'[Peer(n)] : \E q \in net'[n] : q.seq = s
      BY <1>13, <2>1, <2>6
    <3>2. \A q \in net'[n] : LastPub(Peer(n))' <= q.frame + (seq'[Peer(n)] - q.seq)
      BY <1>3, <1>12, <1>13
    <3>3. LastPub(Peer(n))' <= Heard(n)' + (seq'[Peer(n)] - peerSeq'[n])
      BY <1>12, <1>13, <2>1, <2>3
    <3>4. \A a, b \in net'[n] : b.seq = a.seq + 1 => b.frame <= a.frame + 1
      BY <1>3, <1>12
    <3>5. \A q \in net'[n] : q.seq = peerSeq'[n] + 1 => q.frame <= Heard(n)' + 1
      BY <1>3, <1>12, <2>1, <2>3
    <3> QED BY <3>1, <3>2, <3>3, <3>4, <3>5 DEF Stream
  <2> QED BY <1>3, <1>5, <1>7, <1>8, <2>4, <2>5, <2>7 DEF InTouch
<1>15. CASE Fresh(n, p)
  <2>1. /\ known' = [known EXCEPT ![n][Slot(p.frame)] = TRUE] /\ peerSeq'[n] = p.seq
        /\ peerFrame'[n] = (IF p.frame > peerFrame[n] THEN p.frame ELSE peerFrame[n])
        /\ age'[n] = 0 /\ got'[n]
    BY <1>2, <1>15 DEF Handle, Filed, TypeOK
  <2>2. p.seq > peerSeq[n]
    BY <1>9, <1>10, <1>15 DEF Fresh
  <2>3. p.seq = peerSeq[n] + 1
    <3>1. peerSeq[n] + 1 \in (peerSeq[n] + 1)..seq[m]
      BY <1>9, <1>10, <2>2
    <3>2. PICK q \in net[n] : q.seq = peerSeq[n] + 1
      BY <1>12, <3>1
    <3>3. p.seq <= q.seq
      BY DEF Oldest
    <3> QED BY <1>9, <1>10, <2>2, <3>2, <3>3
  <2>4. p.frame <= Heard(n) + 1
    BY <1>12, <2>3
  <2>5. p.frame > peerFrame[n] \/ (p.frame = Delay /\ peerFrame[n] <= Delay)
    BY <2>2 DEF IInv, Wire
  <2>6. peerFrame'[n] = p.frame /\ Heard(n)' = p.frame /\ Heard(n) <= p.frame
    <3>1. peerFrame'[n] = p.frame
      BY <1>9, <1>10, <2>1, <2>5
    <3>2. Heard(n)' = p.frame
      BY <1>9, <1>10, <3>1 DEF Heard
    <3> QED BY <1>9, <1>10, <2>5, <3>1, <3>2
  <2>7. InStep(n)'
    <3>1. ASSUME NEW f \in frame[n]..p.frame PROVE known'[n][Slot(f)]
      <4>0. known'[n] = [known[n] EXCEPT ![Slot(p.frame)] = TRUE] /\ DOMAIN known[n] = Slots
        BY <1>2, <2>1 DEF TypeOK
      <4>1. f \in Nat /\ Slot(f) \in Slots
        <5>1. f \in Nat
          BY <1>9
        <5> QED BY <5>1, SlotIsSlot
      <4>2. CASE f = p.frame
        BY <4>0, <4>1, <4>2
      <4>3. CASE f # p.frame
        <5>1. f \in frame[n]..Heard(n)
          BY <1>9, <1>10, <2>4, <4>3
        <5>2. known[n][Slot(f)]
          BY <1>2, <5>1 DEF InStep
        <5> QED BY <4>0, <4>1, <5>2
      <4> QED BY <4>2, <4>3
    <3>2. \A f \in frame'[n]..Heard(n)' : known'[n][Slot(f)]
      BY <1>3, <2>6, <3>1
    <3>3. Delay <= peerFrame'[n]
      BY <1>10, <2>6
    <3>4. everSeen'[n] \/ (pc'[n] = "poll" /\ got'[n])
      BY <1>2, <1>3, <2>1 DEF Phase
    <3> QED BY <1>2, <1>3, <3>2, <3>3, <3>4 DEF InStep
  <2>8. Stream(n)'
    <3>1. ASSUME NEW s \in (p.seq + 1)..seq[m] PROVE \E q \in net'[n] : q.seq = s
      <4>1. s \in (peerSeq[n] + 1)..seq[m] /\ s > p.seq
        BY <1>9, <1>10, <2>3
      <4>2. PICK q \in net[n] : q.seq = s
        BY <1>12, <4>1
      <4>3. q # p
        BY <1>10, <4>1, <4>2
      <4> QED BY <1>3, <4>2, <4>3
    <3>2. \A s \in (peerSeq'[n] + 1)..seq'[Peer(n)] : \E q \in net'[n] : q.seq = s
      BY <1>13, <2>1, <3>1
    <3>3. \A q \in net'[n] : LastPub(Peer(n))' <= q.frame + (seq'[Peer(n)] - q.seq)
      BY <1>3, <1>12, <1>13
    <3>4. LastPub(Peer(n))' <= Heard(n)' + (seq'[Peer(n)] - peerSeq'[n])
      <4>1. LastPub(m) <= p.frame + (seq[m] - p.seq)
        BY <1>12
      <4> QED BY <1>13, <2>1, <2>6, <4>1
    <3>5. \A a, b \in net'[n] : b.seq = a.seq + 1 => b.frame <= a.frame + 1
      BY <1>3, <1>12
    <3>6. \A q \in net'[n] : q.seq = peerSeq'[n] + 1 => q.frame <= Heard(n)' + 1
      BY <1>3, <1>12, <2>1, <2>6
    <3> QED BY <3>2, <3>3, <3>4, <3>5, <3>6 DEF Stream
  <2>9. Young(n)'
    <3>1. \A k \in Node : InStep(k)'
      BY <1>5, <1>8, <2>7
    <3>2. HeardNearby'
      BY <3>1, NearbyNext
    <3>3. Heard(n)' <= frame'[n] + 2 * Delay + 1 + Slack
      BY <3>2 DEF HeardNearby, Slack, WithinALap
    <3>4. Counted(n)' \in {0, 1} /\ Slack' = Slack
      BY DEF Counted, Slack, WithinALap
    <3>5. age'[n] + Heard(n)' <= frame'[n] + Counted(n)' + 2 * Delay + 1 + Slack
      BY <1>3, <1>9, <1>10, <2>1, <2>6, <3>3, <3>4
    <3> QED BY <3>4, <3>5 DEF Young
  <2> QED BY <1>3, <1>5, <1>7, <1>8, <2>7, <2>8, <2>9 DEF InTouch
<1> QED BY <1>14, <1>15

(* Without a fault nothing happens that a lossless network cannot do. *)
LEMMA FaultlessStays ==
    ASSUME TypeOK, [Next]_vars, Faultless PROVE Faultless'
<1> USE DEF linkVars, flagVars, hostVars, histVars
<1>1. ASSUME NEW n \in Node, Host(n) \/ Quit(n) \/ Recv(n) PROVE UNCHANGED <<budget, menu>>
  BY <1>1 DEF Host, Quit, Recv, PollSend, PollEnd, BeginFrame, SuppressedFrame, FrameSend, ExchangeEnd, Play,
              GiveUp, HostExit, Handle
<1>2. ASSUME NEW n \in Node, RecvDup(n) PROVE Faultless'
  BY <1>2 DEF RecvDup, Handle, Faultless, MenuShut, TypeOK
<1>3. ASSUME NEW n \in Node PROVE ~RecvLate(n) /\ ~Lose(n) /\ ~ShowSettings(n)
  BY DEF RecvLate, Lose, ShowSettings, Faultless, MenuShut
<1>4. ASSUME NEW n \in Node PROVE ~ShowPaused(n) /\ ~HideSettings(n) /\ ~HidePaused(n)
  BY DEF ShowPaused, HideSettings, HidePaused, MenuStep, Faultless, MenuShut
<1>5. CASE UNCHANGED vars
  BY <1>5 DEF vars, Faultless, MenuShut
<1>6. CASE Done
  BY <1>5, <1>6 DEF Done
<1>7. UNCHANGED <<budget, menu>> => Faultless'
  BY DEF Faultless, MenuShut
<1> QED BY <1>1, <1>2, <1>3, <1>4, <1>5, <1>6, <1>7 DEF Next


(* The application that has closed rests in the host loop. *)
ClosedRests == \A n \in Node : closed[n] => pc[n] = "host"

(* Nobody reopens, and only a cabinet on its way through a frame or a poll     *)
(* gives its partner up.                                                      *)
LEMMA ClosedStays ==
    ASSUME TypeOK, ClosedRests, [Next]_vars
    PROVE  /\ ClosedRests'
           /\ \A n \in Node : (closed[n] => closed'[n]) /\ (lost'[n] => lost[n] \/ pc[n] # "host")
<1> USE DEF linkVars, flagVars, hostVars, histVars
<1> DEFINE Goal == /\ ClosedRests'
                   /\ \A n \in Node : (closed[n] => closed'[n]) /\ (lost'[n] => lost[n] \/ pc[n] # "host")
<1>1. ASSUME NEW k \in Node, PollSend(k) \/ BeginFrame(k) PROVE Goal
  <2>1. ~closed[k] /\ UNCHANGED <<closed, lost>>
    BY <1>1 DEF PollSend, BeginFrame, Running
  <2>2. \A n \in Node : n # k => pc'[n] = pc[n]
    BY <1>1 DEF PollSend, BeginFrame, TypeOK
  <2> QED BY <2>1, <2>2 DEF ClosedRests
<1>2. ASSUME NEW k \in Node, \/ PollEnd(k) \/ ExchangeEnd(k) \/ GiveUp(k) \/ Play(k)
                             \/ SuppressedFrame(k) \/ FrameSend(k)
      PROVE  Goal
  <2>1. pc[k] # "host" /\ UNCHANGED closed
    BY <1>2 DEF PollEnd, ExchangeEnd, GiveUp, Play, SuppressedFrame, FrameSend
  <2>2. \A n \in Node : n # k => pc'[n] = pc[n]
    BY <1>2 DEF PollEnd, ExchangeEnd, GiveUp, Play, SuppressedFrame, FrameSend, TypeOK
  <2>3. \A n \in Node : n # k => lost'[n] = lost[n]
    BY <1>2 DEF PollEnd, ExchangeEnd, GiveUp, Play, SuppressedFrame, FrameSend, TypeOK
  <2> QED BY <2>1, <2>2, <2>3 DEF ClosedRests
<1>3. ASSUME NEW k \in Node, HostExit(k) \/ Quit(k) PROVE Goal
  <2>1. pc[k] = "host" /\ UNCHANGED <<pc, lost>> /\ closed' = [closed EXCEPT ![k] = TRUE]
    BY <1>3 DEF HostExit, Quit
  <2>2. \A n \in Node : n # k => closed'[n] = closed[n]
    BY <2>1 DEF TypeOK
  <2>3. closed'[k]
    BY <2>1 DEF TypeOK
  <2> QED BY <2>1, <2>2, <2>3 DEF ClosedRests
<1>4. ASSUME UNCHANGED <<pc, closed, lost>> PROVE Goal
  BY <1>4 DEF ClosedRests
<1>5. ASSUME NEW k \in Node,
             \/ Recv(k) \/ RecvLate(k) \/ RecvDup(k) \/ Lose(k)
             \/ ShowSettings(k) \/ ShowPaused(k)
             \/ HideSettings(k) \/ HidePaused(k)
      PROVE  UNCHANGED <<pc, closed, lost>>
  BY <1>5 DEF Recv, RecvLate, RecvDup, Lose, Handle, ShowSettings, ShowPaused, HideSettings,
              HidePaused, MenuStep
<1>6. ASSUME UNCHANGED vars PROVE UNCHANGED <<pc, closed, lost>>
  BY <1>6 DEF vars
<1> QED BY <1>1, <1>2, <1>3, <1>4, <1>5, <1>6 DEF Next, Host, Done

(* While both are there each step keeps them in touch. *)
LEMMA TouchStep ==
    ASSUME IInv, IInv', LiveInv, Open, Lossless, [Next]_vars
    PROVE  lost' = lost /\ (Open' => InTouch')
<1> USE DEF linkVars, flagVars, hostVars, histVars
<1>1. ASSUME NEW k \in Node, PollSend(k) \/ PollEnd(k) \/ BeginFrame(k) \/ FrameSend(k)
      PROVE  InTouch' /\ lost' = lost
  BY <1>1, PollTouch, PollEndTouch, BeginTouch, FrameTouch
<1>2. ASSUME NEW k \in Node, ExchangeEnd(k) \/ Play(k) PROVE InTouch' /\ lost' = lost
  BY <1>2, ExchangeTouch, PlayTouch
<1>3. ASSUME NEW k \in Node, Recv(k) \/ RecvDup(k) PROVE InTouch' /\ lost' = lost
  <2>1. PICK p \in net[k] :
          /\ Oldest(k, p) /\ Handle(k, p)
          /\ net' = [net EXCEPT ![k] = @ \ {p}] \/ net' = net
    BY <1>3 DEF Recv, RecvDup
  <2> QED BY <2>1, TakeTouch
<1>4. ASSUME NEW k \in Node PROVE ~GiveUp(k) /\ ~SuppressedFrame(k) /\ ~HostExit(k)
  BY WaitIsAnswered, OpenFacts DEF SuppressedFrame, HostExit
<1>5. ASSUME NEW k \in Node, Quit(k) PROVE lost' = lost /\ ~Open'
  <2>1. closed'[k]
    BY <1>5, OpenFacts DEF Quit, TypeOK
  <2> QED BY <1>5, <2>1 DEF Quit, Open
<1>6. ASSUME NEW n \in Node
      PROVE  /\ ~RecvLate(n) /\ ~Lose(n) /\ ~ShowSettings(n)
             /\ ~ShowPaused(n) /\ ~HideSettings(n) /\ ~HidePaused(n)
  BY DEF RecvLate, Lose, ShowSettings, ShowPaused, HideSettings, HidePaused, MenuStep, LiveInv, Faultless, MenuShut
<1>7. ASSUME UNCHANGED vars PROVE InTouch' /\ lost' = lost
  <2>1. UNCHANGED <<net, seq, peerSeq>> /\ lost' = lost
    BY <1>7 DEF vars
  <2>2. \A n \in Node : Elsewhere(n)
    BY <1>7 DEF vars, Elsewhere
  <2>3. PICK k \in Node : k = 1
    BY DEF Node
  <2>4. InStep(k)' /\ Young(k)' /\ LastPub(k)' = LastPub(k) /\ Heard(k)' = Heard(k)
    BY <2>2, OpenFacts, OtherKeeps DEF Elsewhere
  <2>5. Elsewhere(Peer(k))
    BY <2>2, PeerIsNode
  <2> QED BY <2>1, <2>4, <2>5, MoverKeeps
<1> QED BY <1>1, <1>2, <1>3, <1>4, <1>5, <1>6, <1>7 DEF Next, Host, Done

LEMMA LiveStep ==
    ASSUME IInv, IInv', LiveInv, Lossless, [Next]_vars PROVE LiveInv'
<1>1. TypeOK /\ Faultless /\ ClosedRests /\ NoFalseLoss
  BY DEF IInv, LiveInv, ClosedRests
<1>2. Faultless' /\ ClosedRests'
  BY <1>1, FaultlessStays, ClosedStays
<1>3. \A n \in Node : (closed[n] => closed'[n]) /\ (lost'[n] => lost[n] \/ pc[n] # "host")
  BY <1>1, ClosedStays
<1>4. NoFalseLoss'
  <2>1. SUFFICES ASSUME NEW n \in Node, lost'[n] PROVE closed'[Peer(n)]
    BY DEF NoFalseLoss
  <2>2. CASE lost[n]
    BY <1>1, <1>3, <2>2, PeerIsNode DEF NoFalseLoss
  <2>3. CASE ~lost[n]
    <3>1. ~Open
      BY <2>1, <2>3, TouchStep
    <3>2. PICK c \in Node : closed[c]
      BY <3>1 DEF Open
    <3>3. c # n
      BY <1>1, <1>3, <2>1, <2>3, <3>2 DEF ClosedRests
    <3>4. c = Peer(n)
      BY <3>3 DEF Node, Peer
    <3> QED BY <1>3, <3>2, <3>4
  <2> QED BY <2>2, <2>3
<1>5. Open' => InTouch'
  <2>1. Open' => Open
    BY <1>3 DEF Open
  <2> QED BY <2>1, TouchStep
<1> QED BY <1>2, <1>4, <1>5 DEF LiveInv, ClosedRests, Open

LEMMA LiveBegins == ASSUME Lossless, Init PROVE LiveInv
<1>1. Faultless
  BY DEF Init, Lossless, Faultless, MenuShut
<1>2. NoFalseLoss /\ \A n \in Node : closed[n] => pc[n] = "host"
  BY DEF Init, NoFalseLoss
<1>3. ASSUME NEW n \in Node PROVE Stream(n) /\ InStep(n) /\ Young(n)
  <2>0. Peer(n) \in Node /\ Delay \in Nat /\ Delay >= 1 /\ Ring \in Nat /\ 2 * Delay + 2 < Ring /\ MaxFrame \in Nat
    BY PeerIsNode, NetplayAssumption
  <2>1. /\ frame[n] = 0 /\ peerFrame[n] = 0 /\ seq[n] = 0 /\ peerSeq[n] = 0 /\ ~everSeen[n] /\ ~got[n]
        /\ pc[n] = "host" /\ net[n] = {} /\ known[n] = [s \in Slots |-> Seeded(s)]
        /\ seq[Peer(n)] = 0 /\ frame[Peer(n)] = 0
    BY <2>0 DEF Init
  <2>2. Heard(n) = Delay - 1 /\ LastPub(Peer(n)) = Delay - 1
    BY <2>0, <2>1 DEF Heard, LastPub
  <2>3. Stream(n)
    BY <2>0, <2>1, <2>2 DEF Stream
  <2>4. ASSUME NEW f \in 0..(Delay - 1) PROVE known[n][Slot(f)]
    <3>1. f \in Nat /\ f < Ring /\ f < Delay
      BY <2>0
    <3>2. Slot(f) = f /\ f \in Slots
      BY <2>0, <3>1 DEF Slot, Slots
    <3> QED BY <2>1, <3>1, <3>2 DEF Seeded
  <2>5. InStep(n)
    BY <2>0, <2>1, <2>2, <2>4 DEF InStep
  <2>6. Young(n)
    BY <2>1 DEF Young
  <2> QED BY <2>3, <2>5, <2>6
<1> QED BY <1>1, <1>2, <1>3 DEF LiveInv, InTouch

(* On a network that loses nothing and overtakes nothing, with the menu never  *)
(* opened, a partner is given up only after it has closed: neither the wait    *)
(* nor the age limit ever mistakes a slow partner for one that is gone.        *)
THEOREM NoFalseLossHolds ==
    ASSUME Lossless
    PROVE  Spec => []NoFalseLoss
<1>1. Init => LiveInv
  BY Lossless, LiveBegins
<1>2. IInv /\ IInv' /\ LiveInv /\ [Next]_vars => LiveInv'
  BY Lossless, LiveStep
<1>3. LiveInv => NoFalseLoss
  BY DEF LiveInv
<1> QED BY <1>1, <1>2, <1>3, Inductive, PTL DEF Spec
=============================================================================
