------------------------------ MODULE CommProofs ------------------------------
(***************************************************************************)
(* Proofs about the linked communication boards of module CommBoard, for   *)
(* any number of slots, and whatever is lost, overtaken or restarted.      *)
(***************************************************************************)
EXTENDS CommBoard, TLAPS

Content == [by : 0..2, number : Nat]
Slices == [0..Slots - 1 -> Content]
Packets == [by : Cabinets, slots : Slices]
Types ==
    /\ mode \in [Cabinets -> {"peer", "loopback", "cut"}]
    /\ ram \in [Cabinets -> [0..Slots -> Content]]
    /\ writes \in [Cabinets -> Nat] /\ since \in [Cabinets -> Nat]
    /\ staging \in [Cabinets -> Seq(Slices)]
    /\ wire \in [Cabinets -> Seq(Packets)]
    /\ inbox \in [Cabinets -> Seq(Packets)]

(* No slot holds a state its game has not written: w[m] is what m wrote.   *)
Known(x, w) == IF x.by = 0 THEN x.number = 0 ELSE x.number <= w[x.by]
(* The slots 0 to last, as a cabinet m holds or sends them.                *)
Ring(slots, last, m, w) ==
    /\ \A k \in 0..last : Known(slots[k], w)
    /\ \A k \in 0..last : slots[k].by \in {0, IF k % 2 = 0 THEN m ELSE Other(m)}
    /\ \A k \in 0..last - 2 : slots[k].by # 0 => slots[k + 2].number <= slots[k].number
(* The RAM of m: its game's newest state is in front.                      *)
Held(r, m, w) ==
    /\ Ring(r, Slots, m, w)
    /\ r[0].by # 0 => r[0].number = w[m]
OnTheWay(q, w) ==
    \A n \in Cabinets : \A i \in DOMAIN q[n] :
        Ring(q[n][i].slots, Slots - 1, q[n][i].by, w)

Rings ==
    /\ \A n \in Cabinets : mode[n] = "peer" => Held(ram[n], n, writes)
    /\ OnTheWay(wire, writes)
    /\ OnTheWay(inbox, writes)

(* A board on its own holds and stages what its game wrote since it started: *)
(* no slot 0 to last has a state of number old or before.                   *)
Recent(slots, last, old) ==
    \A k \in 0..last : slots[k].by # 0 => slots[k].number > old
OnItsOwn(r, staged, old, written) ==
    /\ old <= written
    /\ Recent(r, Slots, old)
    /\ \A i \in DOMAIN staged : Recent(staged[i], Slots - 1, old)
Alone ==
    \A n \in Cabinets : mode[n] # "peer" =>
        OnItsOwn(ram[n], staging[n], since[n], writes[n])

------------------------------------------------------------------------------
(* The two cabinets are each other's partner. *)
LEMMA OtherIsCabinet ==
    ASSUME NEW n \in Cabinets
    PROVE  /\ Other(n) \in Cabinets /\ Other(n) # n /\ Other(Other(n)) = n
           /\ n \in 1..2 /\ \A m \in Cabinets : m = n \/ m = Other(n)
  BY DEF Cabinets, Other

(* What a queue without one of its elements holds was in the queue.        *)
LEMMA WithoutOne ==
    ASSUME NEW S, NEW s \in Seq(S), NEW i \in 1..Len(s)
    PROVE  /\ Without(s, i) \in Seq(S)
           /\ \A j \in DOMAIN Without(s, i) : \E k \in DOMAIN s : Without(s, i)[j] = s[k]
  <1> DEFINE a == SubSeq(s, 1, i - 1)  b == SubSeq(s, i + 1, Len(s))
  <1>1. a \in Seq(S) /\ Len(a) = i - 1 /\ \A j \in 1..(i - 1) : a[j] = s[j]
    OBVIOUS
  <1>2. b \in Seq(S) /\ Len(b) = Len(s) - i /\ \A j \in 1..(Len(s) - i) : b[j] = s[i + j]
    OBVIOUS
  <1>3. Without(s, i) = a \o b
    BY DEF Without
  <1> HIDE DEF a, b
  <1>4. Without(s, i) \in Seq(S) /\ Len(Without(s, i)) = Len(s) - 1
    BY <1>1, <1>2, <1>3
  <1>5. ASSUME NEW j \in DOMAIN Without(s, i) PROVE \E k \in DOMAIN s : Without(s, i)[j] = s[k]
    <2>1. j \in 1..(Len(s) - 1)
      BY <1>4
    <2>2. CASE j < i
      <3>1. Without(s, i)[j] = s[j] /\ j \in DOMAIN s
        BY <1>1, <1>2, <1>3, <2>1, <2>2
      <3> QED
        BY <3>1
    <2>3. CASE j >= i
      <3>1. Without(s, i)[j] = b[j - (i - 1)] /\ j - (i - 1) \in 1..(Len(s) - i)
        BY <1>1, <1>2, <1>3, <2>1, <2>3
      <3>2. b[j - (i - 1)] = s[j + 1] /\ j + 1 \in DOMAIN s
        BY <1>2, <2>1, <3>1
      <3> QED
        BY <3>1, <3>2
    <2> QED
      BY <2>1, <2>2, <2>3
  <1> QED
    BY <1>4, <1>5

(* A frame stored in the RAM leaves RAM. *)
LEMMA StoredType ==
    ASSUME NEW r \in [0..Slots -> Content], NEW slots \in Slices
    PROVE  Stored(r, slots) \in [0..Slots -> Content]
  <1>1. \A k \in 0..Slots : k # 0 => k - 1 \in 0..Slots - 1
    BY CommBoardAssumption
  <1>2. \A k \in 0..Slots : (IF k = 0 THEN r[k] ELSE slots[k - 1]) \in Content
    BY <1>1 DEF Slices
  <1> QED
    BY <1>2 DEF Stored

(* A ring stays one while the games write on.                              *)
LEMMA RingStays ==
    ASSUME NEW w \in [Cabinets -> Nat], NEW v \in [Cabinets -> Nat],
           \A m \in Cabinets : w[m] <= v[m],
           NEW last \in Int, NEW slots \in [0..last -> Content],
           NEW m, Ring(slots, last, m, w)
    PROVE  Ring(slots, last, m, v)
  <1>1. ASSUME NEW k \in 0..last PROVE Known(slots[k], v)
    <2>1. Known(slots[k], w) /\ slots[k].number \in Nat
      BY DEF Ring, Content
    <2>2. CASE slots[k].by = 0
      BY <2>1, <2>2 DEF Known
    <2>3. CASE slots[k].by \in Cabinets
      <3>1. slots[k].by # 0 /\ w[slots[k].by] \in Nat /\ v[slots[k].by] \in Nat
            /\ w[slots[k].by] <= v[slots[k].by]
        BY <2>3 DEF Cabinets
      <3> QED
        BY <2>1, <3>1 DEF Known
    <2> QED
      BY <2>2, <2>3 DEF Content, Cabinets
  <1> QED
    BY <1>1 DEF Ring

(* Nothing is in a blank ring.                                             *)
LEMMA BlankRing ==
    ASSUME NEW m, NEW w
    PROVE  /\ [k \in 0..Slots |-> Blank] \in [0..Slots -> Content]
           /\ Held([k \in 0..Slots |-> Blank], m, w)
  <1> DEFINE r == [k \in 0..Slots |-> Blank]
  <1>1. Slots \in Nat /\ Blank \in Content /\ Blank.by = 0 /\ Blank.number = 0
    BY CommBoardAssumption DEF Blank, Content
  <1>2. \A k \in 0..Slots : r[k] = Blank
    OBVIOUS
  <1>3. r \in [0..Slots -> Content]
    BY <1>1
  <1> HIDE DEF r
  <1>4. 0 \in 0..Slots /\ \A k \in 0..Slots - 2 : k \in 0..Slots /\ k + 2 \in 0..Slots
    BY <1>1
  <1>5. Held(r, m, w)
    BY <1>1, <1>2, <1>4 DEF Held, Ring, Known
  <1> QED
    BY <1>3, <1>5 DEF r

(* What the partner sends is, one slot further on, a ring with one's own.  *)
LEMMA StoredRing ==
    ASSUME NEW w \in [Cabinets -> Nat], NEW n \in Cabinets, NEW before \in [0..Slots -> Content],
           NEW slots \in Slices, Held(before, n, w), Ring(slots, Slots - 1, Other(n), w)
    PROVE  Held(Stored(before, slots), n, w)
  <1> DEFINE r == Stored(before, slots)
  <1>1. Ring(before, Slots, n, w)
    BY DEF Held
  <1>2. Slots \in Nat \ {0} /\ before \in [0..Slots -> Content]
    BY CommBoardAssumption
  <1>3. /\ r[0] = before[0]
        /\ \A k \in 1..Slots : r[k] = slots[k - 1] /\ k - 1 \in 0..Slots - 1
    <2>1. \A k \in 0..Slots : r[k] = IF k = 0 THEN before[k] ELSE slots[k - 1]
      BY DEF Stored
    <2>2. 0 \in 0..Slots /\ \A k \in 1..Slots : k \in 0..Slots /\ k # 0 /\ k - 1 \in 0..Slots - 1
      BY <1>2
    <2> HIDE DEF r
    <2> QED
      BY <2>1, <2>2
  <1>4. r \in [0..Slots -> Content]
    BY <1>2, StoredType
  <1> HIDE DEF r
  <1>5. \A k \in 0..Slots : Known(r[k], w)
    BY <1>1, <1>2, <1>3 DEF Ring
  <1>6. ASSUME NEW k \in 0..Slots PROVE r[k].by \in {0, IF k % 2 = 0 THEN n ELSE Other(n)}
    <2>1. CASE k = 0
      BY <1>1, <1>2, <1>3, <2>1 DEF Ring
    <2>2. CASE k # 0
      <3>1. r[k].by \in {0, IF (k - 1) % 2 = 0 THEN Other(n) ELSE Other(Other(n))}
        BY <1>2, <1>3, <2>2 DEF Ring
      <3>2. (k - 1) % 2 = 0 <=> k % 2 # 0
        BY <1>2, <2>2
      <3> QED
        BY <3>1, <3>2, OtherIsCabinet
    <2> QED
      BY <2>1, <2>2
  <1>7. ASSUME NEW k \in 0..Slots - 2, r[k].by # 0 PROVE r[k + 2].number <= r[k].number
    <2>1. CASE k = 0
      <3>1. r[0].by = n /\ r[0].number = w[n]
        <4>1. r[0].by \in {0, n}
          BY <1>2, <1>6
        <4> QED
          BY <1>3, <1>7, <2>1, <4>1 DEF Held
      <3>2. r[2].by \in {0, n} /\ Known(r[2], w)
        BY <1>2, <1>5, <1>6, <2>1
      <3>3. w[n] \in Nat
        OBVIOUS
      <3> QED
        BY <2>1, <3>1, <3>2, <3>3, OtherIsCabinet DEF Known
    <2>2. CASE k # 0
      <3>1. r[k] = slots[k - 1] /\ r[k + 2] = slots[k + 1] /\ k - 1 \in 0..(Slots - 1) - 2
        BY <1>2, <1>3, <2>2
      <3>2. slots[k - 1].by # 0 => slots[(k - 1) + 2].number <= slots[k - 1].number
        BY <3>1 DEF Ring
      <3> QED
        BY <1>2, <1>7, <3>1, <3>2
    <2> QED
      BY <2>1, <2>2
  <1>8. Ring(r, Slots, n, w)
    BY <1>5, <1>6, <1>7 DEF Ring
  <1> QED
    BY <1>3, <1>8 DEF Held, r

(* What a cabinet sends is the ring it holds, but for the last slot.       *)
LEMMA OutgoingRing ==
    ASSUME Types, NEW n \in Cabinets
    PROVE  /\ Outgoing(ram[n]) \in Slices
           /\ \A w : Ring(ram[n], Slots, n, w) => Ring(Outgoing(ram[n]), Slots - 1, n, w)
  <1>1. Slots \in Nat \ {0} /\ ram[n] \in [0..Slots -> Content]
    BY CommBoardAssumption DEF Types
  <1>2. \A k \in 0..Slots - 1 : Outgoing(ram[n])[k] = ram[n][k] /\ k \in 0..Slots
    BY <1>1 DEF Outgoing
  <1>3. Outgoing(ram[n]) \in Slices
    BY <1>1, <1>2 DEF Outgoing, Slices
  <1>4. \A k \in 0..(Slots - 1) - 2 : k \in 0..Slots - 1 /\ k + 2 \in 0..Slots - 1
              /\ k \in 0..Slots - 2
    BY <1>1
  <1> QED
    BY <1>2, <1>3, <1>4 DEF Ring

------------------------------------------------------------------------------
(* Every variable keeps its type. *)
LEMMA TypesStep == Types /\ [Next]_vars => Types'
  <1> SUFFICES ASSUME Types, [Next]_vars PROVE Types'
    OBVIOUS
  <1>1. << >> \in Seq(Slices) /\ << >> \in Seq(Packets)
        /\ [k \in 0..Slots |-> Blank] \in [0..Slots -> Content]
    BY BlankRing, OtherIsCabinet DEF Cabinets
  <1>2. CASE UNCHANGED vars
    BY <1>2 DEF vars, boardVars, netVars, Types
  <1>3. ASSUME NEW n \in Cabinets, Restart(n) \/ PowerOff(n) \/ SwitchOff(n) \/ SwitchOn(n)
        PROVE  Types'
    <2>1. mode' = mode /\ writes' = writes /\ wire' = wire
      BY <1>3 DEF Restart, PowerOff, SwitchOff, SwitchOn, Initialized, Cleared
    <2>2. since' = since \/ since' = [since EXCEPT ![n] = writes[n]]
      BY <1>3 DEF Restart, PowerOff, SwitchOff, SwitchOn, Initialized, Cleared
    <2>3. ram' = ram \/ ram' = [ram EXCEPT ![n] = [k \in 0..Slots |-> Blank]]
      BY <1>3 DEF Restart, PowerOff, SwitchOff, SwitchOn, Initialized, Cleared
    <2>4. staging' = staging \/ staging' = [staging EXCEPT ![n] = << >>]
      BY <1>3 DEF Restart, PowerOff, SwitchOff, SwitchOn, Initialized, Cleared, Emptied
    <2>5. inbox' = inbox \/ inbox' = [inbox EXCEPT ![n] = << >>]
      BY <1>3 DEF Restart, PowerOff, SwitchOff, SwitchOn, Initialized, Cleared
    <2> QED
      BY <1>1, <2>1, <2>2, <2>3, <2>4, <2>5 DEF Types
  <1>4. ASSUME NEW n \in Cabinets, SelectMaster(n) \/ Search(n) \/ Unreachable(n) PROVE Types'
    BY <1>4 DEF SelectMaster, Search, Unreachable, netVars, Types
  <1>5. ASSUME NEW n \in Cabinets, Write(n) PROVE Types'
    <2>1. writes' = [writes EXCEPT ![n] = @ + 1] /\ writes' \in [Cabinets -> Nat]
      BY <1>5 DEF Write, Types
    <2> DEFINE x == [by |-> n, number |-> writes'[n]]
    <2>2. x \in Content /\ ram[n] \in [0..Slots -> Content]
      BY <2>1 DEF Content, Types, Cabinets
    <2>3. ram' = [ram EXCEPT ![n] = [ram[n] EXCEPT ![0] = x]]
      BY <1>5 DEF Write
    <2> HIDE DEF x
    <2>4. ram' \in [Cabinets -> [0..Slots -> Content]]
      BY <2>2, <2>3 DEF Types
    <2> QED
      BY <1>5, <2>1, <2>4 DEF Write, netVars, Types
  <1>6. ASSUME NEW n \in Cabinets, TickPeer(n) PROVE Types'
    <2>1. ram' \in [Cabinets -> [0..Slots -> Content]]
      <3>1. ram' = ram \/ \E last \in Heard(n) :
                  ram' = [ram EXCEPT ![n] = Stored(ram[n], inbox[n][last].slots)]
        BY <1>6 DEF TickPeer
      <3>2. CASE ram' = ram
        BY <3>2 DEF Types
      <3>3. ASSUME NEW last \in Heard(n), ram' = [ram EXCEPT ![n] = Stored(ram[n], inbox[n][last].slots)]
            PROVE  ram' \in [Cabinets -> [0..Slots -> Content]]
        <4>1. inbox[n] \in Seq(Packets) /\ last \in 1..Len(inbox[n])
          BY DEF Heard, Types
        <4>2. inbox[n][last] \in Packets
          BY <4>1
        <4>3. Stored(ram[n], inbox[n][last].slots) \in [0..Slots -> Content]
          BY <4>2, StoredType DEF Packets, Types
        <4> QED
          BY <3>3, <4>3 DEF Types
      <3> QED
        BY <3>1, <3>2, <3>3
    <2>2. wire' \in [Cabinets -> Seq(Packets)]
      <3> DEFINE p == [by |-> n, slots |-> Outgoing(ram[n])]
      <3>1. p \in Packets
        BY OutgoingRing DEF Packets
      <3>2. wire' = wire \/ wire' = [wire EXCEPT ![Other(n)] = Append(wire[Other(n)], p)]
        BY <1>6 DEF TickPeer
      <3> HIDE DEF p
      <3>3. Other(n) \in Cabinets /\ wire \in [Cabinets -> Seq(Packets)]
        BY OtherIsCabinet DEF Types
      <3>4. Append(wire[Other(n)], p) \in Seq(Packets)
        BY <3>1, <3>3
      <3> QED
        BY <3>2, <3>3, <3>4
    <2>3. inbox' = [inbox EXCEPT ![n] = << >>] /\ UNCHANGED <<mode, writes, since, staging>>
      BY <1>6 DEF TickPeer
    <2> QED
      BY <1>1, <2>1, <2>2, <2>3 DEF Types
  <1>7. ASSUME NEW n \in Cabinets, Circulate(n) PROVE Types'
    <2>1. ram' \in [Cabinets -> [0..Slots -> Content]]
      <3>1. CASE staging[n] = << >>
        BY <1>7, <3>1 DEF Circulate, Types
      <3>2. CASE staging[n] # << >>
        <4>1. Head(staging[n]) \in Slices
          BY <3>2 DEF Types
        <4>2. Stored(ram[n], Head(staging[n])) \in [0..Slots -> Content]
          BY <4>1, StoredType DEF Types
        <4> QED
          BY <1>7, <3>2, <4>2 DEF Circulate, Types
      <3> QED
        BY <3>1, <3>2
    <2>2. Outgoing(ram'[n]) \in Slices
      BY <2>1, CommBoardAssumption DEF Outgoing, Slices
    <2>3. staging' \in [Cabinets -> Seq(Slices)]
      BY <1>7, <2>2 DEF Circulate, Types
    <2> QED
      BY <1>7, <2>1, <2>3 DEF Circulate, netVars, Types
  <1>8. ASSUME NEW n \in Cabinets, Arrive(n) PROVE Types'
    <2> PICK i \in 1..Len(wire[n]) :
            /\ wire' = [wire EXCEPT ![n] = Without(wire[n], i)]
            /\ inbox' = inbox \/ inbox' = [inbox EXCEPT ![n] = Append(inbox[n], wire[n][i])]
      BY <1>8 DEF Arrive
    <2>1. Without(wire[n], i) \in Seq(Packets)
          /\ wire[n][i] \in Packets
      <3>1. wire[n] \in Seq(Packets)
        BY DEF Types
      <3> QED
        BY <3>1, WithoutOne
    <2>2. Append(inbox[n], wire[n][i]) \in Seq(Packets)
      BY <2>1 DEF Types
    <2>3. UNCHANGED <<mode, ram, writes, since, staging>>
      BY <1>8 DEF Arrive, boardVars
    <2> QED
      BY <2>1, <2>2, <2>3 DEF Types
  <1>9. ASSUME NEW n \in Cabinets, Lose(n) PROVE Types'
    <2>1. Tail(wire[n]) \in Seq(Packets)
      BY <1>9 DEF Lose, Types
    <2> QED
      BY <1>9, <2>1 DEF Lose, boardVars, Types
  <1> QED
    BY <1>2, <1>3, <1>4, <1>5, <1>6, <1>7, <1>8, <1>9 DEF Next, VBlank

------------------------------------------------------------------------------
(* The packets on their way are rings still when the games have written on. *)
LEMMA OnTheWayStays ==
    ASSUME NEW w \in [Cabinets -> Nat], NEW v \in [Cabinets -> Nat],
           \A m \in Cabinets : w[m] <= v[m],
           NEW q \in [Cabinets -> Seq(Packets)], OnTheWay(q, w)
    PROVE  OnTheWay(q, v)
  <1> SUFFICES ASSUME NEW n \in Cabinets, NEW i \in DOMAIN q[n]
               PROVE  Ring(q[n][i].slots, Slots - 1, q[n][i].by, v)
    BY DEF OnTheWay
  <1>1. q[n][i] \in Packets
    OBVIOUS
  <1>2. q[n][i].slots \in [0..Slots - 1 -> Content] /\ Slots - 1 \in Int
    BY <1>1, CommBoardAssumption DEF Packets, Slices
  <1>3. Ring(q[n][i].slots, Slots - 1, q[n][i].by, w)
    BY DEF OnTheWay
  <1> DEFINE last == Slots - 1  s == q[n][i].slots  m == q[n][i].by
  <1>4. last \in Int /\ s \in [0..last -> Content] /\ Ring(s, last, m, w)
    BY <1>2, <1>3
  <1> HIDE DEF last, s, m
  <1>5. Ring(s, last, m, v)
    BY <1>4, RingStays
  <1> QED
    BY <1>5 DEF last, s, m

(* A queue with one packet more, or one or all less, holds no others.      *)
LEMMA QueuesOnTheWay ==
    ASSUME NEW w, NEW n \in Cabinets, NEW q \in [Cabinets -> Seq(Packets)], OnTheWay(q, w)
    PROVE  /\ OnTheWay([q EXCEPT ![n] = << >>], w)
           /\ \A p \in Packets : Ring(p.slots, Slots - 1, p.by, w) =>
                OnTheWay([q EXCEPT ![n] = Append(q[n], p)], w)
           /\ \A i \in 1..Len(q[n]) : OnTheWay([q EXCEPT ![n] = Without(q[n], i)], w)
           /\ q[n] # << >> => OnTheWay([q EXCEPT ![n] = Tail(q[n])], w)
  <1>1. ASSUME NEW s \in Seq(Packets),
               \A j \in DOMAIN s : Ring(s[j].slots, Slots - 1, s[j].by, w)
        PROVE  OnTheWay([q EXCEPT ![n] = s], w)
    BY <1>1 DEF OnTheWay
  <1>2. << >> \in Seq(Packets) /\ \A j : j \notin DOMAIN << >>
    OBVIOUS
  <1>3. q[n] \in Seq(Packets) /\ \A i \in DOMAIN q[n] :
              Ring(q[n][i].slots, Slots - 1, q[n][i].by, w)
    BY DEF OnTheWay
  <1>4. OnTheWay([q EXCEPT ![n] = << >>], w)
    BY <1>1, <1>2
  <1>5. ASSUME NEW p \in Packets, Ring(p.slots, Slots - 1, p.by, w)
        PROVE  OnTheWay([q EXCEPT ![n] = Append(q[n], p)], w)
    <2>1. \A j \in DOMAIN Append(q[n], p) :
            Append(q[n], p)[j] = p \/ (j \in DOMAIN q[n] /\ Append(q[n], p)[j] = q[n][j])
      BY <1>3
    <2>2. Append(q[n], p) \in Seq(Packets)
      BY <1>3
    <2> QED
      BY <1>1, <1>3, <1>5, <2>1, <2>2
  <1>6. ASSUME NEW i \in 1..Len(q[n]) PROVE OnTheWay([q EXCEPT ![n] = Without(q[n], i)], w)
    <2>1. Without(q[n], i) \in Seq(Packets)
          /\ \A j \in DOMAIN Without(q[n], i) : \E k \in DOMAIN q[n] :
                Without(q[n], i)[j] = q[n][k]
      BY <1>3, WithoutOne
    <2> QED
      BY <1>1, <1>3, <2>1
  <1>7. ASSUME q[n] # << >> PROVE OnTheWay([q EXCEPT ![n] = Tail(q[n])], w)
    <2>1. Tail(q[n]) \in Seq(Packets)
          /\ \A j \in DOMAIN Tail(q[n]) : j + 1 \in DOMAIN q[n] /\ Tail(q[n])[j] = q[n][j + 1]
      BY <1>3, <1>7
    <2> QED
      BY <1>1, <1>3, <2>1
  <1> QED
    BY <1>4, <1>5, <1>6, <1>7

(* The state a game writes goes in front of its ring.                      *)
LEMMA WrittenRing ==
    ASSUME NEW w \in [Cabinets -> Nat], NEW n \in Cabinets, NEW r \in [0..Slots -> Content],
           Held(r, n, w)
    PROVE  Held([r EXCEPT ![0] = [by |-> n, number |-> w[n] + 1]], n, [w EXCEPT ![n] = w[n] + 1])
  <1> DEFINE x == [by |-> n, number |-> w[n] + 1]
             s == [r EXCEPT ![0] = x]  v == [w EXCEPT ![n] = w[n] + 1]
  <1>1. Slots \in Nat \ {0} /\ w[n] \in Nat /\ n # 0
    BY CommBoardAssumption DEF Cabinets
  <1>2. x.by = n /\ x.number = w[n] + 1
    OBVIOUS
  <1>3. v \in [Cabinets -> Nat] /\ v[n] = w[n] + 1 /\ \A m \in Cabinets : w[m] <= v[m]
    BY <1>1
  <1>4. s[0] = x /\ \A k \in 1..Slots : s[k] = r[k] /\ k \in 0..Slots
    BY <1>1
  <1>5. Ring(r, Slots, n, w)
    BY DEF Held
  <1> HIDE DEF x, v
  <1>6. Ring(r, Slots, n, v)
    BY <1>1, <1>3, <1>5, RingStays
  <1> HIDE DEF s
  <1>7. \A k \in 0..Slots : Known(s[k], v)
    BY <1>1, <1>2, <1>3, <1>4, <1>6 DEF Ring, Known
  <1>8. \A k \in 0..Slots : s[k].by \in {0, IF k % 2 = 0 THEN n ELSE Other(n)}
    <2> SUFFICES ASSUME NEW k \in 0..Slots
              PROVE s[k].by \in {0, IF k % 2 = 0 THEN n ELSE Other(n)}
      OBVIOUS
    <2>1. CASE k = 0
      BY <1>2, <1>4, <2>1
    <2>2. CASE k # 0
      BY <1>4, <1>5, <2>2 DEF Ring
    <2> QED
      BY <2>1, <2>2
  <1>9. ASSUME NEW k \in 0..Slots - 2, s[k].by # 0 PROVE s[k + 2].number <= s[k].number
    <2>1. k + 2 \in 1..Slots /\ k + 2 \in 0..Slots /\ k \in 0..Slots
      BY <1>1
    <2>2. CASE k = 0
      <3>1. s[2].by \in {0, n} /\ Known(s[2], v)
        BY <1>7, <1>8, <2>1, <2>2
      <3> QED
        BY <1>1, <1>2, <1>3, <1>4, <2>2, <3>1 DEF Known
    <2>3. CASE k # 0
      BY <1>4, <1>5, <1>9, <2>1, <2>3 DEF Ring
    <2> QED
      BY <2>2, <2>3
  <1>10. Ring(s, Slots, n, v)
    BY <1>7, <1>8, <1>9 DEF Ring
  <1> QED
    BY <1>2, <1>3, <1>4, <1>10 DEF Held, s, v, x

(* No step puts a state into a slot that is not its own, or behind an older *)
(* one.                                                                    *)
LEMMA RingsStep ==
    ASSUME Types, Types', Rings, [Next]_vars
    PROVE  Rings'
  <1>1. wire \in [Cabinets -> Seq(Packets)] /\ inbox \in [Cabinets -> Seq(Packets)]
        /\ writes \in [Cabinets -> Nat] /\ ram \in [Cabinets -> [0..Slots -> Content]]
    BY DEF Types
  <1>2. /\ \A m \in Cabinets : mode[m] = "peer" => Held(ram[m], m, writes)
        /\ OnTheWay(wire, writes) /\ OnTheWay(inbox, writes)
    BY DEF Rings
  <1>3. CASE UNCHANGED vars
    BY <1>3 DEF vars, boardVars, netVars, Rings
  <1>4. ASSUME NEW n \in Cabinets, Restart(n) \/ PowerOff(n) \/ SwitchOff(n) \/ SwitchOn(n)
        PROVE  Rings'
    <2>1. writes' = writes /\ mode' = mode /\ wire' = wire
      BY <1>4 DEF Restart, PowerOff, SwitchOff, SwitchOn, Initialized, Cleared
    <2>2. inbox' = inbox \/ inbox' = [inbox EXCEPT ![n] = << >>]
      BY <1>4 DEF Restart, PowerOff, SwitchOff, SwitchOn, Initialized, Cleared
    <2>3. ram' = ram \/ ram' = [ram EXCEPT ![n] = [k \in 0..Slots |-> Blank]]
      BY <1>4 DEF Restart, PowerOff, SwitchOff, SwitchOn, Initialized, Cleared
    <2>4. \A m \in Cabinets : ram'[m] = ram[m] \/ ram'[m] = [k \in 0..Slots |-> Blank]
      BY <1>1, <2>3
    <2>5. \A m \in Cabinets : mode[m] = "peer" => Held(ram'[m], m, writes)
      BY <1>2, <2>4, BlankRing
    <2>6. OnTheWay(inbox', writes)
      <3>1. OnTheWay([inbox EXCEPT ![n] = << >>], writes)
        BY <1>1, <1>2, QueuesOnTheWay
      <3> QED
        BY <1>2, <2>2, <3>1
    <2> QED
      BY <1>2, <2>1, <2>5, <2>6 DEF Rings
  <1>5. ASSUME NEW n \in Cabinets, SelectMaster(n) \/ Search(n) \/ Unreachable(n) PROVE Rings'
    BY <1>5 DEF SelectMaster, Search, Unreachable, netVars, Rings
  <1>6. ASSUME NEW n \in Cabinets, Circulate(n) PROVE Rings'
    <2>1. UNCHANGED <<writes, mode, wire, inbox>> /\ mode[n] # "peer"
      BY <1>6 DEF Circulate, netVars
    <2>2. \A m \in Cabinets : m # n => ram'[m] = ram[m]
      BY <1>1, <1>6 DEF Circulate
    <2> QED
      BY <1>2, <2>1, <2>2 DEF Rings
  <1>7. ASSUME NEW n \in Cabinets, Write(n) PROVE Rings'
    <2>1. UNCHANGED <<mode, wire, inbox>> /\ writes' = [writes EXCEPT ![n] = writes[n] + 1]
      BY <1>7 DEF Write, netVars
    <2>2. ram' = [ram EXCEPT ![n] = [ram[n] EXCEPT ![0] = [by |-> n, number |-> writes[n] + 1]]]
      BY <1>1, <1>7, <2>1 DEF Write
    <2>3. writes' \in [Cabinets -> Nat] /\ \A m \in Cabinets : writes[m] <= writes'[m]
      BY <1>1, <2>1
    <2>4. OnTheWay(wire, writes') /\ OnTheWay(inbox, writes')
      BY <1>1, <1>2, <2>3, OnTheWayStays
    <2>5. ASSUME NEW m \in Cabinets, mode[m] = "peer", m # n PROVE Held(ram'[m], m, writes')
      <3>1. ram'[m] = ram[m] /\ writes'[m] = writes[m] /\ Held(ram[m], m, writes)
        BY <1>1, <1>2, <2>1, <2>2, <2>5
      <3>2. Ring(ram[m], Slots, m, writes) /\ Slots \in Int /\ ram[m] \in [0..Slots -> Content]
        BY <1>1, <3>1, CommBoardAssumption DEF Held
      <3>3. Ring(ram[m], Slots, m, writes')
        BY <1>1, <2>3, <3>2, RingStays
      <3> QED
        BY <3>1, <3>3 DEF Held
    <2>6. mode[n] = "peer" => Held(ram'[n], n, writes')
      BY <1>1, <1>2, <2>1, <2>2, WrittenRing
    <2> QED
      BY <2>1, <2>4, <2>5, <2>6 DEF Rings
  <1>8. ASSUME NEW n \in Cabinets, TickPeer(n) PROVE Rings'
    <2>1. UNCHANGED <<writes, mode>> /\ inbox' = [inbox EXCEPT ![n] = << >>] /\ mode[n] = "peer"
      BY <1>8 DEF TickPeer
    <2>2. Held(ram[n], n, writes)
      BY <1>2, <2>1
    <2>3. ram' = ram \/ \E last \in Heard(n) :
                ram' = [ram EXCEPT ![n] = Stored(ram[n], inbox[n][last].slots)]
      BY <1>8 DEF TickPeer
    <2>4. ASSUME NEW last \in Heard(n) PROVE Held(Stored(ram[n], inbox[n][last].slots), n, writes)
      <3> DEFINE p == inbox[n][last]
      <3>1. last \in DOMAIN inbox[n] /\ p \in Packets /\ p.by # n
        BY <1>1 DEF Heard, Foreign
      <3>2. Ring(p.slots, Slots - 1, p.by, writes)
        BY <1>2, <3>1 DEF OnTheWay
      <3>3. p.slots \in Slices /\ p.by = Other(n)
        BY <3>1, OtherIsCabinet DEF Packets
      <3> HIDE DEF p
      <3>4. Held(Stored(ram[n], p.slots), n, writes)
        BY <1>1, <2>2, <3>2, <3>3, StoredRing
      <3> QED
        BY <3>4 DEF p
    <2>5. \A m \in Cabinets : mode[m] = "peer" => Held(ram'[m], m, writes)
      BY <1>1, <1>2, <2>3, <2>4
    <2>6. OnTheWay(wire', writes)
      <3> DEFINE p == [by |-> n, slots |-> Outgoing(ram[n])]
      <3>1. wire' = wire \/ wire' = [wire EXCEPT ![Other(n)] = Append(wire[Other(n)], p)]
        BY <1>8 DEF TickPeer
      <3>2. p \in Packets /\ Ring(p.slots, Slots - 1, p.by, writes)
        BY <2>2, OutgoingRing DEF Packets, Held
      <3> HIDE DEF p
      <3>3. Other(n) \in Cabinets
        BY OtherIsCabinet
      <3>4. OnTheWay([wire EXCEPT ![Other(n)] = Append(wire[Other(n)], p)], writes)
        BY <1>1, <1>2, <3>2, <3>3, QueuesOnTheWay
      <3> QED
        BY <1>2, <3>1, <3>4
    <2>7. OnTheWay(inbox', writes)
      BY <1>1, <1>2, <2>1, QueuesOnTheWay
    <2> QED
      BY <2>1, <2>5, <2>6, <2>7 DEF Rings
  <1>9. ASSUME NEW n \in Cabinets, Arrive(n) PROVE Rings'
    <2> PICK i \in 1..Len(wire[n]) :
            /\ wire' = [wire EXCEPT ![n] = Without(wire[n], i)]
            /\ inbox' = inbox \/ inbox' = [inbox EXCEPT ![n] = Append(inbox[n], wire[n][i])]
      BY <1>9 DEF Arrive
    <2>1. UNCHANGED <<writes, mode, ram>>
      BY <1>9 DEF Arrive, boardVars
    <2>2. wire[n][i] \in Packets /\ Ring(wire[n][i].slots, Slots - 1, wire[n][i].by, writes)
      BY <1>1, <1>2 DEF OnTheWay
    <2>3. OnTheWay(wire', writes)
      BY <1>1, <1>2, QueuesOnTheWay
    <2>4. OnTheWay(inbox', writes)
      <3>1. OnTheWay([inbox EXCEPT ![n] = Append(inbox[n], wire[n][i])], writes)
        BY <1>1, <1>2, <2>2, QueuesOnTheWay
      <3> QED
        BY <1>2, <3>1
    <2> QED
      BY <1>2, <2>1, <2>3, <2>4 DEF Rings
  <1>10. ASSUME NEW n \in Cabinets, Lose(n) PROVE Rings'
    <2>1. UNCHANGED <<writes, mode, ram, inbox>> /\ wire[n] # << >>
                /\ wire' = [wire EXCEPT ![n] = Tail(wire[n])]
      BY <1>10 DEF Lose, boardVars
    <2>2. OnTheWay(wire', writes)
      BY <1>1, <1>2, <2>1, QueuesOnTheWay
    <2> QED
      BY <1>2, <2>1, <2>2 DEF Rings
  <1> QED
    BY <1>3, <1>4, <1>5, <1>6, <1>7, <1>8, <1>9, <1>10 DEF Next, VBlank

------------------------------------------------------------------------------
(* A board that starts over holds nothing and stages nothing.              *)
LEMMA NothingRecent ==
    ASSUME NEW old \in Nat
    PROVE  /\ OnItsOwn([k \in 0..Slots |-> Blank], << >>, old, old)
           /\ \A r, written, q : OnItsOwn(r, q, old, written) => OnItsOwn(r, << >>, old, written)
  <1>1. Blank.by = 0 /\ \A j : j \notin DOMAIN << >>
    BY DEF Blank
  <1>2. Recent([k \in 0..Slots |-> Blank], Slots, old)
    BY <1>1 DEF Recent
  <1> QED
    BY <1>1, <1>2 DEF OnItsOwn

(* The next state written is newer than all before it.                     *)
LEMMA WrittenRecent ==
    ASSUME NEW n \in Cabinets, NEW r \in [0..Slots -> Content], NEW staged,
           NEW old \in Nat, NEW written \in Nat, OnItsOwn(r, staged, old, written)
    PROVE  OnItsOwn([r EXCEPT ![0] = [by |-> n, number |-> written + 1]], staged, old, written + 1)
  <1> DEFINE x == [by |-> n, number |-> written + 1]  s == [r EXCEPT ![0] = x]
  <1>1. old <= written /\ written + 1 > old /\ old <= written + 1 /\ x.number = written + 1
    BY DEF OnItsOwn
  <1>2. \A k \in 0..Slots : s[k] = x \/ s[k] = r[k]
    OBVIOUS
  <1> HIDE DEF x, s
  <1>3. Recent(s, Slots, old)
    BY <1>1, <1>2 DEF OnItsOwn, Recent
  <1>4. OnItsOwn(s, staged, old, written + 1)
    BY <1>1, <1>3 DEF OnItsOwn
  <1> QED
    BY <1>4 DEF x, s

(* What circulates on the ring stays recent.                               *)
LEMMA CirculatedRecent ==
    ASSUME NEW r \in [0..Slots -> Content], NEW staged \in Seq(Slices),
           NEW old, NEW written, OnItsOwn(r, staged, old, written),
           NEW s, s = r \/ (staged # << >> /\ s = Stored(r, Head(staged)))
    PROVE  OnItsOwn(s, << Outgoing(s) >>, old, written)
  <1>1. Slots \in Nat \ {0}
    BY CommBoardAssumption
  <1>2. Recent(s, Slots, old)
    <2>1. CASE s = r
      BY <2>1 DEF OnItsOwn
    <2>2. CASE staged # << >> /\ s = Stored(r, Head(staged))
      <3>1. 1 \in DOMAIN staged /\ Head(staged) = staged[1]
        BY <2>2
      <3>2. Recent(staged[1], Slots - 1, old) /\ Recent(r, Slots, old)
        BY <3>1 DEF OnItsOwn
      <3>3. \A k \in 0..Slots : s[k] = IF k = 0 THEN r[k] ELSE staged[1][k - 1]
        BY <2>2, <3>1 DEF Stored
      <3>4. \A k \in 0..Slots : k # 0 => k - 1 \in 0..Slots - 1
        BY <1>1
      <3> QED
        BY <3>2, <3>3, <3>4 DEF Recent
    <2> QED
      BY <2>1, <2>2
  <1>3. \A k \in 0..Slots - 1 : Outgoing(s)[k] = s[k] /\ k \in 0..Slots
    BY <1>1 DEF Outgoing
  <1>4. Recent(Outgoing(s), Slots - 1, old)
    BY <1>2, <1>3 DEF Recent
  <1>5. \A j \in DOMAIN << Outgoing(s) >> : << Outgoing(s) >>[j] = Outgoing(s)
    OBVIOUS
  <1> QED
    BY <1>2, <1>4, <1>5 DEF OnItsOwn

(* No step brings a state of before back to a board on its own.            *)
LEMMA AloneStep ==
    ASSUME Types, Types', Alone, [Next]_vars
    PROVE  Alone'
  <1>1. /\ ram \in [Cabinets -> [0..Slots -> Content]] /\ staging \in [Cabinets -> Seq(Slices)]
        /\ since \in [Cabinets -> Nat] /\ writes \in [Cabinets -> Nat]
    BY DEF Types
  <1>2. \A m \in Cabinets : mode[m] # "peer" => OnItsOwn(ram[m], staging[m], since[m], writes[m])
    BY DEF Alone
  <1>3. CASE UNCHANGED <<mode, ram, staging, since, writes>>
    BY <1>2, <1>3 DEF Alone
  <1>4. ASSUME NEW n \in Cabinets, Restart(n) \/ PowerOff(n) \/ SwitchOn(n) PROVE Alone'
    <2>1. /\ UNCHANGED <<mode, writes>>
          /\ ram' = [ram EXCEPT ![n] = [k \in 0..Slots |-> Blank]]
          /\ staging' = [staging EXCEPT ![n] = << >>]
          /\ since' = [since EXCEPT ![n] = writes[n]]
      BY <1>4 DEF Restart, PowerOff, SwitchOn, Initialized, Cleared, Emptied
    <2>2. OnItsOwn(ram'[n], staging'[n], since'[n], writes[n])
      <3>1. OnItsOwn([k \in 0..Slots |-> Blank], << >>, writes[n], writes[n])
        BY <1>1, NothingRecent
      <3> QED
        BY <1>1, <2>1, <3>1
    <2>3. \A m \in Cabinets : m # n =>
            ram'[m] = ram[m] /\ staging'[m] = staging[m] /\ since'[m] = since[m]
      BY <1>1, <2>1
    <2> QED
      BY <1>2, <2>1, <2>2, <2>3 DEF Alone
  <1>5. ASSUME NEW n \in Cabinets, SwitchOff(n) PROVE Alone'
    <2>1. UNCHANGED <<mode, writes, ram, since>> /\ staging' = [staging EXCEPT ![n] = << >>]
      BY <1>5 DEF SwitchOff, Emptied
    <2>2. mode[n] # "peer" => OnItsOwn(ram[n], << >>, since[n], writes[n])
      BY <1>1, <1>2, NothingRecent
    <2>3. staging'[n] = << >> /\ \A m \in Cabinets : m # n => staging'[m] = staging[m]
      BY <1>1, <2>1
    <2> QED
      BY <1>2, <2>1, <2>2, <2>3 DEF Alone
  <1>6. ASSUME NEW n \in Cabinets, Write(n) PROVE Alone'
    <2>1. UNCHANGED <<mode, staging, since>> /\ writes' = [writes EXCEPT ![n] = writes[n] + 1]
      BY <1>6 DEF Write
    <2>2. ram' = [ram EXCEPT ![n] = [ram[n] EXCEPT ![0] = [by |-> n, number |-> writes[n] + 1]]]
      BY <1>1, <1>6, <2>1 DEF Write
    <2>3. mode[n] # "peer" => OnItsOwn(ram'[n], staging[n], since[n], writes'[n])
      <3>1. ASSUME mode[n] # "peer"
            PROVE  OnItsOwn([ram[n] EXCEPT ![0] = [by |-> n, number |-> writes[n] + 1]],
                            staging[n], since[n], writes[n] + 1)
        BY <1>1, <1>2, <3>1, WrittenRecent
      <3> QED
        BY <1>1, <2>1, <2>2, <3>1
    <2>4. \A m \in Cabinets : m # n => ram'[m] = ram[m] /\ writes'[m] = writes[m]
      BY <1>1, <2>1, <2>2
    <2> QED
      BY <1>2, <2>1, <2>3, <2>4 DEF Alone
  <1>7. ASSUME NEW n \in Cabinets, TickPeer(n) PROVE Alone'
    <2>1. UNCHANGED <<mode, writes, since, staging>> /\ mode[n] = "peer"
      BY <1>7 DEF TickPeer
    <2>2. \A m \in Cabinets : m # n => ram'[m] = ram[m]
      <3>1. ram' = ram \/ \E r : ram' = [ram EXCEPT ![n] = r]
        BY <1>7 DEF TickPeer
      <3> QED
        BY <1>1, <3>1
    <2> QED
      BY <1>2, <2>1, <2>2 DEF Alone
  <1>8. ASSUME NEW n \in Cabinets, Circulate(n) PROVE Alone'
    <2>1. UNCHANGED <<mode, writes, since>> /\ mode[n] # "peer"
      BY <1>8 DEF Circulate
    <2>2. /\ ram' = ram \/ (staging[n] # << >>
                /\ ram' = [ram EXCEPT ![n] = Stored(ram[n], Head(staging[n]))])
          /\ staging' = [staging EXCEPT ![n] = << Outgoing(ram'[n]) >>]
      BY <1>8 DEF Circulate
    <2>3. ram'[n] = ram[n] \/ (staging[n] # << >> /\ ram'[n] = Stored(ram[n], Head(staging[n])))
      BY <1>1, <2>2
    <2>4. OnItsOwn(ram'[n], << Outgoing(ram'[n]) >>, since[n], writes[n])
      BY <1>1, <1>2, <2>1, <2>3, CirculatedRecent
    <2>5. staging'[n] = << Outgoing(ram'[n]) >>
          /\ \A m \in Cabinets : m # n => ram'[m] = ram[m] /\ staging'[m] = staging[m]
      BY <1>1, <2>2
    <2> QED
      BY <1>2, <2>1, <2>4, <2>5 DEF Alone
  <1>9. ASSUME NEW n \in Cabinets,
               SelectMaster(n) \/ Search(n) \/ Unreachable(n) \/ Arrive(n) \/ Lose(n)
        PROVE  Alone'
    BY <1>3, <1>9 DEF SelectMaster, Search, Unreachable, Arrive, Lose, boardVars
  <1>10. CASE UNCHANGED vars
    BY <1>3, <1>10 DEF vars, boardVars
  <1> QED
    BY <1>4, <1>5, <1>6, <1>7, <1>8, <1>9, <1>10 DEF Next, VBlank

------------------------------------------------------------------------------
(* The boards are off and their rings blank at first.                      *)
LEMMA InitHolds == Init => Types /\ Rings /\ Alone
  <1> SUFFICES ASSUME Init PROVE Types /\ Rings /\ Alone
    OBVIOUS
  <1> DEFINE r == [k \in 0..Slots |-> Blank]
  <1>1. r \in [0..Slots -> Content] /\ \A m, w : Held(r, m, w)
    BY BlankRing
  <1>2. OnItsOwn(r, << >>, 0, 0)
    BY NothingRecent
  <1> HIDE DEF r
  <1>3. /\ ram = [n \in Cabinets |-> r] /\ staging = [n \in Cabinets |-> << >>]
        /\ since = [n \in Cabinets |-> 0] /\ writes = [n \in Cabinets |-> 0]
        /\ wire = [n \in Cabinets |-> << >>] /\ inbox = [n \in Cabinets |-> << >>]
        /\ mode \in [Cabinets -> {"peer", "loopback", "cut"}]
    BY DEF Init, r, Modes, Linked, Apart
  <1>4. << >> \in Seq(Slices) /\ << >> \in Seq(Packets) /\ \A j : j \notin DOMAIN << >>
    OBVIOUS
  <1>5. Types
    BY <1>1, <1>3, <1>4 DEF Types
  <1>6. Rings
    BY <1>1, <1>3, <1>4 DEF Rings, OnTheWay
  <1>7. Alone
    BY <1>2, <1>3 DEF Alone
  <1> QED
    BY <1>5, <1>6, <1>7

(* In every state the boards hold rings, and those on their own recent ones. *)
THEOREM BoardsSafe == Spec => [](Types /\ Rings /\ Alone)
  <1>1. Types /\ Rings /\ Alone /\ [Next]_vars => (Types /\ Rings /\ Alone)'
    BY TypesStep, RingsStep, AloneStep
  <1> QED
    BY <1>1, InitHolds, PTL DEF Spec

(* The even slots of two cabinets' ring hold a cabinet's own states and the *)
(* odd ones its partner's, however many slots are sent.                    *)
THEOREM RingAlternatesHolds == Spec => []RingAlternates
  <1>1. Rings => RingAlternates
    BY DEF Rings, Held, Ring, RingAlternates
  <1> QED
    BY <1>1, BoardsSafe, PTL

(* Further down the ring a cabinet's states are never newer.               *)
THEOREM OlderDownTheRingHolds == Spec => []OlderDownTheRing
  <1>1. Rings => OlderDownTheRing
    BY DEF Rings, Held, Ring, OlderDownTheRing
  <1> QED
    BY <1>1, BoardsSafe, PTL

(* A board on its own that started over holds no state of before.          *)
THEOREM NothingFromBeforeHolds == Spec => []NothingFromBefore
  <1>1. Alone => NothingFromBefore
    BY DEF Alone, OnItsOwn, Recent, NothingFromBefore
  <1> QED
    BY <1>1, BoardsSafe, PTL
=============================================================================
