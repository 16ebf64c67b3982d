---------------------------- MODULE System22Proofs ----------------------------
(* Proofs about System 22: its bus, the commands of its C352, its display list *)
(* and its DSP.  For each, an invariant that its initial states have and every *)
(* step of it keeps.                                                          *)
EXTENDS System22Board, System22Sound, System22Geometry, Tms320C25, TLAPS

-----------------------------------------------------------------------------
(* The bus of System 22.                                                       *)

(* A coin switch that has closed and that no frame has seen yet is one press   *)
(* more than the credits.                                                     *)
S22Inv ==
    /\ s22presses \in Nat /\ s22credits \in Nat
    /\ s22coin \in BOOLEAN
    /\ AssertedIsHighest
    /\ NoFreeCredit
    /\ (s22coin /\ s22previous # "closed") => s22credits < s22presses

LEMMA S22Begins == S22Init => S22Inv
  <1> SUFFICES ASSUME S22Init PROVE S22Inv
    OBVIOUS
  <1>1. { s22level[s] : s \in (s22enabled \cap s22pending) \cap CountedSources } = {}
    BY DEF S22Init
  <1>2. Max({0} \cup {}) = 0
    BY DEF Max
  <1>3. AssertedIsHighest
    BY <1>1, <1>2 DEF AssertedIsHighest, Highest, S22Init
  <1>4. s22presses = 0 /\ s22credits = 0 /\ s22coin = FALSE
    BY DEF S22Init
  <1>5. NoFreeCredit
    BY <1>4 DEF NoFreeCredit
  <1> QED
    BY <1>3, <1>4, <1>5 DEF S22Inv

LEMMA S22Kept == S22Inv /\ [S22Next]_s22vars => S22Inv'
  <1> SUFFICES ASSUME S22Inv, [S22Next]_s22vars PROVE S22Inv'
    OBVIOUS
  <1>s. s22super' = s22super /\ CountedSources' = CountedSources
    <2>1. s22super' = s22super
      BY DEF S22Next, WriteLevel, Acknowledge, WriteMcuControl, McuTakes, BeginFrame, HalfFrame,
             EndFrame, CoinSwitch, s22vars, s22kind
    <2> QED
      BY <2>1 DEF CountedSources
  <1>h. ASSUME UpdateLevel(s22level', s22enabled', s22pending')
        PROVE  AssertedIsHighest'
    BY <1>s, <1>h DEF UpdateLevel, AssertedIsHighest, Highest
  <1>u. ASSUME UNCHANGED s22irq PROVE AssertedIsHighest'
    <2>1. s22level' = s22level /\ s22enabled' = s22enabled /\ s22pending' = s22pending /\ s22asserted' = s22asserted
      BY <1>u DEF s22irq
    <2> QED
      BY <1>s, <2>1 DEF AssertedIsHighest, Highest, S22Inv
  <1>1. ASSUME NEW source \in UsedSources, NEW level \in UsedLevels, NEW bit4 \in BOOLEAN,
               WriteLevel(source, level, bit4)
        PROVE  S22Inv'
    <2>1. UpdateLevel(s22level', s22enabled', s22pending')
      BY <1>1 DEF WriteLevel, UpdateLevel
    <2> QED
      BY <1>1, <1>h, <2>1 DEF WriteLevel, s22coinage, S22Inv, NoFreeCredit
  <1>2. ASSUME NEW source \in UsedSources, Acknowledge(source) PROVE S22Inv'
    <2>1. UpdateLevel(s22level', s22enabled', s22pending')
      BY <1>2 DEF Acknowledge, UpdateLevel
    <2> QED
      BY <1>2, <1>h, <2>1 DEF Acknowledge, s22coinage, S22Inv, NoFreeCredit
  <1>3. ASSUME NEW on \in BOOLEAN, WriteMcuControl(on) PROVE S22Inv'
    BY <1>3, <1>u DEF WriteMcuControl, s22coinage, S22Inv, NoFreeCredit
  <1>4. ASSUME NEW line \in {"irq0", "irq2"}, McuTakes(line) PROVE S22Inv'
    BY <1>4, <1>u DEF McuTakes, s22coinage, S22Inv, NoFreeCredit
  <1>5. CASE BeginFrame
    <2>1. UpdateLevel(s22level', s22enabled', s22pending')
      BY <1>5 DEF BeginFrame, UpdateLevel
    <2>2. AssertedIsHighest'
      BY <1>h, <2>1
    <2>3. s22coin' = s22coin /\ s22presses' = s22presses
      BY <1>5 DEF BeginFrame
    <2>4. CASE s22super \/ s22mcu
      BY <1>5, <2>2, <2>3, <2>4 DEF BeginFrame, UpdateCoinage, Edge, Previous, S22Inv, NoFreeCredit
    <2>5. CASE ~(s22super \/ s22mcu)
      BY <1>5, <2>2, <2>3, <2>5 DEF BeginFrame, S22Inv, NoFreeCredit
    <2> QED
      BY <2>4, <2>5
  <1>6. CASE HalfFrame
    BY <1>6, <1>u DEF HalfFrame, s22coinage, S22Inv, NoFreeCredit
  <1>7. ASSUME NEW received \in BOOLEAN, EndFrame(received) PROVE S22Inv'
    <2>1. UpdateLevel(s22level', s22enabled', s22pending')
      BY <1>7 DEF EndFrame, UpdateLevel
    <2> QED
      BY <1>7, <1>h, <2>1 DEF EndFrame, s22coinage, S22Inv, NoFreeCredit
  <1>8. CASE CoinSwitch
    BY <1>8, <1>u DEF CoinSwitch, S22Inv, NoFreeCredit
  <1>9. CASE UNCHANGED s22vars
    BY <1>9, <1>u DEF s22vars, s22coinage, S22Inv, NoFreeCredit
  <1> QED
    BY <1>1, <1>2, <1>3, <1>4, <1>5, <1>6, <1>7, <1>8, <1>9 DEF S22Next

-----------------------------------------------------------------------------
(* The commands of the C352 in their ring.                                     *)

(* The slot behind another, and how far a slot is from where the reader is.    *)
After1(slot) == IF slot = Capacity - 1 THEN 0 ELSE slot + 1
Ahead(slot, from) == IF slot >= from THEN slot - from ELSE slot - from + Capacity
Waiting(write, from) == { s \in RingSlots : Ahead(s, from) < Ahead(write, from) }
(* The first command the chip does not have.                                   *)
Unapplied == IF c352audio = "note" THEN After1(c352cursor) ELSE c352cursor

IsWord(word) == word = [high |-> word.high, turned |-> word.turned, low |-> word.low]
Flags(ring, slot) == ring[slot].kind = "flags"

(* The data accepted last are in the chip, or in the last flag word that waits. *)
Keeps(ring, write, from, low, accepted) ==
    \/ /\ \A s \in Waiting(write, from) : ~Flags(ring, s)
       /\ low = accepted
    \/ \E s \in Waiting(write, from) :
          /\ Flags(ring, s) /\ ring[s].word.low = accepted
          /\ \A t \in Waiting(write, from) : Ahead(t, from) > Ahead(s, from) => ~Flags(ring, t)
AcceptedIsKept == Keeps(c352ring, c352write, Unapplied, c352chip.low, c352accepted)

C352Types ==
    /\ c352read \in RingSlots /\ c352write \in RingSlots /\ c352cursor \in RingSlots /\ c352end \in RingSlots
    /\ DOMAIN c352ring = RingSlots
    /\ \A s \in RingSlots : IsWord(c352ring[s].word)
    /\ IsWord(c352chip) /\ IsWord(c352snapshot) /\ IsWord(c352word) /\ IsWord(c352command.word)

CursorsInOrder ==
    /\ c352audio \notin {"apply", "note"} => c352cursor = c352read
    /\ c352audio \in {"apply", "note"} =>
         /\ Ahead(c352cursor, c352read) <= Ahead(c352end, c352read)
         /\ Ahead(c352end, c352read) <= Ahead(c352write, c352read)
    /\ c352audio = "note" => c352cursor # c352end

C352Inv == C352Types /\ CursorsInOrder /\ AcceptedIsKept

LEMMA C352Begins == C352Init => C352Inv
  <1> SUFFICES ASSUME C352Init PROVE C352Inv
    OBVIOUS
  <1>1. C352Types
    BY C352Assumption DEF C352Init, C352Types, RingSlots, IsWord, Quiet, Execution
  <1>2. CursorsInOrder
    BY DEF C352Init, CursorsInOrder
  <1>3. AcceptedIsKept
    <2>1. c352write = 0 /\ Unapplied = 0 /\ c352chip.low = 0 /\ c352accepted = 0
      BY DEF C352Init, Unapplied, Quiet
    <2>2. Waiting(0, 0) = {}
      BY C352Assumption DEF Waiting, Ahead, RingSlots
    <2> QED
      BY <2>1, <2>2 DEF AcceptedIsKept, Keeps
  <1> QED
    BY <1>1, <1>2, <1>3 DEF C352Inv

LEMMA SlotAfter ==
    ASSUME NEW slot \in RingSlots
    PROVE  (slot + 1) % Capacity = After1(slot) /\ After1(slot) \in RingSlots
  <1>1. Capacity \in Nat /\ Capacity > 1
    BY C352Assumption
  <1>2. CASE slot = Capacity - 1
    <2>1. Capacity % Capacity = 0
      BY <1>1
    <2>2. slot + 1 = Capacity
      BY <1>1, <1>2
    <2> QED
      BY <1>1, <1>2, <2>1, <2>2 DEF After1, RingSlots
  <1>3. CASE slot # Capacity - 1
    <2>1. slot + 1 \in 0..(Capacity - 1)
      BY <1>1, <1>3 DEF RingSlots
    <2>2. (slot + 1) % Capacity = slot + 1
      BY <1>1, <2>1
    <2> QED
      BY <1>3, <2>1, <2>2 DEF After1, RingSlots
  <1> QED
    BY <1>2, <1>3

(* A step back from the reader's place leaves one slot less between.           *)
LEMMA AheadOfNext ==
    ASSUME NEW slot \in RingSlots, NEW from \in RingSlots, slot # from
    PROVE  Ahead(slot, After1(from)) = Ahead(slot, from) - 1 /\ Ahead(slot, from) > 0
  BY C352Assumption DEF Ahead, After1, RingSlots

(* A command put at the end of what waits: if it is a flag word, it is the one *)
(* accepted last.                                                             *)
LEMMA KeptByPush ==
    ASSUME NEW ring, DOMAIN ring = RingSlots, NEW write \in RingSlots, NEW from \in RingSlots,
           NEW low, NEW accepted, NEW command,
           Ahead(After1(write), from) = Ahead(write, from) + 1, Keeps(ring, write, from, low, accepted)
    PROVE  Keeps([ring EXCEPT ![write] = command], After1(write), from, low,
                 IF command.kind = "flags" THEN command.word.low ELSE accepted)
  <1> DEFINE ring1 == [ring EXCEPT ![write] = command]
             accepted1 == IF command.kind = "flags" THEN command.word.low ELSE accepted
  <1>a. Capacity \in Nat /\ Capacity > 1 /\ write \in 0..(Capacity - 1) /\ from \in 0..(Capacity - 1)
    BY C352Assumption DEF RingSlots
  <1>1. \A s \in RingSlots : Ahead(s, from) < Ahead(write, from) + 1
                               <=> Ahead(s, from) < Ahead(write, from) \/ s = write
    BY <1>a DEF Ahead, RingSlots
  <1>2. Waiting(After1(write), from) = Waiting(write, from) \cup {write}
    BY <1>1 DEF Waiting
  <1>3. \A s \in Waiting(write, from) : ~(Ahead(s, from) > Ahead(write, from)) /\ s # write /\ s \in RingSlots
    BY <1>a DEF Waiting, Ahead, RingSlots
  <1>4. ~(Ahead(write, from) > Ahead(write, from))
    BY <1>a DEF Ahead
  <1>5. ring1[write] = command /\ \A s \in Waiting(write, from) : ring1[s] = ring[s]
    BY <1>3
  <1> HIDE DEF ring1
  <1>6. CASE command.kind = "flags"
    <2>1. Flags(ring1, write) /\ ring1[write].word.low = accepted1
      BY <1>5, <1>6 DEF Flags
    <2>2. \A t \in Waiting(write, from) \cup {write} : ~(Ahead(t, from) > Ahead(write, from))
      BY <1>3, <1>4
    <2> HIDE DEF accepted1
    <2>3. Keeps(ring1, After1(write), from, low, accepted1)
      BY <1>2, <2>1, <2>2 DEF Keeps
    <2> QED
      BY <2>3 DEF ring1, accepted1
  <1>7. CASE command.kind # "flags"
    <2>1. accepted1 = accepted /\ ~Flags(ring1, write)
      BY <1>5, <1>7 DEF Flags
    <2>2. \A s \in Waiting(write, from) : (Flags(ring1, s) <=> Flags(ring, s)) /\ ring1[s].word.low = ring[s].word.low
      BY <1>5 DEF Flags
    <2>3. Keeps(ring1, After1(write), from, low, accepted)
      BY <1>2, <2>1, <2>2 DEF Keeps
    <2> QED
      BY <2>1, <2>3 DEF ring1
  <1> QED
    BY <1>6, <1>7

(* The first command that waits is taken into the chip. *)
LEMMA KeptByApply ==
    ASSUME NEW ring, NEW write \in RingSlots, NEW from \in RingSlots, write # from,
           NEW low, NEW accepted, Keeps(ring, write, from, low, accepted)
    PROVE  Keeps(ring, write, After1(from), IF Flags(ring, from) THEN ring[from].word.low ELSE low, accepted)
  <1> DEFINE next == After1(from)
             low1 == IF Flags(ring, from) THEN ring[from].word.low ELSE low
  <1>a. Capacity \in Nat /\ Capacity > 1 /\ write \in 0..(Capacity - 1) /\ from \in 0..(Capacity - 1)
    BY C352Assumption DEF RingSlots
  <1>1. \A s \in RingSlots : s # from => Ahead(s, next) = Ahead(s, from) - 1 /\ Ahead(s, from) > 0 /\ Ahead(s, from) \in Int
    BY <1>a DEF Ahead, After1, RingSlots
  <1>2. Ahead(from, next) = Capacity - 1 /\ Ahead(from, from) = 0 /\ Ahead(write, from) < Capacity
    BY <1>a DEF Ahead, After1
  <1> HIDE DEF next
  <1>3. \A s \in RingSlots : s # from => (Ahead(s, next) < Ahead(write, next) <=> Ahead(s, from) < Ahead(write, from))
    BY <1>1
  <1>4. Ahead(from, from) < Ahead(write, from) /\ ~(Ahead(from, next) < Ahead(write, next))
    BY <1>a, <1>1, <1>2
  <1>5. Waiting(write, next) = Waiting(write, from) \ {from} /\ from \in Waiting(write, from)
    BY <1>3, <1>4 DEF Waiting
  <1>6. \A s \in Waiting(write, from) : s \in RingSlots
    BY DEF Waiting
  <1>7. CASE (\A s \in Waiting(write, from) : ~Flags(ring, s)) /\ low = accepted
    BY <1>5, <1>7 DEF Keeps, next
  <1>8. ASSUME NEW s \in Waiting(write, from),
               Flags(ring, s), ring[s].word.low = accepted,
               \A t \in Waiting(write, from) : Ahead(t, from) > Ahead(s, from) => ~Flags(ring, t)
        PROVE  Keeps(ring, write, next, low1, accepted)
    <2>1. CASE s = from
      <3>1. \A t \in Waiting(write, next) : Ahead(t, from) > Ahead(from, from)
        BY <1>1, <1>2, <1>5, <1>6
      <3>2. \A t \in Waiting(write, next) : ~Flags(ring, t)
        BY <1>5, <1>8, <2>1, <3>1
      <3>3. low1 = accepted
        BY <1>8, <2>1
      <3> QED
        BY <3>2, <3>3 DEF Keeps
    <2>2. CASE s # from
      <3>1. \A t \in Waiting(write, next) : Ahead(t, next) > Ahead(s, next) => Ahead(t, from) > Ahead(s, from)
        BY <1>1, <1>5, <1>6, <2>2
      <3>2. \A t \in Waiting(write, next) : Ahead(t, next) > Ahead(s, next) => ~Flags(ring, t)
        BY <1>5, <1>8, <3>1
      <3> QED
        BY <1>5, <1>8, <2>2, <3>2 DEF Keeps
    <2> QED
      BY <2>1, <2>2
  <1> QED
    BY <1>7, <1>8 DEF Keeps, next

LEMMA C352Kept == C352Inv /\ [C352Next]_c352vars => C352Inv'
  <1> SUFFICES ASSUME C352Inv, [C352Next]_c352vars PROVE C352Inv'
    OBVIOUS
  <1>a. Capacity \in Nat /\ Capacity > 1
    BY C352Assumption
  <1>t. C352Types
    BY DEF C352Inv
  <1>k. ASSUME UNCHANGED << c352ring, c352write, c352accepted >>, Unapplied' = Unapplied, c352chip'.low = c352chip.low
        PROVE  AcceptedIsKept'
    BY <1>k DEF C352Inv, AcceptedIsKept
  <1>p. UNCHANGED << c352audio, c352cursor >> => Unapplied' = Unapplied
    BY DEF Unapplied
  (* The sound CPU, up to the ring. *)
  <1>1. ASSUME UNCHANGED << c352chip, c352ring, c352write, c352accepted, c352read, c352audio, c352cursor, c352end >>,
               IsWord(c352snapshot'), IsWord(c352word'), IsWord(c352command'.word)
        PROVE  C352Inv'
    <2>1. AcceptedIsKept'
      BY <1>1, <1>k, <1>p
    <2>2. C352Types' /\ CursorsInOrder'
      BY <1>1, <1>t DEF C352Types, C352Inv, CursorsInOrder
    <2> QED
      BY <2>1, <2>2 DEF C352Inv
  <1>2. ASSUME NEW word, IsWord(word), BeginWord(word) PROVE C352Inv'
    BY <1>1, <1>2, <1>t DEF BeginWord, FlagWord, c352queue, c352audioState, C352Types
  <1>3. ASSUME NEW high, NEW turned, NEW low,
               WriteWord(high, turned, low) \/ WriteHighByte(high) \/ WriteLowByte(turned, low) PROVE C352Inv'
    <2>1. /\ IsWord([high |-> high, turned |-> turned, low |-> low])
          /\ IsWord([c352snapshot EXCEPT !.high = high])
          /\ IsWord([high |-> c352snapshot.high, turned |-> turned, low |-> low])
      BY <1>t DEF C352Types, IsWord
    <2> QED
      BY <1>2, <1>3, <2>1 DEF WriteWord, WriteHighByte, WriteLowByte
  <1>4. CASE BeginExecution
    BY <1>1, <1>4, <1>t DEF BeginExecution, c352queue, c352audioState, C352Types, Execution, Quiet, IsWord
  <1>5. CASE LoadFlags
    <2>1. IsWord([c352snapshot EXCEPT !.high = Keyed(@)])
      BY <1>t DEF C352Types, IsWord
    <2> QED
      BY <1>1, <1>5, <1>t, <2>1 DEF LoadFlags, c352queue, c352audioState, C352Types
  <1>6. CASE StoreSnapshot
    BY <1>1, <1>6, <1>t DEF StoreSnapshot, c352queue, c352audioState, C352Types
  <1>7. CASE PushCommand
    <2>1. UNCHANGED << c352word, c352command, c352snapshot, c352chip, c352read, c352audio, c352cursor, c352end >>
      BY <1>7 DEF PushCommand, c352audioState
    <2>2. CASE RingFull((c352write + 1) % Capacity)
      BY <1>1, <1>7, <1>t, <2>1, <2>2 DEF PushCommand, C352Types
    <2>3. CASE ~RingFull((c352write + 1) % Capacity)
      <3>1. /\ c352ring' = [c352ring EXCEPT ![c352write] = c352command]
            /\ c352write' = After1(c352write) /\ c352write' # c352read /\ c352write' \in RingSlots
            /\ c352accepted' = (IF c352command.kind = "flags" THEN c352command.word.low ELSE c352accepted)
        BY <1>7, <1>t, <2>3, SlotAfter DEF PushCommand, RingFull, C352Types
      <3>2. C352Types'
        BY <1>t, <2>1, <3>1 DEF C352Types
      <3>3. Unapplied' = Unapplied /\ Unapplied \in RingSlots
        BY <1>p, <1>t, <2>1, SlotAfter DEF Unapplied, C352Types
      <3>4. /\ c352read \in 0..(Capacity - 1) /\ c352write \in 0..(Capacity - 1)
            /\ c352cursor \in 0..(Capacity - 1) /\ c352end \in 0..(Capacity - 1)
        BY <1>t DEF C352Types, RingSlots
      <3>5. Ahead(c352write', c352read) = Ahead(c352write, c352read) + 1
        BY <1>a, <3>1, <3>4 DEF Ahead, After1
      <3>6. CursorsInOrder'
        BY <1>a, <2>1, <3>4, <3>5 DEF CursorsInOrder, C352Inv, Ahead
      <3>7. Ahead(Unapplied, c352read) <= Ahead(c352write, c352read)
        BY <1>a, <3>4 DEF C352Inv, CursorsInOrder, Unapplied, Ahead, After1
      <3>8. Ahead(c352write', Unapplied) = Ahead(c352write, Unapplied) + 1
        BY <1>a, <3>1, <3>3, <3>4, <3>7 DEF Ahead, After1, RingSlots
      <3>9. Keeps([c352ring EXCEPT ![c352write] = c352command], After1(c352write), Unapplied, c352chip.low, c352accepted')
        <4>1. Ahead(After1(c352write), Unapplied) = Ahead(c352write, Unapplied) + 1
          BY <3>1, <3>8
        <4>2. Keeps(c352ring, c352write, Unapplied, c352chip.low, c352accepted)
          BY DEF C352Inv, AcceptedIsKept
        <4>3. DOMAIN c352ring = RingSlots /\ c352write \in RingSlots
          BY <1>t DEF C352Types
        <4> QED
          BY <3>1, <3>3, <4>1, <4>2, <4>3, KeptByPush
      <3>10. AcceptedIsKept'
        <4>1. Keeps(c352ring', c352write', Unapplied', c352chip.low, c352accepted')
          BY <3>1, <3>3, <3>9
        <4> QED
          BY <2>1, <4>1 DEF AcceptedIsKept
      <3> QED
        BY <3>2, <3>6, <3>10 DEF C352Inv
    <2> QED
      BY <2>2, <2>3
  (* The audio thread. *)
  <1>8. CASE BeginBuffer
    <2>1. /\ c352audio = "wait" /\ c352audio' = "apply" /\ c352cursor' = c352read /\ c352end' = c352write
          /\ UNCHANGED << c352snapshot, c352chip, c352read, c352ring, c352write, c352accepted, c352word, c352command >>
      BY <1>8 DEF BeginBuffer, c352others, c352queue, c352cpuState
    <2>2. c352cursor' = c352cursor
      BY <2>1 DEF C352Inv, CursorsInOrder
    <2>3. AcceptedIsKept'
      BY <1>k, <2>1, <2>2 DEF Unapplied
    <2>4. C352Types'
      BY <1>t, <2>1 DEF C352Types
    <2>5. CursorsInOrder'
      BY <1>a, <1>t, <2>1 DEF CursorsInOrder, C352Types, Ahead, RingSlots
    <2> QED
      BY <2>3, <2>4, <2>5 DEF C352Inv
  <1>9. CASE ApplyCommand
    <2>1. /\ c352audio = "apply" /\ c352cursor # c352end /\ c352audio' = "note"
          /\ c352chip' = (IF c352ring[c352cursor].kind = "flags" THEN c352ring[c352cursor].word
                          ELSE [c352chip EXCEPT !.high = Keyed(@)])
          /\ UNCHANGED << c352snapshot, c352read, c352cursor, c352end, c352ring, c352write, c352accepted, c352word, c352command >>
      BY <1>9 DEF ApplyCommand, c352others, c352queue, c352cpuState
    <2>2. IsWord(c352chip') /\ c352chip'.low = (IF Flags(c352ring, c352cursor) THEN c352ring[c352cursor].word.low ELSE c352chip.low)
      <3>1. IsWord([c352chip EXCEPT !.high = Keyed(@)]) /\ [c352chip EXCEPT !.high = Keyed(@)].low = c352chip.low
        BY <1>t DEF C352Types, IsWord
      <3> QED
        BY <1>t, <2>1, <3>1 DEF C352Types, Flags
    <2>3. C352Types' /\ CursorsInOrder'
      BY <1>t, <2>1, <2>2 DEF C352Inv, C352Types, CursorsInOrder
    <2>4. Unapplied = c352cursor /\ Unapplied' = After1(c352cursor)
      BY <2>1 DEF Unapplied
    <2>5. /\ c352read \in 0..(Capacity - 1) /\ c352write \in 0..(Capacity - 1)
          /\ c352cursor \in 0..(Capacity - 1) /\ c352end \in 0..(Capacity - 1)
      BY <1>t DEF C352Types, RingSlots
    <2>6. c352cursor # c352write
      BY <1>a, <2>1, <2>5 DEF C352Inv, CursorsInOrder, Ahead
    <2>7. Keeps(c352ring, c352write, After1(c352cursor), c352chip'.low, c352accepted)
      <3>1. Keeps(c352ring, c352write, c352cursor, c352chip.low, c352accepted)
        BY <2>4 DEF C352Inv, AcceptedIsKept
      <3> QED
        BY <1>t, <2>2, <2>6, <3>1, KeptByApply DEF C352Types
    <2>8. AcceptedIsKept'
      BY <2>1, <2>4, <2>7 DEF AcceptedIsKept
    <2> QED
      BY <2>3, <2>8 DEF C352Inv
  <1>10. CASE NoteRegister
    <2>1. /\ c352audio = "note" /\ c352audio' = "apply" /\ c352snapshot' = c352chip
          /\ c352cursor' = After1(c352cursor) /\ c352cursor' \in RingSlots
          /\ UNCHANGED << c352chip, c352read, c352end, c352ring, c352write, c352accepted, c352word, c352command >>
      BY <1>10, <1>t, SlotAfter DEF NoteRegister, c352others, c352queue, c352cpuState, C352Types
    <2>2. AcceptedIsKept'
      BY <1>k, <2>1 DEF Unapplied
    <2>3. C352Types'
      BY <1>t, <2>1 DEF C352Types
    <2>4. CursorsInOrder'
      BY <1>a, <1>t, <2>1 DEF CursorsInOrder, C352Inv, C352Types, Ahead, After1, RingSlots
    <2> QED
      BY <2>2, <2>3, <2>4 DEF C352Inv
  <1>11. CASE ReleaseCommands
    <2>1. /\ c352audio = "apply" /\ c352cursor = c352end /\ c352audio' = "play" /\ c352read' = c352cursor
          /\ UNCHANGED << c352snapshot, c352chip, c352cursor, c352end, c352ring, c352write, c352accepted, c352word, c352command >>
      BY <1>11 DEF ReleaseCommands, c352others, c352queue, c352cpuState
    <2>2. AcceptedIsKept'
      BY <1>k, <2>1 DEF Unapplied
    <2>3. C352Types' /\ CursorsInOrder'
      BY <1>t, <2>1 DEF C352Types, CursorsInOrder
    <2> QED
      BY <2>2, <2>3 DEF C352Inv
  <1>12. ASSUME NEW event \in {"none", "ends", "loops", "turns"}, Play(event) PROVE C352Inv'
    <2>1. /\ c352audio = "play" /\ c352audio' = "refresh"
          /\ c352chip' = AfterPlay(event)
          /\ UNCHANGED << c352snapshot, c352read, c352cursor, c352end, c352ring, c352write, c352accepted, c352word, c352command >>
      BY <1>12 DEF Play, c352others, c352queue, c352cpuState
    <2>2. IsWord(c352chip') /\ c352chip'.low = c352chip.low
      <3>1. \A high : IsWord([c352chip EXCEPT !.high = high]) /\ [c352chip EXCEPT !.high = high].low = c352chip.low
        BY <1>t DEF C352Types, IsWord
      <3>2. \A turned : IsWord([c352chip EXCEPT !.turned = turned]) /\ [c352chip EXCEPT !.turned = turned].low = c352chip.low
        BY <1>t DEF C352Types, IsWord
      <3>3. \/ c352chip' = c352chip
            \/ \E high : c352chip' = [c352chip EXCEPT !.high = high]
            \/ \E turned : c352chip' = [c352chip EXCEPT !.turned = turned]
        BY <2>1 DEF AfterPlay
      <3> QED
        BY <1>t, <3>1, <3>2, <3>3 DEF C352Types
    <2>3. AcceptedIsKept'
      BY <1>k, <2>1, <2>2 DEF Unapplied
    <2>4. C352Types' /\ CursorsInOrder'
      BY <1>t, <2>1, <2>2 DEF C352Inv, C352Types, CursorsInOrder
    <2> QED
      BY <2>3, <2>4 DEF C352Inv
  <1>13. CASE RefreshSnapshot
    <2>1. /\ c352audio = "refresh" /\ c352audio' = "wait" /\ c352snapshot' = c352chip
          /\ UNCHANGED << c352chip, c352read, c352cursor, c352end, c352ring, c352write, c352accepted, c352word, c352command >>
      BY <1>13 DEF RefreshSnapshot, c352others, c352queue, c352cpuState
    <2>2. AcceptedIsKept'
      BY <1>k, <2>1 DEF Unapplied
    <2>3. C352Types' /\ CursorsInOrder'
      BY <1>t, <2>1 DEF C352Inv, C352Types, CursorsInOrder
    <2> QED
      BY <2>2, <2>3 DEF C352Inv
  <1>14. CASE UNCHANGED c352vars
    BY <1>1, <1>14, <1>t DEF c352vars, c352queue, c352cpuState, c352audioState, C352Types
  <1> QED
    BY <1>3, <1>4, <1>5, <1>6, <1>7, <1>8, <1>9, <1>10, <1>11, <1>12, <1>13, <1>14 DEF C352Next, C352Cpu, C352Audio

LEMMA C352Follows == C352Inv => ChipFollows
  <1> SUFFICES ASSUME C352Inv, c352read = c352write, c352audio = "wait" PROVE c352chip.low = c352accepted
    BY DEF ChipFollows
  <1>1. Unapplied = c352write /\ c352write \in 0..(Capacity - 1)
    BY DEF C352Inv, CursorsInOrder, Unapplied, C352Types, RingSlots
  <1>2. Waiting(c352write, c352write) = {}
    BY <1>1, C352Assumption DEF Waiting, Ahead, RingSlots
  <1> QED
    BY <1>1, <1>2 DEF C352Inv, AcceptedIsKept, Keeps

-----------------------------------------------------------------------------
(* The display list of System 22.                                              *)

(* Where the walk is in the list is a place of the polygon RAM or behind it.   *)
G22Inv ==
    /\ g22cursor \in Nat /\ g22read \in Nat /\ g22lit \in Seq({0, 1}) /\ g22object \in {0, 1}
    /\ InRam
    /\ LitByOwnObject

LEMMA G22Begins == G22Init => G22Inv
  BY G22Assumption DEF G22Init, G22Inv, InRam, LitByOwnObject, InObject

LEMMA G22Kept == G22Inv /\ [G22Next]_g22vars => G22Inv'
  <1> SUFFICES ASSUME G22Inv, [G22Next]_g22vars PROVE G22Inv'
    OBVIOUS
  <1>u. ASSUME UNCHANGED << g22cursor, g22read, g22lit, g22object >>, InObject' => InObject PROVE G22Inv'
    BY <1>u DEF G22Inv, InRam, LitByOwnObject
  <1>1. ASSUME UNCHANGED << g22walk, g22phase, g22lit, g22object >> PROVE G22Inv'
    BY <1>1, <1>u DEF g22walk, InObject
  <1>2. ASSUME NEW value, Control(value) PROVE G22Inv'
    BY <1>1, <1>2 DEF Control, g22rest, g22draw
  <1>3. CASE SignalVblank \/ BeginPdp \/ ReadyUpload \/ RestartRender \/ RenderWord
    BY <1>1, <1>3 DEF SignalVblank, BeginPdp, ReadyUpload, RestartRender, RenderWord, g22rest, g22draw
  <1>4. ASSUME NEW word, UploadSlaveWord(word) PROVE G22Inv'
    BY <1>1, <1>4 DEF UploadSlaveWord, g22rest, g22draw
  <1>5. CASE TakePolygons
    <2>1. g22cursor' = ListBase /\ g22read' = 0 /\ g22phase' \in {"list", "submit"}
          /\ UNCHANGED << g22lit, g22object >>
      BY <1>5 DEF TakePolygons
    <2> QED
      BY <2>1, G22Assumption DEF G22Inv, InRam, LitByOwnObject, InObject
  <1>6. ASSUME NEW length \in DOMAIN Handlers \cup {0, 65535}, NEW linked \in BOOLEAN, NEW draws \in BOOLEAN,
               Record(length, linked, draws)
        PROVE  G22Inv'
    <2>1. /\ ~InObject' /\ UNCHANGED << g22lit, g22object >>
          /\ g22read' = (IF Fits(g22cursor + 2, length) /\ length \in DOMAIN Handlers
                         THEN g22cursor + 2 + Handlers[length] - 1 ELSE g22read)
          /\ g22cursor' \in { g22cursor + 2, g22cursor + 2 + length + 2 }
      BY <1>6 DEF Record, g22draw, InObject
    <2>2. DOMAIN Handlers = {21, 16, 10, 13} /\ \A l \in DOMAIN Handlers : Handlers[l] \in 1..l
      BY DEF Handlers
    <2>3. length \in Nat /\ g22cursor \in Nat /\ RamWords \in Nat
      BY <2>2, G22Assumption DEF G22Inv
    <2>4. g22cursor' \in Nat
      BY <2>1, <2>3
    <2>5. g22read' \in Nat /\ g22read' < RamWords
      <3>1. CASE Fits(g22cursor + 2, length) /\ length \in DOMAIN Handlers
        <4>1. PICK h \in 1..length : h = Handlers[length]
          BY <2>2, <3>1
        <4>2. g22cursor + 2 + length + 2 < RamWords
          BY <3>1 DEF Fits
        <4> QED
          BY <2>1, <2>3, <3>1, <4>1, <4>2
      <3> QED
        BY <2>1, <3>1 DEF G22Inv, InRam
    <2> QED
      BY <2>1, <2>4, <2>5 DEF G22Inv, InRam, LitByOwnObject
  <1>7. CASE StartObject
    BY <1>7 DEF StartObject, LightsCleared, g22walk, G22Inv, InRam, LitByOwnObject
  <1>8. ASSUME NEW flag \in BOOLEAN, Quad(flag) PROVE G22Inv'
    BY <1>1, <1>8 DEF Quad
  <1>9. ASSUME NEW anew \in BOOLEAN, Normals(anew) PROVE G22Inv'
    <2>1. /\ InObject /\ UNCHANGED << g22phase, g22cursor, g22read, g22object >>
          /\ g22lit' = Append(IF anew THEN << >> ELSE g22lit, g22object)
      BY <1>9 DEF Normals, g22walk
    <2>a. \A i \in DOMAIN g22lit : g22lit[i] = g22object
      BY <2>1 DEF G22Inv, LitByOwnObject
    <2>b. g22lit \in Seq({0, 1}) /\ << >> \in Seq({0, 1}) /\ DOMAIN << >> = {}
      BY DEF G22Inv
    <2>2. PICK lit \in Seq({0, 1}) : lit = (IF anew THEN << >> ELSE g22lit) /\ \A i \in DOMAIN lit : lit[i] = g22object
      <3>1. CASE anew
        BY <2>b, <3>1
      <3>2. CASE ~anew
        BY <2>a, <2>b, <3>2
      <3> QED
        BY <3>1, <3>2
    <2>3. g22lit' = Append(lit, g22object) /\ g22object \in {0, 1}
      BY <2>1, <2>2 DEF G22Inv
    <2>4. g22lit' \in Seq({0, 1}) /\ \A i \in DOMAIN g22lit' : g22lit'[i] = g22object
      BY <2>2, <2>3
    <2> QED
      BY <2>1, <2>4 DEF G22Inv, InRam, LitByOwnObject
  <1>10. CASE EndObject \/ SubmitScene
    BY <1>10, <1>u DEF EndObject, SubmitScene, g22walk, g22draw, InObject, AfterObject
  <1>11. CASE UNCHANGED g22vars
    BY <1>1, <1>11 DEF g22vars, g22draw
  <1> QED
    BY <1>2, <1>3, <1>4, <1>5, <1>6, <1>7, <1>8, <1>9, <1>10, <1>11 DEF G22Next

-----------------------------------------------------------------------------
(* The stack of the TMS320C25 and the instruction it repeats.                  *)

Frame22 == [kind : {"irq", "call", "data"}, word : Nat]
Words == 1..StackWords
Registers == [pc : Nat, ifr : SUBSET {"INT0", "TINT"}, imr : SUBSET {"INT0", "TINT"}, intm : BOOLEAN,
              idle : BOOLEAN, eint : BOOLEAN, tim : Int, prd : Int, stack : [Words -> Nat]]

(* What the program counts on is in the stack.                                 *)
OnStack(stack, frames) ==
    /\ frames \in Seq(Frame22) /\ Len(frames) <= StackWords
    /\ \A f \in 1..Len(frames) : frames[f].word = stack[StackWords - Len(frames) + f]
(* A handler's return is on top of it: nothing is pushed in a handler.         *)
HandlerOnTop(frames) == \A f \in 1..Len(frames) : frames[f].kind = "irq" => f = Len(frames)

(* A handler is not interrupted: interrupts are masked, or it has just enabled *)
(* them for its return.                                                       *)
Serves(regs, frames) ==
    /\ regs \in Registers
    /\ OnStack(regs.stack, frames)
    /\ HandlerOnTop(frames)
    /\ Handling(frames) => regs.intm \/ regs.eint

LEMMA Widths ==
    /\ StackWords \in Nat \ {0} /\ ProgramWords \in Nat \ {0}
    /\ \A pc \in Nat : NextWord(pc) \in Address
    /\ \A pc \in Address : pc \in Nat
  <1>1. StackWords \in Nat \ {0} /\ ProgramWords \in Nat \ {0}
    BY Tms320Assumption
  <1>2. ASSUME NEW pc \in Nat PROVE NextWord(pc) \in Address
    <2>1. (pc + 1) % ProgramWords \in 0..(ProgramWords - 1)
      BY <1>1
    <2> QED
      BY <2>1 DEF NextWord, Address
  <1>3. \A pc \in Address : pc \in Nat
    BY <1>1 DEF Address
  <1> QED
    BY <1>1, <1>2, <1>3

(* A word that is pushed is on top, and the others are one deeper; the oldest  *)
(* falls out of a full stack.                                                 *)
LEMMA PushKeeps ==
    ASSUME NEW stack \in [Words -> Nat], NEW frames, OnStack(stack, frames), ~Handling(frames),
           NEW kind \in {"irq", "call", "data"}, NEW word \in Nat
    PROVE  /\ Pushed(stack, word) \in [Words -> Nat]
           /\ OnStack(Pushed(stack, word), Framed(frames, kind, word))
           /\ HandlerOnTop(Framed(frames, kind, word))
           /\ Handling(Framed(frames, kind, word)) => kind = "irq"
  <1>1. StackWords \in Nat \ {0}
    BY Widths
  <1>2. PICK n \in Nat : n = Len(frames) /\ n <= StackWords
    BY DEF OnStack
  <1>3. frames \in Seq(Frame22) /\ \A f \in 1..n : frames[f].word = stack[StackWords - n + f] /\ frames[f].kind # "irq"
    BY <1>2 DEF OnStack, Handling
  <1>4. PICK top : top = [kind |-> kind, word |-> word]
    OBVIOUS
  <1>5. top \in Frame22 /\ top.kind = kind /\ top.word = word
    BY <1>4 DEF Frame22
  <1>6. PICK after \in [Words -> Nat] :
           /\ after = Pushed(stack, word) /\ after[StackWords] = word
           /\ \A w \in 1..(StackWords - 1) : after[w] = stack[w + 1]
    <2>1. \A w \in Words : (IF w = StackWords THEN word ELSE stack[w + 1]) \in Nat
      BY <1>1 DEF Words
    <2>2. Pushed(stack, word) = [w \in Words |-> IF w = StackWords THEN word ELSE stack[w + 1]]
      BY DEF Pushed, Words
    <2>3. Pushed(stack, word) \in [Words -> Nat]
      BY <2>1, <2>2
    <2>4. StackWords \in Words /\ \A w \in 1..(StackWords - 1) : w \in Words /\ w # StackWords
      BY <1>1 DEF Words
    <2> QED
      BY <2>2, <2>3, <2>4
  <1>7. PICK more : /\ more = Append(frames, top) /\ more \in Seq(Frame22) /\ Len(more) = n + 1 /\ more[n + 1] = top
                    /\ \A f \in 1..n : more[f] = frames[f]
    <2>1. PICK more : more = Append(frames, top)
      OBVIOUS
    <2>2. more \in Seq(Frame22) /\ Len(more) = n + 1
      BY <1>2, <1>3, <1>5, <2>1
    <2>3. more[n + 1] = top /\ \A f \in 1..n : more[f] = frames[f]
      BY <1>2, <1>3, <1>5, <2>1
    <2> QED
      BY <2>1, <2>2, <2>3
  <1>8. CASE n < StackWords
    <2>1. Framed(frames, kind, word) = more
      BY <1>1, <1>4, <1>7, <1>8 DEF Framed, Fitting
    <2>2. ASSUME NEW f \in 1..(n + 1)
          PROVE  more[f].word = after[StackWords - (n + 1) + f] /\ (more[f].kind = "irq" => f = n + 1 /\ kind = "irq")
      <3>1. CASE f = n + 1
        BY <1>1, <1>5, <1>6, <1>7, <3>1
      <3>2. CASE f # n + 1
        <4>1. f \in 1..n /\ StackWords - (n + 1) + f \in 1..(StackWords - 1)
              /\ (StackWords - (n + 1) + f) + 1 = StackWords - n + f
          BY <1>1, <1>8, <3>2
        <4> QED
          BY <1>3, <1>6, <1>7, <4>1
      <3> QED
        BY <3>1, <3>2
    <2>3. OnStack(after, more)
      <3>1. n + 1 <= StackWords
        BY <1>1, <1>8
      <3> QED
        BY <1>7, <2>2, <3>1 DEF OnStack
    <2>4. HandlerOnTop(more) /\ (Handling(more) => kind = "irq")
      BY <1>7, <2>2 DEF HandlerOnTop, Handling
    <2> QED
      BY <1>6, <2>1, <2>3, <2>4
  <1>9. CASE n = StackWords
    <2>1. PICK less : /\ less = SubSeq(more, 2, n + 1) /\ less \in Seq(Frame22) /\ Len(less) = n
                      /\ \A f \in 1..n : less[f] = more[f + 1]
      <3>1. PICK less : less = SubSeq(more, 2, n + 1)
        OBVIOUS
      <3>2. less \in Seq(Frame22) /\ Len(less) = n
        BY <1>7, <3>1
      <3>3. \A f \in 1..n : less[f] = more[f + 1]
        BY <1>7, <3>1
      <3> QED
        BY <3>1, <3>2, <3>3
    <2>2. Framed(frames, kind, word) = less
      BY <1>1, <1>4, <1>7, <1>9, <2>1 DEF Framed, Fitting
    <2>3. ASSUME NEW f \in 1..n
          PROVE  less[f].word = after[StackWords - n + f] /\ (less[f].kind = "irq" => f = n /\ kind = "irq")
      <3>1. CASE f = n
        BY <1>1, <1>5, <1>6, <1>7, <1>9, <2>1, <3>1
      <3>2. CASE f # n
        <4>1. f + 1 \in 1..n /\ f \in 1..(StackWords - 1) /\ StackWords - n + f = f
              /\ StackWords - n + (f + 1) = f + 1
          BY <1>1, <1>9, <3>2
        <4> QED
          BY <1>3, <1>6, <1>7, <2>1, <4>1
      <3> QED
        BY <3>1, <3>2
    <2>4. OnStack(after, less)
      BY <1>2, <2>1, <2>3 DEF OnStack
    <2>5. HandlerOnTop(less) /\ (Handling(less) => kind = "irq")
      BY <2>1, <2>3 DEF HandlerOnTop, Handling
    <2> QED
      BY <1>6, <2>2, <2>4, <2>5
  <1> QED
    BY <1>1, <1>2, <1>8, <1>9

(* What is popped was on top.                                                  *)
LEMMA PopKeeps ==
    ASSUME NEW stack \in [Words -> Nat], NEW frames, OnStack(stack, frames), HandlerOnTop(frames), frames # << >>
    PROVE  /\ Popped(stack) \in [Words -> Nat]
           /\ OnStack(Popped(stack), SubSeq(frames, 1, Len(frames) - 1))
           /\ HandlerOnTop(SubSeq(frames, 1, Len(frames) - 1)) /\ ~Handling(SubSeq(frames, 1, Len(frames) - 1))
           /\ stack[StackWords] \in Nat
  <1>1. StackWords \in Nat \ {0}
    BY Widths
  <1>2. PICK n \in Nat : n = Len(frames) /\ n <= StackWords /\ n > 0
    BY DEF OnStack
  <1>3. frames \in Seq(Frame22) /\ \A f \in 1..n : frames[f].word = stack[StackWords - n + f] /\ (frames[f].kind = "irq" => f = n)
    BY <1>2 DEF OnStack, HandlerOnTop
  <1>4. PICK less : /\ less = SubSeq(frames, 1, Len(frames) - 1) /\ less \in Seq(Frame22) /\ Len(less) = n - 1
                    /\ \A f \in 1..(n - 1) : less[f] = frames[f]
    <2>1. PICK less : less = SubSeq(frames, 1, n - 1)
      OBVIOUS
    <2>2. less \in Seq(Frame22) /\ Len(less) = n - 1
      BY <1>2, <1>3, <2>1
    <2>3. \A f \in 1..(n - 1) : less[f] = frames[f]
      BY <1>2, <1>3, <2>1
    <2> QED
      BY <1>2, <2>1, <2>2, <2>3
  <1>5. PICK after \in [Words -> Nat] : after = Popped(stack) /\ \A w \in 2..StackWords : after[w] = stack[w - 1]
    <2>1. \A w \in Words : (IF w = 1 THEN stack[1] ELSE stack[w - 1]) \in Nat
      BY <1>1 DEF Words
    <2>2. Popped(stack) = [w \in Words |-> IF w = 1 THEN stack[1] ELSE stack[w - 1]]
      BY DEF Popped, Words
    <2>3. Popped(stack) \in [Words -> Nat]
      BY <2>1, <2>2
    <2>4. \A w \in 2..StackWords : w \in Words /\ w # 1
      BY <1>1 DEF Words
    <2> QED
      BY <2>2, <2>3, <2>4
  <1>6. ASSUME NEW f \in 1..(n - 1) PROVE less[f].word = after[StackWords - (n - 1) + f] /\ less[f].kind # "irq"
    <2>1. f \in 1..n /\ f # n /\ StackWords - (n - 1) + f \in 2..StackWords
          /\ (StackWords - (n - 1) + f) - 1 = StackWords - n + f
      BY <1>1, <1>2
    <2> QED
      BY <1>3, <1>4, <1>5, <2>1
  <1>7. OnStack(after, less) /\ HandlerOnTop(less) /\ ~Handling(less)
    <2>1. n - 1 <= StackWords
      BY <1>1, <1>2
    <2>2. OnStack(after, less)
      BY <1>4, <1>6, <2>1 DEF OnStack
    <2> QED
      BY <1>4, <1>6, <2>2 DEF HandlerOnTop, Handling
  <1>8. stack[StackWords] \in Nat
    BY <1>1 DEF Words
  <1> QED
    BY <1>4, <1>5, <1>7, <1>8

(* An interrupt comes only where there is no handler.                          *)
LEMMA InterruptKeeps ==
    ASSUME NEW regs, NEW frames, Serves(regs, frames)
    PROVE  /\ Serves(Interrupted(regs), FramesAfter(regs, frames))
           /\ MayInterrupt(regs) => Interrupted(regs).intm
  <1>1. CASE ~MayInterrupt(regs)
    BY <1>1 DEF Interrupted, FramesAfter, Serves
  <1>2. CASE MayInterrupt(regs)
    <2>1. ~Handling(frames) /\ regs \in Registers /\ OnStack(regs.stack, frames)
      BY <1>2 DEF MayInterrupt, Serves
    <2>2. regs.stack \in [Words -> Nat] /\ regs.pc \in Nat
      BY <2>1, Widths DEF Registers
    <2>3. PICK stack : stack = Pushed(regs.stack, regs.pc)
      OBVIOUS
    <2>4. PICK more : more = FramesAfter(regs, frames)
      OBVIOUS
    <2>5. stack \in [Words -> Nat] /\ OnStack(stack, more) /\ HandlerOnTop(more)
      <3>1. more = Framed(frames, "irq", regs.pc)
        BY <1>2, <2>4 DEF FramesAfter
      <3> QED
        BY <2>1, <2>2, <2>3, <3>1, PushKeeps
    <2>6. PICK now : now = Interrupted(regs)
      OBVIOUS
    <2>7. now \in Registers /\ now.stack = stack /\ now.intm = TRUE
      <3>1. PICK ifr, pc : ifr = regs.ifr \ {TakenInterrupt(regs)} /\ pc = (IF TakenInterrupt(regs) = "INT0" THEN 0 ELSE 1)
        OBVIOUS
      <3>2. ifr \in SUBSET {"INT0", "TINT"} /\ pc \in Nat
        BY <2>1, <3>1 DEF Registers
      <3>3. now = [regs EXCEPT !.stack = stack, !.idle = FALSE, !.intm = TRUE, !.ifr = ifr, !.pc = pc]
        BY <1>2, <2>3, <2>6, <3>1 DEF Interrupted
      <3> QED
        BY <2>1, <2>5, <3>2, <3>3 DEF Registers
    <2>8. Serves(now, more)
      BY <2>5, <2>7 DEF Serves
    <2> QED
      BY <2>4, <2>6, <2>7, <2>8
  <1> QED
    BY <1>1, <1>2

(* The timer's interrupt is one of those, and its count changes nothing else.  *)
LEMMA TimerKeeps ==
    ASSUME NEW regs, NEW frames, NEW ticks \in Nat, Serves(regs, frames)
    PROVE  Serves(Timed(regs, ticks), TimedFrames(regs, ticks, frames))
  <1>t. regs \in Registers
    BY DEF Serves
  (* Counting leaves what matters alone. *)
  <1>1. ASSUME NEW r, NEW fs, NEW n \in Nat, Serves(r, fs) PROVE Serves(TimerCounted(r, n), fs)
    <2>1. r \in Registers
      BY <1>1 DEF Serves
    <2>2. ASSUME NEW tim \in Int, NEW ifr \in SUBSET {"INT0", "TINT"} PROVE Serves([r EXCEPT !.tim = tim, !.ifr = ifr], fs)
      <3>1. PICK now : now = [r EXCEPT !.tim = tim, !.ifr = ifr]
        OBVIOUS
      <3>2. now \in Registers /\ now.stack = r.stack /\ now.intm = r.intm /\ now.eint = r.eint
        BY <2>1, <3>1 DEF Registers
      <3> QED
        BY <1>1, <3>1, <3>2 DEF Serves
    <2>3. CASE Overflows(r, n)
      <3>1. r.prd \in Int /\ r.ifr \cup {"TINT"} \in SUBSET {"INT0", "TINT"}
        BY <2>1 DEF Registers
      <3> QED
        BY <2>2, <2>3, <3>1 DEF TimerCounted, TimerRaised
    <2>4. CASE ~Overflows(r, n)
      <3>1. r.tim - n \in Int
        BY <2>1 DEF Registers
      <3>2. PICK now : now = [r EXCEPT !.tim = r.tim - n]
        OBVIOUS
      <3>3. now \in Registers /\ now.stack = r.stack /\ now.intm = r.intm /\ now.eint = r.eint
        BY <2>1, <3>1, <3>2 DEF Registers
      <3>4. Serves(now, fs)
        BY <1>1, <3>3 DEF Serves
      <3> QED
        BY <2>4, <3>2, <3>4 DEF TimerCounted
    <2> QED
      BY <2>3, <2>4
  <1>2. CASE ~Overflows(regs, ticks)
    BY <1>1, <1>2 DEF Timed, TimedFrames
  <1>3. CASE Overflows(regs, ticks)
    <2>1. PICK raised : raised = TimerRaised(regs)
      OBVIOUS
    <2>2. Serves(raised, frames)
      BY <1>1, <1>3, <2>1 DEF TimerCounted
    <2>3. CASE MayInterrupt(raised)
      <3>1. Timed(regs, ticks) = TimerCounted(Interrupted(raised), 3) /\ TimedFrames(regs, ticks, frames) = FramesAfter(raised, frames)
        BY <1>3, <2>1, <2>3 DEF Timed, TimedFrames, InterruptTicks
      <3>2. Serves(Interrupted(raised), FramesAfter(raised, frames)) /\ 3 \in Nat
        BY <2>2, InterruptKeeps
      <3> QED
        BY <1>1, <3>1, <3>2
    <2>4. CASE ~MayInterrupt(raised)
      <3>1. Timed(regs, ticks) = raised /\ TimedFrames(regs, ticks, frames) = frames
        BY <1>3, <2>1, <2>4 DEF Timed, TimedFrames, FramesAfter
      <3> QED
        BY <2>2, <3>1
    <2> QED
      BY <2>3, <2>4
  <1> QED
    BY <1>2, <1>3

(* The program address of a repeated instruction is behind the word it read.   *)
RepeatFollows ==
    /\ dspRepeat.load = 2 => dspMoved.read = << >>
    /\ dspRepeat.load = 0 => /\ Len(dspMoved.read) > 0
                             /\ dspRepeat.pfc = NextWord(dspMoved.read[Len(dspMoved.read)])

DspInv ==
    /\ Serves(dspRegs, dspFrames)
    /\ dspMoved.read \in Seq(Address)
    /\ RepeatFollows
    /\ WordAfterWord

LEMMA DspServes == DspInv => StackServes
  <1> SUFFICES ASSUME DspInv PROVE StackServes
    OBVIOUS
  <1>1. OnStack(dspRegs.stack, dspFrames) /\ HandlerOnTop(dspFrames)
    BY DEF DspInv, Serves
  <1> QED
    BY <1>1 DEF OnStack, HandlerOnTop, StackServes

LEMMA DspBegins == DspInit => DspInv
  <1> SUFFICES ASSUME DspInit PROVE DspInv
    OBVIOUS
  <1>1. dspFrames = << >> /\ << >> \in Seq(Frame22) /\ Len(<< >>) = 0 /\ << >> \in Seq(Address)
    <2>1. dspFrames = << >>
      BY DEF DspInit
    <2> QED
      BY <2>1
  <1>2. Reset \in Registers
    BY DEF Reset, Registers, Words
  <1>3. Serves(dspRegs, dspFrames)
    <2>1. dspRegs \in Registers
      BY <1>2 DEF DspInit
    <2>2. 1..0 = {} /\ 0 <= StackWords
      BY Widths
    <2> QED
      BY <1>1, <2>1, <2>2 DEF Serves, OnStack, HandlerOnTop, Handling
  <1>4. dspMoved.read = << >> /\ dspRepeat.load = 1
    BY DEF DspInit, NotRepeating
  <1>5. RepeatFollows /\ WordAfterWord
    BY <1>1, <1>4 DEF RepeatFollows, WordAfterWord
  <1> QED
    BY <1>1, <1>3, <1>4, <1>5 DEF DspInv

(* The fetch takes an interrupt or not, and does away with the respite of EINT. *)
LEMMA FetchKeeps ==
    ASSUME Serves(dspRegs, dspFrames)
    PROVE  /\ Fetched \in Registers /\ OnStack(Fetched.stack, FetchedFrames) /\ HandlerOnTop(FetchedFrames)
           /\ Ordinary /\ Handling(FetchedFrames) => Fetched.intm
  <1>1. PICK regs, frames : /\ regs = (IF dspRegs.ifr # {} THEN Interrupted(dspRegs) ELSE dspRegs)
                            /\ frames = FetchedFrames
    OBVIOUS
  <1>2. Serves(regs, frames) /\ (regs.intm \/ (regs = dspRegs /\ frames = dspFrames))
    <2>1. CASE dspRegs.ifr # {}
      <3>1. regs = Interrupted(dspRegs) /\ frames = FramesAfter(dspRegs, dspFrames)
        BY <1>1, <2>1 DEF FetchedFrames
      <3>2. ~MayInterrupt(dspRegs) => regs = dspRegs /\ frames = dspFrames
        BY <3>1 DEF Interrupted, FramesAfter
      <3>3. Serves(Interrupted(dspRegs), FramesAfter(dspRegs, dspFrames)) /\ (MayInterrupt(dspRegs) => Interrupted(dspRegs).intm)
        BY InterruptKeeps
      <3> QED
        BY <3>1, <3>2, <3>3
    <2>2. CASE dspRegs.ifr = {}
      BY <1>1, <2>2 DEF FetchedFrames
    <2> QED
      BY <2>1, <2>2
  <1>3. PICK now : now = Fetched
    OBVIOUS
  <1>4. now \in Registers /\ now.stack = regs.stack /\ now.intm = regs.intm
    <2>1. regs \in Registers
      BY <1>2 DEF Serves
    <2>2. NextWord(regs.pc) \in Nat
      BY <2>1, Widths DEF Registers
    <2>3. now = [regs EXCEPT !.pc = NextWord(regs.pc), !.eint = FALSE]
      BY <1>1, <1>3 DEF Fetched
    <2> QED
      BY <2>1, <2>2, <2>3 DEF Registers
  <1>5. Ordinary /\ Handling(frames) => now.intm
    BY <1>2, <1>4 DEF Ordinary, Serves
  <1> QED
    BY <1>1, <1>2, <1>3, <1>4, <1>5 DEF Serves

(* An instruction that leaves the stack and, in a handler, the mask alone.     *)
LEMMA InstructionKeeps ==
    ASSUME NEW regs, NEW frames, NEW ticks \in Nat, Serves(regs, frames), Instruction(regs, frames, ticks)
    PROVE  Serves(dspRegs', dspFrames')
  <1>1. Serves(Timed(regs, ticks), TimedFrames(regs, ticks, frames))
    BY TimerKeeps
  <1>2. dspRegs' = Timed(regs, ticks) /\ dspFrames' = TimedFrames(regs, ticks, frames)
    BY DEF Instruction
  <1> QED
    BY <1>1, <1>2

LEMMA DspKept == DspInv /\ [DspNext]_dspvars => DspInv'
  <1> SUFFICES ASSUME DspInv, [DspNext]_dspvars PROVE DspInv'
    OBVIOUS
  <1>s. Serves(dspRegs, dspFrames) /\ dspRegs \in Registers
    BY DEF DspInv, Serves
  <1>m. ASSUME Serves(dspRegs', dspFrames'), UNCHANGED << dspRepeat, dspMoved >> PROVE DspInv'
    BY <1>m DEF DspInv, RepeatFollows, WordAfterWord
  <1>c. ASSUME NEW ticks \in Cycles PROVE ticks \in Nat
    BY Tms320Assumption
  <1>f. /\ Fetched \in Registers /\ OnStack(Fetched.stack, FetchedFrames) /\ HandlerOnTop(FetchedFrames)
        /\ Ordinary /\ Handling(FetchedFrames) => Fetched.intm
    BY <1>s, FetchKeeps
  <1>g. PICK regs, frames : regs = Fetched /\ frames = FetchedFrames
    OBVIOUS
  <1>h. /\ regs \in Registers /\ OnStack(regs.stack, frames) /\ HandlerOnTop(frames)
        /\ Ordinary /\ Handling(frames) => regs.intm
    BY <1>f, <1>g
  (* An instruction that leaves the stack alone. *)
  <1>o. ASSUME NEW r \in Registers, NEW ticks \in Cycles, Instruction(r, frames, ticks), Ordinary,
               r.stack = regs.stack, Handling(frames) => r.intm \/ r.eint
        PROVE  Serves(dspRegs', dspFrames')
    <2>1. Serves(r, frames)
      BY <1>h, <1>o DEF Serves
    <2> QED
      BY <1>c, <1>o, <2>1, InstructionKeeps
  (* An instruction that pushes, which no handler does. *)
  <1>p. ASSUME NEW r \in Registers, NEW ticks \in Cycles, NEW kind \in {"call", "data"}, NEW word \in Nat,
               Instruction(r, Framed(frames, kind, word), ticks), ~Handling(frames),
               r.stack = Pushed(regs.stack, word)
        PROVE  Serves(dspRegs', dspFrames')
    <2>1. regs.stack \in [Words -> Nat]
      BY <1>h DEF Registers
    <2>2. OnStack(r.stack, Framed(frames, kind, word)) /\ HandlerOnTop(Framed(frames, kind, word))
          /\ ~Handling(Framed(frames, kind, word))
      BY <1>h, <1>p, <2>1, PushKeeps
    <2>3. Serves(r, Framed(frames, kind, word))
      BY <1>p, <2>2 DEF Serves
    <2> QED
      BY <1>c, <1>p, <2>3, InstructionKeeps
  (* An instruction that pops. *)
  <1>q. ASSUME NEW r \in Registers, NEW ticks \in Cycles,
               Instruction(r, SubSeq(frames, 1, Len(frames) - 1), ticks), frames # << >>, r.stack = Popped(regs.stack)
        PROVE  Serves(dspRegs', dspFrames')
    <2>1. regs.stack \in [Words -> Nat]
      BY <1>h DEF Registers
    <2>2. OnStack(r.stack, SubSeq(frames, 1, Len(frames) - 1)) /\ HandlerOnTop(SubSeq(frames, 1, Len(frames) - 1))
          /\ ~Handling(SubSeq(frames, 1, Len(frames) - 1))
      BY <1>h, <1>q, <2>1, PopKeeps
    <2>3. Serves(r, SubSeq(frames, 1, Len(frames) - 1))
      BY <1>q, <2>2 DEF Serves
    <2> QED
      BY <1>c, <1>q, <2>3, InstructionKeeps
  <1>w. regs.stack \in [Words -> Nat] /\ NextWord(regs.pc) \in Nat
        /\ \A word \in Nat : Pushed(regs.stack, word) \in [Words -> Nat]
    <2>1. regs.stack \in [Words -> Nat] /\ regs.pc \in Nat
      BY <1>h DEF Registers
    <2>2. ASSUME NEW word \in Nat PROVE Pushed(regs.stack, word) \in [Words -> Nat]
      <3>1. \A w \in Words : (IF w = StackWords THEN word ELSE regs.stack[w + 1]) \in Nat
        <4>1. \A w \in Words : w # StackWords => w + 1 \in Words
          BY Widths DEF Words
        <4> QED
          BY <2>1, <4>1
      <3> QED
        BY <3>1 DEF Pushed, Words
    <2> QED
      BY <2>1, <2>2, Widths
  (* Between the instructions. *)
  <1>1. CASE SetInput
    <2>1. dspFrames' = dspFrames /\ UNCHANGED << dspRepeat, dspMoved >>
          /\ dspRegs' = [dspRegs EXCEPT !.ifr = dspRegs.ifr \cup {"INT0"}]
      BY <1>1 DEF SetInput
    <2>2. dspRegs' \in Registers /\ dspRegs'.stack = dspRegs.stack /\ dspRegs'.intm = dspRegs.intm
          /\ dspRegs'.eint = dspRegs.eint
      BY <1>s, <2>1 DEF Registers
    <2>3. Serves(dspRegs', dspFrames')
      BY <1>s, <2>1, <2>2 DEF Serves
    <2> QED
      BY <1>m, <2>1, <2>3
  <1>2. CASE StartSlice \/ EndSlice
    <2>1. UNCHANGED << dspRepeat, dspMoved >>
      BY <1>2 DEF StartSlice, EndSlice
    <2>2. CASE dspRegs' = Interrupted(dspRegs) /\ dspFrames' = FramesAfter(dspRegs, dspFrames)
      <3>1. Serves(Interrupted(dspRegs), FramesAfter(dspRegs, dspFrames))
        BY <1>s, InterruptKeeps
      <3> QED
        BY <1>m, <2>1, <2>2, <3>1
    <2>3. CASE dspRegs' = dspRegs /\ dspFrames' = dspFrames
      BY <1>m, <1>s, <2>1, <2>3
    <2> QED
      BY <1>2, <2>2, <2>3 DEF StartSlice, EndSlice
  <1>3. ASSUME NEW ticks \in Cycles, IdleTimer(ticks) PROVE DspInv'
    <2>1. Serves(Timed(dspRegs, ticks), TimedFrames(dspRegs, ticks, dspFrames))
      BY <1>c, <1>s, TimerKeeps
    <2>2. /\ dspRegs' = Timed(dspRegs, ticks) /\ dspFrames' = TimedFrames(dspRegs, ticks, dspFrames)
          /\ UNCHANGED << dspRepeat, dspMoved >>
      BY <1>3 DEF IdleTimer
    <2> QED
      BY <1>m, <2>1, <2>2
  (* The instructions. *)
  <1>4. ASSUME NEW ticks \in Cycles, NEW target \in Address, Branch(target, ticks) PROVE DspInv'
    <2>1. PICK r : r = [regs EXCEPT !.pc = target]
      OBVIOUS
    <2>2. r \in Registers /\ r.stack = regs.stack /\ r.intm = regs.intm
      BY <1>h, <2>1, Widths DEF Registers
    <2>3. Instruction(r, frames, ticks) /\ Ordinary /\ Rest
      BY <1>4, <1>g, <2>1 DEF Branch
    <2> QED
      BY <1>h, <1>m, <1>o, <2>2, <2>3 DEF Rest
  <1>5. ASSUME NEW ticks \in Cycles, NEW target \in Address, Call(target, ticks) PROVE DspInv'
    <2>1. PICK back : back = NextWord(regs.pc)
      OBVIOUS
    <2>2. PICK r : r = [regs EXCEPT !.pc = target, !.stack = Pushed(regs.stack, back)]
      OBVIOUS
    <2>3. back \in Nat /\ r \in Registers /\ r.stack = Pushed(regs.stack, back)
      BY <1>h, <1>w, <2>1, <2>2, Widths DEF Registers
    <2>4. Instruction(r, Framed(frames, "call", back), ticks) /\ ~Handling(frames) /\ Rest
      BY <1>5, <1>g, <2>1, <2>2 DEF Call
    <2> QED
      BY <1>m, <1>p, <2>3, <2>4 DEF Rest
  <1>6. ASSUME NEW ticks \in Cycles, Ret(ticks) PROVE DspInv'
    <2>1. PICK r : r = [regs EXCEPT !.pc = regs.stack[StackWords], !.stack = Popped(regs.stack)]
      OBVIOUS
    <2>2. Instruction(r, SubSeq(frames, 1, Len(frames) - 1), ticks) /\ frames # << >> /\ Rest
      BY <1>6, <1>g, <2>1 DEF Ret
    <2>3. Popped(regs.stack) \in [Words -> Nat] /\ regs.stack[StackWords] \in Nat
      BY <1>h, <1>w, <2>2, PopKeeps
    <2>4. r \in Registers /\ r.stack = Popped(regs.stack)
      BY <1>h, <2>1, <2>3 DEF Registers
    <2> QED
      BY <1>m, <1>q, <2>2, <2>4 DEF Rest
  <1>7. ASSUME NEW ticks \in Cycles, NEW word \in Address, PushData(word, ticks) PROVE DspInv'
    <2>1. PICK r : r = [regs EXCEPT !.stack = Pushed(regs.stack, word)]
      OBVIOUS
    <2>2. word \in Nat /\ r \in Registers /\ r.stack = Pushed(regs.stack, word)
      BY <1>h, <1>w, <2>1, Widths DEF Registers
    <2>3. Instruction(r, Framed(frames, "data", word), ticks) /\ ~Handling(frames) /\ Rest
      BY <1>7, <1>g, <2>1 DEF PushData
    <2> QED
      BY <1>m, <1>p, <2>2, <2>3 DEF Rest
  <1>8. ASSUME NEW ticks \in Cycles, PopData(ticks) PROVE DspInv'
    <2>1. PICK r : r = [regs EXCEPT !.stack = Popped(regs.stack)]
      OBVIOUS
    <2>2. Instruction(r, SubSeq(frames, 1, Len(frames) - 1), ticks) /\ frames # << >> /\ Rest
      BY <1>8, <1>g, <2>1 DEF PopData
    <2>3. Popped(regs.stack) \in [Words -> Nat]
      BY <1>h, <1>w, <2>2, PopKeeps
    <2>4. r \in Registers /\ r.stack = Popped(regs.stack)
      BY <1>h, <2>1, <2>3 DEF Registers
    <2> QED
      BY <1>m, <1>q, <2>2, <2>4 DEF Rest
  <1>9. ASSUME NEW ticks \in Cycles, Eint(ticks) PROVE DspInv'
    <2>1. PICK r : r = [regs EXCEPT !.intm = FALSE, !.eint = TRUE]
      OBVIOUS
    <2>2. r \in Registers /\ r.stack = regs.stack /\ r.eint = TRUE
      BY <1>h, <2>1 DEF Registers
    <2>3. Instruction(r, frames, ticks) /\ Ordinary /\ Rest
      BY <1>9, <1>g, <2>1 DEF Eint
    <2> QED
      BY <1>m, <1>o, <2>2, <2>3 DEF Rest
  <1>10. ASSUME NEW ticks \in Cycles, Dint(ticks) PROVE DspInv'
    <2>1. PICK r : r = [regs EXCEPT !.intm = TRUE]
      OBVIOUS
    <2>2. r \in Registers /\ r.stack = regs.stack /\ r.intm = TRUE
      BY <1>h, <2>1 DEF Registers
    <2>3. Instruction(r, frames, ticks) /\ Ordinary /\ Rest
      BY <1>10, <1>g, <2>1 DEF Dint
    <2> QED
      BY <1>m, <1>o, <2>2, <2>3 DEF Rest
  <1>11. ASSUME NEW ticks \in Cycles, WaitForInterrupt(ticks) PROVE DspInv'
    <2>1. PICK r : r = [regs EXCEPT !.intm = FALSE, !.idle = TRUE]
      OBVIOUS
    <2>2. r \in Registers /\ r.stack = regs.stack
      BY <1>h, <2>1 DEF Registers
    <2>3. Instruction(r, frames, ticks) /\ Ordinary /\ Rest /\ ~Handling(frames)
      BY <1>11, <1>g, <2>1 DEF WaitForInterrupt
    <2> QED
      BY <1>m, <1>o, <2>2, <2>3 DEF Rest
  <1>12. ASSUME NEW ticks \in Cycles, NEW imr \in Masks, WriteImr(imr, ticks) PROVE DspInv'
    <2>1. PICK r : r = [regs EXCEPT !.imr = imr]
      OBVIOUS
    <2>2. r \in Registers /\ r.stack = regs.stack /\ r.intm = regs.intm
      <3>1. imr \in SUBSET {"INT0", "TINT"}
        BY Tms320Assumption
      <3> QED
        BY <1>h, <2>1, <3>1 DEF Registers
    <2>3. Instruction(r, frames, ticks) /\ Ordinary /\ Rest
      BY <1>12, <1>g, <2>1 DEF WriteImr
    <2> QED
      BY <1>h, <1>m, <1>o, <2>2, <2>3 DEF Rest
  <1>13. ASSUME NEW ticks \in Cycles, NEW period \in TimerPeriods, WriteTimerPeriod(period, ticks) PROVE DspInv'
    <2>1. PICK r : r = [regs EXCEPT !.tim = period, !.prd = period]
      OBVIOUS
    <2>2. r \in Registers /\ r.stack = regs.stack /\ r.intm = regs.intm
      <3>1. period \in Int
        BY Tms320Assumption
      <3> QED
        BY <1>h, <2>1, <3>1 DEF Registers
    <2>3. Instruction(r, frames, ticks) /\ Ordinary /\ Rest
      BY <1>13, <1>g, <2>1 DEF WriteTimerPeriod
    <2> QED
      BY <1>h, <1>m, <1>o, <2>2, <2>3 DEF Rest
  <1>14. ASSUME NEW ticks \in Cycles, NEW bit, Configure(bit, ticks) \/ LoadStatus1(bit, ticks) PROVE DspInv'
    <2>1. Instruction(regs, frames, ticks) /\ Ordinary /\ UNCHANGED << dspRepeat, dspMoved >>
      BY <1>14, <1>g DEF Configure, LoadStatus1
    <2> QED
      BY <1>h, <1>m, <1>o, <2>1
  (* The repeated instruction. *)
  <1>15. ASSUME NEW count, Repeat(count) PROVE DspInv'
    <2>1. /\ dspRegs' = regs /\ dspFrames' = frames /\ Ordinary
          /\ dspRepeat' = [count |-> count, load |-> 2, pfc |-> dspRepeat.pfc]
          /\ dspMoved' = [from |-> 0, read |-> << >>]
      BY <1>15, <1>g DEF Repeat
    <2>2. Serves(dspRegs', dspFrames')
      BY <1>h, <2>1 DEF Serves
    <2>3. dspMoved'.read = << >> /\ dspRepeat'.load = 2
      BY <2>1
    <2>4. dspMoved'.read \in Seq(Address) /\ RepeatFollows' /\ WordAfterWord'
      <3>1. << >> \in Seq(Address) /\ Len(<< >>) = 0 /\ 1..0 = {}
        OBVIOUS
      <3> QED
        BY <2>3, <3>1 DEF RepeatFollows, WordAfterWord
    <2> QED
      BY <2>2, <2>4 DEF DspInv
  <1>16. ASSUME NEW word \in Address, ReadProgram(word) PROVE DspInv'
    <2>1. PICK from : /\ from = (IF dspRepeat.load # 0 THEN word ELSE dspRepeat.pfc)
                      /\ dspRepeat.load \in {0, 2} /\ (dspRepeat.load = 0 => word = dspMoved.from)
                      /\ dspMoved' = [from |-> word, read |-> Append(dspMoved.read, from)]
      BY <1>16 DEF ReadProgram, LoadsAddress
    <2>2. PICK read \in Seq(Address), n \in Nat : read = dspMoved.read /\ n = Len(read)
      BY DEF DspInv
    <2>3. from \in Address /\ (n = 0 => from = word) /\ (n > 0 => from = NextWord(read[n]) /\ word = dspMoved.from)
      <3>1. CASE dspRepeat.load = 2
        <4>1. read = << >>
          BY <2>2, <3>1 DEF DspInv, RepeatFollows
        <4> QED
          BY <2>1, <2>2, <3>1, <4>1
      <3>2. CASE dspRepeat.load = 0
        <4>1. n > 0 /\ dspRepeat.pfc = NextWord(read[n])
          BY <2>2, <3>2 DEF DspInv, RepeatFollows
        <4>2. read[n] \in Address
          BY <2>2, <4>1
        <4> QED
          BY <2>1, <3>2, <4>1, <4>2, Widths
      <3> QED
        BY <2>1, <3>1, <3>2
    <2>4. PICK more : more = Append(read, from)
      OBVIOUS
    <2>5. more \in Seq(Address) /\ Len(more) = n + 1 /\ more[n + 1] = from /\ \A r \in 1..n : more[r] = read[r]
      BY <2>2, <2>3, <2>4
    <2>6. dspMoved'.read = more /\ dspMoved'.from = word
      BY <2>1, <2>2, <2>4
    <2>7. WordAfterWord'
      <3>1. ASSUME NEW r \in 1..(n + 1) PROVE more[r] = IF r = 1 THEN word ELSE NextWord(more[r - 1])
        <4>1. CASE r = n + 1 /\ n = 0
          BY <2>3, <2>5, <4>1
        <4>2. CASE r = n + 1 /\ n > 0
          <5>1. r # 1 /\ r - 1 = n /\ n \in 1..n
            BY <4>2
          <5> QED
            BY <2>3, <2>5, <4>2, <5>1
        <4>3. CASE r # n + 1
          <5>1. r \in 1..n /\ n > 0 /\ (r # 1 => r - 1 \in 1..n)
            BY <4>3
          <5>2. read[r] = IF r = 1 THEN word ELSE NextWord(read[r - 1])
            BY <2>2, <2>3, <5>1 DEF DspInv, WordAfterWord
          <5> QED
            BY <2>5, <5>1, <5>2
        <4> QED
          BY <4>1, <4>2, <4>3
      <3> QED
        BY <2>5, <2>6, <3>1 DEF WordAfterWord
    <2>8. CASE dspRepeat.count = 0
      <3>1. PICK r : r = [dspRegs EXCEPT !.pc = NextWord(NextWord(dspRegs.pc))]
        OBVIOUS
      <3>2. r \in Registers /\ r.stack = dspRegs.stack /\ r.intm = dspRegs.intm /\ r.eint = dspRegs.eint
        <4>1. NextWord(NextWord(dspRegs.pc)) \in Nat
          BY <1>s, Widths DEF Registers
        <4> QED
          BY <1>s, <3>1, <4>1 DEF Registers
      <3>3. Serves(r, dspFrames) /\ 2 \in Nat
        BY <1>s, <3>2 DEF Serves
      <3>4. Serves(Timed(r, 2), TimedFrames(r, 2, dspFrames))
        BY <3>3, TimerKeeps
      <3>5. /\ dspRegs' = Timed(r, 2) /\ dspFrames' = TimedFrames(r, 2, dspFrames)
            /\ dspRepeat'.load = 1
        BY <1>16, <2>8, <3>1 DEF ReadProgram
      <3> QED
        BY <2>5, <2>6, <2>7, <3>4, <3>5 DEF DspInv, RepeatFollows
    <2>9. CASE dspRepeat.count # 0
      <3>1. /\ dspRegs' = dspRegs /\ dspFrames' = dspFrames
            /\ dspRepeat'.load = 0 /\ dspRepeat'.pfc = NextWord(from)
        BY <1>16, <2>1, <2>9 DEF ReadProgram, LoadsAddress
      <3>2. RepeatFollows'
        BY <2>5, <2>6, <3>1 DEF RepeatFollows
      <3> QED
        BY <1>s, <2>5, <2>6, <2>7, <3>1, <3>2 DEF DspInv
    <2> QED
      BY <2>8, <2>9
  <1>17. CASE UNCHANGED dspvars
    BY <1>17, <1>m, <1>s DEF dspvars
  <1>18. CASE \E ticks \in Cycles :
                 \/ IdleTimer(ticks) \/ Ret(ticks) \/ PopData(ticks) \/ Eint(ticks) \/ Dint(ticks) \/ WaitForInterrupt(ticks)
                 \/ \E target \in Address : Branch(target, ticks) \/ Call(target, ticks) \/ PushData(target, ticks)
                 \/ \E imr \in Masks : WriteImr(imr, ticks)
                 \/ \E period \in TimerPeriods : WriteTimerPeriod(period, ticks)
                 \/ \E bit \in Bits : Configure(bit, ticks) \/ LoadStatus1(bit, ticks)
    BY <1>3, <1>4, <1>5, <1>6, <1>7, <1>8, <1>9, <1>10, <1>11, <1>12, <1>13, <1>14, <1>18
  <1> QED
    BY <1>1, <1>2, <1>15, <1>16, <1>17, <1>18 DEF DspNext


-----------------------------------------------------------------------------
(* The arithmetic of the TMS320C25.                                            *)

LEMMA PowersOfTwo ==
    /\ HalfBits \in Nat /\ HalfBits >= 1 /\ 2^0 = 1
    /\ \A n \in 0..HalfBits : 2^n \in Nat \ {0}
    /\ \A n \in 0..(HalfBits - 1) : 2^(n + 1) = 2 * 2^n
  BY Tms320AluAssumption, Tms320PowerAssumption

(* The middle of the accumulator's range.                                      *)
Sign == Full \div 2
LEMMA AluWidths ==
    /\ Half \in Nat \ {0} /\ Half = 2 * (Half \div 2) /\ Half \div 2 \in Nat \ {0}
    /\ Full \in Nat \ {0} /\ Full = 2 * Sign /\ Sign \in Nat \ {0} /\ Half <= Sign
    /\ Half * Half = Full
  <1>1. PICK h \in Nat \ {0} : Half = 2 * h
    <2>1. HalfBits - 1 \in 0..HalfBits /\ HalfBits - 1 \in 0..(HalfBits - 1) /\ HalfBits - 1 + 1 = HalfBits
      BY PowersOfTwo
    <2>2. 2^(HalfBits - 1) \in Nat \ {0} /\ 2^(HalfBits - 1 + 1) = 2 * 2^(HalfBits - 1)
      BY <2>1, PowersOfTwo
    <2>3. Half = 2 * 2^(HalfBits - 1)
      BY <2>1, <2>2 DEF Half
    <2> QED
      BY <2>2, <2>3
  <1>2. Half \div 2 = h
    BY <1>1
  <1>3. Full = 2 * (h * Half) /\ h * Half \in Nat \ {0} /\ Half <= h * Half
    BY <1>1 DEF Full
  <1>4. Full \div 2 = h * Half
    <2>1. PICK b \in Nat \ {0} : b = h * Half
      BY <1>3
    <2>2. (2 * b) \div 2 = b
      OBVIOUS
    <2> QED
      BY <1>3, <2>1, <2>2
  <1> QED
    BY <1>1, <1>2, <1>3, <1>4 DEF Sign, Full

AccWord == 0..(Full - 1)
LEMMA WrapsOnce ==
    ASSUME NEW n \in Int
    PROVE  /\ Wrapped(n) \in AccWord
           /\ n \in AccWord => Wrapped(n) = n
           /\ n \in Full..(2 * Full - 1) => Wrapped(n) = n - Full
           /\ n \in (-Full)..(-1) => Wrapped(n) = n + Full
  <1>1. PICK f \in Nat \ {0} : f = Full
    BY AluWidths
  <1>2. n % f \in 0..(f - 1)
    OBVIOUS
  <1>3. n \in 0..(f - 1) => n % f = n
    OBVIOUS
  <1>4. n \in f..(2 * f - 1) => n % f = n - f
    OBVIOUS
  <1>5. n \in (-f)..(-1) => n % f = n + f
    OBVIOUS
  <1> QED
    BY <1>1, <1>2, <1>3, <1>4, <1>5 DEF Wrapped, AccWord

(* Of a sum and of a difference: where it is, when it overflows, its carry.    *)
SumIn(acc, operand, extra, new, amount) ==
    /\ new = Wrapped(acc + operand + extra) /\ amount = Signed(operand) + extra
    /\ extra \in {0, 1} /\ (extra = 1 => operand < Half)
RestIn(acc, operand, extra, new, amount) ==
    /\ new = Wrapped(acc - operand - extra) /\ amount = Signed(operand) + extra
    /\ extra \in {0, 1} /\ (extra = 1 => operand < Half)
UnsignedOf(amount) == IF amount < 0 THEN amount + Full ELSE amount
SumFits(acc, operand, new, amount) ==
    /\ new \in AccWord /\ amount \in Int /\ Signed(acc) + amount \in Int
    /\ AddOverflows(acc, operand, new) <=> ~InRange(Signed(acc) + amount)
    /\ InRange(Signed(acc) + amount) => Signed(new) = Signed(acc) + amount
    /\ acc + UnsignedOf(amount) >= Full <=> acc > new
    /\ acc = new => amount = 0
RestFits(acc, operand, new, amount) ==
    /\ new \in AccWord /\ amount \in Int /\ Signed(acc) - amount \in Int
    /\ SubOverflows(acc, operand, new) <=> ~InRange(Signed(acc) - amount)
    /\ InRange(Signed(acc) - amount) => Signed(new) = Signed(acc) - amount
    /\ acc >= UnsignedOf(amount) <=> ~(acc < new)
    /\ acc = new => amount = 0

(* A sum overflows exactly when it has no place among the signed numbers.      *)
LEMMA SumOverflows ==
    ASSUME NEW acc \in AccWord, NEW operand \in AccWord, NEW extra, NEW new, NEW amount,
           SumIn(acc, operand, extra, new, amount)
    PROVE  SumFits(acc, operand, new, amount)
  <1>a. /\ new = Wrapped(acc + operand + extra) /\ amount = Signed(operand) + extra
        /\ extra \in {0, 1} /\ (extra = 1 => operand < Half)
    BY DEF SumIn
  <1>1. /\ Full = 2 * Sign /\ Sign \in Nat \ {0} /\ Half \in Nat /\ Half <= Sign /\ Full \div 2 = Sign
    BY AluWidths DEF Sign
  <1>2. /\ acc \in Nat /\ acc <= Full - 1 /\ operand \in Nat /\ operand <= Full - 1
    BY <1>1 DEF AccWord
  <1>3. /\ new \in AccWord /\ new \in Nat /\ new <= Full - 1
        /\ new = IF acc + operand + extra < Full THEN acc + operand + extra ELSE acc + operand + extra - Full
    <2>1. acc + operand + extra \in Int
      BY <1>a, <1>2
    <2>2. acc + operand + extra < Full => acc + operand + extra \in AccWord
      BY <1>a, <1>1, <1>2 DEF AccWord
    <2>3. ~(acc + operand + extra < Full) => acc + operand + extra \in Full..(2 * Full - 1)
      BY <1>a, <1>1, <1>2
    <2>4. new \in AccWord
      BY <1>a, <2>1, WrapsOnce
    <2> QED
      BY <1>1, <2>1, <2>2, <2>3, <2>4, <1>a, WrapsOnce DEF AccWord
  <1>4. /\ Signed(acc) = IF acc >= Sign THEN acc - Full ELSE acc
        /\ Signed(operand) = IF operand >= Sign THEN operand - Full ELSE operand
        /\ Signed(new) = IF new >= Sign THEN new - Full ELSE new
    BY <1>1 DEF Signed
  <1>5. /\ AddOverflows(acc, operand, new) <=>
              /\ (Signed(new) < 0) # (Signed(operand) < 0)
              /\ (Signed(acc) < 0) # (Signed(new) < 0)
        /\ InRange(Signed(acc) + amount) <=> -Sign <= Signed(acc) + amount /\ Signed(acc) + amount < Sign
    BY <1>a, <1>1, <1>2, <1>4 DEF AddOverflows, InRange
  <1>6. AddOverflows(acc, operand, new) <=> ~InRange(Signed(acc) + amount)
    BY <1>a, <1>1, <1>2, <1>3, <1>4, <1>5
  <1>7. InRange(Signed(acc) + amount) => Signed(new) = Signed(acc) + amount
    BY <1>a, <1>1, <1>2, <1>3, <1>4, <1>5
  <1>8. acc + UnsignedOf(amount) >= Full <=> acc > new
    BY <1>a, <1>1, <1>2, <1>3, <1>4 DEF UnsignedOf
  <1>9. (acc = new => amount = 0) /\ amount \in Int /\ Signed(acc) + amount \in Int
    BY <1>a, <1>1, <1>2, <1>3, <1>4
  <1> QED
    BY <1>3, <1>6, <1>7, <1>8, <1>9 DEF SumFits

LEMMA RestOverflows ==
    ASSUME NEW acc \in AccWord, NEW operand \in AccWord, NEW extra, NEW new, NEW amount,
           RestIn(acc, operand, extra, new, amount)
    PROVE  RestFits(acc, operand, new, amount)
  <1>a. /\ new = Wrapped(acc - operand - extra) /\ amount = Signed(operand) + extra
        /\ extra \in {0, 1} /\ (extra = 1 => operand < Half)
    BY DEF RestIn
  <1>1. /\ Full = 2 * Sign /\ Sign \in Nat \ {0} /\ Half \in Nat /\ Half <= Sign /\ Full \div 2 = Sign
    BY AluWidths DEF Sign
  <1>2. /\ acc \in Nat /\ acc <= Full - 1 /\ operand \in Nat /\ operand <= Full - 1
    BY <1>1 DEF AccWord
  <1>3. /\ new \in AccWord /\ new \in Nat /\ new <= Full - 1
        /\ new = IF acc - operand - extra >= 0 THEN acc - operand - extra ELSE acc - operand - extra + Full
    <2>1. acc - operand - extra \in Int
      BY <1>a, <1>2
    <2>2. acc - operand - extra >= 0 => acc - operand - extra \in AccWord
      BY <1>a, <1>1, <1>2 DEF AccWord
    <2>3. ~(acc - operand - extra >= 0) => acc - operand - extra \in (-Full)..(-1)
      BY <1>a, <1>1, <1>2
    <2>4. new \in AccWord
      BY <1>a, <2>1, WrapsOnce
    <2> QED
      BY <1>1, <2>1, <2>2, <2>3, <2>4, <1>a, WrapsOnce DEF AccWord
  <1>4. /\ Signed(acc) = IF acc >= Sign THEN acc - Full ELSE acc
        /\ Signed(operand) = IF operand >= Sign THEN operand - Full ELSE operand
        /\ Signed(new) = IF new >= Sign THEN new - Full ELSE new
    BY <1>1 DEF Signed
  <1>5. /\ SubOverflows(acc, operand, new) <=>
              /\ (Signed(acc) < 0) # (Signed(operand) < 0)
              /\ (Signed(acc) < 0) # (Signed(new) < 0)
        /\ InRange(Signed(acc) - amount) <=> -Sign <= Signed(acc) - amount /\ Signed(acc) - amount < Sign
    BY <1>a, <1>1, <1>2, <1>4 DEF SubOverflows, InRange
  <1>6. SubOverflows(acc, operand, new) <=> ~InRange(Signed(acc) - amount)
    BY <1>a, <1>1, <1>2, <1>3, <1>4, <1>5
  <1>7. InRange(Signed(acc) - amount) => Signed(new) = Signed(acc) - amount
    BY <1>a, <1>1, <1>2, <1>3, <1>4, <1>5
  <1>8. acc >= UnsignedOf(amount) <=> ~(acc < new)
    BY <1>a, <1>1, <1>2, <1>3, <1>4 DEF UnsignedOf
  <1>9. (acc = new => amount = 0) /\ amount \in Int /\ Signed(acc) - amount \in Int
    BY <1>a, <1>1, <1>2, <1>3, <1>4
  <1> QED
    BY <1>3, <1>6, <1>7, <1>8, <1>9 DEF RestFits

AluRegs == [acc : AccWord, p : AccWord, t : DataWord, c : {0, 1}, ov : BOOLEAN, tc : BOOLEAN,
            ovm : BOOLEAN, sxm : BOOLEAN, pm : 0..3]

(* What is left where an instruction may have overflowed.                      *)
Leaves(a, result, out, carry, next) ==
    /\ next \in AluRegs /\ Saturated(a, result, out).acc = next.acc
    /\ next.acc = IF out /\ a.ovm THEN Bound(a.acc) ELSE result
    /\ next.ov <=> a.ov \/ out
    /\ next.c = carry
LEMMA SaturatedIs ==
    ASSUME NEW a \in AluRegs, NEW result \in AccWord, NEW out \in BOOLEAN, NEW carry \in {0, 1},
           NEW next, next = [Saturated(a, result, out) EXCEPT !.c = carry]
    PROVE  Bound(a.acc) \in AccWord /\ Leaves(a, result, out, carry, next)
  <1>1. Bound(a.acc) \in AccWord
    <2>1. Full = 2 * Sign /\ Sign \in Nat \ {0} /\ Full \div 2 = Sign
      BY AluWidths DEF Sign
    <2> QED
      BY <2>1 DEF Bound, AccWord
  <1>2. PICK acc \in AccWord : acc = IF out /\ a.ovm THEN Bound(a.acc) ELSE result
    BY <1>1
  <1>3. PICK ov \in BOOLEAN : ov = (a.ov \/ out)
    <2>1. (a.ov \/ out) \in BOOLEAN
      BY DEF AluRegs
    <2> QED
      BY <2>1
  <1>4. Saturated(a, result, out) = [a EXCEPT !.acc = acc, !.ov = ov]
    <2> DEFINE half == [a EXCEPT !.acc = IF out /\ a.ovm THEN Bound(a.acc) ELSE result]
    <2>1. half.ov = a.ov
      BY DEF AluRegs
    <2>2. Saturated(a, result, out) = [half EXCEPT !.ov = @ \/ out]
      BY Zenon DEF Saturated
    <2>3. Saturated(a, result, out) = [half EXCEPT !.ov = ov]
      BY <1>3, <2>1, <2>2, Zenon
    <2>4. half = [a EXCEPT !.acc = acc]
      BY <1>2, Zenon
    <2> QED
      BY <2>3, <2>4, Zenon
  <1>5. next = [[a EXCEPT !.acc = acc, !.ov = ov] EXCEPT !.c = carry]
    BY <1>4, Zenon
  <1>6. /\ next \in AluRegs /\ next.acc = acc /\ next.ov = ov /\ next.c = carry
        /\ Saturated(a, result, out).acc = acc
    BY <1>4, <1>5 DEF AluRegs
  <1>7. next.ov <=> a.ov \/ out
    BY <1>3, <1>6, Zenon
  <1> QED
    BY <1>1, <1>2, <1>6, <1>7 DEF Leaves

(* An instruction that sums leaves what is promised of it.                     *)
Promised(a, next, exact, carryOut) ==
    /\ InRange(exact) => Signed(next.acc) = exact /\ next.ov = a.ov
    /\ ~InRange(exact) => next.ov /\ (a.ovm => next.acc = Bound(a.acc))
    /\ (InRange(exact) \/ ~a.ovm) => next.c = (IF carryOut THEN 1 ELSE 0)
SumPromised(a, next, amount) == Promised(a, next, Signed(a.acc) + amount, a.acc + UnsignedOf(amount) >= Full)
RestPromised(a, next, amount) == Promised(a, next, Signed(a.acc) - amount, a.acc >= UnsignedOf(amount))

(* From the overflow, the result and the carry, each as the lemmas give them.  *)
LEMMA PromisedFrom ==
    ASSUME NEW a \in AluRegs, NEW next \in AluRegs, NEW new \in AccWord, NEW out \in BOOLEAN,
           NEW exact \in Int, NEW carryOut \in BOOLEAN,
           out <=> ~InRange(exact), InRange(exact) => Signed(new) = exact,
           next.acc = IF out /\ a.ovm THEN Bound(a.acc) ELSE new,
           next.ov <=> a.ov \/ out,
           ~(out /\ a.ovm) => next.c = IF carryOut THEN 1 ELSE 0
    PROVE  Promised(a, next, exact, carryOut)
  <1>1. a.ov \in BOOLEAN /\ a.ovm \in BOOLEAN /\ next.ov \in BOOLEAN
    BY DEF AluRegs
  <1>2. InRange(exact) => Signed(next.acc) = exact /\ next.ov = a.ov
    <2> SUFFICES ASSUME InRange(exact) PROVE Signed(next.acc) = exact /\ next.ov = a.ov
      OBVIOUS
    <2>1. next.acc = new
      BY Zenon
    <2>2. next.ov <=> a.ov
      BY Zenon
    <2>3. next.ov = a.ov
      BY <1>1, <2>2
    <2> QED
      BY <2>1, <2>3, Zenon
  <1>3. ~InRange(exact) => next.ov /\ (a.ovm => next.acc = Bound(a.acc))
    BY <1>1, Zenon
  <1>4. (InRange(exact) \/ ~a.ovm) => next.c = (IF carryOut THEN 1 ELSE 0)
    BY <1>1, Zenon
  <1> QED
    BY <1>2, <1>3, <1>4, Zenon DEF Promised

(* A sum, or a difference, whose carry is that of the words it joins.          *)
LEMMA SumLeaves ==
    ASSUME NEW a \in AluRegs, NEW operand \in AccWord, NEW extra, NEW sum, NEW amount,
           SumIn(a.acc, operand, extra, sum, amount),
           NEW out, out = AddOverflows(a.acc, operand, sum),
           NEW carry \in {0, 1}, ~(out /\ a.ovm) => carry = IF a.acc > sum THEN 1 ELSE 0,
           NEW next, next = [Saturated(a, sum, out) EXCEPT !.c = carry]
    PROVE  next \in AluRegs /\ SumPromised(a, next, amount)
  <1> DEFINE exact == Signed(a.acc) + amount
             carryOut == a.acc + UnsignedOf(amount) >= Full
  <1>1. a.acc \in AccWord
    BY DEF AluRegs
  <1>2. SumFits(a.acc, operand, sum, amount)
    BY <1>1, SumOverflows
  <1>3. /\ sum \in AccWord /\ exact \in Int /\ amount \in Int /\ (out <=> ~InRange(exact))
        /\ InRange(exact) => Signed(sum) = exact
        /\ carryOut <=> a.acc > sum
    BY <1>2 DEF SumFits
  <1>4. out \in BOOLEAN /\ carryOut \in BOOLEAN
    BY DEF AddOverflows
  <1> HIDE DEF carryOut
  <1>5. Leaves(a, sum, out, carry, next)
    <2>1. sum \in AccWord
      BY <1>3
    <2> QED
      BY <1>4, <2>1, SaturatedIs
  <1>6. /\ next \in AluRegs /\ next.acc = IF out /\ a.ovm THEN Bound(a.acc) ELSE sum
        /\ (next.ov <=> a.ov \/ out) /\ next.c = carry
    BY <1>5, Zenon DEF Leaves
  <1>7. ~(out /\ a.ovm) => next.c = IF carryOut THEN 1 ELSE 0
    BY <1>3, <1>6
  <1> HIDE DEF exact
  <1>8. Promised(a, next, exact, carryOut)
    BY <1>3, <1>4, <1>6, <1>7, PromisedFrom
  <1> QED
    BY <1>6, <1>8 DEF SumPromised, exact, carryOut

LEMMA RestLeaves ==
    ASSUME NEW a \in AluRegs, NEW operand \in AccWord, NEW extra, NEW rest, NEW amount,
           RestIn(a.acc, operand, extra, rest, amount),
           NEW out, out = SubOverflows(a.acc, operand, rest),
           NEW carry \in {0, 1}, ~(out /\ a.ovm) => carry = IF a.acc < rest THEN 0 ELSE 1,
           NEW next, next = [Saturated(a, rest, out) EXCEPT !.c = carry]
    PROVE  next \in AluRegs /\ RestPromised(a, next, amount)
  <1> DEFINE exact == Signed(a.acc) - amount
             carryOut == a.acc >= UnsignedOf(amount)
  <1>1. a.acc \in AccWord
    BY DEF AluRegs
  <1>2. RestFits(a.acc, operand, rest, amount)
    BY <1>1, RestOverflows
  <1>3. /\ rest \in AccWord /\ exact \in Int /\ amount \in Int /\ (out <=> ~InRange(exact))
        /\ InRange(exact) => Signed(rest) = exact
        /\ carryOut <=> ~(a.acc < rest)
    BY <1>2 DEF RestFits
  <1>4. out \in BOOLEAN /\ carryOut \in BOOLEAN
    BY DEF SubOverflows
  <1> HIDE DEF carryOut
  <1>5. Leaves(a, rest, out, carry, next)
    <2>1. rest \in AccWord
      BY <1>3
    <2> QED
      BY <1>4, <2>1, SaturatedIs
  <1>6. /\ next \in AluRegs /\ next.acc = IF out /\ a.ovm THEN Bound(a.acc) ELSE rest
        /\ (next.ov <=> a.ov \/ out) /\ next.c = carry
    BY <1>5, Zenon DEF Leaves
  <1>7. ~(out /\ a.ovm) => next.c = IF carryOut THEN 1 ELSE 0
    BY <1>3, <1>6
  <1> HIDE DEF exact
  <1>8. Promised(a, next, exact, carryOut)
    BY <1>3, <1>4, <1>6, <1>7, PromisedFrom
  <1> QED
    BY <1>6, <1>8 DEF RestPromised, exact, carryOut

LEMMA AddedSums ==
    ASSUME NEW a \in AluRegs, NEW operand \in AccWord
    PROVE  Added(a, operand) \in AluRegs /\ SumPromised(a, Added(a, operand), Signed(operand))
  <1> DEFINE sum == Wrapped(a.acc + operand)
             out == AddOverflows(a.acc, operand, sum)
             left == Saturated(a, sum, out)
             carry == AddCarry(a.acc, left.acc)
             amount == Signed(operand)
  <1>1. a.acc \in AccWord /\ a.acc \in Int /\ operand \in Int /\ amount \in Int
    BY AluWidths DEF AluRegs, AccWord, Signed
  <1>2. SumIn(a.acc, operand, 0, sum, amount)
    BY <1>1 DEF SumIn
  <1>3. carry \in {0, 1}
    BY DEF AddCarry
  <1>4. ~(out /\ a.ovm) => carry = IF a.acc > sum THEN 1 ELSE 0
    <2>1. out \in BOOLEAN /\ sum \in AccWord
      BY <1>1, WrapsOnce DEF AddOverflows
    <2> HIDE DEF out, sum
    <2>2. PICK next : next = [Saturated(a, sum, out) EXCEPT !.c = 0]
      OBVIOUS
    <2>3. Leaves(a, sum, out, 0, next)
      BY <2>1, <2>2, SaturatedIs
    <2> QED
      BY <2>3 DEF Leaves, AddCarry
  <1>5. Added(a, operand) = [Saturated(a, sum, out) EXCEPT !.c = carry]
    BY DEF Added
  <1> HIDE DEF sum, amount, out, carry
  <1>6. out = AddOverflows(a.acc, operand, sum)
    BY DEF out
  <1> QED
    <2>1. PICK next : next = [Saturated(a, sum, out) EXCEPT !.c = carry]
      OBVIOUS
    <2>2. next \in AluRegs /\ SumPromised(a, next, amount)
      BY <1>2, <1>3, <1>4, <1>6, <2>1, SumLeaves
    <2> QED
      BY <1>5, <2>1, <2>2 DEF amount

LEMMA SubtractedSums ==
    ASSUME NEW a \in AluRegs, NEW operand \in AccWord
    PROVE  Subtracted(a, operand) \in AluRegs /\ RestPromised(a, Subtracted(a, operand), Signed(operand))
  <1> DEFINE rest == Wrapped(a.acc - operand)
             out == SubOverflows(a.acc, operand, rest)
             left == Saturated(a, rest, out)
             carry == SubCarry(a.acc, left.acc)
             amount == Signed(operand)
  <1>1. a.acc \in AccWord /\ a.acc \in Int /\ operand \in Int /\ amount \in Int
    BY AluWidths DEF AluRegs, AccWord, Signed
  <1>2. RestIn(a.acc, operand, 0, rest, amount)
    BY <1>1 DEF RestIn
  <1>3. carry \in {0, 1}
    BY DEF SubCarry
  <1>4. ~(out /\ a.ovm) => carry = IF a.acc < rest THEN 0 ELSE 1
    <2>1. out \in BOOLEAN /\ rest \in AccWord
      BY <1>1, WrapsOnce DEF SubOverflows
    <2> HIDE DEF out, rest
    <2>2. PICK next : next = [Saturated(a, rest, out) EXCEPT !.c = 0]
      OBVIOUS
    <2>3. Leaves(a, rest, out, 0, next)
      BY <2>1, <2>2, SaturatedIs
    <2> QED
      BY <2>3 DEF Leaves, SubCarry
  <1>5. Subtracted(a, operand) = [Saturated(a, rest, out) EXCEPT !.c = carry]
    BY DEF Subtracted
  <1> HIDE DEF rest, amount, out, carry
  <1>6. out = SubOverflows(a.acc, operand, rest)
    BY DEF out
  <1> QED
    <2>1. PICK next : next = [Saturated(a, rest, out) EXCEPT !.c = carry]
      OBVIOUS
    <2>2. next \in AluRegs /\ RestPromised(a, next, amount)
      BY <1>2, <1>3, <1>4, <1>6, <2>1, RestLeaves
    <2> QED
      BY <1>5, <2>1, <2>2 DEF amount

(* With the carry of the sum before: a word that changes nothing keeps it.     *)
LEMMA CarriedSums ==
    ASSUME NEW a \in AluRegs, NEW word \in DataWord
    PROVE  AddedWithCarry(a, word) \in AluRegs /\ SumPromised(a, AddedWithCarry(a, word), word + a.c)
  <1> DEFINE sum == Wrapped(a.acc + word + a.c)
             out == AddOverflows(a.acc, word, sum)
             left == Saturated(a, sum, out)
             carry == Kept(a.acc, left.acc, a.c, AddCarry(a.acc, left.acc))
             amount == word + a.c
  <1>0. a.acc \in AccWord /\ a.acc \in Int /\ a.c \in {0, 1} /\ word \in Int /\ word >= 0 /\ word < Half
    BY AluWidths DEF AluRegs, AccWord, DataWord
  <1>w. word \in AccWord /\ Signed(word) = word
    BY <1>0, AluWidths DEF AccWord, Signed, Sign
  <1>1. amount \in Int
    BY <1>0
  <1>2. SumIn(a.acc, word, a.c, sum, amount)
    BY <1>0, <1>w DEF SumIn
  <1>3. carry \in {0, 1}
    BY <1>0 DEF AddCarry, Kept
  <1>f. SumFits(a.acc, word, sum, amount)
    <2> HIDE DEF sum, amount
    <2> QED
      BY <1>0, <1>w, <1>2, SumOverflows
  <1>4. ~(out /\ a.ovm) => carry = IF a.acc > sum THEN 1 ELSE 0
    <2>1. out \in BOOLEAN /\ sum \in AccWord
      BY <1>f DEF AddOverflows, SumFits
    <2>4. a.acc = sum => a.c = 0
      BY <1>f, <1>0 DEF SumFits
    <2> HIDE DEF out, sum
    <2>2. PICK next : next = [Saturated(a, sum, out) EXCEPT !.c = 0]
      OBVIOUS
    <2>3. Leaves(a, sum, out, 0, next)
      BY <2>1, <2>2, SaturatedIs
    <2>5. ~(out /\ a.ovm) => left.acc = sum
      BY <2>3 DEF Leaves
    <2> HIDE DEF left
    <2> QED
      BY <1>0, <2>1, <2>4, <2>5 DEF AddCarry, Kept, AccWord
  <1>5. AddedWithCarry(a, word) = [Saturated(a, sum, out) EXCEPT !.c = carry]
    BY DEF AddedWithCarry
  <1> HIDE DEF sum, amount, out, carry
  <1>6. out = AddOverflows(a.acc, word, sum)
    BY DEF out
  <1> QED
    <2>1. PICK next : next = [Saturated(a, sum, out) EXCEPT !.c = carry]
      OBVIOUS
    <2>2. next \in AluRegs /\ SumPromised(a, next, amount)
      BY <1>2, <1>3, <1>4, <1>6, <1>w, <2>1, SumLeaves
    <2> QED
      BY <1>5, <2>1, <2>2 DEF amount

LEMMA BorrowedSums ==
    ASSUME NEW a \in AluRegs, NEW word \in DataWord
    PROVE  /\ SubtractedWithBorrow(a, word) \in AluRegs
           /\ RestPromised(a, SubtractedWithBorrow(a, word), word + 1 - a.c)
  <1> DEFINE rest == Wrapped(a.acc - word - (1 - a.c))
             out == SubOverflows(a.acc, word, rest)
             left == Saturated(a, rest, out)
             carry == Kept(a.acc, left.acc, a.c, SubCarry(a.acc, left.acc))
             amount == word + 1 - a.c
  <1>0. a.acc \in AccWord /\ a.acc \in Int /\ a.c \in {0, 1} /\ word \in Int /\ word >= 0 /\ word < Half
    BY AluWidths DEF AluRegs, AccWord, DataWord
  <1>w. word \in AccWord /\ Signed(word) = word
    BY <1>0, AluWidths DEF AccWord, Signed, Sign
  <1>1. amount \in Int
    BY <1>0
  <1>2. RestIn(a.acc, word, 1 - a.c, rest, amount)
    BY <1>0, <1>w DEF RestIn
  <1>3. carry \in {0, 1}
    BY <1>0 DEF SubCarry, Kept
  <1>f. RestFits(a.acc, word, rest, amount)
    <2> HIDE DEF rest, amount
    <2> QED
      BY <1>0, <1>w, <1>2, RestOverflows
  <1>4. ~(out /\ a.ovm) => carry = IF a.acc < rest THEN 0 ELSE 1
    <2>1. out \in BOOLEAN /\ rest \in AccWord
      BY <1>f DEF SubOverflows, RestFits
    <2>4. a.acc = rest => a.c = 1
      BY <1>f, <1>0 DEF RestFits
    <2> HIDE DEF out, rest
    <2>2. PICK next : next = [Saturated(a, rest, out) EXCEPT !.c = 0]
      OBVIOUS
    <2>3. Leaves(a, rest, out, 0, next)
      BY <2>1, <2>2, SaturatedIs
    <2>5. ~(out /\ a.ovm) => left.acc = rest
      BY <2>3 DEF Leaves
    <2> HIDE DEF left
    <2> QED
      BY <1>0, <2>1, <2>4, <2>5 DEF SubCarry, Kept, AccWord
  <1>5. SubtractedWithBorrow(a, word) = [Saturated(a, rest, out) EXCEPT !.c = carry]
    BY DEF SubtractedWithBorrow
  <1> HIDE DEF rest, amount, out, carry
  <1>6. out = SubOverflows(a.acc, word, rest)
    BY DEF out
  <1> QED
    <2>1. PICK next : next = [Saturated(a, rest, out) EXCEPT !.c = carry]
      OBVIOUS
    <2>2. next \in AluRegs /\ RestPromised(a, next, amount)
      BY <1>2, <1>3, <1>4, <1>6, <1>w, <2>1, RestLeaves
    <2> QED
      BY <1>5, <2>1, <2>2 DEF amount

(* The other instructions leave words in the registers.                        *)
LEMMA RegsTake ==
    ASSUME NEW a \in AluRegs
    PROVE  /\ a.acc \in AccWord /\ a.p \in AccWord /\ a.t \in DataWord /\ a.c \in {0, 1} /\ a.pm \in 0..3
           /\ a.ov \in BOOLEAN /\ a.ovm \in BOOLEAN /\ a.sxm \in BOOLEAN
           /\ \A v \in AccWord : [a EXCEPT !.acc = v] \in AluRegs /\ [a EXCEPT !.p = v] \in AluRegs
           /\ \A v \in AccWord, carry \in {0, 1} : [a EXCEPT !.acc = v, !.c = carry] \in AluRegs
           /\ \A t \in DataWord : [a EXCEPT !.t = t] \in AluRegs
           /\ \A t \in DataWord, v \in AccWord : /\ [a EXCEPT !.t = t, !.acc = v] \in AluRegs
                                                 /\ [a EXCEPT !.t = t, !.p = v] \in AluRegs
           /\ \A carry \in {0, 1} : [a EXCEPT !.c = carry] \in AluRegs
           /\ \A shift \in 0..3 : [a EXCEPT !.pm = shift] \in AluRegs
  BY DEF AluRegs

LEMMA FlagsTake ==
    ASSUME NEW a \in AluRegs, NEW bit \in BOOLEAN
    PROVE  /\ [a EXCEPT !.ov = bit] \in AluRegs /\ [a EXCEPT !.ovm = bit] \in AluRegs
           /\ [a EXCEPT !.sxm = bit] \in AluRegs /\ [a EXCEPT !.ov = bit, !.ovm = bit] \in AluRegs
           /\ [a EXCEPT !.ov = FALSE] \in AluRegs /\ [a EXCEPT !.tc = TRUE] \in AluRegs
           /\ \A v \in AccWord : [a EXCEPT !.acc = v, !.tc = FALSE] \in AluRegs
           /\ \A v \in AccWord : [a EXCEPT !.acc = v, !.ov = bit] \in AluRegs
           /\ \A v \in AccWord, carry \in {0, 1} : [a EXCEPT !.acc = v, !.ov = bit, !.c = carry] \in AluRegs
  BY DEF AluRegs

LEMMA OperandsAreWords ==
    ASSUME NEW word \in DataWord
    PROVE  /\ word \in Int /\ SignedWord(word) \in Int
           /\ \A shift \in 0..(HalfBits - 1), extend \in BOOLEAN : Operand(word, shift, extend) \in AccWord
           /\ \A t \in DataWord : Product(t, word) \in AccWord /\ Wrapped(t * word) \in AccWord
  <1>1. \A w \in DataWord : w \in Int /\ SignedWord(w) \in Int
    BY AluWidths DEF DataWord, SignedWord
  <1>2. ASSUME NEW shift \in 0..(HalfBits - 1), NEW extend \in BOOLEAN
        PROVE  Operand(word, shift, extend) \in AccWord
    <2>1. shift \in 0..HalfBits
      BY PowersOfTwo
    <2>2. PICK power \in Int : power = 2^shift
      BY <2>1, PowersOfTwo
    <2>3. PICK value \in Int : value = IF extend THEN SignedWord(word) ELSE word
      BY <1>1
    <2>4. value * power \in Int
      OBVIOUS
    <2>5. Operand(word, shift, extend) = Wrapped(value * power)
      BY <2>2, <2>3 DEF Operand
    <2> QED
      BY <2>4, <2>5, WrapsOnce
  <1>3. ASSUME NEW t \in DataWord PROVE Product(t, word) \in AccWord /\ Wrapped(t * word) \in AccWord
    <2>1. PICK x \in Int, y \in Int : x = SignedWord(t) /\ y = SignedWord(word)
      BY <1>1
    <2>2. x * y \in Int
      OBVIOUS
    <2>3. PICK u \in Int, v \in Int : u = t /\ v = word
      BY <1>1
    <2>4. u * v \in Int
      OBVIOUS
    <2> QED
      BY <2>1, <2>2, <2>3, <2>4, WrapsOnce DEF Product
  <1> QED
    BY <1>1, <1>2, <1>3

LEMMA ProductsAreWords ==
    ASSUME NEW a \in AluRegs
    PROVE  ShiftedProduct(a) \in AccWord
  <1>1. a.p \in AccWord /\ a.p \in Int
    <2>1. a.p \in AccWord
      BY RegsTake
    <2>2. \A v \in AccWord : v \in Int
      BY AluWidths DEF AccWord
    <2> QED
      BY <2>1, <2>2
  <1>2. Wrapped(a.p * 2) \in AccWord /\ Wrapped(a.p * 16) \in AccWord
    BY <1>1, WrapsOnce
  <1>3. Signed(a.p) \in Int
    BY <1>1, AluWidths DEF Signed
  <1>4. Signed(a.p) \div 64 \in Int
    BY <1>3
  <1>5. Wrapped(Signed(a.p) \div 64) \in AccWord
    BY <1>4, WrapsOnce
  <1> QED
    BY <1>1, <1>2, <1>5 DEF ShiftedProduct

(* The two halves of the accumulator.                                          *)
LEMMA Halves ==
    ASSUME NEW low \in DataWord, NEW high \in DataWord
    PROVE  /\ low + Half * high \in AccWord /\ high * Half \in AccWord
           /\ high * Half + Half \div 2 \in AccWord /\ high * Half + low \in AccWord
  <1>1. PICK h \in Nat \ {0} : h = Half /\ h * h = Full /\ h \div 2 < h /\ h \div 2 \in Nat
    BY AluWidths
  <1>2. low \in 0..(h - 1) /\ high \in 0..(h - 1) /\ low \in Nat /\ high \in Nat
    BY <1>1 DEF DataWord
  <1>3. h * high <= h * (h - 1) /\ h * high >= 0 /\ h * (h - 1) = h * h - h /\ h * high = high * h
    BY <1>2
  <1>4. PICK x \in Int, f \in Int : x = h * high /\ f = h * h
    BY <1>2
  <1>5. x <= f - h /\ x >= 0
    BY <1>3, <1>4
  <1>6. low + x \in 0..(f - 1) /\ x \in 0..(f - 1) /\ x + h \div 2 \in 0..(f - 1) /\ x + low \in 0..(f - 1)
    BY <1>1, <1>2, <1>4, <1>5
  <1>7. Half * high = x /\ high * Half = x
    BY <1>1, <1>3, <1>4
  <1>8. AccWord = 0..(f - 1)
    BY <1>1, <1>4 DEF AccWord
  <1>9. x + Half \div 2 = x + h \div 2
    BY <1>1
  <1> QED
    BY <1>6, <1>7, <1>8, <1>9

LEMMA HalvesOf ==
    ASSUME NEW acc \in AccWord
    PROVE  High(acc) \in DataWord /\ Low(acc) \in DataWord
  <1>1. PICK h \in Nat \ {0} : h = Half /\ h * h = Full
    BY AluWidths
  <1>2. acc \in Nat /\ acc < h * h
    BY <1>1 DEF AccWord
  <1>3. acc % h \in 0..(h - 1)
    BY <1>2
  <1>4. acc \div h \in Int /\ h * (acc \div h) <= acc /\ acc \div h >= 0
    BY <1>2
  <1>5. acc \div h < h
    <2> SUFFICES ASSUME acc \div h >= h PROVE FALSE
      BY <1>4
    <2>1. PICK q \in Int : q = acc \div h
      BY <1>4
    <2>2. h * q >= h * h
      BY <2>1
    <2>3. PICK x \in Int, y \in Int : x = h * q /\ y = h * h
      OBVIOUS
    <2> QED
      BY <1>2, <1>4, <2>1, <2>2, <2>3
  <1> QED
    BY <1>1, <1>3, <1>4, <1>5 DEF High, Low, DataWord

(* Into the high half, with the low one as it was.                             *)
LEMMA HighHalves ==
    ASSUME NEW a \in AluRegs, NEW high \in DataWord, NEW out \in BOOLEAN, NEW carry \in {0, 1}
    PROVE  [HighHalf(a, high, out) EXCEPT !.c = carry] \in AluRegs
  <1>1. Low(a.acc) \in DataWord
    BY RegsTake, HalvesOf
  <1>2. High(Bound(a.acc)) \in DataWord
    <2>1. Full = 2 * Sign /\ Sign \in Nat \ {0} /\ Full \div 2 = Sign
      BY AluWidths DEF Sign
    <2>2. Bound(a.acc) \in AccWord
      BY <2>1 DEF Bound, AccWord
    <2> QED
      BY <2>2, HalvesOf
  <1>3. PICK part \in DataWord : part = IF out /\ a.ovm THEN High(Bound(a.acc)) ELSE high
    BY <1>2
  <1>4. PICK acc \in AccWord : acc = Low(a.acc) + Half * part
    BY <1>1, Halves
  <1>5. PICK ov \in BOOLEAN : ov = (a.ov \/ out)
    <2>1. (a.ov \/ out) \in BOOLEAN
      BY DEF AluRegs
    <2> QED
      BY <2>1
  <1>6. HighHalf(a, high, out) = [a EXCEPT !.acc = acc, !.ov = ov]
    <2> DEFINE half == [a EXCEPT !.acc = Low(a.acc) + Half * (IF out /\ a.ovm THEN High(Bound(a.acc)) ELSE high)]
    <2>1. half.ov = a.ov
      BY DEF AluRegs
    <2>2. HighHalf(a, high, out) = [half EXCEPT !.ov = @ \/ out]
      BY Zenon DEF HighHalf
    <2>3. HighHalf(a, high, out) = [half EXCEPT !.ov = ov]
      BY <1>5, <2>1, <2>2, Zenon
    <2>4. half = [a EXCEPT !.acc = acc]
      BY <1>3, <1>4, Zenon
    <2> QED
      BY <2>3, <2>4, Zenon
  <1>7. [[a EXCEPT !.acc = acc, !.ov = ov] EXCEPT !.c = carry] \in AluRegs
    BY DEF AluRegs
  <1> QED
    BY <1>6, <1>7, Zenon

LEMMA HighSums ==
    ASSUME NEW a \in AluRegs, NEW word \in DataWord
    PROVE  AddedHigh(a, word) \in AluRegs /\ SubtractedHigh(a, word) \in AluRegs
  <1>1. a.c \in {0, 1} /\ High(a.acc) \in Int
    <2>1. a.acc \in AccWord /\ a.c \in {0, 1}
      BY RegsTake
    <2>2. High(a.acc) \in DataWord
      BY <2>1, HalvesOf
    <2> QED
      BY <2>1, <2>2, OperandsAreWords
  <1>2. ASSUME NEW n \in Int PROVE n % Half \in DataWord
    BY AluWidths DEF DataWord
  <1>3. AddedHigh(a, word) \in AluRegs
    <2>1. PICK high \in DataWord : high = (High(a.acc) + word) % Half
      BY <1>1, <1>2, OperandsAreWords
    <2>2. PICK out \in BOOLEAN : out = AddOverflows(a.acc, word * Half, high * Half)
      BY DEF AddOverflows
    <2>3. PICK carry \in {0, 1} : carry = IF High(a.acc) > high THEN 1 ELSE a.c
      BY <1>1
    <2>4. [HighHalf(a, high, out) EXCEPT !.c = carry] \in AluRegs
      BY HighHalves
    <2>5. AddedHigh(a, word) = [HighHalf(a, high, out) EXCEPT !.c = carry]
      BY <2>1, <2>2, <2>3, Zenon DEF AddedHigh
    <2> QED
      BY <2>4, <2>5, Zenon
  <1>4. SubtractedHigh(a, word) \in AluRegs
    <2>1. PICK high \in DataWord : high = (High(a.acc) - word) % Half
      BY <1>1, <1>2, OperandsAreWords
    <2>2. PICK out \in BOOLEAN : out = SubOverflows(a.acc, word * Half, high * Half)
      BY DEF SubOverflows
    <2>3. PICK carry \in {0, 1} : carry = IF High(a.acc) < high THEN 0 ELSE a.c
      BY <1>1
    <2>4. [HighHalf(a, high, out) EXCEPT !.c = carry] \in AluRegs
      BY HighHalves
    <2>5. SubtractedHigh(a, word) = [HighHalf(a, high, out) EXCEPT !.c = carry]
      BY <2>1, <2>2, <2>3, Zenon DEF SubtractedHigh
    <2> QED
      BY <2>4, <2>5, Zenon
  <1> QED
    BY <1>3, <1>4

LEMMA OthersAreRegs ==
    ASSUME NEW a \in AluRegs
    PROVE  /\ \A word \in DataWord : Conditional(a, word) \in AluRegs
           /\ Absolute(a) \in AluRegs /\ Negated(a) \in AluRegs /\ Normalized(a) \in AluRegs
           /\ \A in \in {0, 1} : ShiftedLeft(a, in) \in AluRegs /\ ShiftedRight(a, in) \in AluRegs
           /\ TopBit(a.acc) \in {0, 1} /\ [a EXCEPT !.acc = Full - 1 - @] \in AluRegs
  <1>1. PICK acc \in AccWord : acc = a.acc
    BY RegsTake
  <1>2. Full = 2 * Sign /\ Sign \in Nat \ {0} /\ Full \div 2 = Sign
    BY AluWidths DEF Sign
  <1>3. acc \in Nat /\ acc < 2 * Sign /\ a.ov \in BOOLEAN /\ a.ovm \in BOOLEAN /\ a.sxm \in BOOLEAN
    <2>1. acc \in Nat /\ acc < 2 * Sign
      BY <1>2 DEF AccWord
    <2> QED
      BY <2>1, RegsTake
  <1>4. Wrapped(acc * 2) \in AccWord /\ Wrapped(-acc) \in AccWord
    BY <1>3, WrapsOnce
  <1>5. ASSUME NEW word \in DataWord PROVE Conditional(a, word) \in AluRegs
    <2>1. HalfBits - 1 \in 0..(HalfBits - 1)
      BY PowersOfTwo
    <2>2. PICK divisor \in AccWord : divisor = Operand(word, DivisorShift, a.sxm)
      BY <1>3, <2>1, OperandsAreWords DEF DivisorShift
    <2>3. PICK rest \in AccWord : rest = Wrapped(acc - divisor)
      BY <1>2, <1>3, WrapsOnce DEF AccWord
    <2>4. PICK left \in AccWord : left = IF acc >= divisor THEN Wrapped(rest * 2 + 1) ELSE Wrapped(acc * 2)
      <3>1. rest * 2 + 1 \in Int
        BY <1>2 DEF AccWord
      <3>2. Wrapped(rest * 2 + 1) \in AccWord
        BY <3>1, WrapsOnce
      <3> QED
        BY <3>2, <1>4
    <2>5. PICK bit \in BOOLEAN : bit = (a.ov \/ SubOverflows(acc, divisor, rest))
      <3>1. (a.ov \/ SubOverflows(acc, divisor, rest)) \in BOOLEAN
        BY <1>3 DEF SubOverflows
      <3> QED
        BY <3>1
    <2>6. PICK carry \in {0, 1} : carry = SubCarry(acc, rest)
      BY DEF SubCarry
    <2>7. Conditional(a, word) = [a EXCEPT !.acc = left, !.ov = bit, !.c = carry]
      <3> DEFINE half == [a EXCEPT !.acc = IF a.acc >= divisor THEN Wrapped(rest * 2 + 1) ELSE Wrapped(a.acc * 2)]
      <3>1. half.ov = a.ov
        BY DEF AluRegs
      <3>2. Conditional(a, word) = [half EXCEPT !.ov = @ \/ SubOverflows(acc, divisor, rest), !.c = carry]
        BY <1>1, <2>2, <2>3, <2>6, Zenon DEF Conditional
      <3>3. Conditional(a, word) = [half EXCEPT !.ov = bit, !.c = carry]
        BY <2>5, <3>1, <3>2, Zenon
      <3>4. half = [a EXCEPT !.acc = left]
        BY <1>1, <2>4, Zenon
      <3> QED
        BY <3>3, <3>4, Zenon
    <2>8. [a EXCEPT !.acc = left, !.ov = bit, !.c = carry] \in AluRegs
      BY DEF AluRegs
    <2> QED
      BY <2>7, <2>8, Zenon
  <1>6. Absolute(a) \in AluRegs
    <2>1. CASE Signed(a.acc) >= 0
      BY <2>1, RegsTake DEF Absolute
    <2>2. CASE ~(Signed(a.acc) >= 0)
      <3>1. PICK least \in BOOLEAN : least = (acc = Full \div 2)
        OBVIOUS
      <3>2. PICK bit \in BOOLEAN : bit = (a.ov \/ least)
        <4>1. (a.ov \/ least) \in BOOLEAN
          BY <1>3
        <4> QED
          BY <4>1
      <3>3. PICK left \in AccWord : left = IF least /\ a.ovm THEN Full \div 2 - 1 ELSE Wrapped(-acc)
        <4>1. Full \div 2 - 1 \in AccWord
          BY <1>2 DEF AccWord
        <4> QED
          BY <4>1, <1>4
      <3>4. Absolute(a) = [a EXCEPT !.acc = left, !.ov = bit, !.c = 0]
        <4> DEFINE half == [a EXCEPT !.acc = left]
        <4>1. half.ov = a.ov
          BY DEF AluRegs
        <4>2. Absolute(a) = [half EXCEPT !.ov = @ \/ least, !.c = 0]
          BY <1>1, <2>2, <3>1, <3>3, Zenon DEF Absolute
        <4> QED
          BY <3>2, <4>1, <4>2, Zenon
      <3>5. [a EXCEPT !.acc = left, !.ov = bit, !.c = 0] \in AluRegs
        BY DEF AluRegs
      <3> QED
        BY <3>4, <3>5, Zenon
    <2> QED
      BY <2>1, <2>2
  <1>7. Negated(a) \in AluRegs
    <2>1. PICK least \in BOOLEAN : least = (acc = Full \div 2)
      OBVIOUS
    <2>2. PICK bit \in BOOLEAN : bit = (a.ov \/ least)
      <3>1. (a.ov \/ least) \in BOOLEAN
        BY <1>3
      <3> QED
        BY <3>1
    <2>3. PICK left \in AccWord :
              left = IF least THEN (IF a.ovm THEN Full \div 2 - 1 ELSE acc) ELSE Wrapped(-acc)
      <3>1. Full \div 2 - 1 \in AccWord
        BY <1>2 DEF AccWord
      <3> QED
        BY <3>1, <1>4
    <2>4. PICK carry \in {0, 1} : carry = IF left = 0 THEN 1 ELSE 0
      OBVIOUS
    <2>5. Negated(a) = [a EXCEPT !.acc = left, !.ov = bit, !.c = carry]
      <3> DEFINE half == [a EXCEPT !.acc = left]
      <3>1. half.ov = a.ov
        BY DEF AluRegs
      <3>2. Negated(a) = [half EXCEPT !.ov = @ \/ least, !.c = carry]
        BY <1>1, <2>1, <2>3, <2>4, Zenon DEF Negated
      <3> QED
        BY <2>2, <3>1, <3>2, Zenon
    <2>6. [a EXCEPT !.acc = left, !.ov = bit, !.c = carry] \in AluRegs
      BY DEF AluRegs
    <2> QED
      BY <2>5, <2>6, Zenon
  <1>8. Normalized(a) \in AluRegs
    BY <1>1, <1>4, FlagsTake DEF Normalized
  <1>9. ASSUME NEW in \in {0, 1} PROVE ShiftedLeft(a, in) \in AluRegs /\ ShiftedRight(a, in) \in AluRegs
    <2>1. Wrapped(acc * 2) + in \in AccWord
      <3>1. acc < Sign => Wrapped(acc * 2) = acc * 2
        BY <1>2, <1>3, WrapsOnce DEF AccWord
      <3>2. acc >= Sign => Wrapped(acc * 2) = acc * 2 - 2 * Sign
        <4>1. acc >= Sign => acc * 2 \in Full..(2 * Full - 1)
          BY <1>2, <1>3
        <4> QED
          BY <1>2, <1>3, <4>1, WrapsOnce
      <3> QED
        BY <1>2, <1>3, <3>1, <3>2 DEF AccWord
    <2>2. acc \div 2 + in * (Full \div 2) \in AccWord /\ acc % 2 \in {0, 1}
      BY <1>2, <1>3 DEF AccWord
    <2>3. TopBit(acc) \in {0, 1}
      BY <1>2, <1>3 DEF TopBit
    <2>4. ShiftedLeft(a, in) = [a EXCEPT !.acc = Wrapped(acc * 2) + in, !.c = TopBit(acc)]
      BY <1>1, Zenon DEF ShiftedLeft
    <2>5. ShiftedRight(a, in) = [a EXCEPT !.acc = acc \div 2 + in * (Full \div 2), !.c = acc % 2]
      BY <1>1, Zenon DEF ShiftedRight
    <2>6. \A v \in AccWord, carry \in {0, 1} : [a EXCEPT !.acc = v, !.c = carry] \in AluRegs
      BY DEF AluRegs
    <2> QED
      BY <2>1, <2>2, <2>3, <2>4, <2>5, <2>6, Zenon
  <1>10. TopBit(a.acc) \in {0, 1}
    BY <1>1, <1>2, <1>3 DEF TopBit
  <1>11. [a EXCEPT !.acc = Full - 1 - @] \in AluRegs
    <2>1. Full - 1 - acc \in AccWord
      BY <1>2, <1>3 DEF AccWord
    <2>2. [a EXCEPT !.acc = Full - 1 - acc] \in AluRegs
      BY <2>1, RegsTake
    <2> QED
      BY <1>1, <2>2, Zenon
  <1> QED
    BY <1>5, <1>6, <1>7, <1>8, <1>9, <1>10, <1>11

(* Every instruction leaves words in the registers, and what sums leaves what  *)
(* is promised of a sum.                                                       *)
AluInv == alu \in AluRegs
PromiseKept ==
    \/ aluLast' = Nothing
    \/ aluLast'.kind = "sum" /\ SumPromised(alu, alu', aluLast'.amount)
    \/ aluLast'.kind = "rest" /\ RestPromised(alu, alu', aluLast'.amount)

LEMMA AluBegins == AluInit => AluInv
  <1>1. 0 \in AccWord /\ 0 \in DataWord
    BY AluWidths DEF AccWord, DataWord
  <1> QED
    BY <1>1 DEF AluInit, AluInv, AluRegs

(* A transfer to T and P after the sum changes nothing that is promised.       *)
LEMMA SumsThenTake ==
    ASSUME NEW a \in AluRegs, NEW mid \in AluRegs, NEW t \in DataWord, NEW p \in AccWord, NEW amount
    PROVE  /\ [mid EXCEPT !.t = t] \in AluRegs /\ [mid EXCEPT !.t = t, !.p = p] \in AluRegs
           /\ SumPromised(a, mid, amount) => /\ SumPromised(a, [mid EXCEPT !.t = t], amount)
                                             /\ SumPromised(a, [mid EXCEPT !.t = t, !.p = p], amount)
           /\ RestPromised(a, mid, amount) => /\ RestPromised(a, [mid EXCEPT !.t = t], amount)
                                              /\ RestPromised(a, [mid EXCEPT !.t = t, !.p = p], amount)
  <1>1. [mid EXCEPT !.t = t] \in AluRegs /\ [mid EXCEPT !.t = t, !.p = p] \in AluRegs
    BY RegsTake
  <1>2. \A next \in {[mid EXCEPT !.t = t], [mid EXCEPT !.t = t, !.p = p]} :
            next.acc = mid.acc /\ next.ov = mid.ov /\ next.c = mid.c
    BY DEF AluRegs
  <1>3. ASSUME NEW next, next.acc = mid.acc /\ next.ov = mid.ov /\ next.c = mid.c, NEW exact, NEW carryOut,
               Promised(a, mid, exact, carryOut)
        PROVE  Promised(a, next, exact, carryOut)
    BY <1>3, Zenon DEF Promised
  <1> QED
    BY <1>1, <1>2, <1>3, Zenon DEF SumPromised, RestPromised

LEMMA AluSteps ==
    ASSUME AluInv, AluNext
    PROVE  AluInv' /\ PromiseKept
  <1>a. PICK a \in AluRegs : a = alu
    BY DEF AluInv
  <1>p. ASSUME NEW next, next \in AluRegs, Plain(next) PROVE AluInv' /\ PromiseKept
    BY <1>p, Zenon DEF Plain, ExecuteAlu, AluInv, PromiseKept
  <1>s. ASSUME NEW next, NEW amount, next \in AluRegs, SumPromised(a, next, amount), Sums(next, "sum", amount)
        PROVE  AluInv' /\ PromiseKept
    <2>1. alu' = next /\ aluLast' = [kind |-> "sum", amount |-> amount]
      BY <1>s, Zenon DEF Sums, ExecuteAlu
    <2>2. aluLast'.kind = "sum" /\ aluLast'.amount = amount
      BY <2>1
    <2> QED
      BY <1>a, <1>s, <2>1, <2>2, Zenon DEF AluInv, PromiseKept
  <1>r. ASSUME NEW next, NEW amount, next \in AluRegs, RestPromised(a, next, amount), Sums(next, "rest", amount)
        PROVE  AluInv' /\ PromiseKept
    <2>1. alu' = next /\ aluLast' = [kind |-> "rest", amount |-> amount]
      BY <1>r, Zenon DEF Sums, ExecuteAlu
    <2>2. aluLast'.kind = "rest" /\ aluLast'.amount = amount
      BY <2>1
    <2> QED
      BY <1>a, <1>r, <2>1, <2>2, Zenon DEF AluInv, PromiseKept
  <1>t. a.t \in DataWord /\ a.sxm \in BOOLEAN /\ a.p \in AccWord /\ a.c \in {0, 1} /\ a.acc \in AccWord
    BY RegsTake
  <1>q. ShiftedProduct(a) \in AccWord
    BY ProductsAreWords
  <1>1. ASSUME Unary PROVE AluInv' /\ PromiseKept
    <2>1. /\ Absolute(a) \in AluRegs /\ Negated(a) \in AluRegs /\ Normalized(a) \in AluRegs
          /\ ShiftedLeft(a, 0) \in AluRegs /\ ShiftedLeft(a, a.c) \in AluRegs
          /\ ShiftedRight(a, a.c) \in AluRegs /\ ShiftedRight(a, IF a.sxm THEN TopBit(a.acc) ELSE 0) \in AluRegs
          /\ [a EXCEPT !.acc = Full - 1 - @] \in AluRegs
      <3>1. PICK in \in {0, 1} : in = IF a.sxm THEN TopBit(a.acc) ELSE 0
        BY OthersAreRegs
      <3> QED
        BY <1>t, <3>1, OthersAreRegs
    <2> QED
      BY <1>1, <1>a, <1>p, <2>1, Zenon DEF Unary
  <1>2. ASSUME SetMode PROVE AluInv' /\ PromiseKept
    <2>1. \A bit \in BOOLEAN : /\ [a EXCEPT !.ovm = bit] \in AluRegs /\ [a EXCEPT !.sxm = bit] \in AluRegs
                               /\ [a EXCEPT !.ov = bit, !.ovm = bit] \in AluRegs
      BY FlagsTake
    <2>2. [a EXCEPT !.ov = FALSE] \in AluRegs
      BY DEF AluRegs
    <2>3. /\ \A shift \in 0..3 : [a EXCEPT !.pm = shift] \in AluRegs
          /\ \A bit \in 0..1 : [a EXCEPT !.c = bit] \in AluRegs
      BY DEF AluRegs
    <2> QED
      BY <1>2, <1>a, <1>p, <2>1, <2>2, <2>3, Zenon DEF SetMode
  <1>3. ASSUME NEW word \in DataWord, AddCarried(word) \/ SubBorrowed(word) PROVE AluInv' /\ PromiseKept
    <2>1. AddedWithCarry(a, word) \in AluRegs /\ SumPromised(a, AddedWithCarry(a, word), word + a.c)
      BY CarriedSums
    <2>2. SubtractedWithBorrow(a, word) \in AluRegs /\ RestPromised(a, SubtractedWithBorrow(a, word), word + 1 - a.c)
      BY BorrowedSums
    <2> QED
      BY <1>3, <1>a, <1>s, <1>r, <2>1, <2>2, Zenon DEF AddCarried, SubBorrowed
  <1>4. ASSUME NEW word \in DataWord, AddHigh(word) \/ SubHigh(word) PROVE AluInv' /\ PromiseKept
    BY <1>4, <1>a, <1>p, HighSums, Zenon DEF AddHigh, SubHigh
  <1>5. ASSUME NEW word \in DataWord, Subc(word) PROVE AluInv' /\ PromiseKept
    <2>1. Conditional(a, word) \in AluRegs
      BY OthersAreRegs
    <2> QED
      BY <1>5, <1>a, <2>1, Zenon DEF Subc, ExecuteAlu, AluInv, PromiseKept
  <1>6. ASSUME NEW word \in DataWord,
               Multiply(word) \/ LoadHigh(word) \/ LoadT(word) \/ LoadP(word) \/ TakeProduct(word)
        PROVE  AluInv' /\ PromiseKept
    <2>1. Product(a.t, word) \in AccWord /\ Wrapped(a.t * word) \in AccWord
      BY <1>t, OperandsAreWords
    <2>2. 0 \in DataWord /\ Low(a.p) \in DataWord
      BY <1>t, HalvesOf, AluWidths DEF DataWord
    <2>3. word * Half \in AccWord /\ word * Half + Half \div 2 \in AccWord /\ word * Half + Low(a.p) \in AccWord
      BY <2>2, Halves
    <2>4. /\ [a EXCEPT !.p = Product(a.t, word)] \in AluRegs /\ [a EXCEPT !.p = Wrapped(a.t * word)] \in AluRegs
          /\ [a EXCEPT !.acc = word * Half] \in AluRegs /\ [a EXCEPT !.acc = word * Half + Half \div 2] \in AluRegs
          /\ [a EXCEPT !.t = word] \in AluRegs /\ [a EXCEPT !.p = word * Half + Low(a.p)] \in AluRegs
          /\ [a EXCEPT !.t = word, !.acc = ShiftedProduct(a)] \in AluRegs
      BY <1>q, <2>1, <2>3, RegsTake
    <2> QED
      BY <1>6, <1>a, <1>p, <2>4, Zenon DEF Multiply, LoadHigh, LoadT, LoadP, TakeProduct
  <1>7. /\ Added(a, ShiftedProduct(a)) \in AluRegs /\ Subtracted(a, ShiftedProduct(a)) \in AluRegs
        /\ SumPromised(a, Added(a, ShiftedProduct(a)), Signed(ShiftedProduct(a)))
        /\ RestPromised(a, Subtracted(a, ShiftedProduct(a)), Signed(ShiftedProduct(a)))
    BY <1>q, AddedSums, SubtractedSums
  <1>8. ASSUME NEW t \in DataWord, AddProduct(t) \/ SubProduct(t) PROVE AluInv' /\ PromiseKept
    <2>1. /\ [Added(a, ShiftedProduct(a)) EXCEPT !.t = t] \in AluRegs
          /\ [Subtracted(a, ShiftedProduct(a)) EXCEPT !.t = t] \in AluRegs
          /\ SumPromised(a, [Added(a, ShiftedProduct(a)) EXCEPT !.t = t], Signed(ShiftedProduct(a)))
          /\ RestPromised(a, [Subtracted(a, ShiftedProduct(a)) EXCEPT !.t = t], Signed(ShiftedProduct(a)))
      BY <1>7, <1>t, SumsThenTake
    <2> QED
      BY <1>8, <1>a, <1>s, <1>r, <2>1, Zenon DEF AddProduct, SubProduct
  <1>9. ASSUME NEW word \in DataWord, NEW t \in {a.t, word}, Accumulate(t, word) \/ Deduct(t, word)
        PROVE  AluInv' /\ PromiseKept
    <2>1. t \in DataWord
      BY <1>t
    <2>2. Product(t, word) \in AccWord
      BY <2>1, OperandsAreWords
    <2>3. /\ [Added(a, ShiftedProduct(a)) EXCEPT !.t = t, !.p = Product(t, word)] \in AluRegs
          /\ [Subtracted(a, ShiftedProduct(a)) EXCEPT !.t = t, !.p = Product(t, word)] \in AluRegs
          /\ SumPromised(a, [Added(a, ShiftedProduct(a)) EXCEPT !.t = t, !.p = Product(t, word)],
                         Signed(ShiftedProduct(a)))
          /\ RestPromised(a, [Subtracted(a, ShiftedProduct(a)) EXCEPT !.t = t, !.p = Product(t, word)],
                          Signed(ShiftedProduct(a)))
      BY <1>7, <2>1, <2>2, SumsThenTake
    <2> QED
      BY <1>9, <1>a, <1>s, <1>r, <2>3, Zenon DEF Accumulate, Deduct
  <1>10. ASSUME NEW word \in DataWord, NEW shift \in 0..(HalfBits - 1), NEW extend \in {a.sxm, FALSE},
                AddWord(word, shift, extend) \/ SubWord(word, shift, extend) \/ LoadAcc(word, shift, extend)
         PROVE  AluInv' /\ PromiseKept
    <2>1. extend \in BOOLEAN
      BY <1>t
    <2>2. Operand(word, shift, extend) \in AccWord
      BY <2>1, OperandsAreWords
    <2>3. /\ Added(a, Operand(word, shift, extend)) \in AluRegs
          /\ SumPromised(a, Added(a, Operand(word, shift, extend)), Signed(Operand(word, shift, extend)))
          /\ Subtracted(a, Operand(word, shift, extend)) \in AluRegs
          /\ RestPromised(a, Subtracted(a, Operand(word, shift, extend)), Signed(Operand(word, shift, extend)))
          /\ [a EXCEPT !.acc = Operand(word, shift, extend)] \in AluRegs
      BY <2>2, AddedSums, SubtractedSums, RegsTake
    <2> QED
      BY <1>10, <1>a, <1>p, <1>s, <1>r, <2>3, Zenon DEF AddWord, SubWord, LoadAcc
  <1> QED
    BY <1>1, <1>2, <1>3, <1>4, <1>5, <1>6, <1>8, <1>9, <1>10, <1>a, <1>t, Zenon DEF AluNext

LEMMA AluKept == AluInv /\ [AluNext]_aluvars => AluInv'
  <1>1. AluInv /\ AluNext => AluInv'
    BY AluSteps
  <1>2. AluInv /\ UNCHANGED aluvars => AluInv'
    BY DEF AluInv, aluvars
  <1> QED
    BY <1>1, <1>2

LEMMA AluSums == AluInv /\ [AluNext]_aluvars => [SummedExactly]_aluvars
  <1> SUFFICES ASSUME AluInv, AluNext PROVE SummedExactly
    OBVIOUS
  <1>1. PromiseKept
    BY AluSteps
  <1>2. CASE aluLast' = Nothing
    BY <1>2 DEF Nothing, SummedExactly
  <1>3. CASE aluLast'.kind = "sum" /\ SumPromised(alu, alu', aluLast'.amount)
    BY <1>3, Zenon DEF SummedExactly, SumPromised, Promised, Exact, Unsigned, CarryOut, UnsignedOf
  <1>4. CASE aluLast'.kind = "rest" /\ RestPromised(alu, alu', aluLast'.amount)
    <2>1. aluLast'.kind # "sum"
      BY <1>4
    <2> QED
      BY <1>4, <2>1, Zenon DEF SummedExactly, RestPromised, Promised, Exact, Unsigned, CarryOut, UnsignedOf
  <1> QED
    BY <1>1, <1>2, <1>3, <1>4 DEF PromiseKept

-----------------------------------------------------------------------------
(* The division of the TMS320C25.                                              *)

(* After k steps the high bits are what is left of the dividend, the low ones  *)
(* the bits of the quotient so far.                                           *)
DividedBy(acc, a, b, dividend, divisor) ==
    \E q \in Nat, s \in Nat :
        q < a /\ s < divisor * b /\ dividend = s + q * (divisor * b) /\ acc = a * s + q

(* One more bit: the divisor is compared with what is left.                    *)
LEMMA DivisionStep ==
    ASSUME NEW a \in Nat \ {0}, NEW b \in Nat \ {0}, NEW d \in Nat \ {0}, NEW dividend \in Nat, NEW acc,
           DividedBy(acc, a, 2 * b, dividend, d),
           NEW m, m = d * (a * b),
           NEW next, next = IF acc >= m THEN 2 * (acc - m) + 1 ELSE 2 * acc
    PROVE  acc \in Nat /\ m \in Nat /\ next \in Nat /\ next < 2 * m /\ DividedBy(next, 2 * a, b, dividend, d)
  <1>1. PICK q \in Nat, s \in Nat :
           q < a /\ s < d * (2 * b) /\ dividend = s + q * (d * (2 * b)) /\ acc = a * s + q
    BY DEF DividedBy
  <1>2. PICK c \in Nat \ {0} : c = d * b
    OBVIOUS
  <1>3. d * (2 * b) = 2 * c /\ m = a * c
    BY <1>2
  <1>4. s < 2 * c /\ dividend = s + q * (2 * c)
    BY <1>1, <1>3
  <1>5. acc \in Nat /\ m \in Nat
    BY <1>1, <1>3
  <1>6. CASE s >= c
    <2>1. PICK r \in Nat : s = c + r
      <3>1. s - c \in Nat /\ s = c + (s - c)
        BY <1>6
      <3> QED
        BY <3>1
    <2>2. a * s = a * c + a * r
      BY <2>1
    <2>3. PICK x \in Nat, y \in Nat, z \in Nat : x = a * c /\ y = a * r /\ z = a * s
      OBVIOUS
    <2>4. acc = m + y + q /\ acc >= m
      BY <1>1, <1>3, <2>2, <2>3
    <2>5. next = 2 * y + (2 * q + 1)
      BY <1>3, <2>3, <2>4
    <2>6. next = (2 * a) * r + (2 * q + 1)
      BY <2>3, <2>5
    <2>7. 2 * q + 1 < 2 * a /\ r < c /\ 2 * q + 1 \in Nat
      BY <1>1, <1>4, <2>1
    <2>8. dividend = r + (2 * q + 1) * c
      <3>1. q * (2 * c) = 2 * (q * c) /\ (2 * q + 1) * c = 2 * (q * c) + c
        OBVIOUS
      <3>2. PICK w \in Nat : w = q * c
        OBVIOUS
      <3> QED
        BY <1>4, <2>1, <3>1, <3>2
    <2>9. next < 2 * m
      <3>1. r + 1 <= c /\ a * (r + 1) <= a * c /\ a * (r + 1) = a * r + a
        BY <2>7
      <3> QED
        BY <1>1, <1>3, <2>3, <2>5, <3>1
    <2> QED
      BY <1>2, <1>5, <2>5, <2>6, <2>7, <2>8, <2>9 DEF DividedBy
  <1>7. CASE s < c
    <2>1. s + 1 <= c /\ a * (s + 1) <= a * c /\ a * (s + 1) = a * s + a
      BY <1>7
    <2>2. PICK x \in Nat, z \in Nat : x = a * c /\ z = a * s
      OBVIOUS
    <2>3. acc < m /\ next = 2 * z + 2 * q /\ next < 2 * m
      BY <1>1, <1>3, <1>5, <2>1, <2>2
    <2>4. next = (2 * a) * s + 2 * q
      BY <2>2, <2>3
    <2>5. dividend = s + (2 * q) * c
      <3>1. q * (2 * c) = (2 * q) * c
        OBVIOUS
      <3> QED
        BY <1>4, <3>1
    <2>6. 2 * q < 2 * a /\ 2 * q \in Nat /\ next \in Nat
      BY <1>1, <2>2, <2>3
    <2> QED
      BY <1>2, <1>5, <1>7, <2>3, <2>4, <2>5, <2>6 DEF DividedBy
  <1> QED
    BY <1>4, <1>6, <1>7

LEMMA DivisionEnds ==
    ASSUME NEW d \in Nat \ {0}, NEW dividend \in Nat, NEW acc \in AccWord,
           DividedBy(acc, Half, 1, dividend, d), d < Half
    PROVE  Low(acc) = dividend \div d /\ High(acc) = dividend % d
  <1>1. PICK h \in Nat \ {0} : h = Half
    BY AluWidths
  <1>2. PICK q \in Nat, s \in Nat :
           q < h /\ s < d * 1 /\ dividend = s + q * (d * 1) /\ acc = h * s + q
    BY <1>1 DEF DividedBy
  <1>3. ASSUME NEW n \in Nat \ {0}, NEW u \in Nat, NEW v \in Nat, v < n
        PROVE  (u * n + v) \div n = u /\ (u * n + v) % n = v
    <2>1. PICK w \in Nat : w = u * n
      OBVIOUS
    <2>2. PICK x \in Int, y \in 0..(n - 1) : x = (w + v) \div n /\ y = (w + v) % n /\ w + v = x * n + y
      <3>1. (w + v) \div n \in Int /\ (w + v) % n \in 0..(n - 1) /\ w + v = ((w + v) \div n) * n + ((w + v) % n)
        OBVIOUS
      <3> QED
        BY <3>1
    <2>3. x = u
      <3>1. CASE x < u
        <4>1. PICK e \in Nat : u = x + 1 + e
          <5>1. u - x - 1 \in Nat /\ u = x + 1 + (u - x - 1)
            BY <3>1
          <5> QED
            BY <5>1
        <4>2. u * n = x * n + n + e * n /\ e * n >= 0
          BY <4>1
        <4>3. PICK c \in Int, f \in Int : c = x * n /\ f = e * n
          OBVIOUS
        <4> QED
          BY <1>3, <2>1, <2>2, <4>2, <4>3
      <3>2. CASE x > u
        <4>1. PICK e \in Nat : x = u + 1 + e
          <5>1. x - u - 1 \in Nat /\ x = u + 1 + (x - u - 1)
            BY <3>2
          <5> QED
            BY <5>1
        <4>2. x * n = u * n + n + e * n /\ e * n >= 0
          BY <4>1
        <4>3. PICK c \in Int, f \in Int : c = x * n /\ f = e * n
          OBVIOUS
        <4> QED
          BY <1>3, <2>1, <2>2, <4>2, <4>3
      <3> QED
        BY <3>1, <3>2
    <2>4. y = v
      BY <2>1, <2>2, <2>3
    <2> QED
      BY <2>1, <2>2, <2>3, <2>4
  <1>4. acc = s * h + q /\ dividend = q * d + s /\ s < d /\ s < h
    BY <1>1, <1>2
  <1>5. acc \div h = s /\ acc % h = q
    <2>1. (s * h + q) \div h = s /\ (s * h + q) % h = q
      BY <1>2, <1>3, Zenon
    <2> QED
      BY <1>4, <2>1, Zenon
  <1>6. dividend \div d = q /\ dividend % d = s
    <2>1. (q * d + s) \div d = q /\ (q * d + s) % d = s
      BY <1>3, <1>4, Zenon
    <2> QED
      BY <1>4, <2>1, Zenon
  <1> QED
    BY <1>1, <1>5, <1>6 DEF Low, High

(* What the divisions hold between two instructions.                           *)
DivInv ==
    /\ aluDivision.steps \in 0..HalfBits
    /\ aluDivision.steps >= 1 => aluDivision.dividend \in AccWord /\ aluDivision.divisor \in DataWord
    /\ (/\ aluDivision.steps >= 1 /\ aluDivision.dividend < Half
        /\ aluDivision.divisor > 0 /\ aluDivision.divisor < Half \div 2)
       => /\ 2^aluDivision.steps * 2^(HalfBits - aluDivision.steps) = Half
          /\ DividedBy(alu.acc, 2^aluDivision.steps, 2^(HalfBits - aluDivision.steps),
                       aluDivision.dividend, aluDivision.divisor)

(* A SUBC is a step of the division.                                           *)
LEMMA SubcDivides ==
    ASSUME NEW a \in AluRegs, NEW k \in 0..(HalfBits - 1), NEW dividend \in Nat, NEW d \in DataWord,
           d > 0, d < Half \div 2, 2^k * 2^(HalfBits - k) = Half,
           DividedBy(a.acc, 2^k, 2^(HalfBits - k), dividend, d)
    PROVE  /\ 2^(k + 1) * 2^(HalfBits - (k + 1)) = Half
           /\ DividedBy(Conditional(a, d).acc, 2^(k + 1), 2^(HalfBits - (k + 1)), dividend, d)
  <1>1. PICK i \in 0..(HalfBits - 1) : i = HalfBits - (k + 1)
    <2>1. HalfBits - (k + 1) \in 0..(HalfBits - 1)
      BY PowersOfTwo
    <2> QED
      BY <2>1
  <1>2. HalfBits - k = i + 1 /\ k \in 0..HalfBits /\ i \in 0..HalfBits
    BY <1>1, PowersOfTwo
  <1>3. PICK p \in Nat \ {0}, b \in Nat \ {0} : p = 2^k /\ b = 2^i
    BY <1>2, PowersOfTwo
  <1>4. 2^(k + 1) = 2 * p /\ 2^(HalfBits - k) = 2 * b
    BY <1>2, <1>3, PowersOfTwo
  <1>5. p * (2 * b) = Half /\ DividedBy(a.acc, p, 2 * b, dividend, d)
    BY <1>3, <1>4
  <1>6. d \in Nat \ {0} /\ SignedWord(d) = d
    BY AluWidths DEF DataWord, SignedWord
  <1>7. 2^(HalfBits - 1) = p * b
    <2>1. HalfBits - 1 \in 0..(HalfBits - 1) /\ HalfBits - 1 \in 0..HalfBits /\ HalfBits - 1 + 1 = HalfBits
      BY PowersOfTwo
    <2>2. Half = 2 * 2^(HalfBits - 1)
      BY <2>1, PowersOfTwo DEF Half
    <2>3. p * (2 * b) = 2 * (p * b)
      OBVIOUS
    <2>4. 2^(HalfBits - 1) \in Nat
      BY <2>1, PowersOfTwo
    <2> QED
      BY <1>5, <2>2, <2>3, <2>4
  <1>8. PICK m : m = d * (p * b)
    OBVIOUS
  <1>9. PICK next : next = IF a.acc >= m THEN 2 * (a.acc - m) + 1 ELSE 2 * a.acc
    OBVIOUS
  <1>10. /\ a.acc \in Nat /\ m \in Nat /\ next \in Nat /\ next < 2 * m
         /\ DividedBy(next, 2 * p, b, dividend, d)
    BY <1>5, <1>6, <1>8, <1>9, DivisionStep
  <1>11. 2 * m < Full
    <2>1. 2 * m = d * Half
      BY <1>5, <1>6, <1>8
    <2>2. PICK h \in Nat \ {0} : h = Half /\ h * h = Full /\ h \div 2 \in Nat
      BY AluWidths
    <2>3. d < h
      BY <1>6, <2>2
    <2>4. d + 1 <= h /\ (d + 1) * h <= h * h /\ (d + 1) * h = d * h + h
      BY <1>6, <2>3
    <2>5. PICK x \in Int, y \in Int : x = d * h /\ y = h * h
      BY <1>6
    <2> QED
      BY <2>1, <2>2, <2>4, <2>5
  <1>12. Operand(d, DivisorShift, a.sxm) = m
    <2>1. Operand(d, DivisorShift, a.sxm) = Wrapped(d * (p * b))
      BY <1>6, <1>7 DEF Operand, DivisorShift
    <2>2. m \in AccWord
      BY <1>10, <1>11, AluWidths DEF AccWord
    <2> QED
      BY <1>8, <1>10, <2>1, <2>2, WrapsOnce
  <1>13. Conditional(a, d).acc = next
    <2>1. Conditional(a, d).acc
            = IF a.acc >= m THEN Wrapped(Wrapped(a.acc - m) * 2 + 1) ELSE Wrapped(a.acc * 2)
      BY <1>12 DEF Conditional, AluRegs
    <2>2. next \in AccWord
      BY <1>10, <1>11, AluWidths DEF AccWord
    <2>3. CASE a.acc >= m
      <3>1. a.acc - m \in AccWord
        <4>1. a.acc \in AccWord /\ Full \in Nat
          BY RegsTake, AluWidths
        <4> QED
          BY <1>10, <2>3, <4>1 DEF AccWord
      <3>2. Wrapped(a.acc - m) = a.acc - m /\ (a.acc - m) * 2 + 1 = next
        BY <1>9, <1>10, <2>3, <3>1, WrapsOnce
      <3>3. Wrapped(next) = next
        BY <1>10, <2>2, WrapsOnce
      <3> QED
        BY <2>1, <2>3, <3>2, <3>3
    <2>4. CASE ~(a.acc >= m)
      <3>1. a.acc * 2 = next
        BY <1>9, <1>10, <2>4
      <3>2. Wrapped(next) = next
        BY <1>10, <2>2, WrapsOnce
      <3> QED
        BY <2>1, <2>4, <3>1, <3>2
    <2> QED
      BY <2>3, <2>4
  <1> QED
    BY <1>1, <1>3, <1>4, <1>5, <1>10, <1>13

LEMMA DivBegins == AluInit => DivInv
  <1>1. HalfBits \in Nat
    BY PowersOfTwo
  <1> QED
    BY <1>1 DEF AluInit, DivInv, NoDivision

LEMMA DivSteps ==
    ASSUME AluInv, DivInv, AluNext
    PROVE  DivInv'
  <1>a. PICK a \in AluRegs : a = alu
    BY DEF AluInv
  <1>n. HalfBits \in Nat /\ HalfBits >= 1
    BY PowersOfTwo
  <1>1. ASSUME NEW word \in DataWord, Subc(word) PROVE DivInv'
    <2> DEFINE same == aluDivision.steps \in 1..(HalfBits - 1) /\ aluDivision.divisor = word
    <2>1. PICK k, dividend :
             /\ k = IF same THEN aluDivision.steps ELSE 0
             /\ dividend = IF same THEN aluDivision.dividend ELSE a.acc
      OBVIOUS
    <2>2. k \in 0..(HalfBits - 1) /\ dividend \in AccWord
      <3>1. CASE same
        <4>1. aluDivision.dividend \in AccWord
          BY <1>n, <3>1 DEF DivInv
        <4> QED
          BY <1>n, <2>1, <3>1, <4>1
      <3>2. CASE ~same
        <4>1. a.acc \in AccWord
          BY RegsTake
        <4> QED
          BY <1>n, <2>1, <3>2, <4>1
      <3> QED
        BY <3>1, <3>2
    <2>3. alu' = Conditional(a, word)
      BY <1>1, <1>a, Zenon DEF Subc, ExecuteAlu
    <2>4. aluDivision'.steps = k + 1 /\ aluDivision'.dividend = dividend /\ aluDivision'.divisor = word
      <3>1. aluDivision' = [steps |-> IF same THEN aluDivision.steps + 1 ELSE 1, divisor |-> word,
                            dividend |-> IF same THEN aluDivision.dividend ELSE a.acc]
        BY <1>1, <1>a, Zenon DEF Subc, ExecuteAlu
      <3>2. k + 1 = IF same THEN aluDivision.steps + 1 ELSE 1
        BY <2>1
      <3> QED
        BY <2>1, <3>1, <3>2
    <2>5. ASSUME dividend < Half, word > 0, word < Half \div 2
          PROVE  /\ 2^(k + 1) * 2^(HalfBits - (k + 1)) = Half
                 /\ DividedBy(Conditional(a, word).acc, 2^(k + 1), 2^(HalfBits - (k + 1)), dividend, word)
      <3>1. dividend \in Nat /\ word \in Nat /\ a.acc \in Nat
        <4>1. a.acc \in AccWord
          BY RegsTake
        <4> QED
          BY <2>2, <4>1, AluWidths DEF AccWord, DataWord
      <3>2. 2^k * 2^(HalfBits - k) = Half /\ DividedBy(a.acc, 2^k, 2^(HalfBits - k), dividend, word)
        <4>1. CASE same
          BY <1>a, <2>1, <2>5, <4>1 DEF DivInv
        <4>2. CASE ~same
          <5>1. k = 0 /\ dividend = a.acc /\ HalfBits - k = HalfBits
            BY <1>n, <2>1, <4>2
          <5>2. PICK h \in Nat \ {0} : h = Half
            BY AluWidths
          <5>3. 2^k = 1 /\ 2^(HalfBits - k) = h
            BY <5>1, <5>2, PowersOfTwo DEF Half
          <5>4. a.acc < word * h
            <6>1. word * h >= h
              BY <3>1, <2>5
            <6>2. PICK x \in Int : x = word * h
              BY <3>1
            <6> QED
              BY <2>5, <3>1, <5>1, <5>2, <6>1, <6>2
          <5>5. a.acc = a.acc + 0 * (word * h) /\ a.acc = 1 * a.acc + 0 /\ 1 * h = h /\ 0 < 1
            BY <3>1
          <5>6. DividedBy(a.acc, 1, h, a.acc, word)
            BY <3>1, <5>4, <5>5, Zenon DEF DividedBy
          <5> QED
            BY <5>1, <5>2, <5>3, <5>5, <5>6
        <4> QED
          BY <4>1, <4>2
      <3> QED
        BY <2>2, <2>5, <3>1, <3>2, SubcDivides
    <2>6. k + 1 \in 0..HalfBits
      BY <1>n, <2>2
    <2> QED
      BY <2>2, <2>3, <2>4, <2>5, <2>6, Zenon DEF DivInv
  <1>2. ASSUME aluDivision' = NoDivision PROVE DivInv'
    BY <1>2, <1>n DEF DivInv, NoDivision
  <1>3. aluDivision' = NoDivision \/ \E word \in DataWord : Subc(word)
    BY Zenon DEF AluNext, Unary, SetMode, AddCarried, SubBorrowed, AddHigh, SubHigh, Multiply, LoadHigh, LoadT, LoadP,
           TakeProduct, AddProduct, SubProduct, Accumulate, Deduct, AddWord, SubWord, LoadAcc, Plain, Sums, ExecuteAlu
  <1> QED
    BY <1>1, <1>2, <1>3

LEMMA DivKept == AluInv /\ DivInv /\ [AluNext]_aluvars => DivInv'
  <1>1. AluInv /\ DivInv /\ AluNext => DivInv'
    BY DivSteps
  <1>2. DivInv /\ UNCHANGED aluvars => DivInv'
    BY DEF DivInv, aluvars
  <1> QED
    BY <1>1, <1>2

LEMMA DivDivides == AluInv /\ DivInv => Divides
  <1> SUFFICES ASSUME AluInv, DivInv, aluDivision.steps = HalfBits, aluDivision.dividend < Half,
                      aluDivision.divisor > 0, aluDivision.divisor < Half \div 2
               PROVE  /\ Low(alu.acc) = aluDivision.dividend \div aluDivision.divisor
                      /\ High(alu.acc) = aluDivision.dividend % aluDivision.divisor
    BY DEF Divides
  <1>1. PICK dividend \in AccWord, d \in DataWord, acc \in AccWord :
           dividend = aluDivision.dividend /\ d = aluDivision.divisor /\ acc = alu.acc
    BY PowersOfTwo, RegsTake DEF DivInv, AluInv
  <1>2. HalfBits \in Nat /\ HalfBits >= 1 /\ HalfBits - HalfBits = 0 /\ 2^0 = 1
    BY PowersOfTwo
  <1>3. DividedBy(acc, Half, 1, dividend, d)
    BY <1>1, <1>2 DEF DivInv, Half
  <1>4. d \in Nat \ {0} /\ dividend \in Nat /\ d < Half
    BY <1>1, AluWidths DEF AccWord, DataWord
  <1> QED
    BY <1>1, <1>3, <1>4, DivisionEnds

=============================================================================
