----------------------------- MODULE BoardProofs ------------------------------
(* Proofs about the sessions of Xbox 360 and System 246 and the link of two     *)
(* cabinets of System 22, and then, from the invariants of all the parts, what *)
(* the runs check of whichever part plays.                                    *)
EXTENDS MCBoards, SegaProofs, System22Proofs, FiniteSetTheorems, TLAPS

-----------------------------------------------------------------------------
(* The sound of an Xbox 360 title.                                             *)

Packet == [driver : Drivers, number : Nat, read : Nat]
(* How many packets of a mailbox are a driver's.                               *)
Of(packets, d) == { i \in DOMAIN packets : packets[i].driver = d }

(* The packets of a driver are counted with a finite number.                   *)
LEMMA OfIsFinite ==
    ASSUME NEW packets \in Seq(Packet), NEW d
    PROVE  IsFiniteSet(Of(packets, d)) /\ Cardinality(Of(packets, d)) \in Nat
  <1>1. Of(packets, d) \in SUBSET (1..Len(packets)) /\ IsFiniteSet(1..Len(packets))
    BY FS_Interval DEF Of
  <1> QED
    BY <1>1, FS_Subset, FS_CardinalityType

(* One more packet is one more of its driver.                                  *)
LEMMA OfAppend ==
    ASSUME NEW packets \in Seq(Packet), NEW packet \in Packet, NEW d
    PROVE  Cardinality(Of(Append(packets, packet), d))
             = Cardinality(Of(packets, d)) + (IF packet.driver = d THEN 1 ELSE 0)
  <1> DEFINE n == Len(packets)
             more == Append(packets, packet)
  <1>1. /\ n \in Nat /\ DOMAIN packets = 1..n /\ DOMAIN more = 1..(n + 1)
        /\ \A i \in 1..n : more[i] = packets[i]
        /\ more[n + 1] = packet
    OBVIOUS
  <1> HIDE DEF more, n
  <1>2. CASE packet.driver = d
    <2>1. Of(more, d) = Of(packets, d) \cup {n + 1} /\ n + 1 \notin Of(packets, d)
      BY <1>1, <1>2 DEF Of
    <2>2. Cardinality(Of(more, d)) = Cardinality(Of(packets, d)) + 1
      BY <2>1, OfIsFinite, FS_AddElement
    <2> QED
      BY <1>2, <2>2 DEF more
  <1>3. CASE packet.driver # d
    <2>1. Of(more, d) = Of(packets, d)
      BY <1>1, <1>3 DEF Of
    <2> QED
      BY <1>3, <2>1, OfIsFinite DEF more
  <1> QED
    BY <1>2, <1>3

(* What is taken from the front and what is left are what there was.           *)
LEMMA OfSplit ==
    ASSUME NEW packets \in Seq(Packet), NEW m \in 0..Len(packets), NEW d
    PROVE  /\ SubSeq(packets, 1, m) \in Seq(Packet) /\ SubSeq(packets, m + 1, Len(packets)) \in Seq(Packet)
           /\ Cardinality(Of(packets, d))
                = Cardinality(Of(SubSeq(packets, 1, m), d)) + Cardinality(Of(SubSeq(packets, m + 1, Len(packets)), d))
  <1> DEFINE n == Len(packets)
             front == SubSeq(packets, 1, m)
             back == SubSeq(packets, m + 1, n)
             behind == { i \in Of(packets, d) : i > m }
  <1>1. /\ n \in Nat /\ m \in Nat /\ m <= n /\ DOMAIN packets = 1..n
        /\ \A i \in 1..n : packets[i] \in Packet
    OBVIOUS
  <1>2. /\ front \in Seq(Packet) /\ DOMAIN front = 1..m
        /\ \A i \in 1..m : front[i] = packets[i]
    OBVIOUS
  <1>3. /\ back \in Seq(Packet) /\ DOMAIN back = 1..(n - m)
        /\ \A i \in 1..(n - m) : back[i] = packets[i + m]
    OBVIOUS
  <1> HIDE DEF n, front, back
  <1>4. Of(packets, d) = Of(front, d) \cup behind /\ Of(front, d) \cap behind = {}
    BY <1>1, <1>2 DEF Of
  <1>5. IsFiniteSet(Of(packets, d)) /\ IsFiniteSet(Of(front, d)) /\ IsFiniteSet(Of(back, d)) /\ IsFiniteSet(behind)
        /\ Cardinality(Of(front, d)) \in Nat /\ Cardinality(Of(back, d)) \in Nat /\ Cardinality(behind) \in Nat
    <2>1. behind \in SUBSET Of(packets, d)
      OBVIOUS
    <2> QED
      BY <1>2, <1>3, <2>1, OfIsFinite, FS_Subset, FS_CardinalityType
  <1>6. Cardinality(behind) = Cardinality(Of(back, d))
    <2> DEFINE shift == [i \in Of(back, d) |-> i + m]
    <2>1. ASSUME NEW i \in Of(back, d) PROVE i \in Nat /\ i + m \in behind
      BY <1>1, <1>3 DEF Of
    <2>2. ASSUME NEW j \in behind PROVE j - m \in Of(back, d) /\ (j - m) + m = j
      BY <1>1, <1>3 DEF Of
    <2>3. shift \in Bijection(Of(back, d), behind)
      <3>1. shift \in [Of(back, d) -> behind]
        BY <2>1
      <3>2. \A i, j \in Of(back, d) : shift[i] = shift[j] => i = j
        BY <1>1, <2>1
      <3>3. \A j \in behind : \E i \in Of(back, d) : shift[i] = j
        BY <2>2
      <3> QED
        BY <3>1, <3>2, <3>3 DEF Bijection, Injection, Surjection, IsInjective
    <2> QED
      BY <1>5, <2>3, FS_Bijection DEF ExistsBijection
  <1>7. Cardinality(Of(front, d) \cup behind) = Cardinality(Of(front, d)) + Cardinality(behind)
    <2>1. Cardinality({}) = 0
      BY FS_EmptySet
    <2>2. Cardinality(Of(front, d) \cup behind)
            = Cardinality(Of(front, d)) + Cardinality(behind) - Cardinality(Of(front, d) \cap behind)
      BY <1>5, FS_Union
    <2>3. Cardinality(Of(front, d) \cap behind) = 0
      BY <1>4, <2>1
    <2> QED
      BY <1>5, <2>2, <2>3
  <1> QED
    BY <1>1, <1>2, <1>3, <1>4, <1>6, <1>7 DEF front, back, n

(* Only the drivers matter.                                                    *)
LEMMA OfSame ==
    ASSUME NEW packets, NEW others, DOMAIN packets = DOMAIN others,
           \A i \in DOMAIN packets : packets[i].driver = others[i].driver, NEW d
    PROVE  Of(packets, d) = Of(others, d)
  BY DEF Of

(* What increases takes no value twice.                                        *)
LEMMA Increasing ==
    ASSUME NEW n \in Nat, NEW f \in [1..n -> Nat], \A i, j \in 1..n : i < j => f[i] < f[j]
    PROVE  \A i, j \in 1..n : f[i] = f[j] => i = j
  <1> SUFFICES ASSUME NEW i \in 1..n, NEW j \in 1..n, f[i] = f[j] PROVE i = j
    OBVIOUS
  <1>1. PICK a \in Nat : a = f[i]
    OBVIOUS
  <1>2. ~(a < a)
    OBVIOUS
  <1>3. ~(i < j) /\ ~(j < i)
    BY <1>1, <1>2, Zenon
  <1> QED
    BY <1>3

(* A driver that goes takes its own packets with it and no others.             *)
LEMMA OfDiscarded ==
    ASSUME NEW packets \in Seq(Packet), NEW d, NEW rest \in Discarded(packets, d)
    PROVE  /\ rest \in Seq(Packet)
           /\ \A i \in DOMAIN rest : rest[i].driver # d /\ \E j \in DOMAIN packets : rest[i] = packets[j]
           /\ \A c : c # d => Cardinality(Of(rest, c)) = Cardinality(Of(packets, c))
  <1> DEFINE kept == { i \in DOMAIN packets : packets[i].driver # d }
             n == Cardinality(kept)
  <1>1. kept \in SUBSET (1..Len(packets)) /\ IsFiniteSet(kept) /\ n \in Nat
    <2>1. kept \in SUBSET (1..Len(packets)) /\ IsFiniteSet(1..Len(packets))
      BY FS_Interval
    <2> QED
      BY <2>1, FS_Subset, FS_CardinalityType
  <1>2. PICK place \in [1..n -> kept] :
           /\ \A i, j \in 1..n : i < j => place[i] < place[j]
           /\ rest = [i \in 1..n |-> packets[place[i]]]
    BY DEF Discarded
  <1>3. place \in Injection(1..n, kept)
    <2>1. place \in [1..n -> Nat]
      BY <1>1, <1>2
    <2>2. \A i, j \in 1..n : place[i] = place[j] => i = j
      BY <1>1, <1>2, <2>1, Increasing
    <2> QED
      BY <1>2, <2>2, Zenon DEF Injection, IsInjective
  <1>4. place \in Surjection(1..n, kept)
    <2>1. Cardinality(1..n) = n
      BY <1>1, FS_Interval
    <2> QED
      BY <1>1, <1>3, <2>1, FS_Injection
  <1>5. rest \in Seq(Packet) /\ DOMAIN rest = 1..n
    <2>1. \A i \in 1..n : packets[place[i]] \in Packet
      BY <1>1, <1>2
    <2> QED
      BY <1>1, <1>2, <2>1
  <1>6. \A i \in DOMAIN rest : rest[i].driver # d /\ \E j \in DOMAIN packets : rest[i] = packets[j]
    BY <1>2, <1>5
  <1>7. ASSUME NEW c, c # d PROVE Cardinality(Of(rest, c)) = Cardinality(Of(packets, c))
    <2> DEFINE f == [i \in Of(rest, c) |-> place[i]]
    <2>1. ASSUME NEW i \in Of(rest, c) PROVE i \in 1..n /\ place[i] \in Of(packets, c)
      BY <1>2, <1>5 DEF Of
    <2>2. ASSUME NEW j \in Of(packets, c) PROVE \E i \in Of(rest, c) : place[i] = j
      <3>1. j \in kept
        BY <1>7 DEF Of
      <3>2. PICK i \in 1..n : place[i] = j
        BY <1>4, <3>1 DEF Surjection
      <3> QED
        BY <1>2, <1>5, <3>2 DEF Of
    <2>3. f \in Bijection(Of(rest, c), Of(packets, c))
      <3>1. f \in [Of(rest, c) -> Of(packets, c)]
        BY <2>1
      <3>2. \A i, j \in Of(rest, c) : f[i] = f[j] => i = j
        BY <1>3, <2>1 DEF Injection, IsInjective
      <3>3. \A j \in Of(packets, c) : \E i \in Of(rest, c) : f[i] = j
        BY <2>2
      <3> QED
        BY <3>1, <3>2, <3>3 DEF Bijection, Injection, Surjection, IsInjective
    <2>4. IsFiniteSet(Of(rest, c))
      BY <1>5, OfIsFinite
    <2> QED
      BY <2>3, <2>4, FS_Bijection DEF ExistsBijection
  <1> QED
    BY <1>5, <1>6, <1>7

(* The credits a driver has and the packets it has in the mailbox are all it   *)
(* was created with, and no packet in the mailbox is of a driver that is gone. *)
X360Inv ==
    /\ xpackets \in Seq(Packet) /\ xcredit \in [Drivers -> Nat]
    /\ xalive \subseteq Drivers /\ xsubmitted \in Nat
    /\ NoPacketOfTheDead
    /\ CreditsKept

LEMMA X360Begins == X360Init => X360Inv
  <1> SUFFICES ASSUME X360Init PROVE X360Inv
    OBVIOUS
  <1>1. xpackets = << >> /\ xalive = {} /\ xcredit = [d \in Drivers |-> 0] /\ xsubmitted = 0
    BY DEF X360Init
  <1> QED
    BY <1>1 DEF X360Inv, NoPacketOfTheDead, CreditsKept

(* What is read or dropped from the front is given back to its drivers.        *)
LEMMA GivenBack ==
    ASSUME NEW packets \in Seq(Packet), NEW m \in 0..Len(packets), NEW credit \in [Drivers -> Nat]
    PROVE  /\ Released(credit, SubSeq(packets, 1, m)) \in [Drivers -> Nat]
           /\ \A d \in Drivers :
                Released(credit, SubSeq(packets, 1, m))[d] + Cardinality(Of(SubSeq(packets, m + 1, Len(packets)), d))
                  = credit[d] + Cardinality(Of(packets, d))
  <1> DEFINE front == SubSeq(packets, 1, m)
             back == SubSeq(packets, m + 1, Len(packets))
  <1>1. /\ front \in Seq(Packet) /\ back \in Seq(Packet)
        /\ \A d : Cardinality(Of(packets, d)) = Cardinality(Of(front, d)) + Cardinality(Of(back, d))
    BY OfSplit
  <1> HIDE DEF front, back
  <1>2. \A d : Cardinality(Of(front, d)) \in Nat /\ Cardinality(Of(back, d)) \in Nat
    BY <1>1, OfIsFinite
  <1>3. Released(credit, front) = [d \in Drivers |-> credit[d] + Cardinality(Of(front, d))]
    BY DEF Released, Of
  <1>4. Released(credit, front) \in [Drivers -> Nat]
    BY <1>2, <1>3
  <1>5. ASSUME NEW d \in Drivers
        PROVE  Released(credit, front)[d] + Cardinality(Of(back, d)) = credit[d] + Cardinality(Of(packets, d))
    <2>1. Released(credit, front)[d] = credit[d] + Cardinality(Of(front, d)) /\ credit[d] \in Nat
      BY <1>3
    <2> QED
      BY <1>1, <1>2, <2>1
  <1> QED
    BY <1>4, <1>5 DEF front, back

LEMMA X360Kept == X360Inv /\ [X360Next]_xvars => X360Inv'
  <1> SUFFICES ASSUME X360Inv, [X360Next]_xvars PROVE X360Inv'
    OBVIOUS
  <1>t. /\ xpackets \in Seq(Packet) /\ xcredit \in [Drivers -> Nat] /\ xalive \subseteq Drivers /\ xsubmitted \in Nat
        /\ \A i \in DOMAIN xpackets : xpackets[i].driver \in xalive
        /\ \A d \in xalive : xcredit[d] + Cardinality(Of(xpackets, d)) = Credits
        /\ Credits \in Nat /\ PacketParts \in Nat /\ MaxAudioPackets \in Nat \ {0}
    BY X360Assumption DEF X360Inv, NoPacketOfTheDead, CreditsKept, InMailbox, Of
  <1>n. \A d : Cardinality(Of(xpackets, d)) \in Nat
    BY <1>t, OfIsFinite
  <1>i. ASSUME NEW packets \in Seq(Packet), NEW credit \in [Drivers -> Nat], NEW alive \in SUBSET Drivers,
               xpackets' = packets, xcredit' = credit, xalive' = alive, xsubmitted' \in Nat,
               \A i \in DOMAIN packets : packets[i].driver \in alive,
               \A d \in alive : credit[d] + Cardinality(Of(packets, d)) = Credits
        PROVE  X360Inv'
    BY <1>i DEF X360Inv, NoPacketOfTheDead, CreditsKept, InMailbox, Of
  <1>u. ASSUME UNCHANGED << xpackets, xcredit, xalive, xsubmitted >> PROVE X360Inv'
    BY <1>u DEF X360Inv, NoPacketOfTheDead, CreditsKept, InMailbox
  <1>1. CASE Advance \/ Fail
    BY <1>1, <1>u DEF Advance, Fail, xsound
  <1>2. CASE CloseSession
    <2>1. xpackets' = << >> /\ xalive' = {} /\ xcredit' = [d \in Drivers |-> 0] /\ xsubmitted' = xsubmitted
      BY <1>2 DEF CloseSession, Drop
    <2> QED
      BY <1>t, <2>1 DEF X360Inv, NoPacketOfTheDead, CreditsKept
  <1>3. ASSUME NEW d \in Drivers, CreateDriver(d) PROVE X360Inv'
    <2>1. /\ d \notin xalive /\ xalive' = xalive \cup {d} /\ xcredit' = [xcredit EXCEPT ![d] = Credits]
          /\ xpackets' = xpackets /\ xsubmitted' = xsubmitted
      BY <1>3 DEF CreateDriver
    <2> DEFINE credit == [xcredit EXCEPT ![d] = Credits]
    <2>2. credit \in [Drivers -> Nat] /\ credit[d] = Credits /\ \A c \in Drivers : c # d => credit[c] = xcredit[c]
      BY <1>t
    <2>3. Cardinality(Of(xpackets, d)) = 0
      <3>1. Of(xpackets, d) = {}
        BY <1>t, <2>1 DEF Of
      <3> QED
        BY <3>1, FS_EmptySet
    <2>4. \A c \in xalive \cup {d} : credit[c] + Cardinality(Of(xpackets, c)) = Credits
      BY <1>t, <2>1, <2>2, <2>3
    <2> HIDE DEF credit
    <2>5. xcredit' = credit
      BY <2>1 DEF credit
    <2>6. /\ xpackets' = xpackets /\ xcredit' = credit /\ xalive' = xalive \cup {d} /\ xsubmitted' \in Nat
          /\ xalive \cup {d} \in SUBSET Drivers
          /\ \A i \in DOMAIN xpackets : xpackets[i].driver \in xalive \cup {d}
      BY <1>t, <2>1, <2>5
    <2>7. xpackets \in Seq(Packet) /\ credit \in [Drivers -> Nat]
      BY <1>t, <2>2
    <2> QED
      BY <1>i, <2>4, <2>6, <2>7
  <1>4. ASSUME NEW d \in Drivers, DestroyDriver(d) PROVE X360Inv'
    <2>1. /\ xalive' = xalive \ {d} /\ xcredit' = [xcredit EXCEPT ![d] = 0]
          /\ xpackets' \in Discarded(xpackets, d) /\ xsubmitted' = xsubmitted
      BY <1>4 DEF DestroyDriver
    <2>2. PICK rest : rest \in Discarded(xpackets, d) /\ xpackets' = rest
      BY <2>1
    <2>3. xpackets \in Seq(Packet) /\ rest \in Discarded(xpackets, d)
      BY <1>t, <2>2
    <2>4. /\ rest \in Seq(Packet)
          /\ \A i \in DOMAIN rest : rest[i].driver # d /\ \E j \in DOMAIN xpackets : rest[i] = xpackets[j]
          /\ \A c : c # d => Cardinality(Of(rest, c)) = Cardinality(Of(xpackets, c))
      BY <2>3, OfDiscarded
    <2> DEFINE credit == [xcredit EXCEPT ![d] = 0]
    <2>5. credit \in [Drivers -> Nat] /\ \A c \in Drivers : c # d => credit[c] = xcredit[c]
      BY <1>t
    <2>6. \A c \in xalive \ {d} : credit[c] + Cardinality(Of(rest, c)) = Credits
      BY <1>t, <2>4, <2>5
    <2>7. \A i \in DOMAIN rest : rest[i].driver \in xalive \ {d}
      BY <1>t, <2>4
    <2> HIDE DEF credit
    <2>8. xcredit' = credit
      BY <2>1 DEF credit
    <2>9. /\ xpackets' = rest /\ xcredit' = credit /\ xalive' = xalive \ {d} /\ xsubmitted' \in Nat
          /\ xalive \ {d} \in SUBSET Drivers
      BY <1>t, <2>1, <2>2, <2>8
    <2> QED
      BY <1>i, <2>4, <2>5, <2>6, <2>7, <2>9
  <1>5. ASSUME NEW d \in Drivers, Submit(d) PROVE X360Inv'
    <2>1. d \in xalive /\ xcredit[d] > 0 /\ xsubmitted' = xsubmitted + 1 /\ xalive' = xalive
      BY <1>5 DEF Submit
    <2>2. PICK m \in 0..Len(xpackets) : Dropped = SubSeq(xpackets, 1, m) /\ Len(Dropped) = m
      <3>1. Len(xpackets) \in Nat
        BY <1>t
      <3>2. CASE Len(xpackets) >= MaxAudioPackets
        <4> DEFINE gone == Len(xpackets) - MaxAudioPackets + 1
        <4>0. gone \in 0..Len(xpackets)
          BY <1>t, <3>1, <3>2
        <4>1. PICK n \in 0..Len(xpackets) : n = gone
          BY <4>0
        <4>2. Dropped = SubSeq(xpackets, 1, n)
          BY <3>2, <4>1 DEF Dropped
        <4>3. Len(SubSeq(xpackets, 1, n)) = n
          BY <1>t, <3>1
        <4> QED
          BY <4>2, <4>3
      <3>3. CASE ~(Len(xpackets) >= MaxAudioPackets)
        <4>1. 0 \in 0..Len(xpackets) /\ SubSeq(xpackets, 1, 0) = << >>
          BY <1>t, <3>1
        <4> QED
          BY <3>3, <4>1 DEF Dropped
      <3> QED
        BY <3>2, <3>3
    <2> DEFINE packet == [driver |-> d, number |-> xsubmitted + 1, read |-> 0]
               left == SubSeq(xpackets, m + 1, Len(xpackets))
               paid == [xcredit EXCEPT ![d] = @ - 1]
               credit == Released(paid, SubSeq(xpackets, 1, m))
               packets == Append(left, packet)
    <2>3. xpackets' = packets /\ xcredit' = credit
      BY <1>5, <2>2 DEF Submit
    <2>4. packet \in Packet /\ packet.driver = d
      BY <1>t DEF Packet
    <2>5. /\ paid \in [Drivers -> Nat] /\ paid[d] = xcredit[d] - 1
          /\ \A c \in Drivers : c # d => paid[c] = xcredit[c]
      BY <1>t, <2>1
    <2>6. /\ left \in Seq(Packet)
          /\ \A i \in DOMAIN left : left[i].driver \in xalive
      <3>1. left \in Seq(Packet)
        BY <1>t, OfSplit
      <3>2. \A i \in DOMAIN left : i + m \in DOMAIN xpackets /\ left[i] = xpackets[i + m]
        BY <1>t
      <3> QED
        BY <1>t, <3>1, <3>2
    <2> HIDE DEF packet, paid, left
    <2>7. /\ credit \in [Drivers -> Nat]
          /\ \A c \in Drivers : credit[c] + Cardinality(Of(left, c)) = paid[c] + Cardinality(Of(xpackets, c))
      BY <1>t, <2>5, GivenBack DEF left
    <2>8. \A c : Cardinality(Of(packets, c)) = Cardinality(Of(left, c)) + (IF d = c THEN 1 ELSE 0)
      BY <2>4, <2>6, OfAppend
    <2>9. \A c : Cardinality(Of(left, c)) \in Nat
      BY <2>6, OfIsFinite
    <2>10. packets \in Seq(Packet) /\ \A i \in DOMAIN packets : packets[i].driver \in xalive
      <3>1. packets \in Seq(Packet) /\ DOMAIN packets = 1..(Len(left) + 1) /\ DOMAIN left = 1..Len(left) /\ Len(left) \in Nat
        BY <2>4, <2>6
      <3>2. \A i \in 1..Len(left) : packets[i] = left[i]
        BY <2>4, <2>6
      <3>3. packets[Len(left) + 1] = packet
        BY <2>4, <2>6
      <3>4. \A i \in 1..(Len(left) + 1) : i \in 1..Len(left) \/ i = Len(left) + 1
        BY <3>1
      <3> HIDE DEF packets
      <3> QED
        BY <2>1, <2>4, <2>6, <3>1, <3>2, <3>3, <3>4
    <2> HIDE DEF packets, credit
    <2>11. ASSUME NEW c \in xalive PROVE credit[c] + Cardinality(Of(packets, c)) = Credits
      <3>1. /\ credit[c] \in Nat /\ xcredit[c] \in Nat /\ Cardinality(Of(left, c)) \in Nat
            /\ Cardinality(Of(xpackets, c)) \in Nat
            /\ credit[c] + Cardinality(Of(left, c)) = paid[c] + Cardinality(Of(xpackets, c))
            /\ xcredit[c] + Cardinality(Of(xpackets, c)) = Credits
        BY <1>t, <1>n, <2>7, <2>9
      <3>2. CASE c = d
        <4>1. paid[c] = xcredit[c] - 1
          BY <2>5, <3>2
        <4>2. Cardinality(Of(packets, c)) = Cardinality(Of(left, c)) + 1
          BY <2>8, <3>2
        <4>3. PICK cr \in Nat, co \in Nat, l \in Nat, o \in Nat :
                 /\ cr = credit[c] /\ co = xcredit[c]
                 /\ l = Cardinality(Of(left, c)) /\ o = Cardinality(Of(xpackets, c))
          BY <3>1
        <4>4. cr + l = (co - 1) + o /\ co + o = Credits
          BY <3>1, <4>1, <4>3
        <4>5. cr + (l + 1) = Credits
          BY <4>3, <4>4
        <4> QED
          BY <4>2, <4>3, <4>5
      <3>3. CASE c # d
        BY <1>t, <2>5, <2>8, <3>1, <3>3
      <3> QED
        BY <3>2, <3>3
    <2> QED
      BY <1>i, <1>t, <2>1, <2>3, <2>7, <2>10, <2>11
  <1>6. CASE DrainSound
    <2>1. PICK i \in DOMAIN xpackets : \E k \in 1..(PacketParts - xpackets[i].read) :
             /\ xpackets' = AfterRead(xpackets, i, k)
             /\ xcredit' = Released(xcredit, SubSeq(xpackets, 1, Finished(xpackets, i, k)))
      BY <1>6 DEF DrainSound
    <2>2. PICK k \in 1..(PacketParts - xpackets[i].read) :
             /\ xpackets' = AfterRead(xpackets, i, k)
             /\ xcredit' = Released(xcredit, SubSeq(xpackets, 1, Finished(xpackets, i, k)))
      BY <2>1
    <2>3. xalive' = xalive /\ xsubmitted' = xsubmitted
      BY <1>6 DEF DrainSound
    <2>4. /\ i \in 1..Len(xpackets) /\ Len(xpackets) \in Nat /\ xpackets[i] \in Packet
          /\ xpackets[i].read \in Nat
      <3>1. i \in 1..Len(xpackets) /\ Len(xpackets) \in Nat /\ xpackets[i] \in Packet
        BY <1>t
      <3> QED
        BY <3>1 DEF Packet
    <2>5. k \in Nat
      BY <1>t, <2>4
    <2>6. PICK m : m = Finished(xpackets, i, k)
      OBVIOUS
    <2>7. m \in 0..Len(xpackets) /\ (m = i \/ m = i - 1)
      BY <2>4, <2>6 DEF Finished
    <2> DEFINE left == SubSeq(xpackets, m + 1, Len(xpackets))
               credit == Released(xcredit, SubSeq(xpackets, 1, m))
    <2>8. /\ left \in Seq(Packet)
          /\ \A j \in DOMAIN left : left[j].driver \in xalive
      <3>1. left \in Seq(Packet)
        BY <1>t, <2>7, OfSplit
      <3>2. \A j \in DOMAIN left : j + m \in DOMAIN xpackets /\ left[j] = xpackets[j + m]
        BY <1>t, <2>7
      <3> QED
        BY <1>t, <3>1, <3>2
    <2>9. m = i \/ (left[1] = xpackets[i] /\ 1 \in DOMAIN left)
      BY <1>t, <2>4, <2>7
    <2>10. /\ credit \in [Drivers -> Nat]
           /\ \A c \in Drivers : credit[c] + Cardinality(Of(left, c)) = xcredit[c] + Cardinality(Of(xpackets, c))
      BY <1>t, <2>7, GivenBack
    <2> HIDE DEF left, credit
    <2>11. PICK packets : packets = AfterRead(xpackets, i, k)
      OBVIOUS
    <2>12. /\ packets \in Seq(Packet) /\ DOMAIN packets = DOMAIN left
           /\ \A j \in DOMAIN left : packets[j].driver = left[j].driver
      <3>1. Unfinished(xpackets, i, k) = left
        BY <2>6 DEF Unfinished, left
      <3>2. CASE m = i
        BY <2>6, <2>8, <2>11, <3>1, <3>2 DEF AfterRead
      <3>3. CASE m # i
        <4>1. packets = [left EXCEPT ![1].read = @ + k] /\ 1 \in DOMAIN left
          BY <2>6, <2>9, <2>11, <3>1, <3>3 DEF AfterRead
        <4>2. left[1] \in Packet
          BY <2>8, <4>1
        <4>3. [left[1] EXCEPT !.read = @ + k] \in Packet /\ [left[1] EXCEPT !.read = @ + k].driver = left[1].driver
          BY <2>5, <4>2 DEF Packet
        <4>4. packets[1] = [left[1] EXCEPT !.read = @ + k] /\ DOMAIN packets = DOMAIN left
              /\ \A j \in DOMAIN left : j # 1 => packets[j] = left[j]
          BY <4>1
        <4>5. packets \in Seq(Packet)
          <5>1. \A j \in DOMAIN left : packets[j] \in Packet
            BY <2>8, <4>3, <4>4
          <5>2. packets \in [1..Len(left) -> Packet]
            BY <2>8, <4>1, <4>4, <5>1
          <5> QED
            BY <2>8, <5>2
        <4> QED
          BY <4>3, <4>4, <4>5
      <3> QED
        BY <3>2, <3>3
    <2>13. \A c : Of(packets, c) = Of(left, c)
      BY <2>12 DEF Of
    <2>14. \A j \in DOMAIN packets : packets[j].driver \in xalive
      BY <2>8, <2>12
    <2>15. \A c \in xalive : credit[c] + Cardinality(Of(packets, c)) = Credits
      BY <1>t, <2>10, <2>13
    <2>16. xcredit' = credit /\ xpackets' = packets
      BY <2>2, <2>6, <2>11 DEF credit
    <2> QED
      BY <1>i, <1>t, <2>3, <2>10, <2>12, <2>14, <2>15, <2>16
  <1>7. CASE Unlock \/ Report \/ Fill
    BY <1>7, <1>u DEF Unlock, Report, Fill, xsound
  <1>8. ASSUME NEW paused \in BOOLEAN, SetPaused(paused) PROVE X360Inv'
    BY <1>8, <1>u DEF SetPaused, xsound
  <1>9. CASE UNCHANGED xvars
    BY <1>9, <1>u DEF xvars
  <1> QED
    BY <1>1, <1>2, <1>3, <1>4, <1>5, <1>6, <1>7, <1>8, <1>9 DEF X360Next

-----------------------------------------------------------------------------
(* The coins of System 246.                                                    *)

(* The counters of coins are counters, and none is lost between them.          *)
CoinsInv ==
    /\ pcoins \in Nat /\ pcredited \in Nat /\ pinserted \in Nat
    /\ CoinsKept

LEMMA CoinsBegin == Pcsx2Init => CoinsInv
  BY DEF Pcsx2Init, CoinsInv, CoinsKept

LEMMA CoinsStay == CoinsInv /\ [Pcsx2Next]_pvars => CoinsInv'
  <1> SUFFICES ASSUME CoinsInv, [Pcsx2Next]_pvars PROVE CoinsInv'
    OBVIOUS
  <1>1. ASSUME NEW closed \in BOOLEAN, UpdateInput(closed) PROVE CoinsInv'
    <2>1. CoinsOf(closed) \in Nat
      BY DEF CoinsOf
    <2> QED
      BY <1>1, <2>1 DEF UpdateInput, CoinsInv, CoinsKept
  <1>2. CASE Pump
    BY <1>2 DEF Pump, Taken, CoinsInv, CoinsKept
  <1>3. ASSUME UNCHANGED << pcoins, pcredited, pinserted >> PROVE CoinsInv'
    BY <1>3 DEF CoinsInv, CoinsKept
  <1>4. CASE Initialize \/ ShowPicture \/ Stop \/ Join \/ NextGame \/ \E paused \in BOOLEAN : Pause(paused)
    BY <1>3, <1>4 DEF Initialize, ShowPicture, Stop, Join, NextGame, Pause, pinput
  <1>5. CASE Boot \/ MarkRunning \/ SetRunning \/ LeaveLoop \/ EndThread \/ Capture
    BY <1>3, <1>5 DEF Boot, MarkRunning, SetRunning, LeaveLoop, EndThread, Capture, pinput
  <1>6. CASE UNCHANGED pvars
    BY <1>3, <1>6 DEF pvars
  <1> QED
    BY <1>1, <1>2, <1>4, <1>5, <1>6 DEF Pcsx2Next, Pcsx2Host, Pcsx2Cpu

-----------------------------------------------------------------------------
(* The serial link of System 22.                                               *)

LinkFrames == [run : Nat, number : Nat, whole : BOOLEAN]
WrittenFrames == { f \in LinkFrames : f.whole }
LinkPackets == [node : LinkedCabinets, run : Nat, sequence : Nat,
                frame : { << >> } \cup { << f >> : f \in WrittenFrames }]

C139Types ==
    /\ cOn \in [LinkedCabinets -> BOOLEAN] /\ cRun \in [LinkedCabinets -> Nat] /\ cFrames \in Nat
    /\ cStatus \in [LinkedCabinets -> SUBSET {"ready", "sync", "received"}]
    /\ cFifo \in [LinkedCabinets -> LinkFrames] /\ cPending \in [LinkedCabinets -> BOOLEAN]
    /\ cSequence \in [LinkedCabinets -> Nat] /\ cLast \in [LinkedCabinets -> Nat]
    /\ cSilent \in [LinkedCabinets -> Nat] /\ cLinked \in [LinkedCabinets -> BOOLEAN]
    /\ cWire \in [LinkedCabinets -> Seq(LinkPackets)]
    /\ cHeard \in [LinkedCabinets -> WrittenFrames] /\ cUnread \in [LinkedCabinets -> BOOLEAN]
    /\ cDeaf \in [LinkedCabinets -> Nat]

(* A frame waits to be sent only when the game has finished it.                *)
SentWhole == \A c \in LinkedCabinets : cPending[c] => cFifo[c].whole

(* While the link is up a deaf exchange is a silent one; while it is down the  *)
(* next packet of the peer is taken, so that no more deaf ones are added.     *)
DeafIsSilent ==
    \A c \in LinkedCabinets :
        /\ ~cLinked[c] => cLast[c] = 0 /\ cDeaf[c] <= Silence + 1
        /\ cLinked[c] => cDeaf[c] <= cSilent[c] /\ cSilent[c] <= Silence

C139Inv == C139Types /\ SentWhole /\ DeafIsSilent /\ FrameAnnounced

LEMMA C139Begins == C139Init => C139Inv
  <1> SUFFICES ASSUME C139Init PROVE C139Inv
    OBVIOUS
  <1>1. NoFrame \in WrittenFrames
    BY DEF NoFrame, WrittenFrames, LinkFrames
  <1>2. << >> \in Seq(LinkPackets)
    OBVIOUS
  <1>3. C139Types
    BY <1>1, <1>2 DEF C139Init, C139Types, WrittenFrames
  <1>4. SentWhole /\ DeafIsSilent /\ FrameAnnounced
    BY C139Assumption DEF C139Init, SentWhole, DeafIsSilent, FrameAnnounced
  <1> QED
    BY <1>3, <1>4 DEF C139Inv

(* The kept packets of a wire are its packets.                                 *)
LEMMA WireGoesOn ==
    ASSUME NEW wire \in Seq(LinkPackets), NEW taken \in 0..Len(wire)
    PROVE  /\ SubSeq(wire, taken + 1, Len(wire)) \in Seq(LinkPackets)
           /\ SubSeq(wire, 1, taken) \in Seq(LinkPackets)
  OBVIOUS

(* What was accepted last is among what was accepted.                          *)
LEMMA NewestAccepted ==
    ASSUME NEW n \in Nat, NEW places \in SUBSET (1..n), places # {}
    PROVE  Newest(places) \in places
  <1> DEFINE Short == { n - i : i \in places }
  <1>1. Short \subseteq Nat /\ Short # {}
    <2>1. \A i \in places : n - i \in Nat
      OBVIOUS
    <2> QED
      BY <2>1
  <1>2. PICK m \in Short : \A k \in Short : m <= k
    <2> HIDE DEF Short
    <2> QED
      BY <1>1, LeastOf
  <1>3. PICK i \in places : m = n - i
    BY <1>2
  <1>4. ASSUME NEW j \in places PROVE j <= i
    <2>1. n - i <= n - j
      BY <1>2, <1>3
    <2> QED
      BY <2>1
  <1> QED
    BY <1>4 DEF Newest

(* A transport that has forgotten its peer takes the peer's next packet.       *)
LEMMA ForgottenIsHeard ==
    ASSUME NEW c \in LinkedCabinets, cLast[c] = 0, NEW packets \in Seq(LinkPackets),
           NEW i \in 1..Len(packets), packets[i].node # c
    PROVE  AcceptedOf(c, packets) # {}
  <1> DEFINE Peers == { j \in 1..Len(packets) : packets[j].node # c }
  <1>1. Peers \subseteq Nat /\ Peers # {}
    OBVIOUS
  <1>2. PICK m \in Peers : \A k \in Peers : m <= k
    <2> HIDE DEF Peers
    <2> QED
      BY <1>1, LeastOf
  <1>3. m \in DOMAIN packets /\ Accepts(c, cLast[c], packets[m])
    BY DEF Accepts
  <1>4. ASSUME NEW j \in 1..(m - 1), packets[j].node # c PROVE FALSE
    <2>1. j \in Peers
      BY <1>4
    <2> QED
      BY <1>2, <2>1
  <1>5. m \in AcceptedOf(c, packets)
    BY <1>3, <1>4 DEF AcceptedOf
  <1> QED
    BY <1>5

(* What a cabinet hears and announces at the end of a frame.                   *)
LEMMA ReadyAnnounces ==
    ASSUME NEW status \in SUBSET {"ready", "sync", "received"}
    PROVE  /\ Ready(status) \in SUBSET {"ready", "sync", "received"}
           /\ "received" \in status => "received" \in Ready(status)
  BY DEF Ready

LEMMA C139Exchanges ==
    ASSUME C139Inv, NEW c \in LinkedCabinets, NEW arrived \in 0..Len(cWire[c]), Exchange(c, arrived)
    PROVE  C139Inv'
  <1> DEFINE packets == SubSeq(cWire[c], 1, arrived)
             accepted == AcceptedOf(c, packets)
             framed == { i \in accepted : packets[i].frame # << >> }
             silent == IF accepted # {} THEN 0 ELSE IF cLinked[c] THEN cSilent[c] + 1 ELSE 0
             down == Down(c, silent)
             refused == \E i \in DOMAIN packets : packets[i].node = Peer(c) /\ packets[i].run = cRun[Peer(c)]
  <1>t. C139Types /\ SentWhole /\ DeafIsSilent /\ FrameAnnounced
    BY DEF C139Inv
  <1>l. Silence \in Nat
    BY C139Assumption
  <1>p. packets \in Seq(LinkPackets) /\ Len(packets) \in Nat /\ DOMAIN packets = 1..Len(packets)
    BY <1>t, WireGoesOn DEF C139Types
  <1>r. /\ Receive(c, framed)
        /\ cSilent' = [cSilent EXCEPT ![c] = IF down THEN 0 ELSE silent]
        /\ cLinked' = [cLinked EXCEPT ![c] = (@ \/ accepted # {}) /\ ~down]
        /\ cLast' = [cLast EXCEPT ![c] = IF down THEN Forgotten(@)
                                         ELSE IF accepted # {} THEN packets[Newest(accepted)].sequence ELSE @]
        /\ cHeard' = [cHeard EXCEPT ![c] = IF down THEN NoFrame
                                           ELSE IF framed # {} THEN packets[Newest(framed)].frame[1] ELSE @]
        /\ cDeaf' = [cDeaf EXCEPT ![c] = IF accepted # {} THEN 0 ELSE IF refused THEN @ + 1 ELSE @]
    BY DEF Exchange
  <1>w. /\ cSequence' = [cSequence EXCEPT ![c] = @ + 1]
        /\ cWire' = [cWire EXCEPT ![Peer(c)] = IF Peer(c) \in Receivers
                                                   THEN Append(@, PacketOf(c)) ELSE @,
                                  ![c] = SubSeq(@, arrived + 1, Len(@))]
        /\ cPending' = [cPending EXCEPT ![c] = FALSE]
        /\ UNCHANGED << cOn, cRun, cFrames, cFifo, cFaults >>
    BY DEF Exchange
  <1>a. accepted \in SUBSET (1..Len(packets)) /\ framed \in SUBSET (1..Len(packets))
    BY <1>p DEF AcceptedOf
  <1>n. /\ accepted # {} => Newest(accepted) \in 1..Len(packets)
        /\ framed # {} => Newest(framed) \in framed
    <2> HIDE DEF packets, accepted, framed
    <2> QED
      BY <1>a, <1>p, NewestAccepted
  <1>f. \A i \in 1..Len(packets) : /\ packets[i] \in LinkPackets
                                   /\ packets[i].sequence \in Nat
                                   /\ packets[i].frame # << >> => packets[i].frame[1] \in WrittenFrames
    <2> SUFFICES ASSUME NEW i \in 1..Len(packets)
                 PROVE  /\ packets[i] \in LinkPackets
                        /\ packets[i].sequence \in Nat
                        /\ packets[i].frame # << >> => packets[i].frame[1] \in WrittenFrames
      OBVIOUS
    <2> HIDE DEF packets
    <2>1. packets[i] \in LinkPackets
      BY <1>p
    <2> QED
      BY <2>1 DEF LinkPackets
  <1>h. refused => accepted # {} \/ cLast[c] # 0
    <2> SUFFICES ASSUME NEW i \in 1..Len(packets), packets[i].node = Peer(c), cLast[c] = 0
                 PROVE  accepted # {}
      BY <1>p
    <2>1. packets[i].node # c
      BY DEF Peer, LinkedCabinets
    <2> HIDE DEF packets
    <2> QED
      BY <1>p, <2>1, ForgottenIsHeard
  <1> HIDE DEF refused, framed, accepted, packets
  <1>1. /\ cSilent' \in [LinkedCabinets -> Nat] /\ cLinked' \in [LinkedCabinets -> BOOLEAN]
        /\ cDeaf' \in [LinkedCabinets -> Nat]
    <2>1. silent \in Nat /\ silent + 1 \in Nat
      BY <1>t DEF C139Types
    <2>2. ((cLinked[c] \/ accepted # {}) /\ ~down) \in BOOLEAN
      BY <1>t DEF C139Types, Down
    <2>3. PICK up \in BOOLEAN : up = ((cLinked[c] \/ accepted # {}) /\ ~down)
      BY <2>2
    <2>4. cLinked' = [cLinked EXCEPT ![c] = up]
      BY <1>r, <2>3, Zenon
    <2>5. cDeaf' \in [LinkedCabinets -> Nat]
      BY <1>r, <1>t DEF C139Types
    <2>6. cSilent' \in [LinkedCabinets -> Nat]
      <3> HIDE DEF silent, down
      <3> QED
        BY <1>r, <1>t, <2>1 DEF C139Types
    <2> QED
      BY <1>t, <2>4, <2>5, <2>6 DEF C139Types
  <1>2. cLast' \in [LinkedCabinets -> Nat]
    <2>1. accepted # {} => packets[Newest(accepted)].sequence \in Nat
      BY <1>n, <1>f
    <2> HIDE DEF down
    <2> QED
      BY <1>r, <1>t, <2>1 DEF C139Types, Forgotten
  <1>3. cHeard' \in [LinkedCabinets -> WrittenFrames]
    <2>1. framed # {} => packets[Newest(framed)].frame[1] \in WrittenFrames
      <3> SUFFICES ASSUME framed # {} PROVE packets[Newest(framed)].frame[1] \in WrittenFrames
        OBVIOUS
      <3>1. Newest(framed) \in 1..Len(packets) /\ packets[Newest(framed)].frame # << >>
        BY <1>n DEF framed, AcceptedOf, accepted
      <3> QED
        BY <1>f, <3>1
    <2>2. NoFrame \in WrittenFrames
      BY DEF NoFrame, WrittenFrames, LinkFrames
    <2> HIDE DEF down
    <2> QED
      BY <1>r, <1>t, <2>1, <2>2 DEF C139Types
  <1>4. /\ cStatus' \in [LinkedCabinets -> SUBSET {"ready", "sync", "received"}]
        /\ cUnread' \in [LinkedCabinets -> BOOLEAN] /\ FrameAnnounced'
    <2>1. PICK status \in SUBSET {"ready", "sync", "received"} : status = cStatus[c]
      BY <1>t DEF C139Types
    <2>2. CASE framed = {}
      <3>1. cStatus' = [cStatus EXCEPT ![c] = Ready(status)] /\ cUnread' = cUnread /\ cOn' = cOn
        BY <1>r, <1>w, <2>1, <2>2 DEF Receive
      <3> QED
        BY <1>t, <2>1, <3>1, ReadyAnnounces DEF C139Types, FrameAnnounced
    <2>3. CASE framed # {}
      <3>1. PICK told \in SUBSET {"ready", "sync", "received"} : told = (status \ {"sync"}) \cup {"received"}
        OBVIOUS
      <3>2. cStatus' = [cStatus EXCEPT ![c] = Ready(told)] /\ cUnread' = [cUnread EXCEPT ![c] = TRUE] /\ cOn' = cOn
        BY <1>r, <1>w, <2>1, <2>3, <3>1 DEF Receive
      <3>3. "received" \in told
        BY <3>1
      <3>4. Ready(told) \in SUBSET {"ready", "sync", "received"} /\ "received" \in Ready(told)
        BY <3>3, ReadyAnnounces
      <3> QED
        BY <1>t, <3>2, <3>4 DEF C139Types, FrameAnnounced
    <2> QED
      BY <2>2, <2>3
  <1>5. /\ cSequence' \in [LinkedCabinets -> Nat] /\ cPending' \in [LinkedCabinets -> BOOLEAN]
        /\ cOn' = cOn /\ cRun' = cRun /\ cFrames' = cFrames /\ cFifo' = cFifo /\ SentWhole'
    <2>1. cPending' = [cPending EXCEPT ![c] = FALSE] /\ cFifo' = cFifo
      BY <1>w
    <2>2. SentWhole' /\ cPending' \in [LinkedCabinets -> BOOLEAN]
      BY <1>t, <2>1 DEF C139Types, SentWhole
    <2>3. cSequence[c] + 1 \in Nat
      BY <1>t DEF C139Types
    <2>4. cSequence' \in [LinkedCabinets -> Nat]
      BY <1>t, <1>w, <2>3 DEF C139Types
    <2> QED
      BY <1>w, <2>2, <2>4
  <1>6. cWire' \in [LinkedCabinets -> Seq(LinkPackets)]
    <2>1. PacketOf(c) \in LinkPackets
      <3>1. PICK sent : sent = IF cPending[c] THEN << cFifo[c] >> ELSE << >>
        OBVIOUS
      <3>2. sent \in { << >> } \cup { << f >> : f \in WrittenFrames }
        BY <1>t, <3>1 DEF C139Types, SentWhole, WrittenFrames
      <3>3. PacketOf(c) = [node |-> c, run |-> cRun[c], sequence |-> cSequence[c] + 1, frame |-> sent]
        BY <3>1 DEF PacketOf
      <3>4. cRun[c] \in Nat /\ cSequence[c] + 1 \in Nat
        BY <1>t DEF C139Types
      <3> QED
        BY <3>2, <3>3, <3>4 DEF LinkPackets
    <2>2. Peer(c) \in LinkedCabinets /\ Peer(c) # c
      BY DEF Peer, LinkedCabinets
    <2>3. PICK sent \in Seq(LinkPackets) :
              sent = IF Peer(c) \in Receivers THEN Append(cWire[Peer(c)], PacketOf(c)) ELSE cWire[Peer(c)]
      <3>1. cWire[Peer(c)] \in Seq(LinkPackets)
        BY <1>t, <2>2 DEF C139Types
      <3>2. Append(cWire[Peer(c)], PacketOf(c)) \in Seq(LinkPackets)
        BY <2>1, <3>1
      <3> QED
        BY <3>1, <3>2
    <2>4. PICK left \in Seq(LinkPackets) : left = SubSeq(cWire[c], arrived + 1, Len(cWire[c]))
      BY <1>t, WireGoesOn DEF C139Types
    <2>5. cWire' = [cWire EXCEPT ![Peer(c)] = sent, ![c] = left]
      BY <1>t, <1>w, <2>2, <2>3, <2>4 DEF C139Types
    <2> QED
      BY <1>t, <2>2, <2>5 DEF C139Types
  <1>7. DeafIsSilent'
    <2> SUFFICES ASSUME NEW d \in LinkedCabinets
                 PROVE  /\ ~cLinked'[d] => cLast'[d] = 0 /\ cDeaf'[d] <= Silence + 1
                        /\ cLinked'[d] => cDeaf'[d] <= cSilent'[d] /\ cSilent'[d] <= Silence
      BY DEF DeafIsSilent
    <2>1. CASE d # c
      BY <1>r, <1>t, <2>1 DEF C139Types, DeafIsSilent
    <2>2. CASE d = c /\ accepted # {}
      <3>1. ~down
        BY <1>l, <2>2 DEF Down
      <3>2. cLinked'[c] /\ cDeaf'[c] = 0 /\ cSilent'[c] = 0
        BY <1>r, <1>t, <2>2, <3>1 DEF C139Types
      <3> QED
        BY <1>l, <2>2, <3>2
    <2>3. CASE d = c /\ accepted = {} /\ ~cLinked[c]
      <3>1. ~down /\ ~refused
        BY <1>h, <1>t, <2>3 DEF Down, DeafIsSilent
      <3>2. ~cLinked'[c] /\ cDeaf'[c] = cDeaf[c] /\ cLast'[c] = cLast[c]
        BY <1>r, <1>t, <2>3, <3>1 DEF C139Types
      <3> QED
        BY <1>t, <2>3, <3>2 DEF DeafIsSilent
    <2>4. CASE d = c /\ accepted = {} /\ cLinked[c]
      <3>1. silent = cSilent[c] + 1 /\ cDeaf[c] <= cSilent[c] /\ cSilent[c] <= Silence
        BY <1>t, <2>4 DEF DeafIsSilent
      <3>2. cSilent[c] \in Nat /\ cDeaf[c] \in Nat
        BY <1>t DEF C139Types
      <3>3. cDeaf'[c] <= cDeaf[c] + 1 /\ cDeaf'[c] \in Nat
        BY <1>r, <1>t, <2>4, <3>2 DEF C139Types
      <3>4. down <=> silent > Silence
        BY <2>4 DEF Down
      <3>5. CASE down
        <4>1. ~cLinked'[c] /\ cLast'[c] = 0
          BY <1>r, <1>t, <3>5 DEF C139Types, Forgotten
        <4> QED
          BY <1>l, <2>4, <3>1, <3>2, <3>3, <4>1
      <3>6. CASE ~down
        <4>1. cLinked'[c] /\ cSilent'[c] = silent
          BY <1>r, <1>t, <2>4, <3>6 DEF C139Types
        <4> QED
          BY <1>l, <2>4, <3>1, <3>2, <3>3, <3>4, <3>6, <4>1
      <3> QED
        BY <3>5, <3>6
    <2> QED
      BY <2>1, <2>2, <2>3, <2>4
  <1>8. C139Types'
    BY <1>1, <1>2, <1>3, <1>4, <1>5, <1>6, <1>t DEF C139Types
  <1> QED
    BY <1>4, <1>5, <1>7, <1>8 DEF C139Inv

LEMMA C139Kept == C139Inv /\ [C139Next]_cvars => C139Inv'
  <1> SUFFICES ASSUME C139Inv, [C139Next]_cvars PROVE C139Inv'
    OBVIOUS
  <1> USE DEF C139Inv, C139Types
  <1>1. ASSUME NEW c \in LinkedCabinets, StartCabinet(c) PROVE C139Inv'
    <2>1. NoFrame \in WrittenFrames /\ NoFrame \in LinkFrames
      BY DEF NoFrame, WrittenFrames, LinkFrames
    <2>2. PICK missed \in 0..Len(cWire[c]) :
              cWire' = [cWire EXCEPT ![c] = SubSeq(@, missed + 1, Len(@))]
      BY <1>1 DEF StartCabinet
    <2>3. SubSeq(cWire[c], missed + 1, Len(cWire[c])) \in Seq(LinkPackets)
      BY WireGoesOn
    <2>4. cWire' \in [LinkedCabinets -> Seq(LinkPackets)]
      BY <2>2, <2>3
    <2>5. cRun[c] + 1 \in Nat
      OBVIOUS
    <2>6. C139Types'
      BY <1>1, <2>1, <2>4, <2>5 DEF StartCabinet
    <2>7. DeafIsSilent' /\ SentWhole' /\ FrameAnnounced'
      BY <1>1, C139Assumption DEF StartCabinet, DeafIsSilent, SentWhole, FrameAnnounced
    <2> QED
      BY <2>6, <2>7
  <1>2. ASSUME NEW c \in LinkedCabinets, OpenFifo(c) PROVE C139Inv'
    <2>1. PICK f : f = [run |-> cRun[c], number |-> cFrames + 1, whole |-> FALSE]
      OBVIOUS
    <2>2. f \in LinkFrames
      BY <2>1 DEF LinkFrames
    <2>3. cFifo' = [cFifo EXCEPT ![c] = f] /\ cPending' = [cPending EXCEPT ![c] = FALSE]
      BY <1>2, <2>1 DEF OpenFifo, TakenBack
    <2>4. UNCHANGED << cOn, cRun, cStatus, cSequence, cLast, cSilent, cLinked, cWire, cHeard, cUnread, cDeaf >>
      BY <1>2 DEF OpenFifo, cgame, ctransport, cnet
    <2>5. cFrames' \in Nat
      BY <1>2 DEF OpenFifo
    <2>6. SentWhole'
      BY <2>3 DEF SentWhole
    <2> QED
      BY <2>2, <2>3, <2>4, <2>5, <2>6 DEF DeafIsSilent, FrameAnnounced
  <1>3. ASSUME NEW c \in LinkedCabinets, HandOver(c) PROVE C139Inv'
    <2>1. PICK f : f = [cFifo[c] EXCEPT !.whole = TRUE]
      OBVIOUS
    <2>2. cFifo[c] \in LinkFrames
      OBVIOUS
    <2>3. f \in LinkFrames /\ f.whole
      BY <2>1, <2>2 DEF LinkFrames
    <2>4. cFifo' = [cFifo EXCEPT ![c] = f] /\ cPending' = [cPending EXCEPT ![c] = TRUE]
      BY <1>3, <2>1 DEF HandOver
    <2>5. UNCHANGED << cOn, cRun, cFrames, cStatus, cSequence, cLast, cSilent, cLinked, cWire, cHeard, cUnread,
                       cDeaf >>
      BY <1>3 DEF HandOver, cgame, ctransport, cnet
    <2>6. SentWhole'
      BY <2>3, <2>4 DEF SentWhole
    <2> QED
      BY <2>3, <2>4, <2>5, <2>6 DEF DeafIsSilent, FrameAnnounced
  <1>4. ASSUME NEW c \in LinkedCabinets, AcknowledgeStatus(c) PROVE C139Inv'
    <2>1. UNCHANGED << cOn, cRun, cFrames, cFifo, cPending, cSequence, cLast, cSilent, cLinked, cWire, cHeard,
                       cDeaf >>
      BY <1>4 DEF AcknowledgeStatus, cgame, ctransport, cnet
    <2>2. cStatus' = [cStatus EXCEPT ![c] = {}] /\ cUnread' = [cUnread EXCEPT ![c] = FALSE]
      BY <1>4 DEF AcknowledgeStatus
    <2> QED
      BY <2>1, <2>2 DEF DeafIsSilent, SentWhole, FrameAnnounced
  <1>5. ASSUME NEW c \in LinkedCabinets, NEW arrived \in 0..Len(cWire[c]), Exchange(c, arrived) PROVE C139Inv'
    BY <1>5, C139Exchanges
  <1>6. ASSUME NEW c \in LinkedCabinets, NEW wire \in Seq(LinkPackets), cWire' = [cWire EXCEPT ![c] = wire],
               UNCHANGED cstill
        PROVE  C139Inv'
    BY <1>6 DEF cstill, cboard, ctransport, cseen, DeafIsSilent, SentWhole, FrameAnnounced
  <1>7. ASSUME NEW c \in LinkedCabinets, Overtake(c) PROVE C139Inv'
    <2>1. PICK wire \in Seq(LinkPackets) : wire = cWire[c]
      OBVIOUS
    <2>2. Len(wire) > 1 /\ wire[1] \in LinkPackets /\ wire[2] \in LinkPackets
      BY <1>7, <2>1 DEF Overtake
    <2>3. << wire[2], wire[1] >> \in Seq(LinkPackets) /\ SubSeq(wire, 3, Len(wire)) \in Seq(LinkPackets)
      BY <2>2
    <2>4. \A a, b \in Seq(LinkPackets) : a \o b \in Seq(LinkPackets)
      OBVIOUS
    <2> DEFINE other == << wire[2], wire[1] >> \o SubSeq(wire, 3, Len(wire))
    <2>5. other \in Seq(LinkPackets)
      BY <2>3, <2>4
    <2>6. cWire' = [cWire EXCEPT ![c] = other] /\ UNCHANGED cstill
      BY <1>7, <2>1 DEF Overtake
    <2> QED
      BY <1>6, <2>5, <2>6
  <1>8. ASSUME NEW c \in LinkedCabinets, LosePacket(c) PROVE C139Inv'
    <2>1. Tail(cWire[c]) \in Seq(LinkPackets)
      BY <1>8 DEF LosePacket
    <2> QED
      BY <1>6, <1>8, <2>1 DEF LosePacket
  <1>9. ASSUME NEW c \in LinkedCabinets, Namesake(c) PROVE C139Inv'
    <2>1. PICK p : p = [node |-> c, run |-> 0, sequence |-> MaxExchanges,
                        frame |-> << [NoFrame EXCEPT !.number = 1] >>]
      OBVIOUS
    <2>2. [NoFrame EXCEPT !.number = 1] \in WrittenFrames
      BY DEF NoFrame, WrittenFrames, LinkFrames
    <2>3. p \in LinkPackets
      BY <2>1, <2>2, C139Assumption DEF LinkPackets
    <2>4. Append(cWire[c], p) \in Seq(LinkPackets)
      BY <2>3
    <2>5. cWire' = [cWire EXCEPT ![c] = Append(cWire[c], p)] /\ UNCHANGED cstill
      BY <1>9, <2>1 DEF Namesake
    <2> QED
      BY <1>6, <2>4, <2>5
  <1>10. CASE UNCHANGED cvars
    BY <1>10 DEF cvars, cboard, ctransport, cnet, cseen, DeafIsSilent, SentWhole, FrameAnnounced
  <1> QED
    BY <1>1, <1>2, <1>3, <1>4, <1>5, <1>7, <1>8, <1>9, <1>10 DEF C139Next

(* What the link promises, of whole frames, announcements and restarts.        *)
LEMMA C139Keeps == C139Inv => WholeFrames /\ FrameAnnounced /\ NotDeafForLong
  <1> SUFFICES ASSUME C139Inv PROVE WholeFrames /\ NotDeafForLong
    BY DEF C139Inv
  <1>1. WholeFrames
    BY DEF C139Inv, C139Types, WholeFrames, WrittenFrames
  <1>2. NotDeafForLong
    BY C139Assumption DEF C139Inv, C139Types, DeafIsSilent, NotDeafForLong
  <1> QED
    BY <1>1, <1>2

-----------------------------------------------------------------------------
(* The sound of Xbox 360 on its way to the device.                             *)

(* Where a piece of a row of packets is: the packet and the piece in it.         *)
LEMMA Places ==
    ASSUME NEW parts \in Nat \ {0}, NEW q \in Nat
    PROVE  /\ q \div parts \in Nat /\ q % parts \in 0..(parts - 1)
           /\ \A n \in Nat, r \in 0..(parts - 1) : q = n * parts + r => q \div parts = n /\ q % parts = r
           /\ \A n \in Nat, r \in 0..parts :
                q < n * parts + r => q \div parts < n \/ (q \div parts = n /\ q % parts < r)
           /\ \A o \in Nat : o < q => \/ o \div parts < q \div parts
                                      \/ o \div parts = q \div parts /\ o % parts < q % parts
  <1>1. ASSUME NEW x \in Nat
        PROVE  /\ x \div parts \in Nat /\ x % parts \in 0..(parts - 1)
               /\ x = (x \div parts) * parts + (x % parts)
    BY <1>1
  <1>2. ASSUME NEW d \in Nat, NEW n \in Nat, NEW s \in 0..(parts - 1), NEW r \in 0..parts,
               d * parts + s < n * parts + r
        PROVE  d < n \/ (d = n /\ s < r)
    <2>1. CASE d = n
      <3>1. PICK a \in Int : a = d * parts
        OBVIOUS
      <3> QED
        BY <1>2, <2>1, <3>1
    <2>2. CASE d > n
      <3>1. PICK e \in Nat : d = n + 1 + e
        <4>1. d - n - 1 \in Nat /\ d = n + 1 + (d - n - 1)
          BY <2>2
        <4> QED
          BY <4>1
      <3>2. d * parts = n * parts + parts + e * parts /\ e * parts >= 0
        BY <3>1
      <3>3. PICK a \in Int, b \in Int, c \in Int : a = d * parts /\ b = n * parts /\ c = e * parts
        OBVIOUS
      <3> QED
        BY <1>2, <3>2, <3>3
    <2> QED
      BY <2>1, <2>2
  <1>3. PICK d \in Nat, s \in 0..(parts - 1) : d = q \div parts /\ s = q % parts /\ q = d * parts + s
    BY <1>1
  <1>4. ASSUME NEW n \in Nat, NEW r \in 0..parts, q < n * parts + r
        PROVE  d < n \/ (d = n /\ s < r)
    BY <1>2, <1>3, <1>4
  <1>5. ASSUME NEW n \in Nat, NEW r \in 0..(parts - 1), q = n * parts + r
        PROVE  d = n /\ s = r
    <2>1. r + 1 \in 0..parts /\ s + 1 \in 0..parts
      OBVIOUS
    <2>2. PICK a \in Int, b \in Int : a = n * parts /\ b = d * parts
      OBVIOUS
    <2>3. d * parts + s < n * parts + (r + 1) /\ n * parts + r < d * parts + (s + 1)
      BY <1>3, <1>5, <2>2
    <2>4. d < n \/ (d = n /\ s < r + 1)
      BY <1>2, <2>1, <2>3
    <2>5. n < d \/ (n = d /\ r < s + 1)
      BY <1>2, <2>1, <2>3
    <2> QED
      BY <2>4, <2>5
  <1>6. ASSUME NEW o \in Nat, o < q
        PROVE  o \div parts < d \/ (o \div parts = d /\ o % parts < s)
    <2>1. PICK e \in Nat, t \in 0..(parts - 1) : e = o \div parts /\ t = o % parts /\ o = e * parts + t
      BY <1>1
    <2>2. e * parts + t < d * parts + s /\ s \in 0..parts
      BY <1>3, <1>6, <2>1
    <2> QED
      BY <1>2, <2>1, <2>2
  <1> QED
    BY <1>3, <1>4, <1>5, <1>6

SoundPacket == [driver : Drivers, number : Nat, read : 0..(PacketParts - 1)]
SoundPart == Nat \X Nat
(* The piece a packet has read last is this one or a later one.                 *)
NotAfter(piece, packet) == piece[1] < packet.number \/ (piece[1] = packet.number /\ piece[2] <= packet.read)

(* Packets are in the mailbox in the order of their numbers, the first only    *)
(* read in piece; the parts in the output follow one another, the device has   *)
(* heard what is before them, and the mailbox keeps what is after them.       *)
PacketsInOrder(packets) ==
    \A i, j \in DOMAIN packets : i < j => packets[i].number < packets[j].number /\ packets[j].read = 0
PartsInOrder(parts) == \A i, j \in DOMAIN parts : i < j => Later(parts[j], parts[i])
Before(piece, packets) == \A j \in DOMAIN packets : NotAfter(piece, packets[j])
SoundTypes ==
    /\ xpackets \in Seq(SoundPacket) /\ xsubmitted \in Nat
    /\ xsamples \in Seq(SoundPart) /\ xheard \in SoundPart
SoundWay ==
    /\ PacketsInOrder(xpackets) /\ PartsInOrder(xsamples)
    /\ \A i \in DOMAIN xpackets : xpackets[i].number <= xsubmitted
    /\ \A i \in DOMAIN xsamples :
          Later(xsamples[i], xheard) /\ xsamples[i][1] <= xsubmitted /\ Before(xsamples[i], xpackets)
    /\ xheard[1] <= xsubmitted /\ Before(xheard, xpackets)
SoundInv == SoundTypes /\ SoundWay

LEMMA SoundBegins == X360Init => SoundInv
  <1> SUFFICES ASSUME X360Init PROVE SoundInv
    OBVIOUS
  <1>1. xpackets = << >> /\ xsubmitted = 0 /\ xsamples = << >> /\ xheard = << 0, 0 >>
    BY DEF X360Init
  <1> QED
    BY <1>1 DEF SoundInv, SoundTypes, SoundWay, SoundPart, PacketsInOrder, PartsInOrder, Before

(* What goes from the front of the mailbox or out of the middle of it.         *)
LEMMA BackInOrder ==
    ASSUME NEW packets \in Seq(SoundPacket), NEW m \in 0..Len(packets), PacketsInOrder(packets)
    PROVE  /\ SubSeq(packets, m + 1, Len(packets)) \in Seq(SoundPacket)
           /\ PacketsInOrder(SubSeq(packets, m + 1, Len(packets)))
           /\ DOMAIN SubSeq(packets, m + 1, Len(packets)) = 1..(Len(packets) - m)
           /\ \A i \in 1..(Len(packets) - m) :
                i + m \in DOMAIN packets /\ SubSeq(packets, m + 1, Len(packets))[i] = packets[i + m]
  <1> DEFINE back == SubSeq(packets, m + 1, Len(packets))
  <1>1. /\ back \in Seq(SoundPacket) /\ DOMAIN back = 1..(Len(packets) - m)
        /\ \A i \in 1..(Len(packets) - m) : i + m \in DOMAIN packets /\ back[i] = packets[i + m]
    OBVIOUS
  <1> HIDE DEF back
  <1>2. ASSUME NEW i \in DOMAIN back, NEW j \in DOMAIN back, i < j
        PROVE  back[i].number < back[j].number /\ back[j].read = 0
    <2>1. i + m \in DOMAIN packets /\ j + m \in DOMAIN packets /\ i + m < j + m
      BY <1>1, <1>2
    <2> QED
      BY <1>1, <1>2, <2>1 DEF PacketsInOrder
  <1> QED
    BY <1>1, <1>2 DEF back, PacketsInOrder

LEMMA RestInOrder ==
    ASSUME NEW packets \in Seq(SoundPacket), NEW d, NEW rest \in Discarded(packets, d), PacketsInOrder(packets)
    PROVE  /\ rest \in Seq(SoundPacket) /\ PacketsInOrder(rest)
           /\ \A i \in DOMAIN rest : \E j \in DOMAIN packets : rest[i] = packets[j]
  <1> DEFINE kept == { i \in DOMAIN packets : packets[i].driver # d }
             n == Cardinality(kept)
  <1>1. kept \in SUBSET (1..Len(packets)) /\ n \in Nat
    <2>1. kept \in SUBSET (1..Len(packets)) /\ IsFiniteSet(1..Len(packets))
      BY FS_Interval
    <2> QED
      BY <2>1, FS_Subset, FS_CardinalityType
  <1>2. PICK place \in [1..n -> kept] :
           /\ \A i, j \in 1..n : i < j => place[i] < place[j]
           /\ rest = [i \in 1..n |-> packets[place[i]]]
    BY DEF Discarded
  <1>3. \A i \in 1..n : place[i] \in DOMAIN packets /\ packets[place[i]] \in SoundPacket
    BY <1>1, <1>2
  <1>4. rest \in Seq(SoundPacket) /\ DOMAIN rest = 1..n /\ \A i \in 1..n : rest[i] = packets[place[i]]
    BY <1>1, <1>2, <1>3
  <1> HIDE DEF kept, n
  <1>5. PacketsInOrder(rest)
    BY <1>2, <1>3, <1>4 DEF PacketsInOrder
  <1> QED
    BY <1>3, <1>4, <1>5

(* The place of a piece in a row of packets read from `first' parts on, up to   *)
(* `last' parts of the packet i.                                              *)
LEMMA PartsOfARead ==
    ASSUME NEW packets \in Seq(SoundPacket), PacketsInOrder(packets), NEW i \in DOMAIN packets,
           NEW k \in 1..(PacketParts - packets[i].read),
           NEW parts, parts = PartsRead(packets, i, k)
    PROVE  /\ parts \in Seq(SoundPart) /\ PartsInOrder(parts)
           /\ \A m \in DOMAIN parts : \E j \in 1..i :
                 /\ parts[m][1] = packets[j].number /\ packets[j].read < parts[m][2]
                 /\ parts[m][2] <= PacketParts /\ (j = i => parts[m][2] <= packets[i].read + k)
  <1>p. PacketParts \in Nat \ {0}
    BY X360Assumption
  <1>1. /\ Len(packets) \in Nat /\ DOMAIN packets = 1..Len(packets) /\ i \in 1..Len(packets) /\ 1 \in 1..i
        /\ \A j \in 1..i : j \in DOMAIN packets /\ packets[j].number \in Nat
                           /\ packets[j].read \in 0..(PacketParts - 1)
    <2>1. Len(packets) \in Nat /\ DOMAIN packets = 1..Len(packets) /\ i \in 1..Len(packets)
      OBVIOUS
    <2>2. 1 \in 1..i /\ \A j \in 1..i : j \in DOMAIN packets
      BY <2>1
    <2>3. \A j \in 1..i : packets[j] \in SoundPacket
      BY <2>2
    <2> QED
      BY <2>1, <2>2, <2>3 DEF SoundPacket
  <1>2. PICK first \in 0..(PacketParts - 1) : first = packets[1].read
    BY <1>1
  <1>3. PICK last \in 1..PacketParts : last = packets[i].read + k
    BY <1>1, <1>p
  <1>4. PICK before \in Nat : before = (i - 1) * PacketParts
    <2>1. PICK n \in Nat : n = i - 1
      BY <1>1
    <2>2. n * PacketParts \in Nat
      BY <1>p
    <2> QED
      BY <2>1, <2>2
  <1>5. i > 1 => before >= PacketParts
    <2> SUFFICES ASSUME i > 1 PROVE before >= PacketParts
      OBVIOUS
    <2>1. PICK n \in Nat : i = n + 2
      <3>1. i - 2 \in Nat /\ i = (i - 2) + 2
        BY <1>1
      <3> QED
        BY <3>1
    <2>2. before = n * PacketParts + PacketParts /\ n * PacketParts >= 0
      BY <1>4, <1>p, <2>1
    <2>3. PICK x \in Int : x = n * PacketParts
      BY <1>p
    <2> QED
      BY <1>p, <2>2, <2>3
  <1>6. i = 1 => before = 0 /\ last = first + k
    BY <1>2, <1>3, <1>4, <1>p
  <1>7. PICK count \in Nat : count = before + last - first
    <2>1. before + last - first >= 0
      BY <1>1, <1>p, <1>5, <1>6
    <2> QED
      BY <2>1
  <1>8. ASSUME NEW m \in 1..count
        PROVE  /\ first + m - 1 \in Nat
               /\ 1 + ((first + m - 1) \div PacketParts) \in 1..i
               /\ (first + m - 1) % PacketParts \in 0..(PacketParts - 1)
               /\ packets[1 + ((first + m - 1) \div PacketParts)].read <= (first + m - 1) % PacketParts
               /\ 1 + ((first + m - 1) \div PacketParts) = i => (first + m - 1) % PacketParts < last
    <2>1. PICK q \in Nat : q = first + m - 1
      OBVIOUS
    <2>2. q < before + last
      BY <1>7, <2>1
    <2>3. PICK n \in Nat : n = i - 1
      BY <1>1
    <2>4. q < n * PacketParts + last
      BY <1>4, <2>2, <2>3
    <2>5. /\ q \div PacketParts \in Nat /\ q % PacketParts \in 0..(PacketParts - 1)
          /\ q \div PacketParts < n \/ (q \div PacketParts = n /\ q % PacketParts < last)
      <3>1. last \in 0..PacketParts
        BY <1>p
      <3> QED
        BY <1>p, <2>4, <3>1, Places, Zenon
    <2>6. PICK d \in Nat, s \in 0..(PacketParts - 1) : d = q \div PacketParts /\ s = q % PacketParts
      BY <2>5
    <2>7. 1 + d \in 1..i /\ (1 + d = i => s < last)
      BY <1>1, <2>3, <2>5, <2>6
    <2>8. packets[1 + d].read <= s
      <3>1. CASE d = 0
        <4>1. q < PacketParts
          <5> SUFFICES ASSUME q >= PacketParts PROVE FALSE
            BY <1>p
          <5>1. PICK r \in Nat : q = PacketParts + r
            <6>1. q - PacketParts \in Nat /\ q = PacketParts + (q - PacketParts)
              BY <1>p
            <6> QED
              BY <6>1
          <5>2. 0 \div PacketParts = 0 /\ 0 % PacketParts = 0
            <6>1. 0 \in 0..(PacketParts - 1) /\ 0 = 0 * PacketParts + 0
              BY <1>p
            <6> QED
              BY <1>p, <6>1, Places
          <5>3. PICK e \in Nat, t \in 0..(PacketParts - 1) : q = e * PacketParts + t
            <6>1. q = (q \div PacketParts) * PacketParts + (q % PacketParts)
              BY <1>p
            <6> QED
              BY <2>5, <6>1
          <5>4. d = e
            BY <1>p, <2>6, <5>3, Places
          <5>5. e * PacketParts = 0
            BY <1>p, <3>1, <5>4
          <5> QED
            BY <1>p, <5>1, <5>3, <5>5
        <4>2. q \in 0..(PacketParts - 1) /\ q = 0 * PacketParts + q
          BY <1>p, <4>1
        <4>3. s = q
          <5>1. \A m1 \in Nat, r1 \in 0..(PacketParts - 1) :
                    q = m1 * PacketParts + r1 => q % PacketParts = r1
            BY <1>p, Places, Zenon
          <5>2. q % PacketParts = q
            BY <4>2, <5>1
          <5> QED
            BY <2>6, <5>2
        <4> QED
          BY <1>2, <2>1, <3>1, <4>3
      <3>2. CASE d # 0
        <4>1. 1 + d \in DOMAIN packets /\ 1 \in DOMAIN packets /\ 1 < 1 + d
          BY <1>1, <2>7, <3>2
        <4>2. packets[1 + d].read = 0
          BY <4>1 DEF PacketsInOrder
        <4> QED
          BY <4>2
      <3> QED
        BY <3>1, <3>2
    <2> QED
      BY <2>1, <2>6, <2>7, <2>8
  <1>9. parts = [m \in 1..count |-> << packets[1 + ((first + m - 1) \div PacketParts)].number,
                                       1 + ((first + m - 1) % PacketParts) >>]
    <2>0. PICK a \in Int, b \in Int : a = packets[i].read /\ b = k
      BY <1>1, <1>p
    <2>1. before + packets[i].read + k - packets[1].read = before + last - first
      <3>1. last = a + b /\ first = packets[1].read
        BY <1>2, <1>3, <2>0
      <3>2. before + a + b - first = before + last - first
        BY <3>1
      <3> QED
        BY <2>0, <3>1, <3>2
    <2>2. count = (i - 1) * PacketParts + packets[i].read + k - packets[1].read
      BY <1>4, <1>7, <2>1, Zenon
    <2> QED
      BY <1>2, <2>2, Zenon DEF PartsRead
  <1> DEFINE at(m) == 1 + ((first + m - 1) \div PacketParts)
             piece(m) == (first + m - 1) % PacketParts
  <1>10. /\ \A m \in 1..count : at(m) \in 1..i /\ piece(m) \in 0..(PacketParts - 1)
                                /\ packets[at(m)].read <= piece(m) /\ (at(m) = i => piece(m) < last)
         /\ parts = [m \in 1..count |-> << packets[at(m)].number, 1 + piece(m) >>]
    BY <1>8, <1>9
  <1>11. ASSUME NEW m \in 1..count, NEW n \in 1..count, m < n
         PROVE  at(m) < at(n) \/ (at(m) = at(n) /\ piece(m) < piece(n))
    <2>1. PICK o \in Nat, q \in Nat : o = first + m - 1 /\ q = first + n - 1
      OBVIOUS
    <2>2. o < q
      BY <1>11, <2>1
    <2>3. /\ o \div PacketParts < q \div PacketParts \/ (o \div PacketParts = q \div PacketParts /\ o % PacketParts < q % PacketParts)
          /\ o \div PacketParts \in Nat /\ q \div PacketParts \in Nat
      BY <1>p, <2>2, Places
    <2> QED
      BY <2>1, <2>3
  <1> HIDE DEF at, piece
  <1>12. DOMAIN parts = 1..count /\ \A m \in 1..count : parts[m] = << packets[at(m)].number, 1 + piece(m) >>
    BY <1>10
  <1>13. parts \in Seq(SoundPart)
    <2>1. \A m \in 1..count : << packets[at(m)].number, 1 + piece(m) >> \in SoundPart
      BY <1>1, <1>10, <1>p DEF SoundPart
    <2> QED
      BY <1>10, <2>1
  <1>14. PartsInOrder(parts)
    <2> SUFFICES ASSUME NEW m \in 1..count, NEW n \in 1..count, m < n PROVE Later(parts[n], parts[m])
      BY <1>12 DEF PartsInOrder
    <2>1. at(m) \in 1..i /\ at(n) \in 1..i /\ piece(m) \in Nat /\ piece(n) \in Nat
      BY <1>10, <1>p
    <2>2. CASE at(m) < at(n)
      <3>1. packets[at(m)].number < packets[at(n)].number /\ packets[at(m)].number \in Nat /\ packets[at(n)].number \in Nat
        BY <1>1, <2>1, <2>2 DEF PacketsInOrder
      <3> QED
        BY <1>12, <3>1 DEF Later
    <2>3. CASE at(m) = at(n) /\ piece(m) < piece(n)
      <3>1. PICK s \in Nat, t \in Nat : s = piece(m) /\ t = piece(n)
        BY <2>1
      <3>2. PICK number : number = packets[at(m)].number
        OBVIOUS
      <3>3. parts[m] = << number, 1 + s >> /\ parts[n] = << number, 1 + t >> /\ s < t
        BY <1>12, <2>3, <3>1, <3>2
      <3> QED
        BY <3>3 DEF Later
    <2> QED
      BY <1>11, <2>2, <2>3
  <1>15. ASSUME NEW m \in 1..count
         PROVE  \E j \in 1..i : /\ parts[m][1] = packets[j].number /\ packets[j].read < parts[m][2]
                                /\ parts[m][2] <= PacketParts /\ (j = i => parts[m][2] <= packets[i].read + k)
    <2>1. PICK j \in 1..i : j = at(m)
      BY <1>10
    <2>2. PICK s \in 0..(PacketParts - 1) : s = piece(m)
      BY <1>10
    <2>3. packets[j].read <= s /\ (j = i => s < last) /\ parts[m][1] = packets[j].number /\ parts[m][2] = 1 + s
      BY <1>10, <1>12, <2>1, <2>2
    <2>4. packets[j].read \in Nat
      BY <1>1, <1>p
    <2> QED
      BY <1>3, <1>p, <2>3, <2>4
  <1> QED
    BY <1>12, <1>13, <1>14, <1>15

Follows(after, packets, i, k) ==
    \A j \in DOMAIN after : \E o \in DOMAIN packets :
        /\ o >= i /\ after[j].number = packets[o].number
        /\ after[j].read >= packets[o].read
        /\ o = i => after[j].read = packets[i].read + k
LEMMA AfterARead ==
    ASSUME NEW packets \in Seq(SoundPacket), PacketsInOrder(packets), NEW i \in DOMAIN packets,
           NEW k \in 1..(PacketParts - packets[i].read),
           NEW after, after = AfterRead(packets, i, k)
    PROVE  after \in Seq(SoundPacket) /\ PacketsInOrder(after) /\ Follows(after, packets, i, k)
  <1>p. PacketParts \in Nat \ {0}
    BY X360Assumption
  <1>1. Len(packets) \in Nat /\ i \in 1..Len(packets) /\ DOMAIN packets = 1..Len(packets)
    OBVIOUS
  <1>2. \A j \in 1..Len(packets) : packets[j] \in SoundPacket
    OBVIOUS
  <1>3. PICK read \in 0..(PacketParts - 1) : read = packets[i].read
    BY <1>1, <1>2 DEF SoundPacket
  <1>4. k \in Nat /\ k >= 1 /\ read + k <= PacketParts
    BY <1>p, <1>3
  <1>5. CASE read + k = PacketParts
    <2>1. Finished(packets, i, k) = i
      BY <1>3, <1>5 DEF Finished
    <2>2. AfterRead(packets, i, k) = SubSeq(packets, i + 1, Len(packets))
      BY <2>1 DEF AfterRead, Unfinished
    <2>3. i \in 0..Len(packets)
      BY <1>1
    <2>4. PICK back : back = SubSeq(packets, i + 1, Len(packets))
      OBVIOUS
    <2>5. /\ back \in Seq(SoundPacket) /\ PacketsInOrder(back) /\ DOMAIN back = 1..(Len(packets) - i)
          /\ \A j \in 1..(Len(packets) - i) : j + i \in DOMAIN packets /\ back[j] = packets[j + i]
      BY <2>3, <2>4, BackInOrder
    <2>6. ASSUME NEW j \in DOMAIN back
          PROVE  \E o \in DOMAIN packets : /\ o >= i /\ back[j].number = packets[o].number
                                           /\ back[j].read >= packets[o].read
                                           /\ o = i => back[j].read = packets[i].read + k
      <3>1. j + i \in DOMAIN packets /\ back[j] = packets[j + i] /\ j + i > i
        BY <1>1, <2>5, <2>6
      <3>2. packets[j + i].read \in Int
        BY <1>1, <1>2, <1>p, <3>1 DEF SoundPacket
      <3> QED
        BY <3>1, <3>2
    <2>7. Follows(back, packets, i, k)
      BY <2>6 DEF Follows
    <2>8. after = back
      BY <2>2, <2>4
    <2> QED
      BY <2>5, <2>7, <2>8
  <1>6. CASE read + k # PacketParts
    <2>1. Finished(packets, i, k) = i - 1 /\ i - 1 # i /\ (i - 1) + 1 = i
      BY <1>1, <1>3, <1>6 DEF Finished
    <2>2. i - 1 \in 0..Len(packets)
      BY <1>1
    <2>3. PICK back : back = SubSeq(packets, (i - 1) + 1, Len(packets))
      OBVIOUS
    <2>4. AfterRead(packets, i, k) = [back EXCEPT ![1].read = @ + k]
      BY <2>1, <2>3 DEF AfterRead, Unfinished
    <2>5. /\ back \in Seq(SoundPacket) /\ PacketsInOrder(back) /\ DOMAIN back = 1..(Len(packets) - (i - 1))
          /\ \A j \in 1..(Len(packets) - (i - 1)) : j + (i - 1) \in DOMAIN packets /\ back[j] = packets[j + (i - 1)]
      BY <2>2, <2>3, BackInOrder
    <2>6. 1 \in DOMAIN back /\ back[1] = packets[i] /\ back[1] \in SoundPacket
      <3>1. 1 \in DOMAIN back /\ 1 + (i - 1) = i
        BY <1>1, <2>5
      <3> QED
        BY <1>1, <1>2, <2>5, <3>1
    <2>7. PICK grown : grown = [back[1] EXCEPT !.read = read + k]
      OBVIOUS
    <2>8. grown \in SoundPacket /\ grown.read = read + k /\ grown.number = packets[i].number
      <3>1. read + k \in 0..(PacketParts - 1)
        BY <1>p, <1>4, <1>6
      <3> QED
        BY <2>6, <2>7, <3>1 DEF SoundPacket
    <2>9. PICK left : left = [back EXCEPT ![1] = grown]
      OBVIOUS
    <2>10. after = left
      <3>1. back[1].read + k = read + k
        BY <1>3, <2>6
      <3> QED
        BY <2>4, <2>7, <2>9, <3>1
    <2>11. /\ left \in Seq(SoundPacket) /\ DOMAIN left = DOMAIN back /\ left[1] = grown
           /\ \A j \in DOMAIN back : j # 1 => left[j] = back[j]
      BY <2>5, <2>6, <2>8, <2>9
    <2>12. PacketsInOrder(left)
      <3> SUFFICES ASSUME NEW a \in DOMAIN back, NEW b \in DOMAIN back, a < b
                   PROVE  left[a].number < left[b].number /\ left[b].read = 0
        BY <2>11 DEF PacketsInOrder
      <3>1. b # 1 /\ left[b] = back[b]
        BY <2>5, <2>11
      <3>2. left[a].number = back[a].number
        BY <2>6, <2>8, <2>11
      <3> QED
        BY <2>5, <3>1, <3>2 DEF PacketsInOrder
    <2>13. ASSUME NEW j \in DOMAIN left
           PROVE  \E o \in DOMAIN packets : /\ o >= i /\ left[j].number = packets[o].number
                                            /\ left[j].read >= packets[o].read
                                            /\ o = i => left[j].read = packets[i].read + k
      <3>1. CASE j = 1
        BY <1>1, <1>3, <1>4, <2>8, <2>11, <3>1
      <3>2. CASE j # 1
        <4>1. j + (i - 1) \in DOMAIN packets /\ back[j] = packets[j + (i - 1)] /\ j + (i - 1) > i
          BY <1>1, <2>5, <2>11, <3>2
        <4>2. packets[j + (i - 1)].read \in Int
          BY <1>1, <1>2, <1>p, <4>1 DEF SoundPacket
        <4> QED
          BY <1>1, <2>11, <3>2, <4>1, <4>2
      <3> QED
        BY <3>1, <3>2
    <2>14. Follows(left, packets, i, k)
      BY <2>13 DEF Follows
    <2> QED
      BY <2>10, <2>11, <2>12, <2>14
  <1> QED
    BY <1>5, <1>6

(* What the output keeps of its queue and of what it is given.                 *)
LEMMA QueueInOrder ==
    ASSUME NEW samples \in Seq(SoundPart), NEW parts \in Seq(SoundPart),
           PartsInOrder(samples), PartsInOrder(parts),
           \A i \in DOMAIN samples, j \in DOMAIN parts : Later(parts[j], samples[i]),
           NEW queue, queue = Enqueued(samples, parts)
    PROVE  /\ queue \in Seq(SoundPart) /\ PartsInOrder(queue)
           /\ \A i \in DOMAIN queue : \/ \E j \in DOMAIN samples : queue[i] = samples[j]
                                      \/ \E j \in DOMAIN parts : queue[i] = parts[j]
  <1>1. PICK n \in 0..Len(samples) : queue = SubSeq(samples, n + 1, Len(samples)) \o parts
    <2> DEFINE excess == Len(samples) + Len(parts) - MaxSamples
    <2>1. Len(samples) \in Nat /\ Len(parts) \in Nat /\ excess \in Int
      BY X360Assumption
    <2>2. CASE excess > 0
      <3>1. PICK e \in Nat, l \in Nat : e = excess /\ l = Len(samples)
        BY <2>1, <2>2
      <3>2. Min({e, l}) \in {e, l} /\ Min({e, l}) <= l
        <4>1. \E x \in {e, l} : \A y \in {e, l} : x <= y
          BY <3>1
        <4> QED
          BY <4>1 DEF Min
      <3>3. Min({e, l}) \in 0..Len(samples)
        BY <3>1, <3>2
      <3>4. queue = SubSeq(samples, Min({e, l}) + 1, Len(samples)) \o parts
        BY <2>2, <3>1 DEF Enqueued
      <3> QED
        BY <3>3, <3>4
    <2>3. CASE ~(excess > 0)
      <3>1. queue = samples \o parts /\ 0 \in 0..Len(samples) /\ 0 + 1 = 1
        BY <2>1, <2>3 DEF Enqueued
      <3>2. SubSeq(samples, 1, Len(samples)) = samples
        OBVIOUS
      <3> QED
        BY <3>1, <3>2
    <2> QED
      BY <2>2, <2>3
  <1>b. PICK back : back = SubSeq(samples, n + 1, Len(samples))
    OBVIOUS
  <1>2. /\ back \in Seq(SoundPart) /\ Len(back) = Len(samples) - n
        /\ \A i \in 1..Len(back) : i + n \in DOMAIN samples /\ back[i] = samples[i + n]
    BY <1>b
  <1>3. queue = back \o parts
    BY <1>1, <1>b
  <1>4. /\ queue \in Seq(SoundPart) /\ Len(back) \in Nat /\ Len(parts) \in Nat /\ Len(queue) = Len(back) + Len(parts)
        /\ DOMAIN queue = 1..Len(queue)
        /\ \A i \in 1..Len(back) : queue[i] = back[i]
        /\ \A i \in (Len(back) + 1)..Len(queue) : i - Len(back) \in DOMAIN parts /\ queue[i] = parts[i - Len(back)]
    <2>1. \A s, t \in Seq(SoundPart) :
            /\ s \o t \in Seq(SoundPart) /\ Len(s) \in Nat /\ Len(t) \in Nat /\ Len(s \o t) = Len(s) + Len(t)
            /\ \A i \in 1..Len(s) : (s \o t)[i] = s[i]
            /\ \A i \in (Len(s) + 1)..(Len(s) + Len(t)) : (s \o t)[i] = t[i - Len(s)]
      OBVIOUS
    <2>2. back \in Seq(SoundPart) /\ parts \in Seq(SoundPart)
      BY <1>2
    <2>3. /\ queue \in Seq(SoundPart) /\ Len(back) \in Nat /\ Len(parts) \in Nat /\ Len(queue) = Len(back) + Len(parts)
          /\ \A i \in 1..Len(back) : queue[i] = back[i]
          /\ \A i \in (Len(back) + 1)..Len(queue) : queue[i] = parts[i - Len(back)]
      BY <1>3, <2>1, <2>2
    <2>4. \A i \in (Len(back) + 1)..Len(queue) : i - Len(back) \in DOMAIN parts
      BY <2>2, <2>3
    <2> QED
      BY <2>3, <2>4
  <1>5. ASSUME NEW i \in DOMAIN queue
        PROVE  \/ i \in 1..Len(back) /\ i + n \in DOMAIN samples /\ queue[i] = samples[i + n]
               \/ /\ i \in (Len(back) + 1)..Len(queue)
                  /\ i - Len(back) \in DOMAIN parts /\ queue[i] = parts[i - Len(back)]
    <2>1. i \in 1..Len(back) \/ i \in (Len(back) + 1)..Len(queue)
      BY <1>4
    <2>2. CASE i \in 1..Len(back)
      BY <1>2, <1>4, <2>2
    <2>3. CASE i \in (Len(back) + 1)..Len(queue)
      BY <1>4, <2>3
    <2> QED
      BY <2>1, <2>2, <2>3
  <1>6. ASSUME NEW i \in DOMAIN queue, NEW j \in DOMAIN queue, i < j PROVE Later(queue[j], queue[i])
    <2>1. CASE j \in 1..Len(back) /\ j + n \in DOMAIN samples /\ queue[j] = samples[j + n]
      <3>1. i \in 1..Len(back) /\ i + n < j + n
        BY <1>2, <1>4, <1>6, <2>1
      <3>2. i + n \in DOMAIN samples /\ queue[i] = samples[i + n]
        BY <1>2, <1>4, <3>1
      <3> QED
        BY <2>1, <3>1, <3>2 DEF PartsInOrder
    <2>2. CASE j \in (Len(back) + 1)..Len(queue) /\ j - Len(back) \in DOMAIN parts /\ queue[j] = parts[j - Len(back)]
      <3>1. CASE i \in 1..Len(back)
        <4>1. i + n \in DOMAIN samples /\ queue[i] = samples[i + n]
          BY <1>2, <1>4, <3>1
        <4> QED
          BY <2>2, <4>1
      <3>2. CASE i \in (Len(back) + 1)..Len(queue)
        <4>1. i - Len(back) \in DOMAIN parts /\ queue[i] = parts[i - Len(back)] /\ i - Len(back) < j - Len(back)
          BY <1>4, <1>6, <2>2, <3>2
        <4> QED
          BY <2>2, <4>1 DEF PartsInOrder
      <3> QED
        BY <1>4, <3>1, <3>2
    <2> QED
      BY <1>5, <2>1, <2>2
  <1> QED
    BY <1>4, <1>5, <1>6 DEF PartsInOrder

LEMMA SoundSteps ==
    ASSUME SoundInv, [X360Next]_xvars
    PROVE  SoundInv' /\ (Fill => Later(xheard', xheard))
  <1>t. /\ xpackets \in Seq(SoundPacket) /\ xsubmitted \in Nat /\ xsamples \in Seq(SoundPart) /\ xheard \in SoundPart
        /\ PacketsInOrder(xpackets) /\ PartsInOrder(xsamples)
    BY DEF SoundInv, SoundTypes, SoundWay
  <1>w. /\ \A i \in DOMAIN xpackets : xpackets[i].number <= xsubmitted
        /\ \A i \in DOMAIN xsamples : Later(xsamples[i], xheard) /\ xsamples[i][1] <= xsubmitted
        /\ \A i \in DOMAIN xsamples, j \in DOMAIN xpackets : NotAfter(xsamples[i], xpackets[j])
        /\ xheard[1] <= xsubmitted /\ \A j \in DOMAIN xpackets : NotAfter(xheard, xpackets[j])
    BY DEF SoundInv, SoundWay, Before
  <1>d. /\ \A i \in DOMAIN xpackets : xpackets[i].number \in Nat /\ xpackets[i].read \in Nat
        /\ \A i \in DOMAIN xsamples : xsamples[i] \in SoundPart /\ xsamples[i][1] \in Nat /\ xsamples[i][2] \in Nat
        /\ xheard[1] \in Nat /\ xheard[2] \in Nat
    <2>1. \A i \in DOMAIN xpackets : xpackets[i] \in SoundPacket
      BY <1>t
    <2>2. \A i \in DOMAIN xsamples : xsamples[i] \in SoundPart
      BY <1>t
    <2> QED
      BY <1>t, <2>1, <2>2, X360Assumption DEF SoundPacket, SoundPart
  <1>i. ASSUME NEW packets \in Seq(SoundPacket), NEW submitted \in Nat, NEW samples \in Seq(SoundPart),
               NEW heard \in SoundPart, xpackets' = packets, xsubmitted' = submitted, xsamples' = samples, xheard' = heard,
               PacketsInOrder(packets), PartsInOrder(samples),
               \A i \in DOMAIN packets : packets[i].number <= submitted,
               \A i \in DOMAIN samples : Later(samples[i], heard) /\ samples[i][1] <= submitted,
               \A i \in DOMAIN samples, j \in DOMAIN packets : NotAfter(samples[i], packets[j]),
               heard[1] <= submitted, \A j \in DOMAIN packets : NotAfter(heard, packets[j])
        PROVE  SoundInv'
    BY <1>i, Zenon DEF SoundInv, SoundTypes, SoundWay, Before
  <1>u. ASSUME UNCHANGED << xpackets, xsubmitted, xsamples, xheard >> PROVE SoundInv'
    BY <1>u, <1>i, <1>t, <1>w, Zenon
  <1>1. ASSUME Advance \/ Fail PROVE SoundInv'
    BY <1>1, <1>u DEF Advance, Fail, xsound
  <1>2. ASSUME CloseSession PROVE SoundInv'
    <2>1. xpackets' = << >> /\ xsamples' = << >> /\ xsubmitted' = xsubmitted /\ xheard' = xheard
      BY <1>2 DEF CloseSession, Drop
    <2>2. /\ << >> \in Seq(SoundPacket) /\ << >> \in Seq(SoundPart) /\ PacketsInOrder(<< >>) /\ PartsInOrder(<< >>)
          /\ DOMAIN << >> = {}
      BY DEF PacketsInOrder, PartsInOrder
    <2> QED
      BY <1>i, <1>t, <1>w, <2>1, <2>2
  <1>3. ASSUME NEW d \in Drivers, CreateDriver(d) PROVE SoundInv'
    BY <1>3, <1>u DEF CreateDriver
  <1>4. ASSUME NEW d \in Drivers, DestroyDriver(d) PROVE SoundInv'
    <2>1. /\ xpackets' \in Discarded(xpackets, d)
          /\ xsubmitted' = xsubmitted /\ xsamples' = xsamples /\ xheard' = xheard
      BY <1>4 DEF DestroyDriver
    <2>2. PICK rest \in Discarded(xpackets, d) : xpackets' = rest
      BY <2>1
    <2>3. /\ rest \in Seq(SoundPacket) /\ PacketsInOrder(rest)
          /\ \A i \in DOMAIN rest : \E j \in DOMAIN xpackets : rest[i] = xpackets[j]
      BY <1>t, RestInOrder
    <2>4. /\ \A i \in DOMAIN rest : rest[i].number <= xsubmitted /\ NotAfter(xheard, rest[i])
          /\ \A i \in DOMAIN xsamples, j \in DOMAIN rest : NotAfter(xsamples[i], rest[j])
      BY <1>w, <2>3
    <2> QED
      BY <1>i, <1>t, <1>w, <2>1, <2>2, <2>3, <2>4, Zenon
  <1>5. ASSUME NEW d \in Drivers, Submit(d) PROVE SoundInv'
    <2>1. PICK packet : packet = [driver |-> d, number |-> xsubmitted + 1, read |-> 0]
      OBVIOUS
    <2>2. /\ xsubmitted' = xsubmitted + 1 /\ xsamples' = xsamples /\ xheard' = xheard
          /\ xpackets' = Append(SubSeq(xpackets, Len(Dropped) + 1, Len(xpackets)), packet)
      BY <1>5, <2>1 DEF Submit
    <2>3. packet \in SoundPacket /\ packet.number = xsubmitted + 1 /\ packet.read = 0
      BY <1>t, <2>1, X360Assumption DEF SoundPacket
    <2>4. PICK m \in 0..Len(xpackets) : m = Len(Dropped)
      <3>1. Len(xpackets) \in Nat /\ MaxAudioPackets \in Nat \ {0}
        BY <1>t, X360Assumption
      <3>2. CASE Len(xpackets) >= MaxAudioPackets
        <4>1. Len(xpackets) - MaxAudioPackets + 1 \in 0..Len(xpackets)
          BY <3>1, <3>2
        <4>2. PICK n \in 0..Len(xpackets) : n = Len(xpackets) - MaxAudioPackets + 1
          BY <4>1
        <4>3. Dropped = SubSeq(xpackets, 1, n)
          BY <3>2, <4>2 DEF Dropped
        <4>4. Len(SubSeq(xpackets, 1, n)) = n
          BY <1>t, <3>1
        <4> QED
          BY <4>3, <4>4
      <3>3. CASE ~(Len(xpackets) >= MaxAudioPackets)
        <4>1. Dropped = << >> /\ Len(<< >>) = 0
          BY <3>3 DEF Dropped
        <4> QED
          BY <3>1, <4>1
      <3> QED
        BY <3>2, <3>3
    <2>5. PICK back : back = SubSeq(xpackets, m + 1, Len(xpackets))
      OBVIOUS
    <2>6. /\ back \in Seq(SoundPacket) /\ PacketsInOrder(back) /\ DOMAIN back = 1..(Len(xpackets) - m)
          /\ \A i \in 1..(Len(xpackets) - m) : i + m \in DOMAIN xpackets /\ back[i] = xpackets[i + m]
      BY <1>t, <2>5, BackInOrder
    <2>7. PICK packets : packets = Append(back, packet)
      OBVIOUS
    <2>8. /\ packets \in Seq(SoundPacket) /\ DOMAIN packets = 1..(Len(back) + 1) /\ Len(back) \in Nat
          /\ DOMAIN back = 1..Len(back)
          /\ \A i \in DOMAIN back : packets[i] = back[i]
          /\ packets[Len(back) + 1] = packet
      BY <2>3, <2>6, <2>7
    <2>9. ASSUME NEW i \in DOMAIN packets
          PROVE  (i \in DOMAIN back /\ packets[i] = back[i]) \/ (i = Len(back) + 1 /\ packets[i] = packet)
      BY <2>8
    <2>10. \A i \in DOMAIN back : \E j \in DOMAIN xpackets : back[i] = xpackets[j]
      BY <2>6
    <2>11. PacketsInOrder(packets)
      <3> SUFFICES ASSUME NEW i \in DOMAIN packets, NEW j \in DOMAIN packets, i < j
                   PROVE  packets[i].number < packets[j].number /\ packets[j].read = 0
        BY DEF PacketsInOrder
      <3>1. i \in DOMAIN back /\ packets[i] = back[i]
        BY <2>8
      <3>2. back[i].number <= xsubmitted /\ back[i].number \in Nat
        BY <1>d, <1>w, <2>10, <3>1
      <3>3. CASE j \in DOMAIN back /\ packets[j] = back[j]
        BY <2>6, <3>1, <3>3 DEF PacketsInOrder
      <3>4. CASE j = Len(back) + 1 /\ packets[j] = packet
        BY <1>t, <2>3, <3>1, <3>2, <3>4
      <3> QED
        BY <2>9, <3>3, <3>4
    <2>12. ASSUME NEW i \in DOMAIN packets
           PROVE  /\ packets[i].number <= xsubmitted + 1 /\ NotAfter(xheard, packets[i])
                  /\ \A j \in DOMAIN xsamples : NotAfter(xsamples[j], packets[i])
      <3>1. CASE i \in DOMAIN back /\ packets[i] = back[i]
        <4>1. PICK j \in DOMAIN xpackets : back[i] = xpackets[j]
          BY <2>10, <3>1
        <4>2. xpackets[j].number <= xsubmitted + 1
          BY <1>d, <1>t, <1>w
        <4> QED
          BY <1>w, <3>1, <4>1, <4>2
      <3>2. CASE packets[i] = packet
        BY <1>d, <1>t, <1>w, <2>3, <3>2 DEF NotAfter
      <3> QED
        BY <2>9, <3>1, <3>2
    <2>13. xsubmitted + 1 \in Nat /\ xheard[1] <= xsubmitted + 1
           /\ \A i \in DOMAIN xsamples : xsamples[i][1] <= xsubmitted + 1
      BY <1>d, <1>t, <1>w
    <2>14. xpackets' = packets
      BY <2>2, <2>4, <2>5, <2>7
    <2> QED
      BY <1>i, <1>t, <1>w, <2>2, <2>8, <2>11, <2>12, <2>13, <2>14, Zenon
  <1>6. ASSUME DrainSound PROVE SoundInv'
    <2>1. PICK i \in DOMAIN xpackets : \E k \in 1..(PacketParts - xpackets[i].read) :
             /\ xpackets' = AfterRead(xpackets, i, k)
             /\ xsamples' = Enqueued(xsamples, PartsRead(xpackets, i, k))
      BY <1>6 DEF DrainSound
    <2>2. PICK k \in 1..(PacketParts - xpackets[i].read) :
             /\ xpackets' = AfterRead(xpackets, i, k)
             /\ xsamples' = Enqueued(xsamples, PartsRead(xpackets, i, k))
      BY <2>1
    <2>3. xsubmitted' = xsubmitted /\ xheard' = xheard
      BY <1>6 DEF DrainSound
    <2>4. PICK packets, parts, queue : /\ packets = AfterRead(xpackets, i, k) /\ parts = PartsRead(xpackets, i, k)
                                       /\ queue = Enqueued(xsamples, parts)
      OBVIOUS
    <2>a. packets \in Seq(SoundPacket) /\ PacketsInOrder(packets) /\ Follows(packets, xpackets, i, k)
      BY <1>t, <2>4, AfterARead
    <2>5. /\ packets \in Seq(SoundPacket) /\ PacketsInOrder(packets)
          /\ \A j \in DOMAIN packets : \E o \in DOMAIN xpackets :
                /\ o >= i /\ packets[j].number = xpackets[o].number /\ packets[j].read >= xpackets[o].read
                /\ o = i => packets[j].read = xpackets[i].read + k
      BY <2>a DEF Follows
    <2>6. /\ parts \in Seq(SoundPart) /\ PartsInOrder(parts)
          /\ \A m \in DOMAIN parts : \E j \in 1..i :
                /\ parts[m][1] = xpackets[j].number /\ xpackets[j].read < parts[m][2]
                /\ parts[m][2] <= PacketParts /\ (j = i => parts[m][2] <= xpackets[i].read + k)
      BY <1>t, <2>4, PartsOfARead
    <2>7. i \in Nat /\ \A j \in 1..i : j \in DOMAIN xpackets
      BY <1>t
    <2>p. \A m \in DOMAIN parts : parts[m][1] \in Nat /\ parts[m][2] \in Nat
      BY <2>6 DEF SoundPart
    <2>r. \A j \in DOMAIN packets : packets[j].number \in Nat /\ packets[j].read \in Nat
      <3>1. \A j \in DOMAIN packets : packets[j] \in SoundPacket
        BY <2>5
      <3> QED
        BY <3>1, X360Assumption DEF SoundPacket
    <2>8. ASSUME NEW m \in DOMAIN parts, NEW piece, piece[1] \in Nat, piece[2] \in Nat,
                 \A j \in DOMAIN xpackets : NotAfter(piece, xpackets[j])
          PROVE  Later(parts[m], piece)
      <3>1. PICK j \in 1..i : parts[m][1] = xpackets[j].number /\ xpackets[j].read < parts[m][2]
        BY <2>6
      <3>2. NotAfter(piece, xpackets[j]) /\ xpackets[j].number \in Nat /\ xpackets[j].read \in Nat
        BY <1>d, <2>7, <2>8
      <3> QED
        BY <2>8, <2>p, <3>1, <3>2 DEF NotAfter, Later
    <2>9. ASSUME NEW m \in DOMAIN parts, NEW j \in DOMAIN packets PROVE NotAfter(parts[m], packets[j])
      <3>1. PICK a \in 1..i : /\ parts[m][1] = xpackets[a].number /\ xpackets[a].read < parts[m][2]
                              /\ (a = i => parts[m][2] <= xpackets[i].read + k)
        BY <2>6
      <3>2. PICK o \in DOMAIN xpackets : /\ o >= i /\ packets[j].number = xpackets[o].number
                                         /\ o = i => packets[j].read = xpackets[i].read + k
        BY <2>5
      <3>3. CASE a = o
        <4>1. a = i /\ o = i
          BY <1>t, <2>7, <3>2, <3>3
        <4> QED
          BY <3>1, <3>2, <4>1 DEF NotAfter
      <3>4. CASE a # o
        <4>1. a < o /\ a \in DOMAIN xpackets
          BY <1>t, <2>7, <3>2, <3>4
        <4> QED
          BY <1>t, <3>1, <3>2, <4>1 DEF NotAfter, PacketsInOrder
      <3> QED
        BY <3>3, <3>4
    <2>10. ASSUME NEW piece, piece[1] \in Nat, piece[2] \in Nat, \A j \in DOMAIN xpackets : NotAfter(piece, xpackets[j]),
                  NEW j \in DOMAIN packets
           PROVE  NotAfter(piece, packets[j])
      <3>1. PICK o \in DOMAIN xpackets : packets[j].number = xpackets[o].number /\ packets[j].read >= xpackets[o].read
        BY <2>5
      <3>2. NotAfter(piece, xpackets[o]) /\ xpackets[o].number \in Nat /\ xpackets[o].read \in Nat
        BY <1>d, <2>10
      <3> QED
        BY <2>10, <2>r, <3>1, <3>2 DEF NotAfter
    <2>11. \A a \in DOMAIN xsamples, b \in DOMAIN parts : Later(parts[b], xsamples[a])
      BY <1>d, <1>w, <2>8
    <2>12. /\ queue \in Seq(SoundPart) /\ PartsInOrder(queue)
           /\ \A a \in DOMAIN queue : \/ \E b \in DOMAIN xsamples : queue[a] = xsamples[b]
                                      \/ \E b \in DOMAIN parts : queue[a] = parts[b]
      <3>1. parts \in Seq(SoundPart) /\ PartsInOrder(parts) /\ queue = Enqueued(xsamples, parts)
        BY <2>4, <2>6
      <3> QED
        BY <1>t, <2>11, <3>1, QueueInOrder
    <2>13. ASSUME NEW b \in DOMAIN parts
           PROVE  /\ Later(parts[b], xheard) /\ parts[b][1] <= xsubmitted
                  /\ \A j \in DOMAIN packets : NotAfter(parts[b], packets[j])
      <3>1. PICK j \in 1..i : parts[b][1] = xpackets[j].number
        BY <2>6
      <3> QED
        BY <1>d, <1>w, <2>7, <2>8, <2>9, <3>1
    <2>14. ASSUME NEW b \in DOMAIN xsamples
           PROVE  \A j \in DOMAIN packets : NotAfter(xsamples[b], packets[j])
      BY <1>d, <1>w, <2>10
    <2>15. \A j \in DOMAIN packets : NotAfter(xheard, packets[j])
      BY <1>d, <1>w, <2>10
    <2>16. \A a \in DOMAIN queue : /\ Later(queue[a], xheard) /\ queue[a][1] <= xsubmitted
                                   /\ \A j \in DOMAIN packets : NotAfter(queue[a], packets[j])
      BY <1>w, <2>12, <2>13, <2>14
    <2>17. \A j \in DOMAIN packets : packets[j].number <= xsubmitted
      BY <1>w, <2>5
    <2>18. xpackets' = packets /\ xsamples' = queue
      BY <2>2, <2>4
    <2> QED
      BY <1>i, <1>t, <1>w, <2>3, <2>5, <2>12, <2>15, <2>16, <2>17, <2>18, Zenon
  <1>7. ASSUME Fill PROVE SoundInv' /\ Later(xheard', xheard)
    <2>1. /\ xsamples # << >> /\ xheard' = Head(xsamples) /\ xsamples' = Tail(xsamples)
          /\ xpackets' = xpackets /\ xsubmitted' = xsubmitted
      BY <1>7 DEF Fill
    <2>2. PICK queue, heard : queue = Tail(xsamples) /\ heard = Head(xsamples)
      OBVIOUS
    <2>3. /\ queue \in Seq(SoundPart) /\ heard = xsamples[1] /\ 1 \in DOMAIN xsamples
          /\ DOMAIN queue = 1..(Len(xsamples) - 1)
          /\ \A i \in DOMAIN queue : i + 1 \in DOMAIN xsamples /\ 1 < i + 1 /\ queue[i] = xsamples[i + 1]
      BY <1>t, <2>1, <2>2
    <2>4. PartsInOrder(queue)
      <3> SUFFICES ASSUME NEW i \in DOMAIN queue, NEW j \in DOMAIN queue, i < j PROVE Later(queue[j], queue[i])
        BY DEF PartsInOrder
      <3>1. i + 1 < j + 1
        BY <2>3
      <3> QED
        BY <1>t, <2>3, <3>1 DEF PartsInOrder
    <2>5. \A i \in DOMAIN queue : Later(queue[i], heard) /\ queue[i][1] <= xsubmitted
      BY <1>t, <1>w, <2>3 DEF PartsInOrder
    <2>6. /\ heard \in SoundPart /\ heard[1] <= xsubmitted /\ Later(heard, xheard)
          /\ \A j \in DOMAIN xpackets : NotAfter(heard, xpackets[j])
      BY <1>d, <1>w, <2>3
    <2>7. \A i \in DOMAIN queue, j \in DOMAIN xpackets : NotAfter(queue[i], xpackets[j])
      BY <1>w, <2>3
    <2> QED
      BY <1>i, <1>t, <1>w, <2>1, <2>2, <2>3, <2>4, <2>5, <2>6, <2>7, Zenon
  <1>8. ASSUME Unlock \/ Report \/ \E paused \in BOOLEAN : SetPaused(paused) PROVE SoundInv'
    BY <1>8, <1>u DEF Unlock, Report, SetPaused, xsound
  <1>9. ASSUME UNCHANGED xvars PROVE SoundInv' /\ (Fill => Later(xheard', xheard))
    BY <1>7, <1>9, <1>u DEF xvars
  <1>10. SoundInv'
    BY <1>1, <1>2, <1>3, <1>4, <1>5, <1>6, <1>7, <1>8, <1>9 DEF X360Next
  <1> QED
    BY <1>7, <1>10


LEMMA SoundKept == SoundInv /\ [X360Next]_xvars => SoundInv'
  BY SoundSteps

(* The device hears a later part each time.                                    *)
SoundGoesOn == Fill => Later(xheard', xheard)
LEMMA SoundOrdered == SoundInv /\ [X360Next]_xvars => [SoundGoesOn]_xvars
  BY SoundSteps DEF SoundGoesOn

-----------------------------------------------------------------------------
(* The start of two linked Galaga boards.  A turn of the coin comes every      *)
(* GlCoinEvery frames and brings an edge: of its own line, or, if a player     *)
(* held that line in the frame before, of the player's coin in the other slot. *)

GlLines == {"coin1", "coin2", "start2"}
GlModes == {"switch", "credit", "play"}
GlChips == [mode : GlModes, credits : Nat, coins : [CoinLines -> Nat], seen : SUBSET GlLines, players : {0, 2}]

GlEdge(chip, lines, l) == IF l \in lines \ chip.seen THEN 1 ELSE 0
(* Edges of either coin line that a chip without two credits has counted.      *)
EdgesOf(chip) == (IF chip.credits = 0 THEN 0 ELSE glCoinsPer) + chip.coins["coin1"] + chip.coins["coin2"]
ShortOfCredit(chip) == \A l \in CoinLines : chip.coins[l] < glCoinsPer

(* What insert_coin leaves: no slot holds a credit's coins, and while there    *)
(* are not two credits no coin is lost.                                       *)
LEMMA CoinsCounted ==
    ASSUME NEW chip \in GlChips, NEW lines \in SUBSET GlLines, NEW paid, paid = Inserted(chip, lines),
           glCoinsPer \in Nat \ {0}, ShortOfCredit(chip)
    PROVE  /\ paid \in GlChips /\ ShortOfCredit(paid) /\ paid.credits >= chip.credits
           /\ paid.mode = chip.mode /\ paid.seen = chip.seen /\ paid.players = chip.players
           /\ paid.credits < 2 =>
                EdgesOf(paid) = EdgesOf(chip) + GlEdge(chip, lines, "coin1") + GlEdge(chip, lines, "coin2")
  <1> DEFINE e(l) == GlEdge(chip, lines, l)
             coins == [l \in CoinLines |-> chip.coins[l] + e(l)]
             full == {l \in CoinLines : coins[l] >= glCoinsPer}
             left == [l \in CoinLines |-> IF l \in full THEN coins[l] - glCoinsPer ELSE coins[l]]
  <1>1. paid = [chip EXCEPT !.credits = @ + Cardinality(full), !.coins = left]
    BY DEF Inserted, GlEdge
  <1>2. PICK a \in Nat, b \in Nat, n \in Nat :
            a = chip.coins["coin1"] /\ b = chip.coins["coin2"] /\ n = chip.credits
    BY DEF GlChips, CoinLines
  <1>3. PICK x \in {0, 1}, y \in {0, 1} : x = e("coin1") /\ y = e("coin2")
    BY DEF GlEdge
  <1>4. PICK c \in Nat \ {0} : c = glCoinsPer
    OBVIOUS
  <1>5. a < c /\ b < c
    BY <1>2, <1>4 DEF ShortOfCredit, CoinLines
  <1>6. coins["coin1"] = a + x /\ coins["coin2"] = b + y
    BY <1>2, <1>3 DEF CoinLines
  <1>7. ("coin1" \in full <=> a + x >= c) /\ ("coin2" \in full <=> b + y >= c) /\ full \in SUBSET CoinLines
    BY <1>4, <1>6 DEF CoinLines
  <1>8. left["coin1"] = (IF a + x >= c THEN a + x - c ELSE a + x)
        /\ left["coin2"] = (IF b + y >= c THEN b + y - c ELSE b + y)
    BY <1>4, <1>6, <1>7 DEF CoinLines
  <1>9. left \in [CoinLines -> Nat]
    <2>1. left["coin1"] \in Nat /\ left["coin2"] \in Nat
      BY <1>8, <1>3, <1>4
    <2> HIDE DEF full, coins
    <2> QED
      BY <2>1 DEF CoinLines
  <1>10. Cardinality(full) = (IF a + x >= c THEN 1 ELSE 0) + (IF b + y >= c THEN 1 ELSE 0)
    <2> HIDE DEF full
    <2>1. CASE "coin1" \in full /\ "coin2" \in full
      <3>1. full = {"coin1", "coin2"} /\ "coin1" # "coin2"
        BY <2>1, <1>7 DEF CoinLines
      <3>2. Cardinality(full) = 2
        <4>1. full = {"coin1"} \cup {"coin2"} /\ IsFiniteSet({"coin1"}) /\ Cardinality({"coin1"}) = 1
          BY <3>1, FS_Singleton
        <4> QED
          BY <4>1, <3>1, FS_AddElement
      <3> QED
        BY <3>2, <2>1, <1>7
    <2>2. CASE "coin1" \in full /\ "coin2" \notin full
      <3>1. full = {"coin1"}
        BY <2>2, <1>7 DEF CoinLines
      <3>2. Cardinality(full) = 1
        BY <3>1, FS_Singleton
      <3> QED
        BY <3>2, <2>2, <1>7
    <2>3. CASE "coin1" \notin full /\ "coin2" \in full
      <3>1. full = {"coin2"}
        BY <2>3, <1>7 DEF CoinLines
      <3>2. Cardinality(full) = 1
        BY <3>1, FS_Singleton
      <3> QED
        BY <3>2, <2>3, <1>7
    <2>4. CASE "coin1" \notin full /\ "coin2" \notin full
      <3>1. full = {}
        BY <2>4, <1>7 DEF CoinLines
      <3>2. Cardinality(full) = 0
        BY <3>1, FS_EmptySet
      <3> QED
        BY <3>2, <2>4, <1>7
    <2> QED
      BY <2>1, <2>2, <2>3, <2>4
  <1> HIDE DEF full, coins, left
  <1>11. PICK k \in Nat : k = Cardinality(full)
    BY <1>10
  <1>12. /\ paid.credits = n + k /\ paid.coins = left
         /\ paid.mode = chip.mode /\ paid.seen = chip.seen /\ paid.players = chip.players
    BY <1>1, <1>2, <1>11 DEF GlChips
  <1>13. paid \in GlChips
    <2>1. paid = [mode |-> paid.mode, credits |-> paid.credits, coins |-> paid.coins, seen |-> paid.seen,
                  players |-> paid.players]
      BY <1>1 DEF GlChips
    <2>2. /\ paid.mode \in GlModes /\ paid.credits \in Nat /\ paid.coins \in [CoinLines -> Nat]
          /\ paid.seen \in SUBSET GlLines /\ paid.players \in {0, 2}
      BY <1>12, <1>9 DEF GlChips
    <2> QED
      BY <2>1, <2>2 DEF GlChips
  <1>14. ShortOfCredit(paid)
    <2>1. left["coin1"] < glCoinsPer /\ left["coin2"] < glCoinsPer
      BY <1>8, <1>3, <1>4, <1>5
    <2> QED
      BY <2>1, <1>12 DEF ShortOfCredit, CoinLines
  <1>15. paid.credits >= chip.credits
    BY <1>12, <1>2
  <1>16. ASSUME paid.credits < 2 PROVE EdgesOf(paid) = EdgesOf(chip) + x + y
    <2>1. EdgesOf(chip) = (IF n = 0 THEN 0 ELSE c) + a + b
      BY <1>2, <1>4 DEF EdgesOf
    <2>2. EdgesOf(paid) = (IF n + k = 0 THEN 0 ELSE c) + left["coin1"] + left["coin2"]
      BY <1>4, <1>12 DEF EdgesOf
    <2>3. n + k < 2 /\ k = (IF a + x >= c THEN 1 ELSE 0) + (IF b + y >= c THEN 1 ELSE 0)
      BY <1>16, <1>12, <1>10, <1>11
    <2> QED
      BY <2>1, <2>2, <2>3, <1>8, <1>3, <1>4
  <1> QED
    BY <1>3, <1>12, <1>13, <1>14, <1>15, <1>16

(* The host's chip as long as no start was accepted: in no game, no player     *)
(* selected, and the start line not seen.                                     *)
Fresh(chip) == chip.mode # "play" /\ chip.players = 0 /\ "start2" \notin chip.seen
Listens(program, chip) == program = "read" /\ chip.mode = "credit"

(* What the program's frame makes of a chip.  One that has seen no start line  *)
(* selects two players when it reads it with two credits; if it selects none,  *)
(* a read has taken note of the lines, and anything else has left them alone.  *)
LEMMA ChipRuns ==
    ASSUME NEW chip \in GlChips, NEW lines \in SUBSET GlLines, NEW program \in Programs, May(program, chip),
           NEW ran, ran = Ran(program, chip, lines), glCoinsPer \in Nat \ {0}, ShortOfCredit(chip)
    PROVE  /\ ran \in GlChips /\ ShortOfCredit(ran)
           /\ Fresh(chip) /\ "start2" \notin lines => ran.players = 0
           /\ Fresh(chip) /\ ("start2" \in lines => chip.credits >= 2) /\ ran.players # 2 =>
                /\ Fresh(ran) /\ ran.credits >= chip.credits
                /\ Listens(program, chip) =>
                     /\ "start2" \notin lines /\ ran.seen = lines
                     /\ ran.credits < 2 => EdgesOf(ran) = EdgesOf(chip) + GlEdge(chip, lines, "coin1")
                                                                       + GlEdge(chip, lines, "coin2")
                /\ ~Listens(program, chip) =>
                     ran.seen = chip.seen /\ ran.credits = chip.credits /\ EdgesOf(ran) = EdgesOf(chip)
  <1>1. CASE program = "busy"
    <2>1. ran = chip /\ chip.credits \in Nat /\ ~Listens(program, chip)
      BY <1>1 DEF Ran, GlChips, Listens
    <2> QED
      BY <2>1 DEF Fresh
  <1>2. CASE program = "credit"
    <2>1. ran = [chip EXCEPT !.mode = "credit", !.players = 0]
      BY <1>2 DEF Ran
    <2>2. ran \in GlChips
      BY <2>1 DEF GlChips, GlModes
    <2>3. /\ ran.mode = "credit" /\ ran.players = 0 /\ ran.credits = chip.credits /\ ran.coins = chip.coins
          /\ ran.seen = chip.seen
      BY <2>1 DEF GlChips
    <2>4. chip.credits \in Nat
      BY DEF GlChips
    <2> QED
      BY <2>2, <2>3, <2>4, <1>2 DEF ShortOfCredit, Fresh, EdgesOf, Listens
  <1>3. CASE program = "switch"
    <2>1. ran = [chip EXCEPT !.mode = "switch"]
      BY <1>3 DEF Ran
    <2>2. ran \in GlChips
      BY <2>1 DEF GlChips, GlModes
    <2>3. /\ ran.mode = "switch" /\ ran.players = chip.players /\ ran.credits = chip.credits /\ ran.coins = chip.coins
          /\ ran.seen = chip.seen
      BY <2>1 DEF GlChips
    <2>4. chip.credits \in Nat
      BY DEF GlChips
    <2> QED
      BY <2>2, <2>3, <2>4, <1>3 DEF ShortOfCredit, Fresh, EdgesOf, Listens
  <1>4. CASE program = "read" /\ chip.mode = "switch"
    <2>1. ran = chip /\ chip.credits \in Nat /\ ~Listens(program, chip)
      BY <1>4 DEF Ran, GlChips, Listens
    <2> QED
      BY <2>1 DEF Fresh
  <1>5. CASE program = "read" /\ chip.mode # "switch"
    <2>1. ran = CreditStatus(chip, lines)
      BY <1>5 DEF Ran
    <2>2. PICK counted : counted = Inserted(chip, lines)
      OBVIOUS
    <2>3. /\ counted \in GlChips /\ ShortOfCredit(counted) /\ counted.credits >= chip.credits
          /\ counted.mode = chip.mode /\ counted.seen = chip.seen /\ counted.players = chip.players
          /\ counted.credits < 2 =>
               EdgesOf(counted) = EdgesOf(chip) + GlEdge(chip, lines, "coin1") + GlEdge(chip, lines, "coin2")
      BY <2>2, CoinsCounted
    <2>4. PICK paid : paid = [counted EXCEPT !.seen = lines]
      OBVIOUS
    <2>5. /\ paid \in GlChips /\ paid.credits = counted.credits /\ paid.coins = counted.coins
          /\ paid.mode = counted.mode /\ paid.players = counted.players /\ paid.seen = lines
      BY <2>3, <2>4 DEF GlChips
    <2>6. paid.credits \in Nat /\ chip.credits \in Nat
      BY <2>5 DEF GlChips
    <2>7. ShortOfCredit(paid) /\ EdgesOf(paid) = EdgesOf(counted)
      BY <2>3, <2>5 DEF ShortOfCredit, EdgesOf
    <2>8. CASE chip.mode = "credit" /\ "start2" \in lines \ chip.seen /\ paid.credits >= 2
      <3>1. ran = [paid EXCEPT !.credits = @ - 2, !.players = 2, !.mode = "play"]
        BY <2>1, <2>2, <2>4, <2>8 DEF CreditStatus
      <3>2. PICK n \in Nat : n = paid.credits - 2
        BY <2>6, <2>8
      <3>3. ran = [paid EXCEPT !.credits = n, !.players = 2, !.mode = "play"]
        BY <3>1, <3>2
      <3>4. ran \in GlChips /\ ran.players = 2 /\ ran.coins = paid.coins
        BY <3>3, <2>5 DEF GlChips, GlModes
      <3>5. ShortOfCredit(ran)
        BY <3>4, <2>7 DEF ShortOfCredit
      <3> QED
        BY <3>4, <3>5, <2>8
    <2>9. CASE ~(chip.mode = "credit" /\ "start2" \in lines \ chip.seen /\ paid.credits >= 2)
      <3>1. ran = paid
        BY <2>1, <2>2, <2>4, <2>9 DEF CreditStatus
      <3>2. ASSUME Fresh(chip), "start2" \in lines => chip.credits >= 2
            PROVE  /\ Fresh(ran) /\ Listens(program, chip) /\ "start2" \notin lines
        <4>1. chip.mode = "credit"
          BY <3>2, <1>5 DEF Fresh, GlChips, GlModes
        <4>2. "start2" \notin lines
          BY <4>1, <3>2, <2>9, <2>3, <2>5, <2>6 DEF Fresh
        <4> QED
          BY <4>1, <4>2, <3>1, <3>2, <2>3, <2>5, <1>5 DEF Fresh, Listens
      <3>3. ran \in GlChips /\ ShortOfCredit(ran) /\ (Fresh(chip) => ran.players = 0)
        BY <3>1, <2>3, <2>5, <2>7 DEF Fresh
      <3>4. /\ ran.seen = lines /\ ran.credits >= chip.credits
            /\ ran.credits < 2 =>
                 EdgesOf(ran) = EdgesOf(chip) + GlEdge(chip, lines, "coin1") + GlEdge(chip, lines, "coin2")
        BY <3>1, <2>3, <2>5, <2>7
      <3> QED
        BY <3>2, <3>3, <3>4
    <2> QED
      BY <2>8, <2>9
  <1> QED
    BY <1>1, <1>2, <1>3, <1>4, <1>5 DEF Programs

GlTypes ==
    /\ glFrames \in Nat /\ glFrames < GlStartFrames + GlCoinEvery
    /\ glPulse \in Nat /\ glConfirm \in Nat /\ glConfirm < GlRetryEvery
    /\ glRequested \in BOOLEAN /\ glStarted \in BOOLEAN /\ glHeld \in BOOLEAN /\ glOver \in BOOLEAN
    /\ glChip \in [Boards -> GlChips] /\ glCoinsPer \in GlCoinage /\ glListened \in Nat
    /\ \A b \in Boards : ShortOfCredit(glChip[b])
GlCredits == glChip[1].credits
(* A start is only asked for with two credits, which the chip keeps.           *)
AskedWithCredits == glRequested => GlCredits >= 2

LEMMA GlNumbers ==
    /\ GlBootFrames \in Nat /\ GlStartFrames \in Nat /\ GlBootFrames <= GlStartFrames
    /\ GlCoinEvery \in Nat /\ GlCoinEvery >= 2
    /\ GlCoinFrames \in Nat /\ GlCoinFrames >= 1 /\ GlCoinFrames < GlCoinEvery
    /\ GlPulseFrames \in Nat /\ GlPulseFrames >= 1
    /\ GlRetryEvery \in Nat /\ GlRetryAt \in Nat /\ GlRetryAt + GlPulseFrames <= GlRetryEvery
  BY GalagaLinkAssumption

(* The session of the host works its lines: before the start is asked for it   *)
(* inserts coins by turns; then it presses start, at once and by turns.        *)
LEMMA HostWorks ==
    ASSUME GlTypes, ~glStarted, AskedWithCredits, NEW coin \in BOOLEAN, NEW start \in BOOLEAN,
           NEW host, host = HostLines(Merged(coin, start))
    PROVE  /\ host.lines \in SUBSET GlLines
           /\ host.frames = IF glRequested THEN glFrames ELSE Next30(glFrames)
           /\ host.requested \in BOOLEAN
           /\ (host.requested <=> (glRequested \/ (host.frames >= GlStartFrames /\ GlCredits >= 2)))
           /\ ("coin2" \in host.lines <=> coin)
           /\ ("coin1" \in host.lines <=> (coin \/ (~glRequested /\ CoinTurn(host.frames) /\ GlCredits < 2)))
           /\ ("start2" \in host.lines => GlCredits >= 2 /\ host.requested)
           /\ glRequested => /\ host.confirm = (glConfirm + 1) % GlRetryEvery
                             /\ (RetryTurn(host.confirm) => "start2" \in host.lines)
           /\ (~glRequested /\ host.requested) => "start2" \in host.lines /\ host.confirm = 1 % GlRetryEvery
           /\ ~host.requested => host.confirm = glConfirm
           /\ host.pulse \in Nat
  <1> DEFINE waits == ~glStarted /\ ~glRequested
             frames == IF waits THEN Next30(glFrames) ELSE glFrames
             ready == waits /\ frames >= GlStartFrames /\ GlCredits >= 2
             asked == ~glStarted /\ (glRequested \/ ready)
             confirm == IF asked THEN ((IF ready THEN 0 ELSE glConfirm) + 1) % GlRetryEvery ELSE glConfirm
             pulse == IF ready THEN GlPulseFrames ELSE glPulse
             pressed == asked /\ (pulse > 0 \/ (GlCredits >= 2 /\ RetryTurn(confirm)))
             inserted == \/ waits /\ CoinTurn(frames) /\ GlCredits < 2
                         \/ asked /\ pulse = 0 /\ GlCredits < 2 /\ confirm % GlCoinEvery < GlCoinFrames
             lines == Merged(coin, start)
             out == (IF glStarted THEN lines ELSE lines \ {"start2"})
                       \cup (IF pressed THEN {"start2"} ELSE {}) \cup (IF inserted THEN {"coin1"} ELSE {})
  <1>1. host = [lines |-> out, frames |-> frames, requested |-> glRequested \/ ready, confirm |-> confirm,
                pulse |-> IF asked /\ pulse > 0 THEN pulse - 1 ELSE pulse]
    BY DEF HostLines, GlCredits
  <1>2. /\ host.lines = out /\ host.frames = frames /\ host.confirm = confirm
        /\ host.pulse = IF asked /\ pulse > 0 THEN pulse - 1 ELSE pulse
    BY <1>1
  <1>3. host.requested = (glRequested \/ ready)
    <2> DEFINE less == IF asked /\ pulse > 0 THEN pulse - 1 ELSE pulse
               press == glRequested \/ ready
    <2>1. host = [lines |-> out, frames |-> frames, requested |-> press, confirm |-> confirm, pulse |-> less]
      BY <1>1
    <2> HIDE DEF less, out, frames, confirm, press
    <2>2. host.requested = press
      BY <2>1
    <2> QED
      BY <2>2 DEF press
  <1>4. GlCredits \in Nat
    BY DEF GlTypes, GlChips, Boards, GlCredits
  <1>5. ready <=> (~glRequested /\ frames >= GlStartFrames /\ GlCredits >= 2)
    OBVIOUS
  <1>6. asked <=> (glRequested \/ ready)
    OBVIOUS
  <1>7. asked => GlCredits >= 2
    BY <1>5, <1>6 DEF AskedWithCredits
  <1>8. inserted <=> (~glRequested /\ CoinTurn(frames) /\ GlCredits < 2)
    BY <1>4, <1>7
  <1>9. pressed => GlCredits >= 2 /\ (glRequested \/ ready)
    BY <1>6, <1>7
  <1>10. glRequested => confirm = (glConfirm + 1) % GlRetryEvery /\ (RetryTurn(confirm) => pressed)
    BY <1>5, <1>6, <1>7
  <1>11. ready => pressed /\ confirm = 1 % GlRetryEvery
    <2>1. ASSUME ready PROVE confirm = (0 + 1) % GlRetryEvery /\ 0 + 1 = 1
      BY <2>1, <1>6
    <2>2. ASSUME ready PROVE pressed
      BY <2>2, <1>6, GlNumbers
    <2> QED
      BY <2>1, <2>2
  <1>12. host.pulse \in Nat
    BY <1>2, GlNumbers DEF GlTypes
  <1>13. ~(glRequested \/ ready) => confirm = glConfirm
    BY <1>6
  <1>14. frames = IF glRequested THEN glFrames ELSE Next30(glFrames)
    OBVIOUS
  <1> HIDE DEF pressed, inserted, asked, confirm, pulse, frames, ready, waits
  <1>15. /\ out \in SUBSET GlLines
         /\ ("coin2" \in out <=> coin) /\ ("coin1" \in out <=> (coin \/ inserted)) /\ ("start2" \in out <=> pressed)
    <2>1. lines \in SUBSET GlLines /\ ("coin1" \in lines <=> coin) /\ ("coin2" \in lines <=> coin)
      BY DEF Merged, CoinLines, GlLines
    <2>2. out = (lines \ {"start2"}) \cup (IF pressed THEN {"start2"} ELSE {}) \cup (IF inserted THEN {"coin1"} ELSE {})
      OBVIOUS
    <2> HIDE DEF lines, out
    <2> QED
      BY <2>1, <2>2 DEF GlLines
  <1> HIDE DEF out, lines
  <1>16. host.requested \in BOOLEAN /\ (host.requested <=> (glRequested \/ ready))
    BY <1>3, Zenon DEF GlTypes
  <1> QED
    BY <1>2, <1>5, <1>8, <1>9, <1>10, <1>11, <1>12, <1>13, <1>14, <1>15, <1>16

-----------------------------------------------------------------------------
(* The turns of the coin.                                                      *)

LEMMA NextPlace ==
    ASSUME NEW p \in Nat \ {0}, NEW x \in Nat
    PROVE  /\ x % p \in 0..(p - 1)
           /\ (x + 1) % p = IF x % p = p - 1 THEN 0 ELSE (x % p) + 1
           /\ (x + p) % p = x % p
  <1>1. PICK d \in Nat, s \in 0..(p - 1) : d = x \div p /\ s = x % p /\ x = d * p + s
    BY Places
  <1>2. PICK e \in Nat : e = d + 1 /\ e * p = d * p + p
    OBVIOUS
  <1>3. PICK y \in Nat, z \in Nat : y = x + 1 /\ z = x + p
    OBVIOUS
  <1>4. \A n \in Nat, r \in 0..(p - 1) : y = n * p + r => y % p = r
    BY Places
  <1>5. \A n \in Nat, r \in 0..(p - 1) : z = n * p + r => z % p = r
    BY Places
  <1>6. PICK k \in Int, m \in Int : k = d * p /\ m = e * p
    OBVIOUS
  <1>7. z % p = s
    <2>1. z = e * p + s
      BY <1>1, <1>2, <1>3, <1>6
    <2> QED
      BY <2>1, <1>5
  <1>8. CASE s = p - 1
    <2>1. y = e * p + 0
      BY <1>1, <1>2, <1>3, <1>6, <1>8
    <2>2. y % p = 0
      BY <2>1, <1>4
    <2> QED
      BY <1>1, <1>3, <1>7, <1>8, <2>2
  <1>9. CASE s # p - 1
    <2>1. y = d * p + (s + 1) /\ s + 1 \in 0..(p - 1)
      BY <1>1, <1>3, <1>6, <1>9
    <2>2. y % p = s + 1
      BY <2>1, <1>4
    <2> QED
      BY <1>1, <1>3, <1>7, <1>9, <2>2
  <1> QED
    BY <1>8, <1>9

GlPhase(frames) == (frames - GlBootFrames) % GlCoinEvery

(* The coin's turn is the first GlCoinFrames of each GlCoinEvery frames, and    *)
(* the frames that the session counts keep that cycle.                        *)
LEMMA NextPhase ==
    ASSUME NEW f \in Nat, f >= GlBootFrames, f < GlStartFrames + GlCoinEvery, NEW g, g = Next30(f)
    PROVE  /\ g \in Nat /\ g >= GlBootFrames
           /\ GlPhase(f) \in 0..(GlCoinEvery - 1)
           /\ GlPhase(g) = IF GlPhase(f) = GlCoinEvery - 1 THEN 0 ELSE GlPhase(f) + 1
  <1>1. PICK x \in Nat : x = f - GlBootFrames
    BY GlNumbers
  <1>2. PICK p \in Nat \ {0} : p = GlCoinEvery
    BY GlNumbers
  <1>3. x % p \in 0..(p - 1) /\ (x + 1) % p = IF x % p = p - 1 THEN 0 ELSE (x % p) + 1
    BY NextPlace
  <1>4. GlPhase(f) = x % p
    BY <1>1, <1>2 DEF GlPhase
  <1>5. g \in Nat /\ g >= GlBootFrames /\ GlPhase(g) = (x + 1) % p
    <2>1. CASE f < GlStartFrames + GlCoinEvery - 1
      <3>1. g = f + 1 /\ g - GlBootFrames = x + 1
        BY <1>1, <2>1, GlNumbers DEF Next30
      <3> QED
        BY <3>1, <1>1, <1>2, GlNumbers DEF GlPhase
    <2>2. CASE ~(f < GlStartFrames + GlCoinEvery - 1)
      <3>1. g = GlStartFrames /\ f = GlStartFrames + GlCoinEvery - 1
        BY <2>2, GlNumbers DEF Next30
      <3>2. PICK y \in Nat : y = g - GlBootFrames /\ y + p = x + 1
        BY <3>1, <1>1, <1>2, GlNumbers
      <3>3. (y + p) % p = y % p
        BY NextPlace
      <3> QED
        BY <3>1, <3>2, <3>3, <1>2, GlNumbers DEF GlPhase
    <2> QED
      BY <2>1, <2>2
  <1> QED
    BY <1>2, <1>3, <1>4, <1>5

LEMMA NextTurn ==
    ASSUME NEW g \in Nat, g >= GlBootFrames, NEW phase \in Nat, phase = GlPhase(g)
    PROVE  CoinTurn(g) <=> phase < GlCoinFrames
  BY DEF CoinTurn, GlPhase

(* Short of two credits the coin lines have brought fewer than thrice the      *)
(* coins of a credit.                                                         *)
LEMMA FewEdges ==
    ASSUME NEW chip \in GlChips, glCoinsPer \in Nat \ {0}, ShortOfCredit(chip)
    PROVE  EdgesOf(chip) \in Nat /\ (chip.credits < 2 => EdgesOf(chip) <= 3 * glCoinsPer - 2)
  BY DEF GlChips, ShortOfCredit, EdgesOf, CoinLines

(* Numbers of turns in frames.                                                *)
LEMMA EdgesTake ==
    ASSUME NEW p \in Nat, NEW i \in Nat, NEW j \in Int, NEW a, a = i * p, NEW b, b = j * p
    PROVE  a \in Nat /\ b \in Int /\ (i <= j => a <= b) /\ (i + 1 <= j => a + p <= b) /\ (1 <= i => p <= a)
  <1>1. i <= j => (j - i) * p >= 0 /\ (j - i) * p = b - a
    BY SMT
  <1>2. i + 1 <= j => (j - i - 1) * p >= 0 /\ (j - i - 1) * p = b - a - p
    BY SMT
  <1>3. 1 <= i => (i - 1) * p >= 0 /\ (i - 1) * p = a - p
    BY SMT
  <1>4. a \in Nat /\ b \in Int
    OBVIOUS
  <1> QED
    BY <1>1, <1>2, <1>3, <1>4

-----------------------------------------------------------------------------
(* How long the program may have listened for nothing.                         *)

GlEdges == EdgesOf(glChip[1])
GlSeen == glChip[1].seen
LastOfTurn == GlPhase(glFrames) = GlCoinEvery - 1

GlBefore ==
    /\ AskedWithCredits /\ Fresh(glChip[1])
    /\ GlCredits < 2 /\ GlSeen \cap CoinLines # {} => GlEdges >= 1
(* While the session inserts coins: no longer than the frames it counts, and    *)
(* each edge so far has bought it a turn.  At the end of a turn a coin that    *)
(* hides the next one's edge was a player's, and has paid for it.              *)
GlInserting ==
    /\ glFrames < GlStartFrames => glListened <= glFrames
    /\ glFrames >= GlBootFrames /\ GlCredits < 2 =>
         /\ glListened <= Late + GlEdges * GlCoinEvery + GlPhase(glFrames)
         /\ LastOfTurn /\ glListened >= 1 =>
              /\ glHeld => glListened <= Late + GlEdges * GlCoinEvery - 1
              /\ "coin1" \in GlSeen => glHeld
    /\ glListened >= 1 => ("coin2" \in GlSeen <=> glHeld)
    /\ glFrames >= GlStartFrames /\ GlCredits >= 2 => glListened <= CoinsTake
(* While it presses start: not while the line is up, and since it went down.   *)
Pressed(confirm, listened) ==
    /\ RetryTurn(confirm) => listened = 0
    /\ confirm < GlRetryAt => listened <= confirm + 1 + GlRetryEvery - GlRetryAt - GlPulseFrames
    /\ confirm >= GlRetryAt + GlPulseFrames => listened <= confirm - GlRetryAt - GlPulseFrames + 1
GlPressing == Pressed(glConfirm, glListened)
GlInv ==
    /\ GlTypes /\ StartedInTime
    /\ ~glStarted => GlBefore
    /\ ~glStarted /\ ~glOver => IF glRequested THEN GlPressing ELSE GlInserting

(* The turn that begins brings an edge, unless the coin before it has.         *)
LEMMA TurnPays ==
    ASSUME NEW p \in Nat, p >= 2, NEW late \in Nat, NEW i \in Nat, NEW j \in Nat, NEW a, NEW b, a = i * p, b = j * p,
           NEW ph \in 0..(p - 1), NEW l \in Nat, NEW m \in Nat, m <= l + 1, l <= late + a + ph,
           i <= j, 1 <= j
    PROVE  /\ ph # p - 1 => m <= late + b + ph + 1
           /\ ph # p - 1 /\ (l >= 1 => i + 1 <= j) => m <= late + b + ph + 1 - p \/ m <= late + b - 1
           /\ ph = p - 1 /\ i + 1 <= j => m <= late + b
           /\ ph = p - 1 /\ (l >= 1 => l <= late + a - 1) => m <= late + b
  <1>1. /\ a \in Nat /\ b \in Int /\ (i <= j => a <= b) /\ (i + 1 <= j => a + p <= b)
    BY EdgesTake
  <1>2. 1 <= j => p <= b
    BY EdgesTake
  <1> QED
    BY <1>1, <1>2

LEMMA LongEnough ==
    ASSUME glCoinsPer \in Nat \ {0}, NEW i \in Nat, NEW a, a = i * GlCoinEvery
    PROVE  /\ Late \in Nat /\ GlBootFrames <= Late + GlCoinEvery
           /\ CoinsTake \in Int /\ GlPatience \in Int
           /\ CoinsTake <= GlPatience /\ GlStartFrames <= GlPatience /\ GlRetryEvery - GlPulseFrames <= GlPatience
           /\ i <= 3 * glCoinsPer - 2 => Late + a + GlCoinEvery <= CoinsTake
           /\ Late + GlCoinEvery <= CoinsTake
  <1>1. Late \in Nat /\ GlBootFrames <= Late + GlCoinEvery
    BY GlNumbers DEF Late, Longer
  <1>2. PICK j \in Int : j = 3 * glCoinsPer - 1 /\ j >= 1
    OBVIOUS
  <1>3. PICK b \in Int : b = j * GlCoinEvery
    BY GlNumbers
  <1>4. CoinsTake = Late + b
    BY <1>2, <1>3 DEF CoinsTake
  <1>5. /\ CoinsTake <= GlPatience /\ GlStartFrames <= GlPatience /\ GlRetryEvery - GlPulseFrames <= GlPatience
        /\ GlPatience \in Int
    BY <1>1, <1>4, GlNumbers DEF GlPatience, Longer
  <1>6. i + 1 <= j => a + GlCoinEvery <= b
    BY <1>3, EdgesTake, GlNumbers
  <1>7. GlCoinEvery <= b
    <2>1. PICK z \in Nat, x \in Int : z = 0 /\ x = z * GlCoinEvery /\ x = 0
      BY GlNumbers
    <2>2. z + 1 <= j => x + GlCoinEvery <= b
      BY <2>1, <1>3, EdgesTake, GlNumbers
    <2> QED
      BY <2>1, <2>2, <1>2, GlNumbers
  <1>8. i <= 3 * glCoinsPer - 2 => i + 1 <= j
    BY <1>2
  <1>9. PICK n \in Nat : n = a
    BY GlNumbers
  <1>10. i <= 3 * glCoinsPer - 2 => Late + a + GlCoinEvery <= CoinsTake
    BY <1>1, <1>3, <1>4, <1>6, <1>8, <1>9, GlNumbers
  <1> QED
    BY <1>1, <1>3, <1>4, <1>5, <1>7, <1>10, GlNumbers

(* A frame while the session inserts coins.                                    *)
LEMMA InsertingGoesOn ==
    ASSUME GlTypes, ~glStarted, ~glRequested, GlBefore, GlInserting, NEW coin \in BOOLEAN, NEW start \in BOOLEAN,
           coin => ~glHeld, NEW program \in Programs, May(program, glChip[1]),
           NEW host, host = HostLines(Merged(coin, start)), ~host.requested,
           NEW ran, ran = Ran(program, glChip[1], host.lines), ran.players # 2,
           NEW listened \in Nat, listened >= 1 => Listens(program, glChip[1]) /\ listened <= glListened + 1
    PROVE  /\ host.frames < GlStartFrames => listened <= host.frames
           /\ host.frames >= GlBootFrames /\ ran.credits < 2 =>
                /\ listened <= Late + EdgesOf(ran) * GlCoinEvery + GlPhase(host.frames)
                /\ GlPhase(host.frames) = GlCoinEvery - 1 /\ listened >= 1 =>
                     /\ coin => listened <= Late + EdgesOf(ran) * GlCoinEvery - 1
                     /\ "coin1" \in ran.seen => coin
           /\ listened >= 1 => ("coin2" \in ran.seen <=> coin)
           /\ host.frames >= GlStartFrames /\ ran.credits >= 2 => listened <= CoinsTake
           /\ ran.credits < 2 /\ ran.seen \cap CoinLines # {} => EdgesOf(ran) >= 1
  <1> DEFINE chip == glChip[1]
  <1>1. /\ glCoinsPer \in Nat \ {0} /\ chip \in GlChips /\ ShortOfCredit(chip) /\ Fresh(chip)
        /\ GlCredits = chip.credits /\ GlCredits \in Nat
    BY GalagaLinkAssumption DEF GlTypes, GlBefore, Boards, GlCredits, GlChips
  <1>0. /\ host.frames = Next30(glFrames)
        /\ ~(host.frames >= GlStartFrames /\ GlCredits >= 2)
        /\ host.lines \in SUBSET GlLines /\ "start2" \notin host.lines
        /\ ("coin2" \in host.lines <=> coin)
        /\ ("coin1" \in host.lines <=> (coin \/ (CoinTurn(host.frames) /\ GlCredits < 2)))
    BY HostWorks DEF GlBefore
  <1>2. PICK f \in Nat, g \in Nat : f = glFrames /\ g = host.frames /\ g = Next30(f) /\ f < GlStartFrames + GlCoinEvery
    <2>1. Next30(glFrames) \in Nat
      BY GlNumbers DEF GlTypes, Next30
    <2> QED
      BY <1>0, <2>1 DEF GlTypes
  <1>3. /\ host.lines \in SUBSET GlLines /\ "start2" \notin host.lines
        /\ ("coin2" \in host.lines <=> coin)
        /\ ("coin1" \in host.lines <=> (coin \/ (CoinTurn(g) /\ GlCredits < 2)))
        /\ ~(g >= GlStartFrames /\ GlCredits >= 2)
    BY <1>0, <1>2
  <1>4. /\ ran \in GlChips /\ ShortOfCredit(ran) /\ ran.credits >= GlCredits
        /\ Listens(program, chip) =>
             /\ ran.seen = host.lines
             /\ ran.credits < 2 => EdgesOf(ran) = EdgesOf(chip) + GlEdge(chip, host.lines, "coin1")
                                                               + GlEdge(chip, host.lines, "coin2")
        /\ ~Listens(program, chip) => ran.seen = chip.seen /\ ran.credits = chip.credits /\ EdgesOf(ran) = EdgesOf(chip)
    BY <1>1, <1>3, ChipRuns
  <1>5. PICK i \in Nat, j \in Nat, x \in {0, 1}, y \in {0, 1}, n \in Nat, m \in Nat :
            /\ i = EdgesOf(chip) /\ j = EdgesOf(ran) /\ n = GlCredits /\ m = ran.credits
            /\ x = GlEdge(chip, host.lines, "coin1") /\ y = GlEdge(chip, host.lines, "coin2")
    BY <1>1, <1>4, FewEdges DEF GlEdge, GlChips
  <1>6. /\ m >= n /\ (n < 2 => i <= 3 * glCoinsPer - 2) /\ (m < 2 => j <= 3 * glCoinsPer - 2)
        /\ (Listens(program, chip) /\ m < 2 => j = i + x + y)
        /\ (~Listens(program, chip) => j = i /\ m = n)
    BY <1>1, <1>4, <1>5, FewEdges
  <1>7. PICK p \in Nat, a \in Nat, b \in Nat, late \in Nat, l \in Nat :
            p = GlCoinEvery /\ p >= 2 /\ a = i * p /\ b = j * p /\ late = Late /\ l = glListened
    <2>1. Late \in Nat
      BY GlNumbers DEF Late, Longer
    <2> QED
      BY <2>1, GlNumbers DEF GlTypes
  <1> HIDE DEF chip
  <1>8. /\ GlBootFrames <= late + p /\ CoinsTake \in Int /\ late + p <= CoinsTake
        /\ n < 2 => late + a + p <= CoinsTake
    BY <1>1, <1>6, <1>7, LongEnough
  <1>9. /\ f < GlStartFrames => l <= f
        /\ f >= GlBootFrames /\ n < 2 =>
             /\ l <= late + a + GlPhase(f)
             /\ GlPhase(f) = p - 1 /\ l >= 1 =>
                  /\ glHeld => l <= late + a - 1
                  /\ "coin1" \in chip.seen => glHeld
        /\ l >= 1 => ("coin2" \in chip.seen <=> glHeld)
        /\ n < 2 /\ chip.seen \cap CoinLines # {} => i >= 1
    BY <1>2, <1>5, <1>7 DEF GlInserting, GlBefore, GlEdges, GlSeen, LastOfTurn, GlCredits, chip
  <1>10. /\ x = 1 <=> "coin1" \in host.lines \ chip.seen
         /\ y = 1 <=> "coin2" \in host.lines \ chip.seen
    BY <1>5 DEF GlEdge
  <1>11. /\ g < GlStartFrames => g = f + 1 /\ f < GlStartFrames
         /\ f < GlStartFrames => g = f + 1
    BY <1>2, GlNumbers DEF Next30
  <1>12. g < GlStartFrames => listened <= g
    BY <1>2, <1>7, <1>9, <1>11, GlNumbers
  <1>13. ran.seen \cap CoinLines # {} /\ m < 2 => j >= 1
    <2>1. CASE Listens(program, chip)
      <3>1. ASSUME m < 2, NEW coinLine \in {"coin1", "coin2"}, coinLine \in ran.seen PROVE j >= 1
        <4>1. n < 2 /\ j = i + x + y /\ coinLine \in host.lines
          BY <3>1, <2>1, <1>4, <1>6 DEF chip
        <4>2. CASE coinLine \in chip.seen
          <5>1. i >= 1
            BY <4>1, <4>2, <1>9 DEF CoinLines
          <5> QED
            BY <4>1, <5>1
        <4>3. CASE coinLine \notin chip.seen
          <5>1. x = 1 \/ y = 1
            BY <4>1, <4>3, <1>10
          <5> QED
            BY <4>1, <5>1
        <4> QED
          BY <4>2, <4>3
      <3> QED
        BY <3>1 DEF CoinLines
    <2>2. CASE ~Listens(program, chip)
      BY <2>2, <1>4, <1>5, <1>6, <1>9 DEF chip
    <2> QED
      BY <2>1, <2>2
  <1>14. ASSUME g >= GlBootFrames, m < 2
         PROVE  /\ listened <= late + b + GlPhase(g)
                /\ GlPhase(g) = p - 1 /\ listened >= 1 =>
                     /\ coin => listened <= late + b - 1
                     /\ "coin1" \in ran.seen => coin
    <2>1. n < 2 /\ GlPhase(g) \in 0..(p - 1)
      <3>1. PICK z \in Nat : z = g - GlBootFrames
        BY <1>14, <1>2, GlNumbers
      <3>2. z % p \in 0..(p - 1)
        BY <1>7, NextPlace
      <3> QED
        BY <3>1, <3>2, <1>14, <1>6, <1>7 DEF GlPhase
    <2>2. PICK q \in 0..(p - 1) : q = GlPhase(g)
      BY <2>1
    <2>3. CASE listened = 0
      BY <2>3, <2>2, <1>7
    <2>4. CASE listened # 0
      <3>1. /\ listened >= 1 /\ listened <= l + 1 /\ j = i + x + y
            /\ "coin2" \in host.lines <=> coin
            /\ "coin1" \in host.lines <=> (coin \/ q < GlCoinFrames)
            /\ ran.seen = host.lines
        <4>1. listened >= 1 /\ listened <= l + 1 /\ Listens(program, chip)
          BY <2>4, <1>7 DEF chip
        <4>2. CoinTurn(g) <=> q < GlCoinFrames
          BY <1>14, <2>2, <1>7, NextTurn
        <4> QED
          BY <4>1, <4>2, <2>1, <1>3, <1>4, <1>5, <1>6, <1>14 DEF chip
      <3>2. q < GlCoinFrames \/ coin => j >= 1
        BY <3>1, <1>9, <1>10, <2>1 DEF CoinLines
      <3>3. q = p - 1 => ~(q < GlCoinFrames)
        BY <1>7, GlNumbers
      <3>4. p <= b \/ j = 0
        BY <1>7, EdgesTake
      <3>5. CASE f < GlBootFrames
        <4>1. g = GlBootFrames /\ l + 1 <= g /\ q = 0
          <5>1. g = f + 1 /\ l <= f /\ g = GlBootFrames
            BY <3>5, <1>2, <1>9, <1>11, <1>14, GlNumbers
          <5>2. g - GlBootFrames = 0 /\ 0 % p = 0
            <6>1. 0 = 0 * p + 0
              BY <1>7
            <6> QED
              BY <5>1, <6>1, <1>7, Places, GlNumbers
          <5> QED
            BY <5>1, <5>2, <2>2, <1>2, <1>7 DEF GlPhase
        <4>2. j >= 1 /\ p <= b
          BY <4>1, <3>2, <3>4, GlNumbers
        <4>3. listened <= late + b
          BY <4>1, <4>2, <3>1, <1>2, <1>7, <1>8, GlNumbers
        <4> QED
          BY <4>1, <4>3, <2>2, <1>7
      <3>6. CASE f >= GlBootFrames
        <4>1. PICK ph \in 0..(p - 1) : ph = GlPhase(f) /\ q = IF ph = p - 1 THEN 0 ELSE ph + 1
          BY <3>6, <1>2, <1>7, <2>2, NextPhase
        <4>2. /\ l <= late + a + ph
              /\ ph = p - 1 /\ l >= 1 => (glHeld => l <= late + a - 1) /\ ("coin1" \in chip.seen => glHeld)
          BY <4>1, <3>6, <2>1, <1>9
        <4>3. i <= j
          BY <3>1
        <4>4. CASE ph # p - 1
          <5>1. listened <= late + b + q
            <6>1. a <= b
              BY <4>3, <1>7, EdgesTake
            <6> QED
              BY <6>1, <4>1, <4>2, <4>4, <3>1, <1>7
          <5>2. ASSUME q = p - 1, coin PROVE listened <= late + b - 1
            <6>1. l >= 1 => i + 1 <= j
              <7>1. l >= 1 => y = 1
                BY <5>2, <3>1, <1>9, <1>10
              <7> QED
                BY <7>1, <3>1
            <6>2. 1 <= j
              BY <5>2, <3>2
            <6> QED
              BY <6>1, <6>2, <5>2, <4>1, <4>2, <4>3, <4>4, <3>1, <1>7, TurnPays
          <5>3. ASSUME q = p - 1, "coin1" \in ran.seen PROVE coin
            BY <5>3, <3>1, <3>3
          <5> QED
            BY <5>1, <5>2, <5>3, <2>2
        <4>5. CASE ph = p - 1
          <5>1. q = 0 /\ "coin1" \in host.lines /\ 1 <= j
            BY <4>5, <4>1, <3>1, <3>2, GlNumbers
          <5>2. i + 1 <= j \/ (l >= 1 => l <= late + a - 1)
            BY <5>1, <4>2, <4>5, <3>1, <1>10
          <5>3. listened <= late + b
            BY <5>1, <5>2, <4>1, <4>2, <4>3, <4>5, <3>1, <1>7, TurnPays
          <5> QED
            BY <5>1, <5>3, <2>2, <1>7
        <4> QED
          BY <4>4, <4>5
      <3> QED
        BY <3>5, <3>6, <1>2, GlNumbers
    <2> QED
      BY <2>3, <2>4
  <1>15. listened >= 1 => ("coin2" \in ran.seen <=> coin)
    BY <1>3, <1>4 DEF chip
  <1>16. ASSUME g >= GlStartFrames, m >= 2 PROVE listened <= CoinsTake
    <2>1. n < 2 /\ late + a + p <= CoinsTake
      BY <1>16, <1>3, <1>5, <1>8
    <2>2. listened = 0 \/ listened <= l + 1
      BY <1>7
    <2>3. CASE f >= GlBootFrames
      <3>1. GlPhase(f) \in 0..(p - 1) /\ l <= late + a + GlPhase(f)
        BY <2>1, <2>3, <1>2, <1>7, <1>9, NextPhase
      <3>2. PICK ph \in 0..(p - 1) : ph = GlPhase(f)
        BY <3>1
      <3> QED
        BY <3>1, <3>2, <2>1, <2>2, <1>7, <1>8
    <2>4. CASE f < GlBootFrames
      <3>1. g = f + 1 /\ l <= f /\ g <= GlBootFrames
        BY <2>4, <1>2, <1>9, <1>11, GlNumbers
      <3> QED
        BY <3>1, <2>2, <1>2, <1>7, <1>8, GlNumbers
    <2> QED
      BY <2>3, <2>4, <1>2, GlNumbers
  <1> QED
    BY <1>2, <1>5, <1>7, <1>12, <1>13, <1>14, <1>15, <1>16

LEMMA AroundTheRetry ==
    ASSUME NEW confirm \in Nat, confirm < GlRetryEvery
    PROVE  (confirm + 1) % GlRetryEvery = IF confirm = GlRetryEvery - 1 THEN 0 ELSE confirm + 1
  <1>1. PICK r \in Nat, x \in Nat : r = GlRetryEvery /\ r >= 1 /\ x = confirm + 1 /\ x <= r
    BY GlNumbers
  <1>2. \A n \in Nat, m \in 0..(r - 1) : x = n * r + m => x % r = m
    BY <1>1, Places
  <1>3. CASE x = r
    <2>1. x = 1 * r + 0
      BY <1>1, <1>3
    <2>2. x % r = 0
      BY <2>1, <1>1, <1>2
    <2> QED
      BY <2>2, <1>1, <1>3
  <1>4. CASE x # r
    <2>1. x = 0 * r + x /\ x \in 0..(r - 1)
      BY <1>1, <1>4
    <2>2. x % r = x
      BY <2>1, <1>2
    <2> QED
      BY <2>2, <1>1, <1>4
  <1> QED
    BY <1>3, <1>4

(* A frame while the session presses start.                                    *)
LEMMA PressingGoesOn ==
    ASSUME NEW confirm \in Nat, confirm < GlRetryEvery, NEW l \in Nat, Pressed(confirm, l),
           NEW next, next = (confirm + 1) % GlRetryEvery, NEW listened \in Nat, listened <= l + 1,
           RetryTurn(next) => listened = 0
    PROVE  next \in Nat /\ next < GlRetryEvery /\ Pressed(next, listened)
  <1>1. next = IF confirm = GlRetryEvery - 1 THEN 0 ELSE confirm + 1
    BY AroundTheRetry
  <1>2. next \in Nat /\ next < GlRetryEvery
    BY <1>1, GlNumbers
  <1>3. CASE confirm = GlRetryEvery - 1
    BY <1>1, <1>3, GlNumbers DEF Pressed, RetryTurn
  <1>4. CASE confirm # GlRetryEvery - 1
    BY <1>1, <1>4, GlNumbers DEF Pressed, RetryTurn
  <1> QED
    BY <1>2, <1>3, <1>4

(* Nobody listens longer than a start may take.                               *)
LEMMA PressedInTime ==
    ASSUME NEW confirm \in Nat, confirm < GlRetryEvery, NEW l \in Nat, Pressed(confirm, l)
    PROVE  l <= GlRetryEvery - GlPulseFrames
  BY GlNumbers DEF Pressed, RetryTurn

(* A session whose game has started leaves the lines to the players.           *)
LEMMA HostRests ==
    ASSUME GlTypes, glStarted, NEW coin \in BOOLEAN, NEW start \in BOOLEAN,
           NEW host, host = HostLines(Merged(coin, start))
    PROVE  /\ host.lines \in SUBSET GlLines /\ host.frames = glFrames /\ host.requested \in BOOLEAN
           /\ host.confirm = glConfirm /\ host.pulse = glPulse
  <1>1. Merged(coin, start) \in SUBSET GlLines
    BY DEF Merged, CoinLines, GlLines
  <1>2. host.lines \in SUBSET GlLines /\ host.frames = glFrames /\ host.confirm = glConfirm /\ host.pulse = glPulse
    BY <1>1 DEF HostLines, GlLines
  <1>3. host.requested \in BOOLEAN
    BY DEF HostLines
  <1> QED
    BY <1>2, <1>3

LEMMA GlBegins == GlInit => GlInv
  <1> SUFFICES ASSUME GlInit PROVE GlInv
    OBVIOUS
  <1>1. PICK c \in Nat \ {0} : c = glCoinsPer
    BY GalagaLinkAssumption DEF GlInit
  <1>2. NewChip \in GlChips
    BY DEF NewChip, GlChips, GlModes, GlLines
  <1>3. GlTypes
    <2>1. \A b \in Boards : glChip[b] = NewChip
      BY DEF GlInit
    <2>2. ShortOfCredit(NewChip)
      BY <1>1 DEF ShortOfCredit, NewChip, CoinLines
    <2>3. glChip \in [Boards -> GlChips] /\ \A b \in Boards : ShortOfCredit(glChip[b])
      BY <2>1, <2>2, <1>2 DEF GlInit
    <2>4. glRequested \in BOOLEAN /\ glStarted \in BOOLEAN /\ glHeld \in BOOLEAN /\ glOver \in BOOLEAN
      BY DEF GlInit
    <2> QED
      BY <2>3, <2>4, GlNumbers DEF GlTypes, GlInit
  <1>4. GlBefore /\ GlCredits = 0 /\ EdgesOf(NewChip) = 0
    BY DEF GlInit, GlBefore, AskedWithCredits, Fresh, GlSeen, GlCredits, Boards, NewChip, EdgesOf, CoinLines
  <1>5. GlInserting
    <2>1. ASSUME glFrames >= GlBootFrames
          PROVE  GlEdges * GlCoinEvery = 0 /\ GlPhase(glFrames) \in Nat /\ Late \in Nat
      <3>1. GlEdges = 0 /\ glFrames = 0 /\ GlBootFrames = 0
        BY <1>4, <2>1, GlNumbers DEF GlInit, GlEdges, Boards
      <3>2. PICK z \in Nat : z = glFrames - GlBootFrames /\ z % GlCoinEvery \in 0..(GlCoinEvery - 1)
        BY <3>1, GlNumbers, NextPlace
      <3> QED
        BY <3>1, <3>2, GlNumbers DEF GlPhase, Late, Longer
    <2>2. CoinsTake \in Nat
      <3>1. PICK n \in Nat : n = 3 * c - 1
        BY <1>1
      <3>2. n * GlCoinEvery \in Nat
        BY <3>1, GlNumbers
      <3> QED
        BY <1>1, <3>1, <3>2, GlNumbers DEF CoinsTake, Late, Longer
    <2> QED
      BY <1>4, <2>1, <2>2, GlNumbers DEF GlInserting, GlInit
  <1>6. StartedInTime
    <2>1. PICK i \in Nat, a \in Int : i = 0 /\ a = i * GlCoinEvery
      BY GlNumbers
    <2>2. GlStartFrames <= GlPatience /\ GlPatience \in Int
      BY <2>1, <1>1, LongEnough
    <2> QED
      BY <2>2, GlNumbers DEF StartedInTime, GlInit
  <1> QED
    BY <1>3, <1>4, <1>5, <1>6 DEF GlInv, GlInit

LEMMA FrameStays ==
    ASSUME GlInv, NEW coin \in BOOLEAN, NEW start \in BOOLEAN, NEW first \in Programs, NEW second \in Programs,
           BothRun(coin, start, first, second)
    PROVE  GlInv'
  <1>1. PICK host : host = HostLines(Merged(coin, start))
    OBVIOUS
  <1>2. PICK one, two : one = Ran(first, glChip[1], host.lines) /\ two = Ran(second, glChip[2], Merged(coin, start))
    OBVIOUS
  <1>3. /\ ~glOver /\ (coin => ~glHeld) /\ May(first, glChip[1]) /\ May(second, glChip[2])
        /\ glChip' = [b \in Boards |-> IF b = 1 THEN one ELSE two]
        /\ glFrames' = host.frames /\ glConfirm' = host.confirm /\ glPulse' = host.pulse
        /\ glCoinsPer' = glCoinsPer /\ glHeld' = coin
    BY <1>1, <1>2 DEF BothRun, Boards
  <1>4. glOver' = glOver /\ glRequested' = host.requested
        /\ glStarted' = (glStarted \/ (host.requested /\ one.players = 2))
    BY <1>1, <1>2, Zenon DEF BothRun
  <1>5. PICK listened :
          /\ listened = glListened'
          /\ listened = IF glStarted' THEN 0
                        ELSE IF first = "read" /\ glChip[1].mode = "credit"
                             THEN (IF glListened > GlPatience THEN glListened ELSE glListened + 1) ELSE 0
    BY DEF BothRun
  <1>6. /\ GlTypes /\ glCoinsPer \in Nat \ {0} /\ \A b \in Boards : glChip[b] \in GlChips /\ ShortOfCredit(glChip[b])
    BY GalagaLinkAssumption DEF GlInv, GlTypes
  <1>7. /\ listened \in Nat /\ (listened >= 1 => ~glStarted' /\ Listens(first, glChip[1]) /\ listened <= glListened + 1)
        /\ listened <= glListened + 1
    BY <1>5, <1>6 DEF GlTypes, Listens
  <1>8. /\ host.lines \in SUBSET GlLines /\ host.requested \in BOOLEAN
        /\ host.frames \in Nat /\ host.frames < GlStartFrames + GlCoinEvery
        /\ host.confirm \in Nat /\ host.confirm < GlRetryEvery /\ host.pulse \in Nat
    <2>1. CASE glStarted
      BY <2>1, <1>1, <1>6, HostRests DEF GlTypes
    <2>2. CASE ~glStarted
      <3>1. AskedWithCredits
        BY <2>2 DEF GlInv, GlBefore
      <3>2. /\ host.lines \in SUBSET GlLines /\ host.requested \in BOOLEAN /\ host.pulse \in Nat
            /\ host.frames = IF glRequested THEN glFrames ELSE Next30(glFrames)
            /\ (host.requested <=> (glRequested \/ (host.frames >= GlStartFrames /\ GlCredits >= 2)))
            /\ glRequested => host.confirm = (glConfirm + 1) % GlRetryEvery
            /\ (~glRequested /\ host.requested) => host.confirm = 1 % GlRetryEvery
            /\ ~host.requested => host.confirm = glConfirm
        BY <2>2, <3>1, <1>1, <1>6, HostWorks
      <3>3. host.frames \in Nat /\ host.frames < GlStartFrames + GlCoinEvery
        BY <3>2, <1>6, GlNumbers DEF GlTypes, Next30
      <3>4. /\ (glConfirm + 1) % GlRetryEvery \in Nat /\ (glConfirm + 1) % GlRetryEvery < GlRetryEvery
            /\ (0 + 1) % GlRetryEvery \in Nat /\ (0 + 1) % GlRetryEvery < GlRetryEvery
        BY <1>6, GlNumbers, AroundTheRetry DEF GlTypes
      <3>5. host.confirm \in Nat /\ host.confirm < GlRetryEvery
        <4>1. 0 + 1 = 1
          OBVIOUS
        <4>2. \/ host.confirm = (glConfirm + 1) % GlRetryEvery
              \/ host.confirm = (0 + 1) % GlRetryEvery
              \/ host.confirm = glConfirm
          BY <3>2, <4>1
        <4> QED
          BY <4>2, <3>4, <1>6 DEF GlTypes
      <3> QED
        BY <3>2, <3>3, <3>5
    <2> QED
      BY <2>1, <2>2
  <1>9. one \in GlChips /\ ShortOfCredit(one) /\ two \in GlChips /\ ShortOfCredit(two)
    <2>1. Merged(coin, start) \in SUBSET GlLines /\ 1 \in Boards /\ 2 \in Boards
      BY DEF Merged, CoinLines, GlLines, Boards
    <2>2. one \in GlChips /\ ShortOfCredit(one)
      BY <2>1, <1>2, <1>3, <1>6, <1>8, ChipRuns
    <2>3. two \in GlChips /\ ShortOfCredit(two)
      BY <2>1, <1>2, <1>3, <1>6, ChipRuns
    <2> QED
      BY <2>2, <2>3
  <1>10. GlTypes'
    <2>1. glChip' \in [Boards -> GlChips]
      BY <1>3, <1>9
    <2>2. \A b \in Boards : ShortOfCredit(glChip[b])'
      BY <1>3, <1>9 DEF ShortOfCredit
    <2>3. glRequested' \in BOOLEAN /\ glHeld' \in BOOLEAN /\ glOver' \in BOOLEAN
      BY <1>3, <1>4, <1>6, <1>8 DEF GlTypes
    <2>4. glStarted' \in BOOLEAN
      BY <1>4, Zenon
    <2>5. /\ glFrames' \in Nat /\ glFrames' < GlStartFrames + GlCoinEvery /\ glPulse' \in Nat
          /\ glConfirm' \in Nat /\ glConfirm' < GlRetryEvery
          /\ glCoinsPer' \in GlCoinage /\ glListened' \in Nat
      BY <1>3, <1>5, <1>6, <1>7, <1>8 DEF GlTypes
    <2> QED
      BY <2>1, <2>2, <2>3, <2>4, <2>5 DEF GlTypes
  <1>11. PICK patience \in Int :
            /\ patience = GlPatience /\ GlPatience' = patience /\ CoinsTake' = CoinsTake
            /\ CoinsTake \in Int /\ CoinsTake <= patience /\ GlStartFrames <= patience
            /\ GlRetryEvery - GlPulseFrames <= patience
    <2>1. GlPatience' = GlPatience /\ CoinsTake' = CoinsTake
      BY <1>3 DEF GlPatience, CoinsTake, Late, Longer
    <2>2. PICK i \in Nat, a \in Int : i = 0 /\ a = i * GlCoinEvery
      BY GlNumbers
    <2> QED
      BY <2>1, <2>2, <1>6, LongEnough
  <1>12. glChip'[1] = one /\ 1 \in Boards
    BY <1>3 DEF Boards
  <1>13. CASE glStarted'
    BY <1>13, <1>5, <1>7, <1>10, <1>11, GlNumbers DEF GlInv, StartedInTime
  <1>14. CASE ~glStarted'
    <2>1. ~glStarted /\ GlBefore /\ ~(host.requested /\ one.players = 2)
      BY <1>14, <1>4 DEF GlInv
    <2>2. /\ host.frames = IF glRequested THEN glFrames ELSE Next30(glFrames)
          /\ (host.requested <=> (glRequested \/ (host.frames >= GlStartFrames /\ GlCredits >= 2)))
          /\ ("start2" \in host.lines => GlCredits >= 2 /\ host.requested)
          /\ glRequested => /\ host.confirm = (glConfirm + 1) % GlRetryEvery
                            /\ (RetryTurn(host.confirm) => "start2" \in host.lines)
          /\ (~glRequested /\ host.requested) => "start2" \in host.lines /\ host.confirm = 1 % GlRetryEvery
      BY <2>1, <1>1, <1>6, HostWorks DEF GlBefore
    <2>3. one.players # 2
      <3>1. ASSUME ~host.requested PROVE one.players = 0
        BY <3>1, <2>1, <2>2, <1>2, <1>3, <1>6, <1>8, <1>12, ChipRuns DEF GlBefore
      <3> QED
        BY <3>1, <2>1
    <2>4. /\ Fresh(one) /\ one.credits >= GlCredits
          /\ Listens(first, glChip[1]) => "start2" \notin host.lines
      BY <2>1, <2>2, <2>3, <1>2, <1>3, <1>6, <1>8, <1>12, ChipRuns DEF GlBefore, GlCredits
    <2>5. host.requested => GlCredits >= 2 /\ one.credits >= 2
      <3>1. GlCredits \in Nat /\ one.credits \in Nat
        BY <1>6, <1>9, <1>12 DEF GlChips, GlCredits
      <3>2. host.requested => GlCredits >= 2
        BY <2>1, <2>2 DEF GlBefore, AskedWithCredits
      <3> QED
        BY <3>1, <3>2, <2>4
    <2>6. ASSUME host.requested
          PROVE  GlBefore' /\ (Pressed(host.confirm, listened) => GlInv')
      <3>1. GlBefore'
        <4>1. one.credits \in Nat
          BY <1>9 DEF GlChips
        <4> QED
          BY <4>1, <2>4, <2>5, <2>6, <1>4, <1>12 DEF GlBefore, AskedWithCredits, GlCredits
      <3>2. ASSUME Pressed(host.confirm, listened) PROVE GlInv'
        <4>1. listened <= patience
          BY <3>2, <1>7, <1>8, <1>11, PressedInTime, GlNumbers
        <4>2. StartedInTime'
          BY <4>1, <1>5, <1>11 DEF StartedInTime
        <4>3. GlPressing' /\ glRequested'
          BY <3>2, <2>6, <1>3, <1>4, <1>5 DEF GlPressing, Pressed, RetryTurn
        <4> QED
          BY <4>2, <4>3, <3>1, <1>10 DEF GlInv
      <3> QED
        BY <3>1, <3>2
    <2>7. CASE glRequested
      <3>1. GlPressing /\ host.requested
        BY <2>1, <2>2, <2>7, <1>3 DEF GlInv
      <3>2. RetryTurn(host.confirm) => listened = 0
        BY <2>2, <2>4, <2>7, <1>7
      <3>3. Pressed(host.confirm, listened)
        BY <3>1, <3>2, <2>2, <2>7, <1>6, <1>7, PressingGoesOn DEF GlPressing, GlTypes
      <3> QED
        BY <3>1, <3>3, <2>6
    <2>8. CASE ~glRequested /\ host.requested
      <3>1. listened = 0
        BY <2>2, <2>4, <2>8, <1>7
      <3>2. Pressed(host.confirm, listened)
        BY <3>1, <1>8, GlNumbers DEF Pressed
      <3> QED
        BY <3>2, <2>6, <2>8
    <2>9. CASE ~host.requested
      <3>1. GlInserting /\ ~glRequested
        BY <2>1, <2>2, <2>9, <1>3 DEF GlInv
      <3>2. listened >= 1 => Listens(first, glChip[1]) /\ listened <= glListened + 1
        BY <1>7
      <3>3. /\ host.frames < GlStartFrames => listened <= host.frames
            /\ host.frames >= GlBootFrames /\ one.credits < 2 =>
                 /\ listened <= Late + EdgesOf(one) * GlCoinEvery + GlPhase(host.frames)
                 /\ GlPhase(host.frames) = GlCoinEvery - 1 /\ listened >= 1 =>
                      /\ coin => listened <= Late + EdgesOf(one) * GlCoinEvery - 1
                      /\ "coin1" \in one.seen => coin
            /\ listened >= 1 => ("coin2" \in one.seen <=> coin)
            /\ host.frames >= GlStartFrames /\ one.credits >= 2 => listened <= CoinsTake
            /\ one.credits < 2 /\ one.seen \cap CoinLines # {} => EdgesOf(one) >= 1
        BY <3>1, <3>2, <2>1, <2>3, <2>9, <1>1, <1>2, <1>3, <1>6, <1>7, <1>12, InsertingGoesOn
      <3>4. EdgesOf(one)' = EdgesOf(one)
        BY <1>3 DEF EdgesOf
      <3>5. GlInserting'
        BY <3>3, <3>4, <1>3, <1>5, <1>11, <1>12
           DEF GlInserting, GlEdges, GlSeen, GlCredits, LastOfTurn, GlPhase, EdgesOf, Late, Longer
      <3>6. GlBefore'
        BY <3>3, <2>4, <2>9, <1>3, <1>4, <1>12
           DEF GlBefore, AskedWithCredits, GlCredits, GlSeen, GlEdges, EdgesOf
      <3>7. listened <= patience
        <4>1. CASE host.frames < GlStartFrames
          BY <4>1, <3>3, <1>7, <1>8, <1>11, GlNumbers
        <4>2. CASE host.frames >= GlStartFrames /\ one.credits >= 2
          BY <4>2, <3>3, <1>7, <1>11
        <4>3. CASE host.frames >= GlStartFrames /\ one.credits < 2
          <5>1. PICK j \in Nat, b \in Int : j = EdgesOf(one) /\ b = j * GlCoinEvery /\ j <= 3 * glCoinsPer - 2
            BY <4>3, <1>6, <1>9, FewEdges, GlNumbers
          <5>2. Late \in Nat /\ Late + b + GlCoinEvery <= CoinsTake
            BY <5>1, <1>6, LongEnough
          <5>3. PICK z \in Nat : z = host.frames - GlBootFrames /\ z % GlCoinEvery \in 0..(GlCoinEvery - 1)
            <6>1. GlCoinEvery \in Nat \ {0}
              BY GlNumbers
            <6>2. PICK z \in Nat : z = host.frames - GlBootFrames
              BY <4>3, <1>8, GlNumbers
            <6> QED
              BY <6>1, <6>2, NextPlace
          <5>4. PICK ph \in 0..(GlCoinEvery - 1) : ph = GlPhase(host.frames)
            BY <5>3 DEF GlPhase
          <5>5. listened <= Late + b + ph
            BY <4>3, <5>1, <5>4, <3>3, <1>8, GlNumbers
          <5> QED
            BY <5>1, <5>2, <5>4, <5>5, <1>7, <1>11, GlNumbers
        <4> QED
          <5>1. one.credits \in Nat
            BY <1>9 DEF GlChips
          <5> QED
            BY <5>1, <4>1, <4>2, <4>3, <1>8, GlNumbers
      <3>8. StartedInTime'
        BY <3>7, <1>5, <1>11 DEF StartedInTime
      <3> QED
        BY <3>5, <3>6, <3>8, <2>9, <1>4, <1>10 DEF GlInv
    <2> QED
      BY <2>7, <2>8, <2>9
  <1> QED
    BY <1>13, <1>14

(* A partner who leaves ends it: nothing listens any more.                     *)
LEMMA GoneStays == GlInv /\ PartnerGone => GlInv'
  <1> SUFFICES ASSUME GlInv, PartnerGone PROVE GlInv'
    OBVIOUS
  <1>1. /\ glOver' = TRUE /\ glFrames' = 0
        /\ UNCHANGED << glRequested, glPulse, glConfirm, glStarted, glChip, glCoinsPer, glHeld, glListened >>
    BY DEF PartnerGone
  <1>2. GlTypes'
    BY <1>1, GlNumbers DEF GlInv, GlTypes, ShortOfCredit
  <1>3. StartedInTime'
    BY <1>1 DEF GlInv, StartedInTime, GlPatience, CoinsTake, Late, Longer
  <1>4. ~glStarted' => GlBefore'
    BY <1>1 DEF GlInv, GlBefore, AskedWithCredits, Fresh, GlCredits, GlSeen, GlEdges, EdgesOf
  <1> QED
    BY <1>1, <1>2, <1>3, <1>4 DEF GlInv

LEMMA GlStays == GlInv /\ [GlNext]_glvars => GlInv'
  <1>1. ASSUME GlInv, UNCHANGED glvars PROVE GlInv'
    BY <1>1 DEF glvars, glHost, GlInv, GlTypes, ShortOfCredit, StartedInTime, GlPatience, CoinsTake, GlBefore,
       AskedWithCredits, Fresh, GlCredits, GlSeen, GlEdges, EdgesOf, GlPressing, Pressed, RetryTurn, GlInserting,
       LastOfTurn, GlPhase, Late, Longer
  <1> QED
    BY <1>1, FrameStays, GoneStays DEF GlNext

-----------------------------------------------------------------------------
(* Whichever part plays, the others stand still.                               *)

(* The initial states of the application have those of every part.            *)
LEMMA PartsBegin ==
    Init => /\ M1iInit /\ M1nInit /\ DsbInit /\ CtcInit
            /\ ScInit /\ MnInit /\ MbInit /\ MuInit
            /\ S22Init /\ C352Init
            /\ M2Init /\ M1SoundInit /\ X360Init /\ Pcsx2Init
            /\ C139Init /\ G22Init /\ DspInit /\ MgInit
            /\ M1eInit /\ M1vInit /\ AluInit /\ GlInit
  BY DEF Init

(* A step of the application is a step of a part or leaves it alone.           *)
LEMMA PartsStep ==
    [Next]_vars => /\ [M1iNext]_m1ivars /\ [M1nNext]_m1nvars /\ [DsbNext]_dsbvars /\ [CtcNext]_ctcvars
                   /\ [ScNext]_scvars /\ [MnNext]_mnvars /\ [MbNext]_mbvars /\ [MuNext]_muvars
                   /\ [S22Next]_s22vars /\ [C352Next]_c352vars
                   /\ [M2Next]_m2vars /\ [M1SoundNext]_m1vars /\ [X360Next]_xvars /\ [Pcsx2Next]_pvars
                   /\ [C139Next]_cvars /\ [G22Next]_g22vars /\ [DspNext]_dspvars /\ [MgNext]_mgvars
                   /\ [M1eNext]_m1evars /\ [M1vNext]_m1vvars /\ [AluNext]_aluvars
                   /\ [GlNext]_glvars
  BY DEF Next, vars

(* The invariants of the parts, together.                                      *)
BoardInv ==
    /\ M1iInv /\ M1nInv /\ DsbInv /\ CtcInv
    /\ ScInv /\ MnInv /\ MbInv /\ MuInv
    /\ S22Inv /\ C352Inv
    /\ M2Inv /\ M1Inv /\ X360Inv /\ CoinsInv
    /\ C139Inv /\ G22Inv /\ DspInv /\ MgInv /\ AdjustInv
    /\ M1eInv /\ M1vInv /\ AluInv /\ DivInv /\ SoundInv /\ GlInv

(* Each part keeps its invariant, whichever part plays.                        *)
THEOREM PartsHold == Spec => []BoardInv
  <1>1. Init => BoardInv
    BY PartsBegin, M1iBegins, M1nBegins, DsbBegins, CtcBegins, ScBegins, MnBegins, MbBegins, MuBegins,
       S22Begins, C352Begins, M2Begins, M1Begins, X360Begins, CoinsBegin, C139Begins, G22Begins,
       DspBegins, MgBegins, AdjustBegins, M1eBegins, M1vBegins, AluBegins, DivBegins, SoundBegins, GlBegins
       DEF BoardInv
  <1>2. BoardInv /\ [Next]_vars => BoardInv'
    BY PartsStep, M1iKept, M1nKept, DsbKept, CtcKept, ScKept, MnKept, MbKept, MuKept, S22Kept, C352Kept,
       M2Kept, M1Kept, X360Kept, CoinsStay, C139Kept, G22Kept, DspKept, MgStays, AdjustStays,
       M1eKept, M1vKept, AluKept, DivKept, SoundKept, GlStays
       DEF BoardInv
  <1> QED
    BY <1>1, <1>2, PTL DEF Spec

(* No interrupt that is pending is without its line, no line is up for one     *)
(* that is not, and no counter lets its time pass: on the boards of Model 1,   *)
(* Model 2 and System 22.                                                     *)
THEOREM InterruptsServedHolds == Spec => []InterruptsServed
  <1>1. BoardInv => InterruptsServed
    BY DEF BoardInv, InterruptsServed, S22Inv, M1iInv, ScInv, CtcInv
  <1> QED
    BY <1>1, PartsHold, PTL

(* A change of the settings that is not on the disc is marked to be saved,      *)
(* whatever saves fail and are seen to; a file that was torn when it was       *)
(* closed, unseen, is not loaded again.                                       *)
THEOREM ChangesMarkedHolds == Spec => []ChangesMarked
  <1>1. BoardInv => ChangesMarked
    BY DEF BoardInv, ChangesMarked, M1nInv, MnInv, DiscInv
  <1> QED
    BY <1>1, PartsHold, PTL

(* The chips have what the sound programs have told them: the C352 the words   *)
(* its ring took, but for the flags it turns itself, the MPEG board whole      *)
(* addresses in its ROM, the SCSP the keys.                                   *)
THEOREM CommandsReachTheChipsHolds == Spec => []CommandsReachTheChips
  <1>1. BoardInv => CommandsReachTheChips
    BY C352Follows DEF BoardInv, CommandsReachTheChips, DsbInv, ScInv
  <1> QED
    BY <1>1, PartsHold, PTL

(* The i960 of Model 2 is ahead of its clock by what it owes and what its       *)
(* stores at a full FIFO ran over, no FIFO goes further past its words than    *)
(* one instruction, and the serial line keeps its rate.                       *)
THEOREM BoardsKeepPaceHolds == Spec => []BoardsKeepPace
  <1>1. BoardInv => BoardsKeepPace
    BY DEF BoardInv, BoardsKeepPace, MbInv, MuInv
  <1> QED
    BY <1>1, PartsHold, PTL

(* Of what one thread hands to another nothing is lost: no press of one of the  *)
(* eight switches that are folded, no other press but in a frame that was      *)
(* replaced, no test switch let go, no credit of a driver of sound, no coin,   *)
(* no byte for a sound board; no packet outlives its driver, no coin counts    *)
(* twice.                                                                      *)
THEOREM NothingLostHolds == Spec => []NothingLostBetweenThreads
  <1>1. BoardInv => NothingLostBetweenThreads
    BY M2LetsGo DEF BoardInv, NothingLostBetweenThreads, M2Inv, X360Inv, CoinsInv, M1Inv, S22Inv
  <1> QED
    BY <1>1, PartsHold, PTL

(* On the link of two System 22 cabinets no unfinished frame arrives, a frame   *)
(* that did is announced until the game acknowledges it, and a partner who was *)
(* started again is heard, whatever is lost, overtaken or sent by a namesake.  *)
THEOREM LinkKeepsFramesHolds == Spec => []LinkKeepsFrames
  <1>1. BoardInv => LinkKeepsFrames
    BY C139Keeps DEF BoardInv, LinkKeepsFrames
  <1> QED
    BY <1>1, PartsHold, PTL

(* Whatever the game has written into its lists, the geometry engines read     *)
(* inside their RAM, light an object by its own lights and join a strip by the *)
(* edge left last; a handler of their DSP returns to where it was called from  *)
(* and a repeated instruction reads word after word.                          *)
THEOREM GeometryAlwaysHolds == Spec => []GeometryHolds
  <1>1. BoardInv => GeometryHolds
    BY DspServes DEF BoardInv, GeometryHolds, G22Inv, MgInv, DspInv
  <1> QED
    BY <1>1, PartsHold, PTL

(* A coin switch of System 22 gives one credit for each time it closes, at     *)
(* most, however it bounces between the frames.                               *)
THEOREM NoFreeCreditHolds == Spec => []NoFreeCredit
  <1>1. BoardInv => NoFreeCredit
    BY DEF BoardInv, S22Inv
  <1> QED
    BY <1>1, PartsHold, PTL

(* A quotient and a remainder of the DSP are the dividend's, for registers of   *)
(* any width, and a farther depth is never filed before a nearer one, for a    *)
(* float of any width under any adjustment.                                   *)
THEOREM ArithmeticAlwaysHolds == Spec => []ArithmeticHolds
  <1>1. BoardInv => ArithmeticHolds
    BY DivDivides, NearerAlways DEF BoardInv, ArithmeticHolds
  <1> QED
    BY <1>1, PartsHold, PTL

(* A driver of Xbox 360 hears its sound in the order it was sent, part by part; *)
(* Model 1 draws a frame from the banks its V60 saw; and a sum or a difference *)
(* of the DSP is exact where it fits, with the carry a longer one goes on with. *)
THEOREM InOrderHolds == Spec => InOrder
  <1>1. BoardInv /\ [Next]_vars => [SoundGoesOn]_xvars /\ [BanksAsTold]_m1vvars /\ [SummedExactly]_aluvars
    BY PartsStep, SoundOrdered, M1vBanks, AluSums DEF BoardInv
  <1>2. /\ BoardInv /\ [Next]_vars => [SoundGoesOn]_xvars
        /\ BoardInv /\ [Next]_vars => [BanksAsTold]_m1vvars
        /\ BoardInv /\ [Next]_vars => [SummedExactly]_aluvars
    BY <1>1
  <1>3. Spec => [][SoundGoesOn]_xvars /\ [][BanksAsTold]_m1vvars /\ [][SummedExactly]_aluvars
    BY <1>2, PartsHold, PTL DEF Spec
  <1> QED
    BY <1>3, PTL DEF InOrder, SoundInOrder, SameBanks, SumsAreExact, SoundGoesOn, BanksAsTold

(* Two linked Galaga boards start their game in time: however the players'     *)
(* coins fall and whatever the programs do between, the host's board does not  *)
(* read its credits in more frames on end than the coins of two credits take,  *)
(* than come before the first press of start, or than the retry leaves out.    *)
THEOREM StartedInTimeHolds == Spec => []StartedInTime
  <1>1. BoardInv => StartedInTime
    BY DEF BoardInv, GlInv
  <1> QED
    BY <1>1, PartsHold, PTL

(* The settings of a Model 1 cabinet change only as a selection of its EEPROM   *)
(* spells, and those of Model 2 keep the role the launcher chose.              *)
THEOREM SettingsOnlyAsMeantHolds == Spec => SettingsOnlyAsMeant
  <1>1. BoardInv /\ [Next]_vars => [Clocked]_m1evars
    BY PartsStep, M1eClocked DEF BoardInv
  <1>2. BoardInv /\ [Next]_vars => [RoleKept]_mnvars
    BY PartsStep, MnRole DEF BoardInv
  <1> QED
    BY <1>1, <1>2, PartsHold, PTL DEF Spec, SettingsOnlyAsMeant, OnlyAsClocked, RoleSurvivesTheGame

(* The game's own writing of its record does not take the role away that the   *)
(* launcher gave the cabinet, and leaves a checksum the game will accept.      *)
THEOREM RoleSurvivesTheGameHolds == Spec => RoleSurvivesTheGame
  <1>1. BoardInv /\ [Next]_vars => [RoleKept]_mnvars
    BY PartsStep, MnRole DEF BoardInv
  <1> QED
    BY <1>1, PartsHold, PTL DEF Spec, RoleSurvivesTheGame

=============================================================================
