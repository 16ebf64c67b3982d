----------------------------- MODULE Model2Geometry -----------------------------
(* The decoder of a Model 2 display list: a list of commands, of which objects  *)
(* and direct data are strips of polygons that share edges.  A list is decoded  *)
(* in one go; the parameters it loads (matrix, light, viewport, materials, RAM)  *)
(* outlive it and serve the next one.  A decoder reads a bounded number of       *)
(* words, so a list may be cut anywhere.                                      *)
EXTENDS Integers, Sequences

CONSTANTS
    MgWords,      \* maximum_words (0x8000)
    MgCommands,   \* maximum_commands (0x8000)
    MgLinks,      \* links of an object at most (0x1000)
    MgMaximum,    \* polygons kept of a list (32768)
    MgViewports,  \* viewports and centres a window command may carry
    MgMantissa,   \* bits of a float's mantissa (23)
    MgKept,       \* bits of it a depth bucket keeps (12)
    MgTop,        \* exponent of the last bucket (15)
    MgDepths,     \* depths of a polygon's nearest and farthest points: the bits of a positive float
    MgLists       \* bound: lists decoded

ASSUME Model2GeometryAssumption ==
    /\ {MgWords, MgCommands, MgLinks, MgMaximum, MgTop, MgLists} \subseteq Nat \ {0}
    /\ MgKept \in Nat /\ MgMantissa \in Nat /\ MgKept < MgMantissa
    /\ MgDepths \subseteq 0..((MgTop + 1) * 2 ^ MgMantissa - 1)

\* What a proof has to know of the powers of two: no prover has exponentiation.
ASSUME Model2PowerAssumption ==
    /\ 2^0 = 1 /\ 2^MgMantissa = 2^MgKept * 2^(MgMantissa - MgKept)
    /\ \A n \in 0..MgMantissa : 2^n \in Nat \ {0} /\ 2^(n + 1) = 2 * 2^n

VARIABLES
    mgList,      \* m_summary: [reading, words, commands, ended, truncated]
    mgStrip,     \* command 1 or 2 being decoded: [kind, previous0, previous1, links], or NoStrip
    mgPoints,    \* points read of this list; a point is its number
    mgWindow,    \* m_current_window
    mgViewport,  \* m_viewport and m_centers
    mgSelect,    \* m_center_select
    mgZ,         \* m_polygon_z
    mgAdjust,    \* exponent of m_z_adjust
    mgTorn,      \* parameters the last list to load them did not load whole
    mgPolygons,  \* m_polygons
    mgLists      \* lists decoded so far

mgParameters == << mgViewport, mgSelect, mgAdjust, mgTorn >>
mgOutput == << mgPoints, mgWindow, mgZ, mgPolygons >>
mgvars == << mgList, mgStrip, mgOutput, mgParameters, mgLists >>

NoStrip == [kind |-> "none", previous0 |-> 0, previous1 |-> 0, links |-> 0]
FarAway == MgTop * 2 ^ MgMantissa   \* 1.0e10
CutViewport == "cut"        \* a window command whose words ran out: zeros
MgInit ==
    /\ mgList = [reading |-> FALSE, words |-> 0, commands |-> 0, ended |-> FALSE, truncated |-> FALSE]
    /\ mgStrip = NoStrip /\ mgPoints = 0 /\ mgWindow = 0 /\ mgZ = FarAway /\ mgPolygons = << >>
    /\ mgViewport = "whole display" /\ mgSelect = 0 /\ mgAdjust = 0 /\ mgTorn = {} /\ mgLists = 0

-----------------------------------------------------------------------------
(* model2_z_value: the bucket of a depth, its float rounded to fewer bits, with  *)
(* its exponent counted from the adjustment's.                                *)
HalfMantissa == 2 ^ (MgMantissa - MgKept - 1)
CarriedSlip(m) == 0
Carried(m) == IF m + HalfMantissa >= 2 ^ MgMantissa THEN 1 ELSE 0
KeptBits(m) ==
    (IF Carried(m) = 1 THEN ((m + HalfMantissa) % 2 ^ MgMantissa) \div 2 ELSE m + HalfMantissa) \div 2 ^ (MgMantissa - MgKept)
ZValue(bits, adjust) ==
    LET mantissa == bits % 2 ^ MgMantissa
        exponent == bits \div 2 ^ MgMantissa - adjust + Carried(mantissa)
    IN IF exponent < -MgKept THEN 0
       ELSE IF exponent < 0 THEN (KeptBits(mantissa) + 2 ^ MgKept) \div 2 ^ (-exponent)
       ELSE IF exponent < MgTop THEN (exponent + 1) * 2 ^ MgKept + KeptBits(mantissa)
       ELSE (MgTop + 1) * 2 ^ MgKept - 1

-----------------------------------------------------------------------------
(* take: words one at a time, until they are used up. *)
Left == MgWords - mgList.words
Taking(words) ==
    [mgList EXCEPT !.words = IF words <= Left THEN @ + words ELSE MgWords, !.truncated = words > Left]
Counting(list) == [list EXCEPT !.commands = @ + 1]
Reading == mgList.reading /\ mgStrip = NoStrip /\ ~mgList.ended /\ ~mgList.truncated
Over == mgList.ended \/ mgList.truncated \/ mgList.commands >= MgCommands
ListCommand(words) ==
    Reading /\ mgList.commands < MgCommands /\ Left > 0 /\ mgList' = Counting(Taking(1 + words))

Parse ==
    /\ ~mgList.reading /\ mgLists < MgLists /\ mgLists' = mgLists + 1
    /\ mgList' = [reading |-> TRUE, words |-> 0, commands |-> 0, ended |-> FALSE, truncated |-> FALSE]
    /\ mgPolygons' = << >> /\ mgZ' = FarAway /\ mgWindow' = 0 /\ mgPoints' = 0
    /\ UNCHANGED << mgStrip, mgParameters >>
OutOfWords ==
    /\ Reading /\ Left = 0 /\ mgList.commands < MgCommands /\ mgList' = [mgList EXCEPT !.truncated = TRUE]
    /\ UNCHANGED << mgStrip, mgOutput, mgParameters, mgLists >>
Parsed ==
    /\ mgList.reading /\ mgStrip = NoStrip /\ Over
    /\ mgList' = [mgList EXCEPT !.reading = FALSE, !.truncated = ~mgList.ended]
    /\ UNCHANGED << mgStrip, mgOutput, mgParameters, mgLists >>

(* A jump, a command that is left out, the end, or what the decoder does not know. *)
Jump == ListCommand(0) /\ UNCHANGED << mgStrip, mgOutput, mgParameters, mgLists >>
Skip(count) ==
    /\ Reading /\ mgList.commands < MgCommands /\ Left > 0
    /\ mgList' = Counting([mgList EXCEPT !.words = IF count < Left THEN @ + 1 + count ELSE @ + 1,
                                         !.truncated = count >= Left])
    /\ UNCHANGED << mgStrip, mgOutput, mgParameters, mgLists >>
EndOfList(known) ==
    /\ Reading /\ mgList.commands < MgCommands /\ Left > 0
    /\ mgList' = [Counting(Taking(1)) EXCEPT !.ended = known, !.truncated = ~known]
    /\ UNCHANGED << mgStrip, mgOutput, mgParameters, mgLists >>

-----------------------------------------------------------------------------
(* Parameters.  Only the focus, the mode, the depth adjustment and the level of  *)
(* detail are left as they were by a command that is cut.                      *)

Load(part, words) ==
    /\ ListCommand(words) /\ mgTorn' = (IF words >= Left THEN mgTorn \cup {part} ELSE mgTorn \ {part})
    /\ UNCHANGED << mgStrip, mgOutput, mgViewport, mgSelect, mgAdjust, mgLists >>
(* A position is the end of the matrix, an upload a part of a memory. *)
LoadPart(part, words) ==
    /\ ListCommand(words) /\ mgTorn' = (IF words >= Left THEN mgTorn \cup {part} ELSE mgTorn)
    /\ UNCHANGED << mgStrip, mgOutput, mgViewport, mgSelect, mgAdjust, mgLists >>
LoadAdjust(exponent) ==
    /\ ListCommand(1) /\ mgAdjust' = (IF Left > 1 THEN exponent ELSE mgAdjust)
    /\ UNCHANGED << mgStrip, mgOutput, mgViewport, mgSelect, mgTorn, mgLists >>
WindowData(viewport) ==
    /\ ListCommand(6) /\ mgWindow' = mgWindow + 1
    /\ mgViewport' = (IF Left > 6 THEN viewport ELSE CutViewport)
    /\ UNCHANGED << mgStrip, mgPoints, mgZ, mgPolygons, mgSelect, mgAdjust, mgTorn, mgLists >>

-----------------------------------------------------------------------------
(* Strips.  A polygon is the strip's last two points and one or two new ones;    *)
(* its link says which of the four the next polygon starts from.               *)

Vertices(strip, next0, next1) == << strip.previous1, strip.previous0, next0, next1 >>
LinkedSlip(strip, link, next0, next1) ==
    CASE link = 1 -> [strip EXCEPT !.previous1 = next1]
      [] link = 3 -> [strip EXCEPT !.previous0 = next0]
      [] OTHER -> [strip EXCEPT !.previous0 = next0, !.previous1 = next1]
Linked(strip, link, next0, next1) ==
    CASE link = 1 -> [strip EXCEPT !.previous1 = next0]
      [] link = 3 -> [strip EXCEPT !.previous0 = next1]
      [] OTHER -> [strip EXCEPT !.previous0 = next0, !.previous1 = next1]
(* The depth a polygon is filed under: the one before's (0), its nearest point's *)
(* (1), its farthest point's (2), or behind everything (3).                    *)
Sorted(mode, nearest, farthest) ==
    << mgZ, nearest, farthest, FarAway >>[mode + 1]
(* No more polygons than MgMaximum; m_polygon_z is not looked after either.      *)
Polygon(next0, next1, mode, link) ==
    IF Len(mgPolygons) < MgMaximum
    THEN \E nearest, farthest \in MgDepths :
        /\ mgZ' = Sorted(mode, nearest, farthest)
        /\ mgPolygons' = Append(mgPolygons,
              [kind |-> mgStrip.kind, vertices |-> Vertices(mgStrip, next0, next1), link |-> link,
               z |-> ZValue(mgZ', mgAdjust), window |-> mgWindow, viewport |-> mgViewport,
               select |-> mgSelect, place |-> mgStrip.links])
    ELSE UNCHANGED << mgZ, mgPolygons >>
(* A triangle has its third point twice.  An object's fourth is read all the same. *)
Link(quad, mode, link) ==
    LET next0 == mgPoints + 1
        next1 == IF quad THEN mgPoints + 2 ELSE next0
    IN /\ Polygon(next0, next1, mode, link)
       /\ mgPoints' = mgPoints + 2
       /\ mgStrip' = [Linked(mgStrip, link, next0, next1) EXCEPT !.links = @ + 1]

StartStrip(kind) ==
    /\ mgStrip' = [kind |-> kind, previous0 |-> mgPoints + 1, previous1 |-> mgPoints + 2, links |-> 0]
    /\ mgPoints' = mgPoints + 2
EndStrip == mgStrip' = NoStrip /\ UNCHANGED << mgOutput, mgParameters, mgLists >>

(* An object's points are elsewhere: only its four words count.  Only an object  *)
(* chooses among the centres.                                                 *)
ObjectData(select) ==
    /\ ListCommand(4)
    /\ IF Left > 4 THEN StartStrip("object") /\ mgSelect' = select
                   ELSE UNCHANGED << mgStrip, mgPoints, mgSelect >>
    /\ UNCHANGED << mgWindow, mgZ, mgPolygons, mgViewport, mgAdjust, mgTorn, mgLists >>
ObjectLink(quad, mode, link) ==
    /\ mgStrip.kind = "object" /\ mgStrip.links < MgLinks /\ Link(quad, mode, link)
    /\ UNCHANGED << mgList, mgWindow, mgParameters, mgLists >>
(* Its count is up, or its terminator comes first. *)
ObjectEnds == mgStrip.kind = "object" /\ EndStrip /\ UNCHANGED mgList

DirectData ==
    /\ ListCommand(8)
    /\ IF Left > 8 THEN StartStrip("direct") ELSE UNCHANGED << mgStrip, mgPoints >>
    /\ UNCHANGED << mgWindow, mgZ, mgPolygons, mgParameters, mgLists >>
(* Attributes, light, distance and points; a polygon that is cut is not kept.    *)
DirectLink(quad, mode, link) ==
    LET words == IF quad THEN 9 ELSE 6
    IN /\ mgStrip.kind = "direct" /\ words <= Left /\ mgList' = Taking(words) /\ Link(quad, mode, link)
       /\ UNCHANGED << mgWindow, mgParameters, mgLists >>
DirectEnds ==
    /\ mgStrip.kind = "direct" /\ EndStrip
    /\ \/ mgList' = Taking(1)                               \* the terminator
       \/ \E words \in {6, 9} : words > Left /\ mgList' = Taking(words)

MgNext ==
    \/ Parse \/ OutOfWords \/ Parsed \/ Jump \/ DirectData \/ ObjectEnds \/ DirectEnds
    \/ \E count \in {1, 3} : Skip(count)
    \/ \E known \in BOOLEAN : EndOfList(known)
    \/ Load("matrix", 12) \/ Load("light", 3) \/ LoadPart("matrix", 3)
    \/ LoadPart("memory", 3) \/ LoadPart("materials", 4)
    \/ \E exponent \in {0, 1} : LoadAdjust(exponent)
    \/ \E viewport \in MgViewports : WindowData(viewport)
    \/ \E select \in {0, 1} : ObjectData(select)
    \/ \E quad \in BOOLEAN, mode \in 0..3, link \in 0..3 :
        ObjectLink(quad, mode, link) \/ DirectLink(quad, mode, link)
MgSpec == MgInit /\ [][MgNext]_mgvars

-----------------------------------------------------------------------------
Edges(p) == LET v == p.vertices IN { << v[1], v[2] >>, << v[2], v[3] >>, << v[3], v[4] >>, << v[4], v[1] >> }
(* A strip is one sheet: a polygon that is not its strip's first begins with an   *)
(* edge of the one before, in the opposite direction, so both show the same     *)
(* side; only after a triangle linked by its third point is the edge a point.   *)
StripsJoined ==
    \A i \in 2..Len(mgPolygons) :
        LET before == mgPolygons[i - 1]
            v == mgPolygons[i].vertices
        IN mgPolygons[i].place > 0 => << v[2], v[1] >> \in Edges(before)

(* The rasteriser walks its buckets "from near to far": whatever the adjustment, *)
(* a farther point is never filed before a nearer one, also where rounding      *)
(* carries into the exponent.                                                 *)
NearerFirst ==
    \A bits \in 0..((MgTop + 1) * 2 ^ MgMantissa) : ZValue(bits, mgAdjust) <= ZValue(bits + 1, mgAdjust)

=============================================================================
