--------------------------- MODULE System22Geometry ---------------------------
(* The two C71 processors of System 22 as the host sees them: their switches,  *)
(* the upload of the slave's program, the direct polygons the master writes,   *)
(* and the display list that the host walks for the slave at the end of a      *)
(* frame, down to the packets of an object.  Coordinates are left out.         *)
EXTENDS Integers, Sequences, FiniteSets

CONSTANTS
    RamWords,       \* words of polygon RAM: 0x8000
    ListBase,       \* first word of the display list: 0x2ff, on Super System 22 0x304
    MaxRecords,     \* records of a list: 0x1000
    RenderWords,    \* words of a direct polygon: 28
    MaxPolygons,    \* SYSTEM22_MAX_POLYGONS_PER_FRAME
    MaxPackets      \* bound: packets of one list

ASSUME G22Assumption ==
    /\ {RamWords, ListBase, MaxRecords, RenderWords, MaxPolygons, MaxPackets} \subseteq Nat
    /\ ListBase < RamWords /\ RenderWords > 0

VARIABLES
    g22master, g22slave, g22irq,   \* m_master_enabled, m_slave_enabled, m_irq_enabled
    g22int0,        \* external: the INT0 line of the master core
    g22bio,         \* m_master_bio
    g22pdp,         \* m_pdp_pending
    g22upload,      \* m_upload_state
    g22words,       \* m_render_word_count
    g22polygons,    \* size of m_rendered_polygons
    g22phase,       \* "run": the processors; "list", "object": in simulate_slave_dsp; "submit"
    g22cursor, g22records,         \* cursor and records of simulate_slave_dsp
    g22read,        \* last word of polygon RAM a handler was given
    g22object,      \* number of the object being drawn
    g22lit,         \* m_lit_surfaces: the object each surface was registered by
    g22packets      \* packets walked in this list

g22switches == << g22master, g22slave, g22irq, g22int0, g22bio, g22upload >>
g22direct == << g22words, g22polygons >>
g22walk == << g22cursor, g22records, g22read >>
g22draw == << g22object, g22lit, g22packets >>
g22vars == << g22switches, g22pdp, g22direct, g22phase, g22walk, g22draw >>

G22Init ==
    /\ g22master = FALSE /\ g22slave = FALSE /\ g22irq = FALSE /\ g22int0 = FALSE
    /\ g22bio = 0 /\ g22upload = "ready" /\ g22pdp = FALSE
    /\ g22words = 0 /\ g22polygons = 0
    /\ g22phase = "run" /\ g22cursor = ListBase /\ g22records = 0 /\ g22read = 0
    /\ g22object = 0 /\ g22lit = << >> /\ g22packets = 0

Running == g22phase = "run"
g22rest == << g22phase, g22walk, g22draw >>

-----------------------------------------------------------------------------
(* The game writes the DSP control register: off, both on, master only.  A    *)
(* processor that was off is reset when it is switched on.                    *)
Control(value) ==
    /\ Running
    /\ CASE value = 0 -> g22master' = FALSE /\ g22slave' = FALSE /\ g22irq' = FALSE
         [] value = 1 -> g22master' = TRUE /\ g22slave' = TRUE /\ g22irq' = TRUE
         [] value = 255 -> g22master' = TRUE /\ g22irq' = FALSE /\ UNCHANGED g22slave
    /\ g22int0' = IF g22master' /\ ~g22master THEN FALSE ELSE g22int0
    /\ UNCHANGED << g22bio, g22upload, g22pdp, g22direct, g22rest >>

SignalVblank ==
    /\ Running /\ g22master /\ g22irq /\ g22int0' = TRUE
    /\ UNCHANGED << g22master, g22slave, g22irq, g22bio, g22upload, g22pdp, g22direct, g22rest >>

(* Ports of the master: 2 begins a list, 3 readies the upload. *)
BeginPdp ==
    /\ Running /\ g22master /\ g22bio' = 1 /\ g22pdp' = TRUE
    /\ UNCHANGED << g22master, g22slave, g22irq, g22int0, g22upload, g22direct, g22rest >>
ReadyUpload ==
    /\ Running /\ g22master /\ g22bio' = 0 /\ g22upload' = "ready"
    /\ UNCHANGED << g22master, g22slave, g22irq, g22int0, g22pdp, g22direct, g22rest >>

(* upload_slave_word: a command, then the destination, then words without end *)
(* until port 3 is read.                                                     *)
UploadSlaveWord(word) ==
    /\ Running /\ g22master
    /\ g22slave' = CASE g22upload = "ready" /\ word = 0 -> FALSE
                     [] g22upload = "ready" /\ word \in {3, 16} -> TRUE
                     [] OTHER -> g22slave
    /\ g22upload' = CASE g22upload = "ready" /\ word = 1 -> "destination"
                      [] g22upload = "destination" -> "data"
                      [] OTHER -> g22upload
    /\ UNCHANGED << g22master, g22irq, g22int0, g22bio, g22pdp, g22direct, g22rest >>

(* One polygon more, if the frame has room. *)
PolygonPushed(count) == IF count < MaxPolygons THEN count + 1 ELSE count

RestartRender ==
    /\ Running /\ g22master /\ g22words' = 0
    /\ UNCHANGED << g22switches, g22pdp, g22polygons, g22rest >>
(* write_render_device: the last word makes a polygon; then words are ignored *)
(* until the device is restarted.                                            *)
RenderWord ==
    /\ Running /\ g22master /\ g22words < RenderWords
    /\ g22words' = g22words + 1
    /\ g22polygons' = IF g22words + 1 = RenderWords THEN PolygonPushed(g22polygons) ELSE g22polygons
    /\ UNCHANGED << g22switches, g22pdp, g22rest >>

-----------------------------------------------------------------------------
(* The end of the frame takes the polygons; a list that was begun is walked    *)
(* first, as the RAM is by now.                                              *)
TakePolygons ==
    /\ Running
    /\ g22pdp' = FALSE
    /\ g22phase' = IF g22pdp THEN "list" ELSE "submit"
    /\ g22cursor' = ListBase /\ g22records' = 0 /\ g22packets' = 0 /\ g22read' = 0
    /\ UNCHANGED << g22switches, g22direct, g22object, g22lit >>

(* The words a handler reads of a record of each length. *)
Handlers == [length \in {21, 16, 10, 13} |-> IF length = 16 THEN 4 ELSE length]
FitsSlip(index, length) == index + 2 < RamWords
Fits(index, length) == index + length + 2 < RamWords

(* One record, whose code, length and link are whatever the game left there.   *)
(* Of the primitives some codes draw an object.  The list goes on only when    *)
(* the link leads to the next word.                                          *)
Record(length, linked, draws) ==
    /\ g22phase = "list" /\ (draws => length = 13)
    /\ LET index == g22cursor + 2
           next == index + length + 2
           good == Fits(index, length) /\ length \in DOMAIN Handlers
           goesOn == good /\ linked /\ next # RamWords - 1 /\ g22records + 1 < MaxRecords
       IN /\ g22read' = IF good THEN index + Handlers[length] - 1 ELSE g22read
          /\ g22cursor' = IF good THEN next ELSE index
          /\ g22records' = g22records + 1
          /\ g22phase' = IF good /\ draws THEN (IF goesOn THEN "object" ELSE "last")
                         ELSE IF goesOn THEN "list" ELSE "submit"
    /\ UNCHANGED << g22switches, g22pdp, g22direct, g22draw >>

(* render_poly_object clears the lit surfaces of the object before. *)
LightsClearedSlip(lit) == lit
LightsCleared(lit) == << >>
StartObject ==
    /\ g22phase \in {"object", "last"}
    /\ g22object' = 1 - g22object /\ g22lit' = LightsCleared(g22lit)
    /\ g22phase' = IF g22phase = "object" THEN "packets" ELSE "lastPackets"
    /\ UNCHANGED << g22switches, g22pdp, g22direct, g22walk, g22packets >>

InObject == g22phase \in {"packets", "lastPackets"}
AfterObject == IF g22phase = "packets" THEN "list" ELSE "submit"

(* Packets of render_quad_packets: a quad, which the surfaces registered so    *)
(* far light and which may be culled; normals, of 16 words (anew) or 13 (more).*)
Quad(drawn) ==
    /\ InObject /\ g22packets < MaxPackets /\ g22packets' = g22packets + 1
    /\ g22polygons' = IF drawn THEN PolygonPushed(g22polygons) ELSE g22polygons
    /\ UNCHANGED << g22switches, g22pdp, g22words, g22phase, g22walk, g22object, g22lit >>
Normals(anew) ==
    /\ InObject /\ g22packets < MaxPackets /\ g22packets' = g22packets + 1
    /\ g22lit' = Append(IF anew THEN << >> ELSE g22lit, g22object)
    /\ UNCHANGED << g22switches, g22pdp, g22direct, g22phase, g22walk, g22object >>

(* The object ends, or a packet of an unknown length ends it. *)
EndObject ==
    /\ InObject /\ g22phase' = AfterObject
    /\ UNCHANGED << g22switches, g22pdp, g22direct, g22walk, g22draw >>

(* run_frame hands the polygons to the renderer. *)
SubmitScene ==
    /\ g22phase = "submit" /\ g22phase' = "run" /\ g22polygons' = 0
    /\ UNCHANGED << g22switches, g22pdp, g22words, g22walk, g22draw >>

G22Next ==
    \/ \E value \in {0, 1, 255} : Control(value)
    \/ SignalVblank \/ BeginPdp \/ ReadyUpload \/ RestartRender \/ RenderWord
    \/ \E word \in {0, 1, 3} : UploadSlaveWord(word)
    \/ TakePolygons \/ StartObject \/ EndObject \/ SubmitScene
    \/ \E length \in DOMAIN Handlers \cup {0, 65535}, linked, draws \in BOOLEAN :
           Record(length, linked, draws)
    \/ \E flag \in BOOLEAN : Quad(flag) \/ Normals(flag)
G22Spec == G22Init /\ [][G22Next]_g22vars

-----------------------------------------------------------------------------
(* Whatever lengths and links the game leaves in the list, no handler is given *)
(* words outside polygon RAM: the handlers read through a bare pointer.       *)
InRam == g22read < RamWords

(* A quad is lit by normals of its own object only. *)
LitByOwnObject ==
    InObject => \A i \in DOMAIN g22lit : g22lit[i] = g22object
=============================================================================
