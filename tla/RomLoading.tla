------------------------------ MODULE RomLoading ------------------------------
(***************************************************************************)
(* The loaders of the boards' ROM sets, and the two judges of what they    *)
(* return: the audit of the launcher and the start of the board.           *)
(*                                                                         *)
(* A set is a sequence of rows.  A row is what one loop of a loader puts   *)
(* into one memory region: the places of its files, which damage of a file *)
(* the loader notices, and who needs the row.  A file takes the bytes      *)
(* from.. to-1 of the region whose offset modulo four is one of its lanes, *)
(* since half of the sets are dealt out over two or four chips byte by     *)
(* byte or word by word.                                                   *)
(***************************************************************************)
EXTENDS Integers, Sequences, FiniteSets

CONSTANT RomGames   \* the sets tried, of DOMAIN Layout

VARIABLES romGame,     \* the set of the archive that is open
          romFault,    \* <<row, kind>>: what is wrong with one of its files
          romPhase,    \* "identify", "load", "judge" or "judged"
          romNext,     \* the row that is loaded next
          romPlaced,   \* the rows whose region is filled
          romRefused,  \* the loader has an error to report
          romAudited, romStarted

romvars == <<romGame, romFault, romPhase, romNext, romPlaced, romRefused,
             romAudited, romStarted>>

File(at, size, stride, width) ==
  [from  |-> at,
   to    |-> at + (size \div width - 1) * stride + width,
   lanes |-> {(at + (j + (k * stride))) % 4 : j \in 0..width - 1, k \in 0..3}]

Linear(at, n, size) == {File(at + i * size, size, 1, 1) : i \in 0..n - 1}
WordsSlip(at, n, size) ==
  {File(at + (i \div 2) * size + ((i % 2) * 2), size, 4, 2) : i \in 0..n - 1}
\* copy_word32: each pair of files shares a stretch, word by word.
Words(at, n, size) ==
  {File(at + (i \div 2) * 2 * size + ((i % 2) * 2), size, 4, 2) : i \in 0..n - 1}
BytePairs(at, n, size) ==
  {File(at + (i \div 2) * 2 * size + (i % 2), size, 2, 1) : i \in 0..n - 1}
Bytes(at, n, size) == {File(at + i, size, 4, 1) : i \in 0..n - 1}

\* needed by: "start", the board does not start without it; "audit", only the
\* audit misses it; "whole", it may be missing, not damaged; "none".
Row(region, size, files, neededBy, notices) ==
  [region |-> region, size |-> size, files |-> files, neededBy |-> neededBy,
   notices |-> notices]
Exact == {"short", "other"}
Needed(region, size, files) == Row(region, size, files, "start", Exact)
Audited22(region, size, files) == Row(region, size, files, "audit", Exact)

(***************************************************************************)
(* System 22.                                                              *)
(***************************************************************************)
Board22(mcu, mcuSize, textures, colours, points, pointSize, notices) ==
  << Row("program", \h200000, Bytes(0, 4, \h80000), "start", notices),
     Needed("mcu", mcuSize, Linear(0, 1, mcu)),
     Audited22("textures", \h1000000, textures),
     Audited22("tilemap", \h280000, Linear(0, 1, colours) \cup Linear(\h200000, 1, \h80000)),
     Needed("points", pointSize, Linear(0, points, \h80000)),
     Audited22("samples", \h1000000, Linear(0, 4, \h100000)),
     Audited22("gamma", \h300, Linear(0, 3, \h100)),
     Needed("c71", \h2000, Linear(0, 1, \h2000)),
     Needed("c74", \h4000, Linear(0, 1, \h4000)) >>

UpperTextures == Linear(\h800000, 4, \h200000)
Eeprom == Row("eeprom", \h2000, Linear(0, 1, \h2000), "none", Exact)

RidgeRacer(notices) ==
  Board22(\h80000, \h80000, UpperTextures, \h200000, 6, \h300000, notices)
AceDriver == RidgeRacer(Exact)
RaveRacer ==
  Append(Board22(\h80000, \h80000, Linear(0, 8, \h200000), \h200000, 12,
                 \h600000, Exact), Eeprom)
VictoryLap ==
  Board22(\h80000, \h80000, Linear(0, 8, \h200000), \h200000, 9, \h480000, Exact)
\* The data ROM of a quarter of the region is repeated over the rest of it.
CyberCommando ==
  Append(Board22(\h20000, \h80000, UpperTextures, \h100000, 9, \h480000, Exact),
         Eeprom)

SuperBoard22(sprites, textures, points, pointSize, secondWave) ==
  << Needed("program", \h400000, Bytes(0, 4, \h100000)),
     Needed("mcu", \h80000, Linear(0, 1, \h80000)),
     Audited22("sprites", \h1000000, Linear(0, sprites, \h200000)),
     Audited22("textures", \h1000000, Linear(0, textures, \h200000)),
     Audited22("tilemap", \h280000, Linear(0, 1, \h200000) \cup Linear(\h200000, 1, \h80000)),
     Needed("points", pointSize, Linear(0, points, \h80000)),
     Audited22("samples", \h1000000, Linear(0, 1, \h400000) \cup Linear(\h800000, 1, secondWave)),
     Needed("c71", \h2000, Linear(0, 1, \h2000)) >>

TimeCrisis == SuperBoard22(6, 7, 9, \h480000, \h200000)
DirtDash == SuperBoard22(2, 8, 9, \h480000, \h400000)
AquaJet == Append(SuperBoard22(3, 8, 12, \h600000, \h400000), Eeprom)

(***************************************************************************)
(* Model 2.                                                                *)
(***************************************************************************)
MathTables ==
  << Needed("copro_tgp_tables", \h40000, Words(0, 2, \h20000)),
     Needed("other_data", \h80000, Words(0, 4, \h20000)) >>
Crx ==
  << Needed("samples", \h800000, Linear(0, 4, \h200000)),
     Needed("video_tables", \h200000, Bytes(0, 3, \h80000)) >> \o MathTables

SegaRally ==
  << Needed("main_cpu", \h200000, Words(0, 2, \h80000)),
     Needed("main_data", \h2400000, Words(0, 6, \h200000)),
     Needed("copro_data", \h800000, Words(0, 2, \h200000)),
     Needed("drive_cpu", \h10000, Linear(0, 1, \h10000)),
     Needed("polygon_data", \h2000000, Words(0, 4, \h200000)),
     Needed("texture_data", \h1000000, Words(0, 2, \h200000)),
     Needed("communication_cpu", \h20000, Linear(0, 1, \h20000)),
     Needed("sound_cpu", \h80000, Linear(0, 1, \h40000)),
     Row("billboard_cpu", \h10000, Linear(0, 1, \h10000), "none", Exact) >> \o Crx

\* The last pair of the data is copied to the three megabytes behind it.
VirtuaCop2 ==
  << Needed("main_cpu", \h200000, Words(0, 4, \h80000)),
     Needed("main_data", \h2400000, Words(0, 6, \h200000)),
     Needed("main_data", \h2400000, Words(\hc00000, 2, \h80000)
                                       \cup Linear(\hd00000, 3, \h100000)),
     Needed("polygon_data", \h800000, Words(0, 2, \h200000)),
     Needed("texture_data", \h400000, Words(0, 2, \h200000)),
     Needed("sound_cpu", \h80000, Linear(0, 1, \h80000)) >> \o Crx

VirtuaCop ==
  << Needed("main_cpu", \h200000, Words(0, 4, \h20000)),
     Needed("main_data", \h2000000, Words(0, 4, \h200000)),
     Needed("main_data", \h2000000, Words(\h800000, 2, \h80000)),
     Needed("polygon_data", \h1000000, Words(0, 2, \h200000)),
     Needed("texture_data", \h1000000, Words(0, 2, \h200000)),
     Needed("sound_cpu", \hc0000, Linear(0, 2, \h20000)),
     Needed("multipcm_samples_1", \h400000, Linear(0, 4, \h100000)),
     Needed("multipcm_samples_2", \h400000, Linear(0, 2, \h200000)),
     Needed("io_cpu", \h10000, Linear(0, 1, \h10000)) >> \o MathTables

(***************************************************************************)
(* Model 1.                                                                *)
(***************************************************************************)
Board1(boot, rom_o, sound, samples, polygons, copro) ==
  << Needed("main_cpu", \h2000000, BytePairs(\h200000, 2, \h80000)),
     Needed("main_cpu", \h2000000, boot),
     Needed("main_cpu", \h2000000, BytePairs(\h1000000, rom_o, \h80000)),
     Needed("sound_cpu", \hc0000, Linear(0, sound, \h20000)),
     Needed("samples_1", \h400000, Linear(0, samples, \h200000)),
     Needed("samples_2", \h400000, Linear(0, samples, \h200000)),
     Needed("polygon_data", \h1000000, Words(0, polygons, \h200000)),
     Needed("copro_data", \h200000, Bytes(0, copro, \h80000)),
     Needed("lookup_tables", \h0e0000, Words(0, 2, \h20000)) >>

\* The tables behind the first pair, dealt out in pairs, and the fifth.
PairedTables ==
  << Needed("lookup_tables", \h0e0000, Words(\h40000, 4, \h20000)),
     Needed("lookup_tables", \h0e0000, Linear(\hc0000, 1, \h20000)) >>
Tgp == Needed("legacy_tgp", \h2000, Linear(0, 1, \h2000))
IoBoard(neededBy) == Row("io_cpu", \h10000, Linear(0, 1, \h10000), neededBy, Exact)

VirtuaFormula ==
  Board1(Linear(\hfc0000, 2, \h20000), 8, 1, 1, 8, 4) \o
  << Needed("lookup_tables", \h0e0000, Linear(\h40000, 5, \h20000)),
     Needed("communication_cpu", \h20000, Linear(0, 1, \h20000)),
     IoBoard("whole"),
     Row("default_nvram", \h100, Linear(0, 1, \h100), "whole", Exact),
     Row("legacy_tgp", \h2000, Linear(0, 1, \h2000), "whole", Exact) >>
VirtuaFighter ==
  Board1(Linear(\hfc0000, 2, \h20000), 8, 2, 2, 8, 0) \o PairedTables \o
  << Tgp, IoBoard("start") >>
StarWarsArcade ==
  Board1(Linear(0, 2, \h80000) \cup Linear(\hf80000, 1, \h80000), 0, 1, 2, 6, 4) \o
  PairedTables \o
  << Tgp, IoBoard("start"), Needed("dsb_cpu", \h20000, Linear(0, 1, \h20000)),
     Needed("dsb_mpeg", \h800000, Linear(0, 2, \h200000)) >>
WingWar ==
  Board1(Linear(0, 2, \h20000) \cup Linear(\hfc0000, 2, \h20000), 6, 2, 2, 8, 4) \o
  PairedTables \o << Tgp >>

(***************************************************************************)
(* The other boards.  The Galaxian boards know no checksums, and Phoenix   *)
(* not even the sizes of its files.                                        *)
(***************************************************************************)
Sized(region, size, files) == Row(region, size, files, "start", {"short"})
Unsized(region, size, files) == Row(region, size, files, "start", {})

PhoenixRows ==
  << Unsized("program", \h4000, Linear(0, 8, \h800)),
     Unsized("background_graphics", \h1000, Linear(0, 2, \h800)),
     Unsized("foreground_graphics", \h1000, Linear(0, 2, \h800)),
     Unsized("palette_prom", \h200, Linear(0, 2, \h100)) >>
GalaxianRows(programs, chars) ==
  << Sized("program", \h4000, Linear(0, programs, \h800)),
     Sized("char_rom", \h2000, Linear(0, chars, \h800)),
     Sized("palette", 32, Linear(0, 1, 32)) >>

Chip(name, size) == Needed(name, size, Linear(0, 1, size))
GalagaRows ==
  << Needed("main", \h4000, Linear(0, 4, \h1000)), Chip("sub", \h1000),
     Chip("sound", \h1000), Chip("chars", \h1000),
     Needed("sprites", \h2000, Linear(0, 2, \h1000)), Chip("palette", \h20),
     Chip("char_lookup", \h100), Chip("sprite_lookup", \h100),
     Chip("waveform", \h100) >>
PacManiaRows ==
  << Chip("program6", \h20000), Chip("program7", \h10000), Chip("sound0", \h10000),
     Chip("sound1", \h10000), Chip("mcu", \h1000), Chip("voice", \h10000),
     Needed("chars", \h80000, Linear(0, 4, \h20000)), Chip("mask", \h10000),
     Chip("sprite0", \h20000), Chip("sprite1", \h20000) >>
GngRows ==
  << Needed("main", \h18000, Linear(\h4000, 1, \h4000) \cup Linear(\h8000, 1, \h8000)
                              \cup Linear(\h10000, 1, \h8000)),
     Chip("sound", \h8000), Chip("chars", \h4000),
     Needed("tiles", \h18000, Linear(0, 6, \h4000)),
     Needed("sprites", \h20000, Linear(0, 3, \h4000) \cup Linear(\h10000, 3, \h4000)),
     Needed("proms", \h200, Linear(0, 2, \h100)) >>
\* A missing or short sprite bank leaves holes the audit does not see, as long
\* as another bank is there; the two sound files are only missed by the audit.
ShinobiRows ==
  << Sized("program", \h40000, BytePairs(0, 2, \h20000)),
     Unsized("tile_plane0", \h20000, Linear(0, 1, \h20000)),
     Unsized("tile_plane1", \h20000, Linear(0, 1, \h20000)),
     Unsized("tile_plane2", \h20000, Linear(0, 1, \h20000)),
     Row("sprite_gfx", \h80000, BytePairs(0, 4, \h20000), "none", {"short"}),
     Row("sound_prog", \h8000, Linear(0, 1, \h8000), "audit", {}),
     Row("sound_data", \h20000, Linear(0, 1, \h20000), "audit", {}) >>

Layout ==
  [ridgerac  |-> RidgeRacer({"short"}), ridgera2 |-> RidgeRacer(Exact),
   raverace  |-> RaveRacer, acedrive |-> AceDriver,
   victlap   |-> VictoryLap, cybrcomm |-> CyberCommando,
   timecris  |-> TimeCrisis, dirtdash |-> DirtDash, aquajet |-> AquaJet,
   srallyc   |-> SegaRally, vcop2 |-> VirtuaCop2, vcop |-> VirtuaCop,
   vformula  |-> VirtuaFormula, vf |-> VirtuaFighter,
   swa       |-> StarWarsArcade, wingwar |-> WingWar,
   phoenix   |-> PhoenixRows, galaxian |-> GalaxianRows(5, 2),
   mooncrst  |-> GalaxianRows(8, 4), uniwars |-> GalaxianRows(8, 4),
   galaga    |-> GalagaRows, pacmania |-> PacManiaRows, gng |-> GngRows,
   shinobi4  |-> ShinobiRows]

\* What becomes of a set with a damaged row: a System 22 set loses the region
\* and loads on, the Sega sets load on and report it, the others stop there.
KeepsGoing == {"srallyc", "vcop2", "vcop", "vformula", "vf", "swa", "wingwar"}
DropsTheRegion == {"ridgerac", "ridgera2", "raverace", "acedrive", "victlap",
                   "cybrcomm", "timecris", "dirtdash", "aquajet"}

ASSUME RomGamesAssumption == RomGames \subseteq DOMAIN Layout

FaultKinds == {"missing", "unreadable", "short", "other"}
NoFault == <<0, "none">>
Rows == Layout[romGame]

Fits(row) == \A f \in row.files : f.to <= row.size
Damaged(i) == romFault[1] = i
\* A file is looked for by its name in every directory of the archive; what
\* ends early while it is unpacked or read counts as not found.
Readable(kind) == kind \notin {"missing", "unreadable"}
Noticed(i) ==
  Damaged(i) /\ (~Readable(romFault[2]) \/ romFault[2] \in Rows[i].notices)

OpenSet(g) ==
  /\ romGame' = g
  /\ romFault' \in {NoFault} \cup ((1..Len(Layout[g])) \X FaultKinds)
  /\ romPhase' = "identify" /\ romNext' = 1 /\ romPlaced' = {}
  /\ romRefused' = FALSE /\ romAudited' = FALSE /\ romStarted' = FALSE

RomInit ==
  /\ romGame \in RomGames
  /\ romFault \in {NoFault} \cup ((1..Len(Layout[romGame])) \X FaultKinds)
  /\ romPhase = "identify" /\ romNext = 1 /\ romPlaced = {}
  /\ romRefused = FALSE /\ romAudited = FALSE /\ romStarted = FALSE

\* Each loader knows its sets by a file or two of the program; when the damaged
\* file is one of them, the set may not be recognised at all.
Identify(recognised) ==
  /\ romPhase = "identify"
  /\ recognised \/ Damaged(1)
  /\ romPhase' = IF recognised THEN "load" ELSE "judge"
  /\ romRefused' = ~recognised
  /\ UNCHANGED <<romGame, romFault, romNext, romPlaced, romAudited, romStarted>>

FilledSlip(good) == romPlaced \cup {romNext}
\* load_region gives up a region of which a file is missing or damaged.
Filled(good) == IF good THEN romPlaced \cup {romNext} ELSE romPlaced

LoadRow ==
  LET row  == Rows[romNext]
      good == Fits(row) /\ ~Noticed(romNext)
      fatal == /\ ~good
               /\ row.neededBy = "start" \/ (row.neededBy = "whole" /\ Readable(romFault[2]))
      ends == romNext = Len(Rows) \/ (fatal /\ romGame \notin KeepsGoing \cup DropsTheRegion)
  IN  /\ romPhase = "load"
      /\ romPlaced' = Filled(good)
      /\ romRefused' = (romRefused \/ (fatal /\ romGame \notin DropsTheRegion))
      /\ romNext' = romNext + 1
      /\ romPhase' = IF ends THEN "judge" ELSE "load"
      /\ UNCHANGED <<romGame, romFault, romAudited, romStarted>>

Has(needs) ==
  \A i \in DOMAIN Rows : Rows[i].neededBy \in needs => i \in romPlaced

\* audit_rom_path, and the start of the board's session.
Judge ==
  /\ romPhase = "judge"
  /\ romPhase' = "judged"
  /\ romAudited' = (~romRefused /\ Has({"start", "audit"}))
  /\ romStarted' = (~romRefused /\ Has({"start"}))
  /\ UNCHANGED <<romGame, romFault, romNext, romPlaced, romRefused>>

AnotherSet == romPhase = "judged" /\ \E g \in RomGames : OpenSet(g)

RomNext ==
  \/ \E recognised \in BOOLEAN : Identify(recognised)
  \/ LoadRow
  \/ Judge
  \/ AnotherSet

RomSpec == RomInit /\ [][RomNext]_romvars

-----------------------------------------------------------------------------
Apart(f, g) == f.to <= g.from \/ g.to <= f.from \/ f.lanes \cap g.lanes = {}

\* No file is written over the bytes of another file of its region: the rows
\* of the interleaved sets mesh, and no offset or size in the tables of the
\* loaders is one off.
NothingOverwritten ==
  \A i, j \in romPlaced : Rows[i].region = Rows[j].region =>
    \A f \in Rows[i].files, g \in Rows[j].files :
      (i # j \/ f # g) => Apart(f, g)

\* The audit passes exactly the sets that are whole as far as the loader can
\* see: a flawless archive passes it, nothing that lacks a row does, and what
\* has passed starts.
AuditTellsTheTruth ==
  romPhase = "judged" =>
    /\ romFault = NoFault => romAudited
    /\ romAudited => romStarted
    /\ romAudited => \A i \in DOMAIN Rows :
         Noticed(i) => \/ Rows[i].neededBy = "none"
                       \/ Rows[i].neededBy = "whole" /\ ~Readable(romFault[2])
=============================================================================
