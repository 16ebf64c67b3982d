---------------------------- MODULE SavedScores ----------------------------
(* The high scores of one game: the table in the memory of the board, the     *)
(* .hi file of this cabinet, and the one MAME may have left.  A table is      *)
(* known by how good it is: 0 is the table the game starts with.              *)
EXTENDS Integers

CONSTANTS
    MaxScore,       \* bound: times the table is improved
    CheckEvery,     \* frames between two looks at the table: 60
    MaxPowerOns     \* bound: resets and launches

ASSUME ScoresAssumption == MaxScore \in Nat /\ CheckEvery \in Nat \ {0} /\ MaxPowerOns \in Nat

VARIABLES
    hsOwn,          \* own_score_path: Absent, a table, or one of BadFiles
    hsMame,         \* the candidates after it: Absent or a table
    hsMemory,       \* external: cleared, or the table in the board's memory
    hsRunning,      \* there is a machine
    hsInitialized,  \* m_initialized
    hsDisabled,     \* m_disabled
    hsSince,        \* m_frames_since_check
    hsLast,         \* m_last_snapshot
    hsServed,       \* history: since the last power-on no file was lost to the disc
    hsPowerOns      \* counts resets and launches

hsRuntime == << hsInitialized, hsDisabled, hsSince, hsLast >>
hsvars == << hsOwn, hsMame, hsMemory, hsRunning, hsRuntime, hsServed, hsPowerOns >>

Tables == 0..MaxScore
Absent == -1
AfterReset == -2
Short == -3             \* a file of another size
Undecodable == -4
BadFiles == {Short, Undecodable}
\* capture: the bytes as they are; memory the game has not set up is no table
Captured == IF hsMemory \in Tables THEN hsMemory ELSE Undecodable
Ready == hsMemory \in Tables           \* memory_ready: the guards are there

HsInit ==
    /\ hsOwn \in Tables \cup {Absent} \cup BadFiles
    /\ hsMame \in {Absent, 0, MaxScore}
    /\ hsMemory = AfterReset /\ hsRunning = FALSE
    /\ hsInitialized = FALSE /\ hsDisabled = FALSE /\ hsSince = 0 /\ hsLast = Absent
    /\ hsServed = TRUE /\ hsPowerOns = 0

-----------------------------------------------------------------------------
(* The files. *)

(* locate_score_file: the first candidate which is there; when it cannot be    *)
(* read, it is as if there were none.                                         *)
Located == IF hsOwn # Absent THEN hsOwn ELSE hsMame
FileFound(reads) == reads /\ Located # Absent
SizeMatches == Located # Short
Decodes == Located \in Tables          \* decode_high_score_table

(* write_file goes through a temporary file.  It asks whether the write went   *)
(* well before the stream is closed: what is lost in closing it is not known, *)
(* and a part of a table goes over the old file.  When the temporary cannot   *)
(* be written the old file stays; when it cannot be renamed the old one is    *)
(* removed, and the second try may fail as well.                              *)
Written(bytes, served) ==
    \/ hsOwn' = bytes /\ hsServed' = served
    \/ hsOwn' = Short /\ hsServed' = FALSE
NotWritten(served) ==
    \/ hsOwn' = hsOwn /\ hsServed' = served
    \/ hsOwn' = Absent /\ hsServed' = FALSE

-----------------------------------------------------------------------------
(* The runtime. *)

ForgottenSlip == hsSince' = 0 /\ hsLast' = Absent /\ UNCHANGED << hsInitialized, hsDisabled >>
Forgotten == hsInitialized' = FALSE /\ hsDisabled' = FALSE /\ hsSince' = 0 /\ hsLast' = Absent

(* A launch, or the reset of the board: the memory is cleared, and the        *)
(* runtime waits for the game to set its table up again.                     *)
PowerOn ==
    /\ hsPowerOns < MaxPowerOns /\ hsPowerOns' = hsPowerOns + 1
    /\ hsRunning' = TRUE /\ hsMemory' = AfterReset /\ hsServed' = TRUE
    /\ IF hsRunning THEN Forgotten
       ELSE hsInitialized' = FALSE /\ hsDisabled' = FALSE /\ hsSince' = 0 /\ hsLast' = Absent
    /\ UNCHANGED << hsOwn, hsMame >>

(* external: the game sets its table up; a player gets onto it. *)
GameSetsUp == hsRunning /\ hsMemory = AfterReset /\ hsMemory' = 0
GameImproves ==
    /\ hsRunning /\ (hsInitialized \/ hsDisabled)
    /\ hsMemory \in 0..(MaxScore - 1) /\ hsMemory' = hsMemory + 1
Game ==
    /\ GameSetsUp \/ GameImproves
    /\ UNCHANGED << hsOwn, hsMame, hsRunning, hsRuntime, hsServed, hsPowerOns >>

(* update at the end of the first frame with the table there. *)
Refuse ==
    /\ FileFound(TRUE) /\ (~SizeMatches \/ ~Decodes)
    /\ hsDisabled' = TRUE
    /\ UNCHANGED << hsOwn, hsMemory, hsInitialized, hsSince, hsLast, hsServed >>
Restore(reads) ==
    /\ FileFound(reads) => SizeMatches /\ Decodes
    /\ hsMemory' = IF FileFound(reads) THEN Located ELSE hsMemory
    /\ hsLast' = hsMemory' /\ hsInitialized' = TRUE
    /\ IF hsOwn # Absent /\ reads THEN UNCHANGED << hsOwn, hsServed >>
       ELSE LET served == hsServed /\ hsOwn = Absent
            IN Written(hsMemory', served) \/ NotWritten(served)
    /\ UNCHANGED << hsDisabled, hsSince >>

(* update later on: every CheckEvery frames the table is looked at, and       *)
(* saved when it has changed.                                                *)
Wait ==
    /\ hsSince + 1 < CheckEvery /\ hsSince' = hsSince + 1
    /\ UNCHANGED << hsOwn, hsMemory, hsInitialized, hsDisabled, hsLast, hsServed >>
SaveChanged ==
    \/ Captured = hsLast /\ UNCHANGED << hsOwn, hsLast, hsServed >>
    \/ Captured # hsLast /\ Written(Captured, hsServed) /\ hsLast' = Captured
    \/ Captured # hsLast /\ NotWritten(hsServed) /\ UNCHANGED hsLast
Check ==
    /\ hsSince + 1 >= CheckEvery /\ hsSince' = 0
    /\ SaveChanged
    /\ UNCHANGED << hsMemory, hsInitialized, hsDisabled >>

Frame ==
    /\ hsRunning /\ ~hsDisabled
    /\ IF hsInitialized THEN Wait \/ Check ELSE Ready /\ (Refuse \/ \E reads \in BOOLEAN : Restore(reads))
    /\ UNCHANGED << hsMame, hsRunning, hsPowerOns >>

(* The machine is destroyed and flushes, or its process is killed. *)
CloseGame ==
    /\ hsRunning /\ hsRunning' = FALSE /\ hsMemory' = AfterReset
    /\ IF hsInitialized /\ ~hsDisabled THEN SaveChanged ELSE UNCHANGED << hsOwn, hsLast, hsServed >>
    /\ UNCHANGED << hsMame, hsInitialized, hsDisabled, hsSince, hsPowerOns >>
Kill ==
    /\ hsRunning /\ hsRunning' = FALSE /\ hsMemory' = AfterReset
    /\ UNCHANGED << hsOwn, hsMame, hsRuntime, hsServed, hsPowerOns >>

HsNext == PowerOn \/ Game \/ Frame \/ CloseGame \/ Kill
HsSpec == HsInit /\ [][HsNext]_hsvars

-----------------------------------------------------------------------------
(* "Never replace a malformed user file with the game's defaults", and never  *)
(* a table by a lesser one: through resets, kills and writes that failed and  *)
(* were seen to, the file only gets better, from one power-on to the next, as *)
(* long as the disc could read it, closed what it wrote and renamed it.       *)
Better(new, old) == old \in Tables => (new \in Tables /\ new >= old)
BestKept == [][ hsServed' => /\ Better(hsOwn', hsOwn)
                             /\ hsOwn \in BadFiles => hsOwn' = hsOwn
                             /\ hsOwn' \in BadFiles => hsOwn' = hsOwn ]_hsvars
=============================================================================
