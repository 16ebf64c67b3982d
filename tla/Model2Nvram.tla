------------------------------ MODULE Model2Nvram ------------------------------
(* What a Model 2 cabinet remembers: the serial EEPROM, where Sega Rally keeps a *)
(* settings record that it checks by its checksum, and the battery RAM.  Both     *)
(* are saved at most once a second, into a file each.  A paired launcher chooses *)
(* the cabinet's role in the record, whatever the game writes there.           *)
EXTENDS Integers

CONSTANTS
    MnValues,    \* the rest of a record, as the game writes it
    MnEvery,     \* frames between two saves at least (60)
    MnFailures,  \* bound: saves that go wrong
    MnEvents     \* bound: records, erasures, roles, resets and starts

ASSUME Model2NvramAssumption ==
    {"blank", "missing", "torn"} \cap MnValues = {} /\ "factory" \in MnValues /\ MnEvery \in Nat \ {0} /\ {MnFailures, MnEvents} \subseteq Nat

VARIABLES
    mnWords,     \* m_eeprom_words: [sum, link, rest]
    mnBackup,    \* m_backup_ram
    mnFiles,     \* eeprom and backup1 on disc, either of them may be missing or torn
    mnDirty,     \* m_nvram_dirty
    mnFrames,    \* frames since m_last_nvram_save_frame, up to MnEvery
    mnForced,    \* m_forced_srally_link_type
    mnCabinet,   \* environment_comm_node() # 0
    mnEnabled,   \* m_eeprom_write_enabled
    mnPending,   \* word of the WRITE whose bits are arriving, or NoWord
    mnGame,      \* the record the game is writing and its next word, or Resting
    mnBounds     \* [failures, events] so far

mnMemory == << mnWords, mnBackup >>
mnDisc == << mnFiles, mnDirty, mnFrames >>
mnChip == << mnEnabled, mnPending >>
mnvars == << mnMemory, mnDisc, mnForced, mnCabinet, mnChip, mnGame, mnBounds >>

SrallyRoles == 0..2          \* NOTLINK, CAR1, CAR2
NotForced == -1
Fields == << "sum", "link", "rest" >>   \* words 0, 5 and 0x11 of the record
NoWord == 0
(* sega_record_crc: what tells two records apart. *)
Crc(link, rest) == << link, rest >>
Whole(link, rest) == [sum |-> Crc(link, rest), link |-> link, rest |-> rest]
Checked(words) == words.sum = Crc(words.link, words.rest)
Factory == Whole(0, "factory")
(* What the disc has for a file that is not there, or is only a part of one.     *)
Missing == [eeprom |-> [sum |-> << >>, link |-> -1, rest |-> "missing"], backup |-> "missing"]
TornPart == [eeprom |-> [sum |-> << >>, link |-> -1, rest |-> "torn"], backup |-> "torn"]
Resting == [record |-> Factory, next |-> 0]
MnInit ==
    /\ mnWords = Factory /\ mnBackup = "erased" /\ mnFiles = Missing
    /\ mnDirty = FALSE /\ mnFrames = 0 /\ mnForced = NotForced /\ mnCabinet \in BOOLEAN
    /\ mnEnabled = FALSE /\ mnPending = NoWord /\ mnGame = Resting /\ mnBounds = [failures |-> 0, events |-> 0]

-----------------------------------------------------------------------------
(* save_nvram: two files, each written beside itself and renamed.  One that       *)
(* cannot be written stays as it is; one that cannot be replaced was removed      *)
(* before the second try.  write_exact asks the stream before it is closed: one  *)
(* that fails when it is flushed leaves a torn file and is taken for written.    *)
Outcomes == {"written", "kept", "removed", "torn"}
Attempts == [eeprom : Outcomes, backup : Outcomes]
Works == [eeprom |-> "written", backup |-> "written"]
Claimed(outcome) == outcome \in {"written", "torn"}
SavedSlip(saves) == Claimed(saves.eeprom)
Saved(saves) == Claimed(saves.eeprom) /\ Claimed(saves.backup)
AfterSave(outcome, file, memory, missing, torn) ==
    CASE outcome = "written" -> memory [] outcome = "kept" -> file
      [] outcome = "removed" -> missing [] outcome = "torn" -> torn
Written(words, saves) ==
    [eeprom |-> AfterSave(saves.eeprom, mnFiles.eeprom, words, Missing.eeprom, TornPart.eeprom),
     backup |-> AfterSave(saves.backup, mnFiles.backup, mnBackup, Missing.backup, TornPart.backup)]
Failures(saves) == mnBounds.failures + (IF saves = Works THEN 0 ELSE 1)
AfterEvent(saves, events) ==
    /\ Failures(saves) <= MnFailures /\ mnBounds.events + events <= MnEvents
    /\ mnBounds' = [failures |-> Failures(saves), events |-> mnBounds.events + events]

(* vblank, with its save when one is due. *)
Due == mnDirty /\ mnFrames + 1 >= MnEvery
Frame(saves) ==
    /\ IF Due
       THEN /\ mnFiles' = Written(mnWords, saves) /\ AfterEvent(saves, 0)
            /\ mnDirty' = ~Saved(saves) /\ mnFrames' = (IF Saved(saves) THEN 0 ELSE MnEvery)
       ELSE /\ saves = Works /\ mnFrames' = (IF mnFrames < MnEvery THEN mnFrames + 1 ELSE mnFrames)
            /\ UNCHANGED << mnFiles, mnDirty, mnBounds >>
    /\ UNCHANGED << mnMemory, mnForced, mnCabinet, mnChip, mnGame >>

(* load_nvram: a file that is not there, or has not its size, leaves what the     *)
(* cabinet came with; and the chip with nothing in it.                           *)
Loaded(files) ==
    /\ mnFiles' = files
    /\ mnWords' = (IF files.eeprom \in {Missing.eeprom, TornPart.eeprom} THEN Factory ELSE files.eeprom)
    /\ mnBackup' = (IF files.backup \in {Missing.backup, TornPart.backup} THEN "erased" ELSE files.backup)
    /\ mnDirty' = FALSE /\ mnFrames' = 0 /\ mnEnabled' = FALSE /\ mnPending' = NoWord /\ mnGame' = Resting
(* The process ends, by its destructor, which saves, or without one; another starts. *)
RestartGame(clean, saves) ==
    /\ Loaded(IF clean THEN Written(mnWords, saves) ELSE mnFiles)
    /\ ~clean => saves = Works
    /\ mnForced' = NotForced /\ mnCabinet' \in BOOLEAN /\ AfterEvent(saves, 1)
ResetPreservingNvram(saves) ==
    /\ Loaded(Written(mnWords, saves)) /\ AfterEvent(saves, 1)
    /\ UNCHANGED << mnForced, mnCabinet >>

(* set_srally_link_type: the record as the game would have saved it itself.  The  *)
(* session sets it before the game starts, or when the link changes, and then    *)
(* the board is reset; a record the game has not finished is lost with it.     *)
WithRole(type) == IF mnWords.rest = "blank" \/ mnWords.link = type THEN mnWords ELSE Whole(type, mnWords.rest)
SetLinkType(type, saves) ==
    /\ mnGame = Resting /\ mnPending = NoWord /\ ~mnEnabled
    /\ mnWords.rest # "blank" /\ mnForced' = type /\ AfterEvent(saves, 1) /\ mnWords' = WithRole(type)
    /\ IF mnWords.link = type
       THEN saves = Works /\ UNCHANGED mnDisc
       ELSE /\ mnFiles' = Written(WithRole(type), saves)
            /\ mnDirty' = ~Saved(saves) /\ mnFrames' = (IF Saved(saves) THEN 0 ELSE mnFrames)
    /\ UNCHANGED << mnBackup, mnCabinet, mnChip, mnGame >>
RequestRole(type, saves) ==
    /\ mnForced' = (IF mnWords.rest = "blank" THEN mnForced ELSE type)
    /\ Loaded(Written(WithRole(type), saves)) /\ AfterEvent(saves, 1) /\ UNCHANGED mnCabinet

-----------------------------------------------------------------------------
(* The game writes its record word after word, each in a transaction of the      *)
(* 93C46: write enable once, then a command and sixteen bits.                  *)
StartRecord(link, rest) ==
    /\ mnGame = Resting /\ AfterEvent(Works, 1) /\ mnGame' = [record |-> Whole(link, rest), next |-> 1]
    /\ UNCHANGED << mnMemory, mnDisc, mnForced, mnCabinet, mnChip >>
EnableWrites(on) ==
    /\ mnPending = NoWord /\ mnEnabled # on /\ (on <=> mnGame # Resting) /\ mnEnabled' = on
    /\ UNCHANGED << mnMemory, mnDisc, mnForced, mnCabinet, mnPending, mnGame, mnBounds >>
WriteCommand ==
    /\ mnGame # Resting /\ mnEnabled /\ mnPending = NoWord /\ mnPending' = mnGame.next
    /\ UNCHANGED << mnMemory, mnDisc, mnForced, mnCabinet, mnEnabled, mnGame, mnBounds >>

(* The role goes into its own word at once, so the game reads it back, and with   *)
(* the last word the record gets the role and its checksum again.              *)
FieldStored(field, value) ==
    [mnWords EXCEPT ![field] = IF field = "link" /\ mnForced # NotForced /\ mnCabinet THEN mnForced ELSE value]
RepairedSlip(words) == [words EXCEPT !.link = mnForced]
Repaired(words) == Whole(mnForced, words.rest)
SixteenthBit ==
    /\ mnPending # NoWord /\ mnPending' = NoWord
    /\ LET field == Fields[mnPending]
           words == FieldStored(field, mnGame.record[field])
       IN mnWords' = (IF field = "rest" /\ mnForced # NotForced THEN Repaired(words) ELSE words)
    /\ mnDirty' = TRUE
    /\ mnGame' = (IF mnPending = 3 THEN Resting ELSE [mnGame EXCEPT !.next = @ + 1])
    /\ UNCHANGED << mnBackup, mnFiles, mnFrames, mnForced, mnCabinet, mnEnabled, mnBounds >>
Erase ==
    /\ mnGame = Resting /\ mnEnabled /\ AfterEvent(Works, 1) /\ mnWords' = [mnWords EXCEPT !.rest = "blank"] /\ mnDirty' = TRUE
    /\ UNCHANGED << mnBackup, mnFiles, mnFrames, mnForced, mnCabinet, mnChip, mnGame >>
WriteBackup(value) ==
    /\ value # mnBackup /\ mnBackup' = value /\ mnDirty' = TRUE /\ AfterEvent(Works, 1)
    /\ UNCHANGED << mnWords, mnFiles, mnFrames, mnForced, mnCabinet, mnChip, mnGame >>

MnNext ==
    \/ WriteCommand \/ SixteenthBit \/ Erase
    \/ \E saves \in Attempts :
        \/ Frame(saves) \/ ResetPreservingNvram(saves)
        \/ \E clean \in BOOLEAN : RestartGame(clean, saves)
        \/ \E type \in SrallyRoles : SetLinkType(type, saves) \/ RequestRole(type, saves)
    \/ \E link \in SrallyRoles, rest \in MnValues : StartRecord(link, rest)
    \/ \E on \in BOOLEAN : EnableWrites(on)
    \/ \E value \in {"erased", "scores"} : WriteBackup(value)
MnSpec == MnInit /\ [][MnNext]_mnvars

-----------------------------------------------------------------------------
(* What is not marked dirty is on disc, in both files, or is what a cabinet       *)
(* without the file comes with: no file that can be loaded is older than the      *)
(* memory but for what a later frame saves, whichever saves are known to have    *)
(* failed.  A save that is torn unnoticed is the exception: that file is lost.   *)
NothingUnmarked ==
    ~mnDirty =>
        /\ \/ mnFiles.eeprom \in {mnWords, TornPart.eeprom}
           \/ mnFiles.eeprom = Missing.eeprom /\ mnWords = Factory
        /\ \/ mnFiles.backup \in {mnBackup, TornPart.backup}
           \/ mnFiles.backup = Missing.backup /\ mnBackup = "erased"

(* "Keep Sega Rally's startup rewrite from reverting CAR1/CAR2 to NOTLINK": when   *)
(* the game has written its record, in whatever role, the record has the role     *)
(* the launcher chose and the checksum of a record with that role.             *)
RoleKept ==
    mnPending = 3 /\ mnPending' = NoWord /\ mnGame' = Resting /\ mnDirty'
      => (mnForced # NotForced => mnWords'.link = mnForced) /\ Checked(mnWords')
\* Of every step of the machine and of its game.
RoleSurvivesTheGame == [][RoleKept]_mnvars
=============================================================================
