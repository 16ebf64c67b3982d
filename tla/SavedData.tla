----------------------------- MODULE SavedData -----------------------------
(* The operator data of one game: the files of its save chips, the EEPROM of  *)
(* a System 22 session which is loaded from one and saved to it, and the      *)
(* launcher's EEPROM / NVRAM manager which backs them up, exports, imports    *)
(* and resets them.  Contents are numbered in the order they come about.      *)
EXTENDS Integers, Sequences, SequencesExt

CONSTANTS
    MaxContents,    \* bound: contents written by games
    MaxOperations   \* bound: operations of the manager

ASSUME DataAssumption == MaxContents \in Nat /\ MaxOperations \in Nat

VARIABLES
    sdChips,        \* the files of the game, in the order of build_games
    sdLive,         \* the files: chip -> contents
    sdBackups,      \* the folders below backups/, one for each second one was made
    sdExport,       \* the folder exported to
    sdOperation,    \* what the manager is doing: "none", "backup", "export", "reset" or "import"
    sdChanging,     \* it is past the backup and changes the live files
    sdFiles,        \* the files its build_games found
    sdAt,           \* the chip it has come to
    sdFolder,       \* what it has copied so far
    sdSession,      \* a System 22 session: "none", "opened" or "running"
    sdBus,          \* m_eeprom of its bus
    sdContents, sdOperations    \* counters for the bounds

sdManager == << sdBackups, sdExport, sdOperation, sdChanging, sdFiles, sdAt, sdFolder, sdOperations >>
sdBoard == << sdSession, sdBus, sdContents >>
sdvars == << sdChips, sdLive, sdManager, sdBoard >>

System22Files == <<"eeprom">>
Model2Files == <<"eeprom", "backup1">>
ChipSet == ToSet(sdChips)
Missing == -1
Blank == -2             \* 0xff throughout, as the bus is constructed
Factory == -3           \* the image in the ROM set
Imported == -4
NothingOnDisk == [c \in ChipSet |-> Missing]
Exists(files, chip) == files[chip] # Missing

SdInit ==
    /\ sdChips \in {System22Files, Model2Files}
    /\ sdLive \in {NothingOnDisk, [c \in ChipSet |-> 0]}
    /\ sdBackups = <<>> /\ sdExport = NothingOnDisk
    /\ sdOperation = "none" /\ sdChanging = FALSE /\ sdFiles = NothingOnDisk /\ sdAt = 1 /\ sdFolder = NothingOnDisk
    /\ sdSession = "none" /\ sdBus = Blank
    /\ sdContents = 0 /\ sdOperations = 0

Idle == sdOperation = "none" /\ sdSession = "none"

-----------------------------------------------------------------------------
(* The manager.  Every operation begins with the files as they are. *)

Begin(operation) ==
    /\ Idle /\ sdOperations < MaxOperations /\ sdOperations' = sdOperations + 1
    /\ sdOperation' = operation /\ sdFiles' = sdLive /\ sdAt' = 1 /\ sdFolder' = NothingOnDisk
    /\ UNCHANGED << sdLive, sdBackups, sdExport, sdBoard, sdChips >>
(* An import comes from a folder or a file checked to have the right sizes;   *)
(* it backs up if any chip has a file.                                       *)
AnyExistingSlip == \A chip \in ChipSet : Exists(sdLive, chip)
AnyExisting == \E chip \in ChipSet : Exists(sdLive, chip)
BeginImport == Begin("import") /\ sdChanging' = ~AnyExisting
BeginOther == \E o \in {"backup", "export", "reset"} : Begin(o) /\ sdChanging' = FALSE

Finished == sdOperation' = "none" /\ sdChanging' = FALSE

(* copy_to_backup and export copy file by file, and stop at one that fails;   *)
(* the folder keeps what was copied.                                         *)
Copying == sdOperation # "none" /\ ~sdChanging
CopyFile ==
    /\ Copying /\ sdAt <= Len(sdChips) /\ sdAt' = sdAt + 1
    /\ LET chip == sdChips[sdAt]
       IN sdFolder' = IF Exists(sdFiles, chip) THEN [sdFolder EXCEPT ![chip] = sdLive[chip]] ELSE sdFolder
    /\ UNCHANGED << sdLive, sdBackups, sdExport, sdOperation, sdChanging, sdFiles, sdOperations, sdBoard, sdChips >>
Kept == IF sdOperation = "export" THEN sdExport' = sdFolder /\ UNCHANGED sdBackups
        ELSE sdBackups' = Append(sdBackups, sdFolder) /\ UNCHANGED sdExport
CopyFails ==
    /\ Copying /\ sdAt <= Len(sdChips) /\ Exists(sdFiles, sdChips[sdAt])
    /\ Kept /\ Finished
    /\ UNCHANGED << sdLive, sdFiles, sdAt, sdFolder, sdOperations, sdBoard, sdChips >>
(* Nothing copied is reported as a failure, and a reset stops there. *)
CopyDone ==
    /\ Copying /\ sdAt > Len(sdChips)
    /\ Kept
    /\ IF sdOperation \in {"reset", "import"} /\ sdFolder # NothingOnDisk
       THEN sdChanging' = TRUE /\ sdAt' = 1 /\ UNCHANGED sdOperation
       ELSE Finished /\ UNCHANGED sdAt
    /\ UNCHANGED << sdLive, sdFiles, sdFolder, sdOperations, sdBoard, sdChips >>

(* Then the live files are removed or replaced, one by one; a failure leaves  *)
(* the rest.                                                                 *)
ChangeFile ==
    /\ sdChanging /\ sdAt <= Len(sdChips) /\ sdAt' = sdAt + 1
    /\ LET chip == sdChips[sdAt]
       IN sdLive' = IF sdOperation = "import" THEN [sdLive EXCEPT ![chip] = Imported]
                    ELSE IF Exists(sdFiles, chip) THEN [sdLive EXCEPT ![chip] = Missing] ELSE sdLive
    /\ UNCHANGED << sdBackups, sdExport, sdOperation, sdChanging, sdFiles, sdFolder, sdOperations, sdBoard, sdChips >>
ChangeEnds ==
    /\ sdChanging /\ Finished     \* all done, or the next one fails
    /\ UNCHANGED << sdLive, sdBackups, sdExport, sdFiles, sdAt, sdFolder, sdOperations, sdBoard, sdChips >>

-----------------------------------------------------------------------------
(* A System 22 session.  Its destructor saves the EEPROM of the bus whenever  *)
(* the set was recognised.                                                   *)

OpenGame ==
    /\ Idle /\ sdChips = System22Files /\ sdSession' = "opened" /\ sdBus' = Blank
    /\ UNCHANGED << sdChips, sdLive, sdManager, sdContents >>
SaveEeprom ==
    \/ sdLive' = [sdLive EXCEPT !["eeprom"] = sdBus]
    \/ UNCHANGED sdLive           \* "Could not save System 22 EEPROM"
(* initialize returns before the EEPROM is loaded: no renderer, or no         *)
(* complete program ROM.                                                     *)
FailEarly ==
    /\ sdSession = "opened" /\ sdSession' = "none"
    /\ SaveEeprom
    /\ UNCHANGED << sdChips, sdManager, sdBus, sdContents >>
(* The image of the ROM set, if it has one, then the file over it. *)
LoadEeprom(image) ==
    /\ sdSession = "opened" /\ sdSession' = "running"
    /\ sdBus' = IF Exists(sdLive, "eeprom") THEN sdLive["eeprom"] ELSE image
    /\ UNCHANGED << sdChips, sdLive, sdManager, sdContents >>
GameWrites ==
    /\ sdSession = "running" /\ sdContents < MaxContents
    /\ sdContents' = sdContents + 1 /\ sdBus' = sdContents + 1
    /\ UNCHANGED << sdChips, sdLive, sdManager, sdSession >>
CloseSession22 ==
    /\ sdSession = "running" /\ sdSession' = "none"
    /\ SaveEeprom
    /\ UNCHANGED << sdChips, sdManager, sdBus, sdContents >>
CrashSession ==
    /\ sdSession # "none" /\ sdSession' = "none"
    /\ UNCHANGED << sdChips, sdLive, sdManager, sdBus, sdContents >>

(* A Model 2 session saves either chip while it runs. *)
Model2Saves(chip) ==
    /\ Idle /\ sdChips = Model2Files /\ sdContents < MaxContents
    /\ sdContents' = sdContents + 1 /\ sdLive' = [sdLive EXCEPT ![chip] = sdContents + 1]
    /\ UNCHANGED << sdChips, sdManager, sdSession, sdBus >>

SdNext ==
    \/ BeginImport \/ BeginOther \/ CopyFile \/ CopyFails \/ CopyDone \/ ChangeFile \/ ChangeEnds
    \/ OpenGame \/ FailEarly \/ (\E image \in {Blank, Factory} : LoadEeprom(image))
    \/ GameWrites \/ CloseSession22 \/ CrashSession \/ (\E chip \in ChipSet : Model2Saves(chip))
SdSpec == SdInit /\ [][SdNext]_sdvars

-----------------------------------------------------------------------------
(* "Existing data is backed up before restore or reset": what an operation of *)
(* the manager removes or replaces is in a backup, whichever file fails.      *)
Recoverable ==
    [][ sdOperation # "none" =>
            \A chip \in ChipSet :
                sdLive'[chip] # sdLive[chip] /\ Exists(sdLive, chip) =>
                    \E i \in 1..Len(sdBackups) : sdBackups[i][chip] = sdLive[chip] ]_sdvars

(* "System 22 service settings now persist across launches": no launch puts   *)
(* a blank EEPROM in place of one that was saved.                            *)
EepromKept ==
    [][ sdLive["eeprom"] \notin {Missing, Blank} => sdLive'["eeprom"] # Blank ]_sdvars
=============================================================================
