------------------------------ MODULE AppProofs ------------------------------
(* Proofs about the parts of the application around the boards.  For each part *)
(* an invariant that its initial states have and every step of it keeps; from  *)
(* these, at the end, what the run of the parts checks.                       *)
EXTENDS MCApp, Integers, FiniteSets, FiniteSetTheorems, FunctionTheorems, TLAPS

-----------------------------------------------------------------------------
(* The high scores.                                                            *)

ScoreFiles == Tables \cup {Absent} \cup BadFiles
(* While the runtime looks after a table, the board has one that is no worse   *)
(* than the file's.                                                           *)
HsInv ==
    /\ hsOwn \in ScoreFiles /\ hsMame \in Tables \cup {Absent} /\ hsMemory \in Tables \cup {AfterReset}
    /\ hsServed \in BOOLEAN
    /\ hsRunning /\ hsInitialized =>
           /\ hsMemory \in Tables
           /\ hsServed => hsOwn \notin BadFiles /\ (hsOwn \in Tables => hsOwn <= hsMemory)

LEMMA HsBegins == HsInit => HsInv
  BY ScoresAssumption DEF HsInit, HsInv, ScoreFiles, Tables, BadFiles, Absent, Short, Undecodable, AfterReset

FileImproves ==
    hsServed' => /\ Better(hsOwn', hsOwn)
                 /\ hsOwn \in BadFiles => hsOwn' = hsOwn
                 /\ hsOwn' \in BadFiles => hsOwn' = hsOwn

(* What is saved while a table is looked after is that table.                  *)
LEMMA SavedWell ==
    ASSUME HsInv, hsRunning, hsInitialized, SaveChanged
    PROVE  /\ FileImproves /\ hsOwn' \in ScoreFiles /\ hsServed' \in BOOLEAN
           /\ hsServed' => hsOwn' \notin BadFiles /\ (hsOwn' \in Tables => hsOwn' <= hsMemory)
  <1>1. hsMemory \in Tables /\ Captured = hsMemory
    BY DEF HsInv, Captured
  <1>2. \/ hsServed' = hsServed /\ (hsOwn' = hsOwn \/ hsOwn' = hsMemory)
        \/ hsServed' = FALSE /\ hsOwn' \in {hsOwn, Short, Absent}
    BY <1>1 DEF SaveChanged, Written, NotWritten
  <1>3. \A t \in Tables : t \in Int /\ t >= 0 /\ t \in ScoreFiles /\ t \notin BadFiles
    BY ScoresAssumption DEF Tables, ScoreFiles, BadFiles, Short, Undecodable
  <1>4. Short \in ScoreFiles /\ Absent \in ScoreFiles /\ hsOwn \in ScoreFiles /\ hsServed \in BOOLEAN
    BY DEF HsInv, ScoreFiles, BadFiles
  <1>5. CASE hsServed' = hsServed /\ hsOwn' = hsOwn
    BY <1>1, <1>3, <1>4, <1>5 DEF HsInv, FileImproves, Better
  <1>6. CASE hsServed' = hsServed /\ hsOwn' = hsMemory
    BY <1>1, <1>3, <1>4, <1>6 DEF HsInv, FileImproves, Better
  <1>7. CASE hsServed' = FALSE /\ hsOwn' \in {hsOwn, Short, Absent}
    BY <1>4, <1>7 DEF FileImproves
  <1> QED
    BY <1>2, <1>5, <1>6, <1>7

LEMMA HsSteps == HsInv /\ [HsNext]_hsvars => HsInv' /\ FileImproves
  <1> SUFFICES ASSUME HsInv, [HsNext]_hsvars PROVE HsInv' /\ FileImproves
    OBVIOUS
  <1> USE DEF HsInv
  <1>t. /\ \A t \in Tables : t \in Int /\ t >= 0 /\ t \in ScoreFiles /\ t \notin BadFiles /\ t # Absent /\ t # AfterReset
        /\ 0 \in Tables /\ \A t \in 0..(MaxScore - 1) : t + 1 \in Tables /\ t \in Tables
        /\ Absent \notin BadFiles /\ Absent \in Int /\ AfterReset \notin Tables
    BY ScoresAssumption DEF Tables, ScoreFiles, BadFiles, Short, Undecodable, Absent, AfterReset
  <1>u. UNCHANGED hsOwn => FileImproves
    BY <1>t DEF FileImproves, Better
  <1>1. CASE PowerOn
    BY <1>1, <1>t, <1>u DEF PowerOn, Forgotten
  <1>2. CASE Game
    BY <1>2, <1>t, <1>u DEF Game, GameSetsUp, GameImproves, hsRuntime
  <1>3. CASE Frame
    <2>1. CASE hsInitialized /\ Wait
      BY <1>3, <2>1, <1>t, <1>u DEF Frame, Wait
    <2>2. CASE hsInitialized /\ Check
      BY <1>3, <2>2, <1>t, SavedWell DEF Frame, Check
    <2>3. CASE ~hsInitialized /\ Refuse
      BY <1>3, <2>3, <1>t, <1>u DEF Frame, Refuse
    <2>4. ASSUME NEW reads \in BOOLEAN, ~hsInitialized, Ready, Restore(reads) PROVE HsInv' /\ FileImproves
      <3>1. FileFound(reads) => Located \in Tables
        BY <2>4 DEF Restore, Decodes
      <3>2. /\ hsMemory' \in Tables /\ hsMame' = hsMame
            /\ \/ hsOwn # Absent /\ reads /\ hsOwn' = hsOwn /\ hsServed' = hsServed
               \/ hsOwn' \in {hsMemory', hsOwn, Short, Absent} /\ hsServed' = FALSE
               \/ hsOwn = Absent /\ hsOwn' \in {hsMemory', Absent} /\ hsServed' = hsServed
        BY <1>3, <2>4, <3>1 DEF Frame, Restore, Ready, Written, NotWritten
      <3>3. hsOwn # Absent /\ reads => hsOwn \in Tables /\ hsMemory' = hsOwn
        BY <2>4, <3>1 DEF Restore, Located, FileFound
      <3>4. Short \in ScoreFiles /\ Absent \in ScoreFiles
        BY DEF ScoreFiles, BadFiles
      <3>5. CASE hsOwn # Absent /\ reads /\ hsOwn' = hsOwn /\ hsServed' = hsServed
        BY <1>t, <3>2, <3>3, <3>5 DEF FileImproves, Better
      <3>6. CASE hsOwn' \in {hsMemory', hsOwn, Short, Absent} /\ hsServed' = FALSE
        BY <1>t, <3>2, <3>4, <3>6 DEF FileImproves
      <3>7. CASE hsOwn = Absent /\ hsOwn' \in {hsMemory', Absent} /\ hsServed' = hsServed
        <4>1. Absent \notin Tables
          BY <1>t
        <4> QED
          BY <1>t, <3>2, <3>4, <3>7, <4>1 DEF FileImproves, Better
      <3> QED
        BY <3>2, <3>5, <3>6, <3>7
    <2> QED
      BY <1>3, <2>1, <2>2, <2>3, <2>4 DEF Frame
  <1>4. CASE CloseGame
    BY <1>4, <1>t, <1>u, SavedWell DEF CloseGame
  <1>5. CASE Kill
    BY <1>5, <1>t, <1>u DEF Kill, hsRuntime
  <1>6. CASE UNCHANGED hsvars
    BY <1>6, <1>u DEF hsvars, hsRuntime
  <1> QED
    BY <1>1, <1>2, <1>3, <1>4, <1>5, <1>6 DEF HsNext

LEMMA HsKept == HsInv /\ [HsNext]_hsvars => HsInv'
  BY HsSteps
LEMMA HsImproves == HsInv /\ [HsNext]_hsvars => [FileImproves]_hsvars
  BY HsSteps

-----------------------------------------------------------------------------
(* The pictures.                                                               *)

NoneHalfWritten == awKind # "banner" => awBroken' \subseteq awBroken

(* Only a banner is written in its place.                                      *)
LEMMA AwWhole == [AwNext]_awvars => NoneHalfWritten
  <1> SUFFICES ASSUME [AwNext]_awvars PROVE NoneHalfWritten
    OBVIOUS
  <1> USE DEF NoneHalfWritten, awDisk, awMemory, Goes, Job, Miss
  <1>1. CASE \/ (\E name \in Names : Request(name)) \/ TakeReady \/ StopThread \/ NextRun \/ TakeJob
    BY <1>1 DEF Request, TakeReady, StopThread, NextRun, TakeJob
  <1>2. CASE FromCache \/ NoFile \/ KnownMissing \/ Gate \/ Token \/ Refused \/ Retoken
    BY <1>2 DEF FromCache, NoFile, KnownMissing, Gate, Token, Refused, Retoken
  <1>3. CASE BrokenFile
    BY <1>3 DEF BrokenFile
  <1>4. CASE Unreached \/ SearchOutage \/ Found \/ NotFound \/ FoundShorter \/ NothingShorter
    BY <1>4 DEF Unreached, SearchOutage, Found, NotFound, FoundShorter, NothingShorter
  <1>5. CASE Download \/ NoPictureThere \/ BezelStopped
    BY <1>5 DEF Download, NoPictureThere, BezelStopped
  <1>6. CASE OpenFile \/ WriteFile \/ RenameFile
    BY <1>6 DEF OpenFile, WriteFile, RenameFile, Beside
  <1>7. CASE UNCHANGED awvars
    BY <1>7 DEF awvars
  <1> QED
    BY <1>1, <1>2, <1>3, <1>4, <1>5, <1>6, <1>7 DEF AwNext

-----------------------------------------------------------------------------
(* The operator data.                                                          *)

Chips == [ChipSet -> Int]
(* What a chip holds is in a backup.                                           *)
BackedUp(chip) == \E i \in DOMAIN sdBackups : sdBackups[i][chip] = sdLive[chip]
SdTypes ==
    /\ sdChips \in {System22Files, Model2Files}
    /\ sdLive \in Chips /\ sdFiles \in Chips /\ sdFolder \in Chips
    /\ sdBackups \in Seq(Chips)
    /\ sdAt \in Nat \ {0} /\ sdBus \in Int /\ sdContents \in Nat
(* The manager works alone.  It copies the files as they are, and when it      *)
(* comes to change them, each file it has not yet come to is in a backup.      *)
SdInv ==
    /\ SdTypes
    /\ sdOperation # "none" => sdSession = "none"
    /\ sdOperation = "none" => ~sdChanging
    /\ Copying => /\ sdFiles = sdLive
                  /\ \A i \in 1..(sdAt - 1) : i <= Len(sdChips) /\ Exists(sdLive, sdChips[i]) =>
                         sdFolder[sdChips[i]] = sdLive[sdChips[i]]
    /\ sdChanging => \A i \in sdAt..Len(sdChips) : Exists(sdLive, sdChips[i]) => BackedUp(sdChips[i])

(* The chips of a game are different files.                                    *)
LEMMA TwoChips ==
    ASSUME sdChips \in {System22Files, Model2Files}
    PROVE  /\ Len(sdChips) \in {1, 2}
           /\ ChipSet = { sdChips[i] : i \in 1..Len(sdChips) }
           /\ \A i, j \in 1..Len(sdChips) : sdChips[i] = sdChips[j] => i = j
           /\ "eeprom" \in ChipSet
  BY DEF System22Files, Model2Files, ChipSet, ToSet

LEMMA SdBegins == SdInit => SdInv
  BY DEF SdInit, SdInv, SdTypes, Chips, Copying, NothingOnDisk, Missing, Blank

Undoable ==
    sdOperation # "none" =>
        \A chip \in ChipSet :
            sdLive'[chip] # sdLive[chip] /\ Exists(sdLive, chip) =>
                \E i \in 1..Len(sdBackups) : sdBackups[i][chip] = sdLive[chip]

(* A change of the files by a game finds the manager at rest.                  *)
LEMMA AtRest ==
    ASSUME SdInv, sdOperation = "none", sdLive' \in Chips, UNCHANGED << sdChips, sdManager >>,
           sdBus' \in Int, sdContents' \in Nat
    PROVE  SdInv' /\ Undoable
  <1>1. SdTypes' /\ sdOperation' = "none" /\ ~sdChanging'
    BY DEF SdInv, SdTypes, Chips, ChipSet, sdManager
  <1> QED
    BY <1>1 DEF SdInv, Copying, Undoable

LEMMA SdSteps == SdInv /\ [SdNext]_sdvars => SdInv' /\ Undoable
  <1> SUFFICES ASSUME SdInv, [SdNext]_sdvars PROVE SdInv' /\ Undoable
    OBVIOUS
  <1>t. SdTypes
    BY DEF SdInv
  <1>c. /\ Len(sdChips) \in Nat /\ \A i \in 1..Len(sdChips) : sdChips[i] \in ChipSet
        /\ \A i, j \in 1..Len(sdChips) : sdChips[i] = sdChips[j] => i = j
        /\ "eeprom" \in ChipSet
    BY <1>t, TwoChips DEF SdTypes
  <1>u. sdLive' = sdLive => Undoable
    BY DEF Undoable
  <1>n. NothingOnDisk \in Chips
    BY DEF NothingOnDisk, Chips, Missing
  <1>1. ASSUME NEW operation, Begin(operation), operation # "none",
               sdChanging' => ~AnyExisting
        PROVE  SdInv' /\ Undoable
    <2>1. SdTypes'
      BY <1>1, <1>t, <1>n DEF Begin, SdTypes, Chips, ChipSet, sdBoard
    <2>2. sdSession' = "none" /\ sdOperation' # "none" /\ sdFiles' = sdLive' /\ sdAt' = 1 /\ sdLive' = sdLive /\ sdChips' = sdChips
      BY <1>1 DEF Begin, Idle, sdBoard
    <2>3. sdChanging' => \A i \in 1..Len(sdChips) : ~Exists(sdLive, sdChips[i])
      BY <1>1, <1>c DEF AnyExisting
    <2> QED
      BY <1>u, <2>1, <2>2, <2>3 DEF SdInv, Copying, Exists
  <1>2. CASE CopyFile
    <2>1. /\ Copying /\ sdAt \in 1..Len(sdChips) /\ sdAt' = sdAt + 1
          /\ UNCHANGED << sdLive, sdBackups, sdExport, sdOperation, sdChanging, sdFiles, sdOperations, sdBoard, sdChips >>
      BY <1>2, <1>t, <1>c DEF CopyFile, SdTypes
    <2>2. PICK folder : folder = sdFolder'
      OBVIOUS
    <2>3. /\ folder \in Chips
          /\ Exists(sdFiles, sdChips[sdAt]) => folder[sdChips[sdAt]] = sdLive[sdChips[sdAt]]
          /\ \A chip \in ChipSet : chip # sdChips[sdAt] => folder[chip] = sdFolder[chip]
      BY <1>2, <2>1, <2>2, <1>t, <1>c DEF CopyFile, SdTypes, Chips
    <2>4. \A i \in 1..sdAt : Exists(sdLive, sdChips[i]) => folder[sdChips[i]] = sdLive[sdChips[i]]
      <3> SUFFICES ASSUME NEW i \in 1..sdAt, Exists(sdLive, sdChips[i]) PROVE folder[sdChips[i]] = sdLive[sdChips[i]]
        OBVIOUS
      <3>1. CASE i = sdAt
        BY <2>1, <2>3, <3>1 DEF SdInv
      <3>2. CASE i # sdAt
        BY <1>t, <1>c, <2>1, <2>3, <3>2 DEF SdInv, SdTypes
      <3> QED
        BY <3>1, <3>2
    <2>5. SdTypes'
      BY <1>t, <2>1, <2>2, <2>3 DEF SdTypes, Chips, ChipSet, sdBoard
    <2>6. sdAt \in Nat /\ sdAt' - 1 = sdAt
      BY <1>t, <2>1 DEF SdTypes
    <2> QED
      BY <1>u, <2>1, <2>2, <2>4, <2>5, <2>6 DEF SdInv, Copying, Exists, sdBoard
  <1>3. ASSUME CopyFails \/ (CopyDone /\ Finished) PROVE SdInv' /\ Undoable
    <2>0. sdBackups' \in Seq(Chips)
      <3>1. sdBackups' = sdBackups \/ sdBackups' = Append(sdBackups, sdFolder)
        BY <1>3 DEF CopyFails, CopyDone, Kept
      <3> QED
        BY <1>t, <3>1 DEF SdTypes
    <2>1. SdTypes'
      <3>1. UNCHANGED << sdChips, sdLive, sdFiles, sdFolder, sdBus, sdContents >> /\ (sdAt' = sdAt \/ sdAt' = 1)
        BY <1>3 DEF CopyFails, CopyDone, sdBoard
      <3> QED
        BY <1>t, <2>0, <3>1 DEF SdTypes, Chips, ChipSet
    <2> QED
      BY <1>3, <1>u, <2>1 DEF CopyFails, CopyDone, Finished, SdInv, Copying
  <1>4. CASE CopyDone /\ ~Finished
    <2>1. /\ Copying /\ sdAt > Len(sdChips) /\ sdChanging' = TRUE /\ sdAt' = 1 /\ sdOperation' = sdOperation
          /\ sdOperation \in {"reset", "import"} /\ sdBackups' = Append(sdBackups, sdFolder)
          /\ UNCHANGED << sdLive, sdFiles, sdFolder, sdOperations, sdBoard, sdChips >>
      BY <1>4 DEF CopyDone, Kept
    <2>2. SdTypes'
      BY <1>t, <2>1 DEF SdTypes, Chips, ChipSet, sdBoard
    <2>3. Len(sdBackups) + 1 \in DOMAIN sdBackups' /\ sdBackups'[Len(sdBackups) + 1] = sdFolder
      BY <1>t, <2>1 DEF SdTypes
    <2>4. \A i \in 1..Len(sdChips) : Exists(sdLive, sdChips[i]) => sdFolder[sdChips[i]] = sdLive[sdChips[i]]
      BY <1>t, <1>c, <2>1 DEF SdInv, SdTypes
    <2>5. \A i \in 1..Len(sdChips) : Exists(sdLive', sdChips[i]) => BackedUp(sdChips[i])'
      BY <2>1, <2>3, <2>4 DEF BackedUp, Exists
    <2> QED
      BY <1>u, <2>1, <2>2, <2>5 DEF SdInv, Copying, sdBoard, Exists
  <1>5. CASE ChangeFile
    <2>1. /\ sdChanging /\ sdAt \in 1..Len(sdChips) /\ sdAt' = sdAt + 1
          /\ UNCHANGED << sdBackups, sdExport, sdOperation, sdChanging, sdFiles, sdFolder, sdOperations, sdBoard, sdChips >>
      BY <1>5, <1>t, <1>c DEF ChangeFile, SdTypes
    <2>2. PICK live : live = sdLive'
      OBVIOUS
    <2>3. live \in Chips /\ \A chip \in ChipSet : chip # sdChips[sdAt] => live[chip] = sdLive[chip]
      BY <1>5, <1>t, <1>c, <2>1, <2>2 DEF ChangeFile, SdTypes, Chips, Imported, Missing
    <2>4. SdTypes'
      BY <1>t, <2>1, <2>2, <2>3 DEF SdTypes, Chips, ChipSet, sdBoard
    <2>5. ASSUME NEW i \in (sdAt + 1)..Len(sdChips), Exists(live, sdChips[i])
          PROVE  \E b \in DOMAIN sdBackups : sdBackups[b][sdChips[i]] = live[sdChips[i]]
      <3>1. i \in sdAt..Len(sdChips) /\ i \in 1..Len(sdChips) /\ i # sdAt
        BY <1>t, <1>c, <2>1 DEF SdTypes
      <3>2. live[sdChips[i]] = sdLive[sdChips[i]]
        BY <1>c, <2>1, <2>3, <3>1
      <3> QED
        BY <2>1, <2>5, <3>1, <3>2 DEF SdInv, BackedUp, Exists
    <2>6. Undoable
      <3> SUFFICES ASSUME NEW chip \in ChipSet, live[chip] # sdLive[chip], Exists(sdLive, chip)
                   PROVE  \E i \in 1..Len(sdBackups) : sdBackups[i][chip] = sdLive[chip]
        BY <2>2 DEF Undoable
      <3>1. chip = sdChips[sdAt] /\ sdAt \in sdAt..Len(sdChips)
        BY <1>t, <2>1, <2>3 DEF SdTypes
      <3> QED
        BY <1>t, <2>1, <3>1 DEF SdInv, BackedUp, SdTypes
    <2> QED
      BY <2>1, <2>2, <2>4, <2>5, <2>6 DEF SdInv, Copying, BackedUp, sdBoard
  <1>6. CASE ChangeEnds
    <2>1. SdTypes'
      BY <1>6, <1>t DEF ChangeEnds, SdTypes, Chips, ChipSet, sdBoard
    <2> QED
      BY <1>6, <1>u, <2>1 DEF ChangeEnds, Finished, SdInv, Copying
  <1>7. ASSUME sdSession # "none", FailEarly \/ CloseSession22 PROVE SdInv' /\ Undoable
    <2>1. sdLive' \in Chips
      BY <1>7, <1>t, <1>c DEF FailEarly, CloseSession22, SaveEeprom, SdTypes, Chips
    <2> QED
      BY <1>7, <1>t, <2>1, AtRest DEF FailEarly, CloseSession22, SdInv, SdTypes
  <1>8. ASSUME sdSession # "none" \/ sdOperation = "none",
               OpenGame \/ (\E image \in {Blank, Factory} : LoadEeprom(image)) \/ GameWrites \/ CrashSession
        PROVE  SdInv' /\ Undoable
    <2>1. sdBus' \in Int /\ sdContents' \in Nat
      BY <1>8, <1>t, <1>c DEF OpenGame, LoadEeprom, GameWrites, CrashSession, SdTypes, Chips, Blank, Factory
    <2> QED
      BY <1>8, <1>t, <2>1, AtRest DEF OpenGame, LoadEeprom, GameWrites, CrashSession, SdInv, SdTypes
  <1>9. ASSUME NEW chip \in ChipSet, Model2Saves(chip) PROVE SdInv' /\ Undoable
    <2>1. sdLive' \in Chips /\ sdContents' \in Nat
      BY <1>9, <1>t DEF Model2Saves, SdTypes, Chips
    <2> QED
      BY <1>9, <1>t, <2>1, AtRest DEF Model2Saves, Idle, SdTypes
  <1>10. CASE UNCHANGED sdvars
    <2>1. SdTypes' /\ UNCHANGED << sdChips, sdLive, sdBackups, sdOperation, sdChanging, sdFiles, sdAt, sdFolder, sdSession >>
      BY <1>10, <1>t DEF sdvars, sdManager, sdBoard, SdTypes, Chips, ChipSet
    <2> QED
      BY <1>u, <2>1 DEF SdInv, Copying, BackedUp, Exists
  <1>11. CASE BeginImport \/ BeginOther
    BY <1>1, <1>11 DEF BeginImport, BeginOther
  <1> QED
    BY <1>2, <1>3, <1>4, <1>5, <1>6, <1>7, <1>8, <1>9, <1>10, <1>11
       DEF SdNext, FailEarly, CloseSession22, OpenGame, LoadEeprom, GameWrites, CrashSession, Idle

LEMMA SdKept == SdInv /\ [SdNext]_sdvars => SdInv'
  BY SdSteps
LEMMA SdUndoable == SdInv /\ [SdNext]_sdvars => [Undoable]_sdvars
  BY SdSteps

-----------------------------------------------------------------------------
(* The renderer.                                                               *)

RnTypes ==
    /\ rnOutput \in Outputs /\ rnStep \in {"shown", "polygons", "layers"}
    /\ rnGame \in Nat /\ rnFrame \in Nat /\ rnAge \in Nat
    /\ rnShadow \in [frame : Nat, game : Nat]
    /\ rnShown.picture.frame \in Nat /\ rnResident.frame \in Nat /\ rnTexture.frame \in Nat
(* Only Vulkan has a device to be found lost.  Polygons are of System 22, whose shadow of   *)
(* age 0 is of this game and of the frame shown last.  No later frame than the *)
(* one being made has been drawn, and that one only when it is complete.       *)
RnInv ==
    /\ RnTypes
    /\ rnDead => rnLost /\ rnOutput = "vulkan"
    /\ rnStep # "shown" => rnBoard = "system22" /\ rnShown.picture.frame < rnFrame
    /\ rnBoard = "system22" /\ rnAge = 0 /\ rnShadow # NoShadow =>
           /\ rnShadow.game = rnGame
           /\ rnShadow.frame + (IF rnStep = "shown" THEN 0 ELSE 1) >= rnFrame
    /\ rnShown.picture.frame <= rnFrame /\ rnResident.frame <= rnFrame /\ rnTexture.frame <= rnFrame

LEMMA RnBegins == RnInit => RnInv
  BY DEF RnInit, RnInv, RnTypes, NoShadow, NoPictureYet

OwnShadow ==
    NewlyShown /\ rnShown'.picture.shadow # NoShadow =>
        rnShown'.picture.shadow.game = rnGame /\ rnShown'.picture.shadow.frame + 1 >= rnFrame
LossCostsAFrame ==
    rnDead /\ FrameDone =>
        \/ rnShown'.picture.frame = rnFrame' /\ rnShown'.by = "window" /\ rnOutput' = "opengl"
        \/ ~rnDirty /\ rnDirty' /\ rnDead'

(* What drawing a frame may leave behind.                                      *)
LEMMA PresentedWell ==
    ASSUME RnInv, NEW picture, picture.frame \in Nat, Claims(picture) \/ PresentTexture(picture)
    PROVE  /\ rnOutput' \in Outputs /\ (rnDead' => rnLost' /\ rnOutput' = "vulkan")
           /\ rnShown' = rnShown \/ rnShown'.picture = picture
           /\ rnDead => \/ rnShown' = [picture |-> picture, by |-> "window"] /\ rnOutput' = "opengl"
                        \/ ~rnDirty /\ rnDirty' /\ rnDead'
  <1>1. CASE Claims(picture)
    BY <1>1 DEF Claims, Show, FoundLost, RnInv, RnTypes, Outputs
  <1>2. CASE Presenter /\ ~rnLost /\ Bridged(picture)
    BY <1>2 DEF Bridged, Show, FoundLost, RnInv, RnTypes, Outputs
  <1>3. CASE Recovered /\ DropPresenter /\ Show(picture, "window")
    BY <1>3 DEF DropPresenter, Show, RnInv, RnTypes, Outputs
  <1>4. CASE ~Presenter /\ UNCHANGED rnDevice /\ Show(picture, "window")
    BY <1>4 DEF rnDevice, Presenter, Show, RnInv, RnTypes, Outputs
  <1> QED
    BY <1>1, <1>2, <1>3, <1>4 DEF PresentTexture
LEMMA DrawnWell ==
    ASSUME RnInv, NEW frame \in Nat, NEW data, NEW shadow, Drawn(frame, data, shadow)
    PROVE  /\ rnOutput' \in Outputs /\ (rnDead' => rnLost' /\ rnOutput' = "vulkan")
           /\ rnShown'.picture.frame \in {frame, rnShown.picture.frame}
           /\ rnResident'.frame \in {frame, rnResident.frame} /\ rnTexture'.frame \in {frame, rnTexture.frame}
           /\ rnShown' = rnShown \/ (rnShown'.picture.frame = frame /\ rnShown'.picture.shadow = shadow)
           /\ rnDead => \/ rnShown'.picture.frame = frame /\ rnShown'.by = "window" /\ rnOutput' = "opengl"
                        \/ ~rnDirty /\ rnDirty' /\ rnDead'
  <1>1. PICK picture : /\ picture.frame = frame /\ picture.shadow = shadow
                       /\ Native(picture) \/ ThroughOpenGl(picture)
    BY DEF Drawn, Drawing
  <1>2. Claims(picture) \/ PresentTexture(picture)
    BY <1>1 DEF Native, ThroughOpenGl
  <1>3. /\ rnOutput' \in Outputs /\ (rnDead' => rnLost' /\ rnOutput' = "vulkan")
        /\ rnShown' = rnShown \/ rnShown'.picture = picture
        /\ rnDead => \/ rnShown' = [picture |-> picture, by |-> "window"] /\ rnOutput' = "opengl"
                     \/ ~rnDirty /\ rnDirty' /\ rnDead'
    BY <1>1, <1>2, PresentedWell
  <1>4. rnResident' \in {picture, rnResident} /\ rnTexture' \in {picture, rnTexture}
    BY <1>1 DEF Native, ThroughOpenGl
  <1> QED
    BY <1>1, <1>3, <1>4

LEMMA RnSteps == RnInv /\ [RnNext]_rnvars => RnInv' /\ OwnShadow /\ LossCostsAFrame
  <1> SUFFICES ASSUME RnInv, [RnNext]_rnvars PROVE RnInv' /\ OwnShadow /\ LossCostsAFrame
    OBVIOUS
  <1>t. RnTypes
    BY DEF RnInv
  <1>u. UNCHANGED << rnStep, rnFrame >> => OwnShadow /\ LossCostsAFrame
    BY DEF OwnShadow, LossCostsAFrame, NewlyShown, FrameDone, Completed
  <1> USE DEF rnDevice, rnOut, rnBoards, rnShade, rnStores, rnPicture
  <1>1. ASSUME NEW output \in Switches, Switch(output) PROVE RnInv' /\ OwnShadow /\ LossCostsAFrame
    BY <1>1, <1>t, <1>u, RendererAssumption DEF Switch, NewPresenter, NoPictureYet, RnInv, RnTypes
  <1>2. CASE Lose \/ TogglePause
    BY <1>2, <1>t, <1>u DEF Lose, FoundLost, TogglePause, RnInv, RnTypes
  <1>3. ASSUME NEW board, NEW taken, Start(board, taken) PROVE RnInv' /\ OwnShadow /\ LossCostsAFrame
    BY <1>3, <1>t, <1>u DEF Start, RnInv, RnTypes, NoShadow
  <1>4. ASSUME NEW shadow, Polygons(shadow) PROVE RnInv' /\ OwnShadow /\ LossCostsAFrame
    <2>1. /\ rnStep = "shown" /\ rnFrame' = rnFrame + 1 /\ rnStep' = "polygons" /\ rnBoard = "system22"
          /\ UNCHANGED << rnOut, rnBoard, rnGame, rnShade, rnStores, rnPicture >>
      BY <1>4 DEF Polygons, NextFrame
    <2>2. RnInv'
      BY <1>t, <2>1 DEF RnInv, RnTypes
    <2> QED
      BY <2>1, <2>2 DEF OwnShadow, LossCostsAFrame, NewlyShown, FrameDone, Completed
  <1>5. ASSUME NEW taken, Layers(taken) PROVE RnInv' /\ OwnShadow /\ LossCostsAFrame
    <2>1. RnInv'
      BY <1>5, <1>t DEF Layers, RnInv, RnTypes
    <2> QED
      BY <1>5, <2>1 DEF Layers, OwnShadow, LossCostsAFrame, NewlyShown, FrameDone, Completed
  <1>6. CASE RenderScene
    <2>1. /\ rnStep = "layers" /\ rnStep' = "shown" /\ UNCHANGED << rnBoard, rnGame, rnFrame, rnStores, rnMenu >>
          /\ rnFrame \in Nat /\ rnBoard = "system22" /\ rnShown.picture.frame < rnFrame
      BY <1>6, <1>t DEF RenderScene, RnInv, RnTypes
    <2>2. ASSUME NEW shadow, Drawn(rnFrame, rnData, shadow),
                 rnShadow' \in [frame : Nat, game : Nat], rnAge' \in Nat,
                 shadow # NoShadow => shadow.game = rnGame /\ shadow.frame + 1 >= rnFrame,
                 rnAge' = 0 /\ rnShadow' # NoShadow => rnShadow'.game = rnGame /\ rnShadow'.frame >= rnFrame
          PROVE  RnInv' /\ OwnShadow /\ LossCostsAFrame
      <3>1. /\ rnOutput' \in Outputs /\ (rnDead' => rnLost' /\ rnOutput' = "vulkan")
            /\ rnShown'.picture.frame \in {rnFrame, rnShown.picture.frame}
            /\ rnResident'.frame \in {rnFrame, rnResident.frame} /\ rnTexture'.frame \in {rnFrame, rnTexture.frame}
            /\ rnShown' = rnShown \/ (rnShown'.picture.frame = rnFrame /\ rnShown'.picture.shadow = shadow)
            /\ rnDead => \/ rnShown'.picture.frame = rnFrame /\ rnShown'.by = "window" /\ rnOutput' = "opengl"
                         \/ ~rnDirty /\ rnDirty' /\ rnDead'
        BY <2>1, <2>2, DrawnWell
      <3>2. OwnShadow /\ LossCostsAFrame
        BY <2>1, <2>2, <3>1 DEF OwnShadow, LossCostsAFrame, NewlyShown, FrameDone, Completed, RnInv, RnTypes
      <3>3. RnTypes'
        BY <1>t, <2>1, <2>2, <3>1 DEF RnTypes
      <3> QED
        BY <1>t, <2>1, <2>2, <3>1, <3>2, <3>3 DEF RnInv, RnTypes
    <2>3. CASE /\ rnQueued /\ rnShadow' = [frame |-> rnFrame, game |-> rnGame] /\ rnAge' = 0
               /\ Drawn(rnFrame, rnData, [frame |-> rnFrame, game |-> rnGame])
      BY <1>t, <2>1, <2>2, <2>3 DEF RnTypes
    <2>4. CASE Carried /\ rnAge' = 1 /\ rnShadow' = rnShadow /\ Drawn(rnFrame, rnData, rnShadow)
      <3>1. rnShadow.game = rnGame /\ rnShadow.frame + 1 >= rnFrame
        BY <2>1, <2>4 DEF Carried, RnInv
      <3> QED
        BY <1>t, <2>1, <2>2, <2>4, <3>1 DEF RnTypes
    <2>5. CASE OlderShadow /\ Drawn(rnFrame, rnData, NoShadow)
      <3>1. rnAge' \in Nat \ {0} /\ rnShadow' \in [frame : Nat, game : Nat]
        BY <1>t, <2>5 DEF OlderShadow, RnTypes, NoShadow
      <3> QED
        BY <2>2, <2>5, <3>1
    <2> QED
      BY <1>6, <2>3, <2>4, <2>5 DEF RenderScene
  <1>7. ASSUME NEW data, Drawn(rnFrame', data, NoShadow), NextFrame, rnBoard # "system22", rnFrame' = rnFrame + 1,
               UNCHANGED << rnBoard, rnGame, rnStep, rnQueued, rnShade >>
        PROVE  RnInv' /\ OwnShadow /\ LossCostsAFrame
    <2>1. PICK frame : frame = rnFrame'
      OBVIOUS
    <2>2. frame \in Nat /\ frame = rnFrame + 1 /\ rnStep = "shown"
      BY <1>7, <1>t, <2>1 DEF NextFrame, RnTypes
    <2>3. /\ rnOutput' \in Outputs /\ (rnDead' => rnLost' /\ rnOutput' = "vulkan")
          /\ rnShown'.picture.frame \in {frame, rnShown.picture.frame}
          /\ rnResident'.frame \in {frame, rnResident.frame} /\ rnTexture'.frame \in {frame, rnTexture.frame}
          /\ rnDead => \/ rnShown'.picture.frame = frame /\ rnShown'.by = "window" /\ rnOutput' = "opengl"
                       \/ ~rnDirty /\ rnDirty' /\ rnDead'
      BY <1>7, <2>1, <2>2, DrawnWell
    <2>4. OwnShadow /\ LossCostsAFrame
      BY <2>1, <2>2, <2>3 DEF OwnShadow, LossCostsAFrame, NewlyShown, FrameDone, Completed
    <2>5. RnTypes'
      BY <1>7, <1>t, <2>1, <2>2, <2>3 DEF RnTypes
    <2> QED
      BY <1>7, <1>t, <2>1, <2>2, <2>3, <2>4, <2>5 DEF RnInv, RnTypes
  <1>8. CASE Refresh
    <2>1. /\ rnStep = "shown" /\ UNCHANGED << rnBoards, rnShade, rnResident, rnTexture >>
          /\ rnShown'.picture.frame \in {rnShown.picture.frame, rnResident.frame, rnTexture.frame} /\ rnOutput' \in Outputs /\ (rnDead' => rnLost' /\ rnOutput' = "vulkan")
      BY <1>8, <1>t, PresentedWell DEF Refresh, RnTypes, rnBoards
    <2> QED
      BY <1>t, <1>u, <2>1 DEF RnInv, RnTypes
  <1>9. CASE UNCHANGED rnvars
    BY <1>9, <1>t, <1>u DEF rnvars, RnInv, RnTypes
  <1>10. CASE RgbaFrame \/ \E taken \in BOOLEAN : Model2Frame(taken)
    BY <1>7, <1>10 DEF RgbaFrame, Model2Frame
  <1> QED
    BY <1>1, <1>2, <1>3, <1>4, <1>5, <1>6, <1>8, <1>9, <1>10 DEF RnNext

LEMMA RnKept == RnInv /\ [RnNext]_rnvars => RnInv'
  BY RnSteps
LEMMA RnShows == RnInv /\ [RnNext]_rnvars => [OwnShadow]_rnvars /\ [LossCostsAFrame]_rnvars
  BY RnSteps

-----------------------------------------------------------------------------
(* The switches of a cabinet.                                                  *)

CiTypes ==
    /\ ciPad \in Nat /\ ciPads \in Nat /\ ciOpen \in Nat
    /\ ciKeyOf \in [CiSlots -> CiKeys] /\ ciButtonOf \in [CiSlots -> CiButtons]
    /\ ciEvent \in [CiSlots -> BOOLEAN]
    /\ DOMAIN ciTap = CiSlots
(* What is watched is what is mapped, on the controller that is open while it  *)
(* is plugged in; a controller plugged in again is another one; and a press    *)
(* no frame has looked at is latched.                                         *)
CiInv ==
    /\ CiTypes
    /\ ciWatchKey = ciKeyOf
    /\ ciOpen # 0 /\ ciPad = ciOpen => ciWatchButton = ciButtonOf
    /\ ciOpen <= ciPads /\ ciPad <= ciPads
    /\ \A s \in CiSlots : ciTap[s] # {} => ciEvent[s]

LEMMA CiBegins == CiInit => CiInv
  BY DEF CiInit, CiInv, CiTypes, NoTap

TapArrives ==
    \A s \in CiSlots : (ciAt = "frame" /\ ciAt' = "loop" /\ ciMode = "play" /\ "play" \in ciTap[s])
            => s \in ciLines'

LEMMA CiSteps == CiInv /\ [CiNext]_civars => CiInv' /\ TapArrives
  <1> SUFFICES ASSUME CiInv, [CiNext]_civars PROVE CiInv' /\ TapArrives
    OBVIOUS
  <1>t. CiTypes
    BY DEF CiInv
  <1>u. ciAt # "frame" \/ ciAt' = ciAt => TapArrives
    BY DEF TapArrives
  <1> USE DEF ciUser, ciWatches, ciMapping, ciLatches
  <1>1. ASSUME NEW i \in CiKeys \cup CiButtons, Press(i) PROVE CiInv' /\ TapArrives
    <2>1. \A s \in CiSlots : MappedTo(i, s) => WatchedBy(i, s)
      BY <1>t, <1>1 DEF MappedTo, WatchedBy, CiInv, CiTypes
    <2>2. /\ ciEvent' = [s \in CiSlots |-> ciEvent[s] \/ WatchedBy(i, s)]
          /\ ciTap' = [s \in CiSlots |-> IF MappedTo(i, s) THEN ciTap[s] \cup {ciMode} ELSE ciTap[s]]
          /\ UNCHANGED << ciMode, ciAt, ciPad, ciPads, ciOpen, ciCount, ciWatches, ciMapping, ciPressed, ciPulse, ciLines >>
      BY <1>1 DEF Press
    <2>3. \A s \in CiSlots : ciTap'[s] # {} => ciEvent'[s]
      BY <2>1, <2>2, Zenon DEF CiInv
    <2>4. CiTypes'
      <3>1. ciEvent' \in [CiSlots -> BOOLEAN]
        BY <2>2, Zenon
      <3> QED
        BY <1>t, <2>2, <3>1 DEF CiTypes
    <2> QED
      BY <1>u, <2>2, <2>3, <2>4 DEF CiInv
  <1>2. ASSUME NEW i \in CiKeys \cup CiButtons, Release(i) PROVE CiInv' /\ TapArrives
    BY <1>2, <1>t, <1>u DEF Release, CiInv, CiTypes
  <1>3. CASE PlugIn \/ Unplug
    BY <1>3, <1>t, <1>u DEF PlugIn, Unplug, CiInv, CiTypes
  <1>4. CASE ShowMenu \/ Resume \/ OpenControls \/ Loop
    BY <1>4, <1>t, <1>u DEF ShowMenu, Resume, OpenControls, Loop, CiInv, CiTypes
  <1>5. CASE ReloadMappings
    BY <1>5, <1>t, <1>u DEF ReloadMappings, CiInv, CiTypes, NoTap
  <1>6. CASE Update
    <2> DEFINE stays == ciOpen # 0 /\ ciPad = ciOpen
               opens == ~stays /\ ciCount = 0 /\ ciPad # 0
               usable == stays \/ opens
               pressed == [s \in CiSlots |-> ciKeyOf[s] \in ciHeld \/ (usable /\ ciButtonOf[s] \in ciHeld)]
               suppressed == ciMode # "play"
               pulse == [s \in CiSlots |->
                           IF suppressed THEN 0
                           ELSE IF ciEvent[s] \/ (pressed[s] /\ ~ciPressed[s]) THEN Frames(s) ELSE ciPulse[s]]
    <2>1. /\ ciAt = "frame" /\ ciAt' = "loop"
          /\ ciOpen' = IF usable THEN ciPad ELSE 0
          /\ ciWatchButton' = Watched(opens, stays)
          /\ ciEvent' = [s \in CiSlots |-> FALSE]
          /\ ciLines' = {s \in CiSlots : pulse[s] > 0}
          /\ ciTap' = NoTap
          /\ UNCHANGED << ciMode, ciUser, ciWatchKey, ciMapping >>
      BY <1>6 DEF Update
    <2>2. TapArrives
      <3> SUFFICES ASSUME NEW s \in CiSlots, ciMode = "play", "play" \in ciTap[s] PROVE s \in ciLines'
        BY DEF TapArrives
      <3>1. ciEvent[s]
        BY DEF CiInv
      <3>2. pulse[s] = Frames(s)
        BY <3>1, Zenon
      <3>3. Frames(s) > 0
        BY DEF Frames
      <3> HIDE DEF pulse
      <3> QED
        BY <2>1, <3>2, <3>3
    <2>3. ciOpen' # 0 /\ ciPad' = ciOpen' => ciWatchButton' = ciButtonOf'
      <3> HIDE DEF pulse
      <3> QED
        BY <2>1 DEF Watched, CiInv
    <2>4. ciOpen' \in {0, ciPad}
      <3> HIDE DEF pulse
      <3> QED
        BY <2>1
    <2> HIDE DEF pulse, usable, stays, opens
    <2>5. CiTypes'
      BY <1>t, <2>1, <2>4 DEF CiTypes, NoTap
    <2>6. ciOpen' <= ciPads' /\ ciPad' <= ciPads'
      BY <1>t, <2>1, <2>4 DEF CiTypes, CiInv
    <2>7. \A s \in CiSlots : ciTap'[s] = {}
      BY <2>1 DEF NoTap
    <2> QED
      BY <2>1, <2>2, <2>3, <2>5, <2>6, <2>7 DEF CiInv
  <1>7. CASE UNCHANGED civars
    BY <1>7, <1>t, <1>u DEF civars, CiInv, CiTypes
  <1> QED
    BY <1>1, <1>2, <1>3, <1>4, <1>5, <1>6, <1>7 DEF CiNext

LEMMA CiKept == CiInv /\ [CiNext]_civars => CiInv'
  BY CiSteps
LEMMA CiArrives == CiInv /\ [CiNext]_civars => [TapArrives]_civars
  BY CiSteps

-----------------------------------------------------------------------------
(* The presenter.                                                              *)

VkTypes ==
    /\ vkFence \in {"signalled", "submitted", "reset"}
    /\ DOMAIN vkMemory = Buffers /\ vkCalls \in Nat
    /\ vkImage \in Images
    /\ vkPresents \subseteq { [image |-> i, semaphore |-> i] : i \in Images }
(* Nothing is in flight but what was recorded to be submitted, or is submitted *)
(* and not finished; a frame is recorded, and vertices are stored, once the    *)
(* one before has retired; a native call goes on with a native path, and      *)
(* until there is one no frame reads what was uploaded.                       *)
VkInv ==
    /\ VkTypes
    /\ vkFence # "submitted" /\ vkStep # "submit" => vkFlight = Unread /\ vkFlightView = NoView
    /\ vkStep \in {"acquire", "record"} \/ (vkStep = "store" /\ vkCall.kind \in Boards) => vkFence = "signalled"
    /\ vkStep \notin {"idle", "swapchain", "native"} /\ vkCall.kind # "bridge" => vkNative = "ready"
    /\ vkNative = "unbuilt" => "upload" \notin DOMAIN vkFlight
    /\ WritesAwaited
(* If only a picture's call can leave its target half made, the descriptors    *)
(* that are valid are the scene's.                                            *)
TargetsWhole == ImageFailures \subseteq {"board"}
VkLive ==
    /\ vkValid /\ vkNative # "failed" => vkBound = vkScene.view
    /\ SamplesLive

LEMMA UnreadIsEmpty == DOMAIN Unread = {}
  BY DEF Unread

LEMMA VkBegins == VkInit => VkInv /\ VkLive
  <1> SUFFICES ASSUME VkInit PROVE VkInv /\ VkLive
    OBVIOUS
  <1>1. WritesAwaited
    BY UnreadIsEmpty DEF VkInit, WritesAwaited
  <1>2. VkTypes
    BY DEF VkInit, VkTypes
  <1> QED
    BY <1>1, <1>2, UnreadIsEmpty DEF VkInit, VkInv, VkLive, SamplesLive

(* A buffer is written that no frame in flight reads, or by a call that does   *)
(* not wait.                                                                   *)
LEMMA WrittenUnread ==
    ASSUME VkTypes, WritesAwaited, NEW buffer \in Buffers,
           buffer \notin DOMAIN vkFlight \/ vkCall.kind \in Unawaited,
           Write(buffer), vkFlight' = vkFlight
    PROVE  DOMAIN vkMemory' = Buffers /\ WritesAwaited'
  <1>1. vkMemory' = [vkMemory EXCEPT ![buffer] = WrittenBy(vkCalls, vkCall.kind)] /\ DOMAIN vkMemory = Buffers
    BY DEF Write, VkTypes
  <1>2. DOMAIN vkMemory' = Buffers /\ vkMemory'[buffer].kind = vkCall.kind
    BY <1>1 DEF WrittenBy
  <1>3. ASSUME NEW b \in DOMAIN vkFlight, b # buffer PROVE vkMemory'[b] = vkMemory[b]
    BY <1>1, <1>3
  <1> QED
    BY <1>2, <1>3 DEF WritesAwaited

LEMMA VkSteps == VkInv /\ [VkNext]_vkvars => VkInv' /\ (TargetsWhole /\ VkLive => VkLive')
  <1> SUFFICES ASSUME VkInv, [VkNext]_vkvars PROVE VkInv' /\ (TargetsWhole /\ VkLive => VkLive')
    OBVIOUS
  <1>t. VkTypes /\ WritesAwaited
    BY DEF VkInv
  <1> DEFINE Goal == VkInv' /\ (TargetsWhole /\ VkLive => VkLive')
  <1> USE DEF vkSwapchain, vkSync, vkPicture, vkPath
  <1>v. UNCHANGED << vkFlight, vkMemory >> => WritesAwaited'
    BY <1>t DEF WritesAwaited
  <1>1. ASSUME NEW kind \in Kinds, NEW size \in SceneSizes, BeginCall(kind, size) PROVE Goal
    <2>1. vkCalls' = vkCalls + 1 /\ vkStep = "idle" /\ vkStep' \in {"swapchain", "native"}
          /\ UNCHANGED << vkSync, vkPicture, vkPath, vkMemory >>
      BY <1>1 DEF BeginCall, At
    <2>2. VkTypes'
      BY <1>t, <2>1 DEF VkTypes
    <2> QED
      BY <1>v, <2>1, <2>2 DEF VkInv, VkLive, SamplesLive
  <1>2. CASE Resized \/ NativeReady \/ NativeDeclines \/ FenceTimesOut \/ AcquireFails \/ NoFramebuffer
    <2>1. UNCHANGED << vkCall, vkCalls, vkSync, vkPicture, vkMemory >>
      BY <1>2 DEF Resized, NativeReady, NativeDeclines, FenceTimesOut, AcquireFails, NoFramebuffer
    <2>2. VkTypes'
      BY <1>t, <2>1 DEF VkTypes
    <2>3. \/ vkStep' = vkStep /\ vkNative' = vkNative
          \/ vkStep' = "idle" /\ vkNative' \in {vkNative, "failed"}
          \/ vkStep = "native" /\ vkNative = "ready" /\ vkNative' = "ready" /\ vkStep' = AfterNative
      BY <1>2 DEF Resized, NativeReady, NativeDeclines, FenceTimesOut, AcquireFails, NoFramebuffer, At, Returns, GiveUp
    <2>4. vkStep # "submit" \/ vkStep' = vkStep
      BY <1>2 DEF Resized, NativeReady, NativeDeclines, FenceTimesOut, AcquireFails, NoFramebuffer, At
    <2>5. AfterNative \notin {"acquire", "record", "submit"} /\ (AfterNative = "store" => vkCall.kind \notin Boards)
      BY DEF AfterNative, Boards
    <2>6. VkLive => VkLive'
      BY <2>1, <2>3 DEF VkLive, SamplesLive
    <2>7. VkInv'
      BY <1>v, <2>1, <2>2, <2>3, <2>4, <2>5 DEF VkInv
    <2> QED
      BY <2>6, <2>7
  <1>3. CASE SwapchainStep
    <2>1. /\ UNCHANGED << vkCall, vkCalls, vkPicture, vkPath, vkMemory, vkFence, vkImage, vkFlight, vkFlightView >>
          /\ vkPresents' \in {vkPresents, {}} /\ vkStep = "swapchain"
          /\ vkStep' \in {"idle", "native"} \/ (vkStep' = "retire" /\ vkCall.kind = "bridge")
      BY <1>3 DEF SwapchainStep, At, NoWindowYet, Rebuilt, Returns
    <2>2. VkTypes'
      BY <1>t, <2>1 DEF VkTypes
    <2> QED
      BY <1>v, <2>1, <2>2 DEF VkInv, VkLive, SamplesLive
  <1>4. CASE NativeBuilds \/ NativeRetries
    <2>1. /\ UNCHANGED << vkCall, vkCalls, vkPicture, vkFence, vkImage, vkFlight, vkFlightView >>
          /\ vkPresents' \in {vkPresents, {}} /\ vkStep = "native" /\ vkNative = "unbuilt"
          /\ vkMemory' = vkMemory \/ Write("upload")
          /\ vkStep' = "idle" \/ (vkStep' = AfterNative /\ vkNative' = "ready")
      BY <1>4 DEF NativeBuilds, NativeRetries, At, NoWindowYet, Rebuilt, Returns, Build, GiveUp
    <2>2. DOMAIN vkMemory' = Buffers /\ WritesAwaited'
      <3>1. "upload" \notin DOMAIN vkFlight
        BY <2>1 DEF VkInv
      <3> QED
        BY <1>t, <1>v, <2>1, <3>1, WrittenUnread DEF Buffers, VkTypes
    <2>3. VkTypes'
      BY <1>t, <2>1, <2>2 DEF VkTypes
    <2>4. AfterNative \notin {"acquire", "record", "submit"} /\ (AfterNative = "store" => vkCall.kind \notin Boards)
      BY DEF AfterNative, Boards
    <2>5. VkInv'
      BY <2>1, <2>2, <2>3, <2>4 DEF VkInv
    <2> QED
      BY <2>1, <2>5 DEF VkLive, SamplesLive
  <1>5. CASE TargetStep
    <2>1. /\ UNCHANGED << vkCall, vkCalls, vkSync, vkMemory, vkBound >> /\ vkStep = "target"
          /\ vkStep' \in {"idle", "pipelines", "retire"}
          /\ vkStep' = "idle" \/ vkNative' = vkNative
          /\ vkNative' \in {vkNative, "failed"}
      BY <1>5 DEF TargetStep, At, AfterTarget, Returns, GiveUp
    <2>2. \/ UNCHANGED << vkScene, vkValid, vkNative >>
          \/ DeviceIdle /\ ~vkValid' /\ vkNative' = vkNative
          \/ DeviceIdle /\ vkCall.kind \in ImageFailures /\ (vkCall.kind = "board" => vkNative' = "failed")
      BY <1>5 DEF TargetStep, GiveUp, Retired
    <2>3. VkTypes'
      BY <1>t, <2>1 DEF VkTypes
    <2>4. VkInv'
      BY <1>v, <2>1, <2>3 DEF VkInv
    <2>5. ASSUME TargetsWhole, VkLive PROVE VkLive'
      <3>1. DeviceIdle => vkFlightView' = NoView
        BY <2>1 DEF DeviceIdle, VkInv
      <3>2. CASE UNCHANGED << vkScene, vkValid, vkNative >>
        BY <2>1, <2>5, <3>2 DEF VkLive, SamplesLive
      <3>3. CASE DeviceIdle /\ ~vkValid'
        BY <3>1, <3>3 DEF VkLive, SamplesLive
      <3>4. CASE DeviceIdle /\ vkNative' = "failed"
        BY <3>1, <3>4 DEF VkLive, SamplesLive
      <3>5. vkCall.kind \in ImageFailures => vkCall.kind = "board"
        BY <2>5 DEF TargetsWhole
      <3> QED
        BY <2>2, <3>2, <3>3, <3>4, <3>5
    <2> QED
      BY <2>4, <2>5
  <1>6. CASE PipelineStep \/ Retire
    <2>1. UNCHANGED << vkCall, vkCalls, vkSync, vkPicture, vkNative, vkMemory >>
      BY <1>6 DEF PipelineStep, Retire
    <2>2. \/ vkStep = "pipelines" /\ vkStep' \in {"retire", "idle"}
          \/ vkStep = "pipelines" /\ vkStep' = "store" /\ vkCall.kind = "sheet"
          \/ vkStep = "retire" /\ vkFence = "signalled" /\ vkStep' \in {"store", "acquire"}
      BY <1>6 DEF PipelineStep, Retire, At, Returns, MayWrite
    <2>3. VkTypes'
      BY <1>t, <2>1 DEF VkTypes
    <2>4. VkInv'
      BY <1>v, <2>1, <2>2, <2>3 DEF VkInv, Boards
    <2> QED
      BY <2>1, <2>4 DEF VkLive, SamplesLive
  <1>7. CASE StoreSystem22Scene \/ StoreModel2Scene \/ StoreSheet \/ StoreImage
    <2>1. PICK buffer \in {"vertices", "stream", "upload"} :
              Write(buffer) /\ vkCall.kind \in Boards \cup Unawaited
      BY <1>7 DEF StoreSystem22Scene, StoreModel2Scene, StoreSheet, StoreImage, Stored, Boards, Unawaited
    <2>2. /\ vkStep = "store" /\ vkStep' = "idle"
          /\ UNCHANGED << vkCall, vkCalls, vkSync, vkScene, vkBound, vkValid, vkPath >>
      BY <1>7 DEF StoreSystem22Scene, StoreModel2Scene, StoreSheet, StoreImage, Stored, At, Returns
    <2>3. buffer \notin DOMAIN vkFlight \/ vkCall.kind \in Unawaited
      BY <2>1, <2>2, UnreadIsEmpty DEF VkInv
    <2>4. DOMAIN vkMemory' = Buffers /\ WritesAwaited'
      BY <1>t, <2>1, <2>2, <2>3, WrittenUnread DEF Buffers
    <2>5. VkTypes'
      BY <1>t, <2>2, <2>4 DEF VkTypes
    <2>6. VkInv'
      BY <2>2, <2>4, <2>5 DEF VkInv
    <2> QED
      BY <2>2, <2>6 DEF VkLive, SamplesLive
  <1>8. ASSUME NEW image \in Images, Acquire(image) PROVE Goal
    <2>1. /\ vkStep = "acquire" /\ vkStep' = "record" /\ vkImage' = image
          /\ UNCHANGED << vkCall, vkCalls, vkFence, vkPresents, vkFlight, vkFlightView, vkPicture, vkPath, vkMemory >>
      BY <1>8 DEF Acquire, At
    <2>2. VkTypes'
      BY <1>t, <2>1 DEF VkTypes
    <2>3. VkInv'
      BY <1>v, <2>1, <2>2 DEF VkInv
    <2> QED
      BY <2>1, <2>3 DEF VkLive, SamplesLive
  <1>9. CASE NoStaging
    <2>1. /\ vkStep = "record" /\ vkStep' = "idle" /\ vkFence' = "reset"
          /\ UNCHANGED << vkCall, vkCalls, vkImage, vkPresents, vkFlight, vkFlightView, vkPicture, vkPath, vkMemory >>
      BY <1>9 DEF NoStaging, At, Returns
    <2>2. VkTypes'
      BY <1>t, <2>1 DEF VkTypes
    <2>3. VkInv'
      BY <1>v, <2>1, <2>2 DEF VkInv
    <2> QED
      BY <2>1, <2>3 DEF VkLive, SamplesLive
  <1>10. CASE RecordNative
    <2>1. /\ vkStep = "record" /\ vkCall.kind # "bridge" /\ vkFence' = "reset" /\ vkStep' = "submit"
          /\ Write("upload")
          /\ vkFlight' = [b \in Reads |-> vkMemory'[b]] /\ vkFlightView' = BoundNow /\ vkBound' = BoundNow /\ vkValid' = TRUE
          /\ UNCHANGED << vkCall, vkCalls, vkImage, vkPresents, vkScene, vkPath >>
      BY <1>10 DEF RecordNative, At
    <2>2. DOMAIN vkMemory' = Buffers
      BY <1>t, <2>1 DEF VkTypes, Write
    <2>3. VkTypes'
      BY <1>t, <2>1, <2>2 DEF VkTypes
    <2>4. WritesAwaited'
      <3> HIDE DEF Reads
      <3> QED
        BY <2>1 DEF WritesAwaited
    <2>5. VkInv'
      BY <2>1, <2>3, <2>4 DEF VkInv
    <2>6. vkNative # "failed"
      BY <2>1 DEF VkInv
    <2> QED
      BY <2>1, <2>5, <2>6 DEF VkLive, SamplesLive, BoundNow
  <1>11. CASE RecordBridge
    <2>1. /\ vkStep = "record" /\ vkCall.kind = "bridge" /\ vkFence' = "reset" /\ vkStep' = "submit"
          /\ Write("staging")
          /\ vkFlight' = [b \in {"staging"} |-> vkMemory'[b]] /\ vkFlightView' = NoView
          /\ UNCHANGED << vkCall, vkCalls, vkImage, vkPresents, vkPicture, vkPath >>
      BY <1>11 DEF RecordBridge, At
    <2>2. DOMAIN vkMemory' = Buffers
      BY <1>t, <2>1 DEF VkTypes, Write
    <2>3. VkTypes'
      BY <1>t, <2>1, <2>2 DEF VkTypes
    <2>4. WritesAwaited'
      BY <2>1, <2>2 DEF WritesAwaited
    <2>5. VkInv'
      BY <2>1, <2>3, <2>4 DEF VkInv
    <2> QED
      BY <2>1, <2>5 DEF VkLive, SamplesLive
  <1>12. CASE Submit
    <2>1. /\ vkStep = "submit" /\ vkStep' = "present" /\ vkFence' = "submitted"
          /\ UNCHANGED << vkCall, vkCalls, vkImage, vkPresents, vkFlight, vkFlightView, vkPicture, vkPath, vkMemory >>
      BY <1>12 DEF Submit, At
    <2>2. VkTypes'
      BY <1>t, <2>1 DEF VkTypes
    <2>3. VkInv'
      BY <1>v, <2>1, <2>2 DEF VkInv
    <2> QED
      BY <2>1, <2>3 DEF VkLive, SamplesLive
  <1>13. CASE SubmitFails
    <2>1. /\ vkStep = "submit" /\ vkStep' = "idle" /\ vkFlight' = Unread /\ vkFlightView' = NoView
          /\ vkNative' \in {vkNative, "failed"}
          /\ UNCHANGED << vkCall, vkCalls, vkFence, vkImage, vkPresents, vkPicture, vkMemory >>
      BY <1>13 DEF SubmitFails, At, Returns, GiveUp
    <2>2. VkTypes' /\ WritesAwaited'
      BY <1>t, <2>1, UnreadIsEmpty DEF VkTypes, WritesAwaited
    <2>3. VkInv'
      BY <2>1, <2>2, UnreadIsEmpty DEF VkInv
    <2> QED
      BY <2>1, <2>3 DEF VkLive, SamplesLive
  <1>14. CASE Present
    <2>1. /\ vkStep = "present" /\ vkStep' = "idle"
          /\ vkPresents' = vkPresents \cup {[image |-> vkImage, semaphore |-> vkImage]}
          /\ UNCHANGED << vkCall, vkCalls, vkFence, vkImage, vkFlight, vkFlightView, vkScene, vkBound, vkValid, vkPath, vkMemory >>
      BY <1>14 DEF Present, At, Returns, FinishedOf
    <2>2. VkTypes'
      BY <1>t, <2>1 DEF VkTypes
    <2>3. VkInv'
      BY <1>v, <2>1, <2>2 DEF VkInv
    <2> QED
      BY <2>1, <2>3 DEF VkLive, SamplesLive
  <1>15. CASE Finish
    <2>1. /\ vkFence' = "signalled" /\ vkFlight' = Unread /\ vkFlightView' = NoView
          /\ UNCHANGED << vkStep, vkCall, vkCalls, vkImage, vkPresents, vkPicture, vkPath, vkMemory >>
      BY <1>15 DEF Finish
    <2>2. VkTypes' /\ WritesAwaited'
      BY <1>t, <2>1, UnreadIsEmpty DEF VkTypes, WritesAwaited
    <2>3. VkInv'
      BY <2>1, <2>2, UnreadIsEmpty DEF VkInv
    <2> QED
      BY <2>1, <2>3 DEF VkLive, SamplesLive
  <1>16. ASSUME NEW present \in vkPresents, Shown(present) PROVE Goal
    <2>1. /\ vkPresents' \subseteq vkPresents
          /\ UNCHANGED << vkStep, vkCall, vkCalls, vkFence, vkImage, vkFlight, vkFlightView, vkPicture, vkPath, vkMemory >>
      BY <1>16 DEF Shown
    <2>2. VkTypes'
      BY <1>t, <2>1 DEF VkTypes
    <2>3. VkInv'
      BY <1>v, <2>1, <2>2 DEF VkInv
    <2> QED
      BY <2>1, <2>3 DEF VkLive, SamplesLive
  <1>17. CASE Reinitialize
    <2>1. /\ vkStep = "idle" /\ vkFence' = "signalled" /\ vkPresents' = {} /\ vkFlight' = Unread /\ vkFlightView' = NoView
          /\ vkValid' = FALSE /\ UNCHANGED << vkStep, vkCall, vkCalls, vkImage, vkMemory >>
      BY <1>17 DEF Reinitialize, At
    <2>2. VkTypes' /\ WritesAwaited'
      BY <1>t, <2>1, UnreadIsEmpty DEF VkTypes, WritesAwaited
    <2>3. VkInv'
      BY <2>1, <2>2, UnreadIsEmpty DEF VkInv
    <2> QED
      BY <2>1, <2>3 DEF VkLive, SamplesLive
  <1>18. CASE UNCHANGED vkvars
    <2>1. UNCHANGED << vkStep, vkCall, vkCalls, vkSync, vkPicture, vkPath, vkMemory >>
      BY <1>18 DEF vkvars
    <2>2. VkTypes'
      BY <1>t, <2>1 DEF VkTypes
    <2>3. VkInv'
      BY <1>v, <2>1, <2>2 DEF VkInv
    <2> QED
      BY <2>1, <2>3 DEF VkLive, SamplesLive
  <1> QED
    BY <1>1, <1>2, <1>3, <1>4, <1>5, <1>6, <1>7, <1>8, <1>9, <1>10, <1>11, <1>12, <1>13, <1>14, <1>15, <1>16,
       <1>17, <1>18 DEF VkNext

LEMMA VkKept == VkInv /\ [VkNext]_vkvars => VkInv'
  BY VkSteps
LEMMA VkStaysLive == TargetsWhole /\ VkInv /\ VkLive /\ [VkNext]_vkvars => VkLive'
  BY VkSteps
LEMMA SemaphoresAreOwn == VkInv => OwnSemaphore
  BY DEF VkInv, VkTypes, OwnSemaphore

-----------------------------------------------------------------------------
(* The picture that is sent.                                                   *)

Pictures == {NoPicture} \cup { Picture(sequence, size) : sequence \in Nat, size \in Nat }
Messages == [sequence : Nat, size : Nat, over : Pictures]
PictureOf(message) == Picture(message.sequence, message.size)
(* A difference is over the picture before it on the wire, or over the last    *)
(* one that arrived.                                                          *)
Linked(wire, over) ==
    \A i \in 1..Len(wire) : wire[i].over \in {NoPicture, IF i = 1 THEN over ELSE PictureOf(wire[i - 1])}
LastOf(wire, over) == IF wire = << >> THEN over ELSE PictureOf(wire[Len(wire)])
NvTypes ==
    /\ nvSequence \in Nat /\ nvPending \in Pictures /\ nvBase \in Pictures /\ nvOver \in Pictures
    /\ nvWire \in Seq(Messages)
    /\ nvConnects \in Nat /\ nvClient \in 0..nvConnects /\ nvServer \in 0..nvConnects
    /\ nvBacklog \in Seq(0..nvConnects)
NvInv ==
    /\ NvTypes
    /\ Linked(nvWire, nvOver)
    /\ Reaches /\ nvBase # NoPicture => nvBase = LastOf(nvWire, nvOver)
    /\ nvClient = 0 => nvBase = NoPicture
    /\ nvServer = 0 => nvWire = << >>
    /\ TrueToTheFrame

LEMMA NothingLinked == ASSUME NEW over PROVE Linked(<< >>, over)
  BY DEF Linked

(* A whole picture, or a difference over the last, continues the wire.         *)
LEMMA LinkedAppend ==
    ASSUME NEW wire \in Seq(Messages), NEW over, Linked(wire, over), NEW message \in Messages,
           message.over \in {NoPicture, LastOf(wire, over)}
    PROVE  Linked(Append(wire, message), over) /\ LastOf(Append(wire, message), over) = PictureOf(message)
  <1> DEFINE more == Append(wire, message)
             n == Len(wire)
  <1>1. /\ n \in Nat /\ Len(more) = n + 1 /\ more[n + 1] = message /\ more # << >>
        /\ \A i \in 1..n : more[i] = wire[i]
        /\ wire = << >> <=> n = 0
    OBVIOUS
  <1>2. ASSUME NEW i \in 1..(n + 1)
        PROVE  more[i].over \in {NoPicture, IF i = 1 THEN over ELSE PictureOf(more[i - 1])}
    <2>1. CASE i = n + 1
      <3>1. CASE n = 0
        BY <1>1, <2>1, <3>1 DEF LastOf
      <3>2. CASE n # 0
        <4>1. i # 1 /\ i - 1 = n /\ more[i - 1] = wire[n]
          BY <1>1, <2>1, <3>2
        <4> QED
          BY <1>1, <2>1, <3>2, <4>1 DEF LastOf
      <3> QED
        BY <3>1, <3>2
    <2>2. CASE i # n + 1
      <3>1. i \in 1..n /\ more[i] = wire[i] /\ (i # 1 => more[i - 1] = wire[i - 1])
        BY <1>1, <2>2
      <3> QED
        BY <3>1 DEF Linked
    <2> QED
      BY <2>1, <2>2
  <1>3. LastOf(more, over) = PictureOf(message)
    BY <1>1 DEF LastOf
  <1> QED
    BY <1>1, <1>2, <1>3 DEF Linked

(* When the first message has arrived the rest follows it.                     *)
LEMMA LinkedTail ==
    ASSUME NEW wire \in Seq(Messages), NEW over, Linked(wire, over), wire # << >>
    PROVE  /\ Linked(Tail(wire), PictureOf(Head(wire)))
           /\ LastOf(Tail(wire), PictureOf(Head(wire))) = LastOf(wire, over)
           /\ Head(wire) \in Messages /\ Head(wire).over \in {NoPicture, over}
  <1> DEFINE n == Len(wire)
             rest == Tail(wire)
  <1>1. /\ n \in Nat \ {0} /\ Head(wire) = wire[1] /\ rest \in Seq(Messages) /\ Len(rest) = n - 1
        /\ \A i \in 1..(n - 1) : rest[i] = wire[i + 1]
        /\ (rest = << >> <=> n = 1)
        /\ 1 \in 1..n
    <2>1. n \in Nat \ {0} /\ Head(wire) = wire[1] /\ 1 \in 1..n
      OBVIOUS
    <2>2. rest \in Seq(Messages) /\ Len(rest) = n - 1 /\ \A i \in 1..(n - 1) : rest[i] = wire[i + 1]
      OBVIOUS
    <2>3. rest = << >> <=> Len(rest) = 0
      <3> HIDE DEF rest
      <3> QED
        BY <2>2
    <2> QED
      BY <2>1, <2>2, <2>3
  <1>2. ASSUME NEW i \in 1..(n - 1)
        PROVE  rest[i].over \in {NoPicture, IF i = 1 THEN PictureOf(wire[1]) ELSE PictureOf(rest[i - 1])}
    <2>1. i + 1 \in 1..n /\ i + 1 # 1 /\ (i + 1) - 1 = i /\ rest[i] = wire[i + 1]
      BY <1>1
    <2>2. wire[i + 1].over \in {NoPicture, PictureOf(wire[i])}
      BY <2>1 DEF Linked
    <2>3. i # 1 => rest[i - 1] = wire[i]
      BY <1>1
    <2> QED
      BY <2>1, <2>2, <2>3
  <1>3. LastOf(rest, PictureOf(wire[1])) = LastOf(wire, over)
    <2>1. CASE n = 1
      BY <1>1, <2>1 DEF LastOf
    <2>2. CASE n # 1
      <3>1. rest # << >> /\ wire # << >> /\ rest[n - 1] = wire[n]
        BY <1>1, <2>2
      <3> QED
        BY <1>1, <3>1 DEF LastOf
    <2> QED
      BY <2>1, <2>2
  <1>4. wire[1] \in Messages /\ wire[1].over \in {NoPicture, over}
    BY <1>1 DEF Linked
  <1> QED
    BY <1>1, <1>2, <1>3, <1>4 DEF Linked

(* What is on its way when a connection is cut is the beginning of it.         *)
LEMMA LinkedPrefix ==
    ASSUME NEW wire \in Seq(Messages), NEW over, Linked(wire, over), NEW n \in 0..Len(wire)
    PROVE  SubSeq(wire, 1, n) \in Seq(Messages) /\ Linked(SubSeq(wire, 1, n), over)
  <1>1. SubSeq(wire, 1, n) \in Seq(Messages) /\ Len(SubSeq(wire, 1, n)) = n
        /\ \A i \in 1..n : SubSeq(wire, 1, n)[i] = wire[i]
    OBVIOUS
  <1>2. ASSUME NEW i \in 1..n
        PROVE  SubSeq(wire, 1, n)[i].over
                 \in {NoPicture, IF i = 1 THEN over ELSE PictureOf(SubSeq(wire, 1, n)[i - 1])}
    <2>1. i \in 1..Len(wire) /\ (i # 1 => SubSeq(wire, 1, n)[i - 1] = wire[i - 1])
      BY <1>1
    <2> QED
      BY <1>1, <2>1 DEF Linked
  <1> QED
    BY <1>1, <1>2 DEF Linked

LEMMA PicturesAre ==
    ASSUME NEW message \in Messages
    PROVE  /\ PictureOf(message) \in Pictures /\ PictureOf(message) # NoPicture
           /\ PictureOf(message)[1].size = message.size
  <1>1. message.sequence \in Nat /\ message.size \in Nat
    BY DEF Messages
  <1>2. PictureOf(message) \in Pictures
    BY <1>1 DEF PictureOf, Pictures
  <1>3. PictureOf(message) # NoPicture /\ PictureOf(message)[1].size = message.size
    BY DEF PictureOf, Picture, NoPicture
  <1> QED
    BY <1>2, <1>3

(* The message of a picture is a difference over the base or a whole picture.  *)
LEMMA MessageOfPicture ==
    ASSUME NvTypes, nvPending # NoPicture
    PROVE  /\ Message(nvPending) \in Messages /\ PictureOf(Message(nvPending)) = nvPending
           /\ Message(nvPending).over \in {NoPicture, nvBase}
           /\ nvBase = NoPicture => Message(nvPending).over = NoPicture
  <1>1. PICK sequence \in Nat, size \in Nat : nvPending = Picture(sequence, size)
    BY DEF NvTypes, Pictures
  <1>2. nvPending[1].sequence = sequence /\ nvPending[1].size = size
    BY <1>1 DEF Picture
  <1>3. PICK message : message = Message(nvPending)
    OBVIOUS
  <1>4. message = [sequence |-> sequence, size |-> size,
                   over |-> IF IsDelta(nvPending) THEN nvBase ELSE NoPicture]
    BY <1>2, <1>3 DEF Message
  <1>5. NoPicture \in Pictures /\ nvBase \in Pictures
    BY DEF NvTypes, Pictures
  <1>6. message \in Messages
    BY <1>4, <1>5 DEF Messages
  <1>7. PictureOf(message) = nvPending
    BY <1>1, <1>4 DEF PictureOf
  <1>8. message.over \in {NoPicture, nvBase} /\ (nvBase = NoPicture => message.over = NoPicture)
    BY <1>4 DEF IsDelta
  <1> QED
    BY <1>3, <1>6, <1>7, <1>8

LEMMA NvBegins == NvInit => NvInv
  BY NothingLinked DEF NvInit, NvInv, NvTypes, Pictures, TrueToTheFrame

LEMMA NvKept == NvInv /\ [NvNext]_nvvars => NvInv'
  <1> SUFFICES ASSUME NvInv, [NvNext]_nvvars PROVE NvInv'
    OBVIOUS
  <1>t. NvTypes /\ Linked(nvWire, nvOver)
    BY DEF NvInv
  <1>p. NoPicture \in Pictures
    BY DEF Pictures
  <1>l. UNCHANGED << nvWire, nvOver >> => Linked(nvWire, nvOver)' /\ LastOf(nvWire, nvOver)' = LastOf(nvWire, nvOver)
    BY <1>t DEF Linked, LastOf
  <1>n. nvWire' = << >> => Linked(nvWire, nvOver)'
    BY DEF Linked
  <1> USE DEF nvSender, nvReceiver, nvLink
  <1>1. ASSUME NEW size \in FrameSizes, CaptureFrame(size) PROVE NvInv'
    <2>1. nvPending' \in Pictures /\ nvSequence' \in Nat
      <3>1. size \in Nat /\ nvSequence + 1 \in Nat
        BY <1>t, VideoStreamAssumption DEF NvTypes
      <3>2. nvSequence' = nvSequence + 1 /\ nvPending' = Picture(nvSequence + 1, size)
        BY <1>1 DEF CaptureFrame
      <3> QED
        BY <3>1, <3>2 DEF Pictures
    <2>2. UNCHANGED << nvClient, nvBase, nvDeltas, nvReceiver, nvLink, nvFaults >>
      BY <1>1 DEF CaptureFrame
    <2>3. NvTypes'
      BY <1>t, <2>1, <2>2 DEF NvTypes
    <2> QED
      BY <1>l, <2>2, <2>3 DEF NvInv, Reaches, TrueToTheFrame
  <1>2. CASE AcceptDisplay
    <2>1. nvBase' = NoPicture /\ UNCHANGED << nvSequence, nvPending, nvReceiver, nvWire, nvCut, nvConnects >>
      BY <1>2 DEF AcceptDisplay
    <2>2. nvClient' \in 0..nvConnects /\ nvBacklog' \in Seq(0..nvConnects)
      BY <1>2, <1>t DEF AcceptDisplay, NvTypes
    <2>3. NvTypes'
      BY <1>t, <1>p, <2>1, <2>2 DEF NvTypes
    <2> QED
      BY <1>l, <2>1, <2>3 DEF NvInv, TrueToTheFrame
  <1>3. CASE SendPicture
    <2>1. /\ nvClient # 0 /\ nvPending # NoPicture /\ nvPending' = NoPicture /\ nvBase' = nvPending
          /\ nvWire' = IF Reaches THEN Append(nvWire, Message(nvPending)) ELSE nvWire
          /\ UNCHANGED << nvSequence, nvClient, nvReceiver, nvBacklog, nvCut, nvConnects, nvFaults >>
      BY <1>3 DEF SendPicture
    <2>2. PICK message : message = Message(nvPending)
      OBVIOUS
    <2>3. /\ message \in Messages /\ PictureOf(message) = nvPending
          /\ message.over \in {NoPicture, nvBase} /\ (nvBase = NoPicture => message.over = NoPicture)
      BY <1>t, <2>1, <2>2, MessageOfPicture
    <2>4. CASE Reaches
      <3>1. message.over \in {NoPicture, LastOf(nvWire, nvOver)}
        BY <2>3, <2>4 DEF NvInv
      <3>2. nvWire \in Seq(Messages)
        BY <1>t DEF NvTypes
      <3>3. /\ Linked(Append(nvWire, message), nvOver)
            /\ LastOf(Append(nvWire, message), nvOver) = PictureOf(message)
        BY <1>t, <2>3, <3>1, <3>2, LinkedAppend
      <3>4. Linked(nvWire, nvOver)' /\ nvBase' = LastOf(nvWire, nvOver)'
        BY <2>1, <2>2, <2>3, <2>4, <3>3
      <3>5. nvWire' \in Seq(Messages)
        BY <2>1, <2>2, <2>3, <2>4, <3>2
      <3>6. NvTypes'
        BY <1>t, <1>p, <2>1, <3>5 DEF NvTypes
      <3>7. nvServer' # 0
        BY <2>1, <2>4 DEF Reaches
      <3> QED
        BY <2>1, <3>4, <3>6, <3>7 DEF NvInv, TrueToTheFrame
    <2>5. CASE ~Reaches
      <3>1. ~Reaches' /\ nvWire' = nvWire
        BY <2>1, <2>5 DEF Reaches
      <3>2. NvTypes'
        BY <1>t, <1>p, <2>1, <3>1 DEF NvTypes
      <3> QED
        BY <1>l, <2>1, <3>1, <3>2 DEF NvInv, TrueToTheFrame
    <2> QED
      BY <2>4, <2>5
  <1>4. CASE CompressionFails
    <2>1. /\ nvPending' = NoPicture /\ nvBase' = nvBase
          /\ UNCHANGED << nvSequence, nvClient, nvDeltas, nvReceiver, nvLink, nvFaults >>
      BY <1>4 DEF CompressionFails, BaseAfterSkip
    <2>2. NvTypes'
      BY <1>t, <1>p, <2>1 DEF NvTypes
    <2> QED
      BY <1>l, <2>1, <2>2 DEF NvInv, Reaches, TrueToTheFrame
  <1>5. CASE SendFails
    <2>1. /\ nvPending' = NoPicture /\ nvBase' = NoPicture /\ nvClient' = 0
          /\ UNCHANGED << nvSequence, nvReceiver, nvLink, nvFaults >>
      BY <1>5 DEF SendFails
    <2>2. NvTypes'
      BY <1>t, <1>p, <2>1 DEF NvTypes
    <2> QED
      BY <1>l, <2>1, <2>2 DEF NvInv, TrueToTheFrame
  <1>6. CASE ConnectToPeer
    <2>1. /\ nvConnects' = nvConnects + 1 /\ nvServer' = nvConnects + 1 /\ nvOver' = NoPicture /\ nvWire' = << >>
          /\ nvBacklog' = Append(nvBacklog, nvConnects + 1)
          /\ UNCHANGED << nvSender, nvReceived, nvShown, nvFaults >>
      BY <1>6 DEF ConnectToPeer
    <2>2. nvBacklog' \in Seq(0..nvConnects')
      <3>1. PICK limit \in Nat : limit = nvConnects
        BY <1>t DEF NvTypes
      <3>2. nvBacklog \in Seq(0..(limit + 1)) /\ limit + 1 \in 0..(limit + 1)
        BY <1>t, <3>1 DEF NvTypes
      <3> QED
        BY <2>1, <3>1, <3>2
    <2>3. NvTypes' /\ nvServer' # 0 /\ nvClient' # nvServer'
      BY <1>t, <1>p, <2>1, <2>2 DEF NvTypes
    <2> QED
      BY <1>n, <2>1, <2>3 DEF NvInv, Reaches, TrueToTheFrame
  <1>7. CASE Receive
    <2>1. /\ nvServer # 0 /\ nvWire # << >> /\ nvWire \in Seq(Messages)
          /\ UNCHANGED << nvSender, nvShown, nvBacklog, nvCut, nvConnects, nvFaults >>
      BY <1>7, <1>t DEF Receive, NvTypes
    <2>2. PICK message, rest : message = Head(nvWire) /\ rest = Tail(nvWire)
      OBVIOUS
    <2>3. /\ Linked(rest, PictureOf(message)) /\ LastOf(rest, PictureOf(message)) = LastOf(nvWire, nvOver)
          /\ message \in Messages /\ message.over \in {NoPicture, nvOver}
      BY <1>t, <2>1, <2>2, LinkedTail
    <2>4. CASE Misfit(message)
      <3>1. nvServer' = 0 /\ nvWire' = << >> /\ UNCHANGED << nvOver, nvReceived >>
        BY <1>7, <2>2, <2>4 DEF Receive, Disconnect
      <3>2. NvTypes'
        BY <1>t, <2>1, <3>1 DEF NvTypes
      <3>3. Reaches' => nvBase' = NoPicture
        BY <2>1, <3>1 DEF Reaches, NvInv
      <3> QED
        BY <1>n, <2>1, <3>1, <3>2, <3>3 DEF NvInv, TrueToTheFrame
    <2>5. CASE ~Misfit(message)
      <3>1. Laid(message) = message.sequence
        BY <2>3 DEF Laid
      <3>2. /\ nvOver' = PictureOf(message) /\ nvWire' = rest /\ nvServer' = nvServer
            /\ nvReceived' = << [sequence |-> message.sequence, shows |-> message.sequence] >>
        BY <1>7, <2>2, <2>5, <3>1 DEF Receive, PictureOf
      <3>3. nvReceived'[1].shows = nvReceived'[1].sequence
        BY <3>2
      <3>4. rest \in Seq(Messages) /\ PictureOf(message) \in Pictures
        BY <2>1, <2>2, <2>3, PicturesAre
      <3>5. NvTypes'
        BY <1>t, <2>1, <3>2, <3>4 DEF NvTypes
      <3>6. Linked(nvWire, nvOver)' /\ LastOf(nvWire, nvOver)' = LastOf(nvWire, nvOver)
        BY <2>3, <3>2
      <3>7. Reaches' => Reaches
        BY <2>1, <3>2 DEF Reaches
      <3> QED
        BY <2>1, <3>2, <3>3, <3>5, <3>6, <3>7 DEF NvInv, TrueToTheFrame
    <2> QED
      BY <2>4, <2>5
  <1>8. CASE ReceiveFails
    <2>1. /\ nvServer' = 0 /\ nvWire' = << >>
          /\ UNCHANGED << nvSender, nvOver, nvReceived, nvShown, nvBacklog, nvCut, nvConnects, nvFaults >>
      BY <1>8 DEF ReceiveFails, Disconnect
    <2>2. NvTypes'
      BY <1>t, <2>1 DEF NvTypes
    <2>3. Reaches' => nvBase' = NoPicture
      BY <2>1 DEF Reaches, NvInv
    <2> QED
      BY <1>n, <2>1, <2>2, <2>3 DEF NvInv, TrueToTheFrame
  <1>9. CASE ShowReceived
    <2>1. /\ nvReceived # NoPicture /\ nvShown' = nvReceived /\ nvReceived' = NoPicture
          /\ UNCHANGED << nvSender, nvServer, nvOver, nvLink, nvFaults >>
      BY <1>9 DEF ShowReceived
    <2>2. NvTypes'
      BY <1>t, <2>1 DEF NvTypes
    <2> QED
      BY <1>l, <2>1, <2>2 DEF NvInv, Reaches, TrueToTheFrame
  <1>10. CASE CutConnection
    <2>1. /\ nvServer # 0 /\ nvCut' = TRUE /\ UNCHANGED << nvSender, nvReceiver, nvBacklog, nvConnects >>
      BY <1>10 DEF CutConnection
    <2>2. PICK n \in 0..Len(nvWire) : nvWire' = SubSeq(nvWire, 1, n)
      BY <1>10 DEF CutConnection
    <2>3. nvWire \in Seq(Messages)
      BY <1>t DEF NvTypes
    <2>4. SubSeq(nvWire, 1, n) \in Seq(Messages) /\ Linked(SubSeq(nvWire, 1, n), nvOver)
      BY <1>t, <2>3, LinkedPrefix
    <2>5. NvTypes' /\ Linked(nvWire, nvOver)'
      BY <1>t, <2>1, <2>2, <2>4 DEF NvTypes
    <2> QED
      BY <2>1, <2>5 DEF NvInv, Reaches, TrueToTheFrame
  <1>11. CASE RestartSender
    <2>1. /\ nvSequence' = 0 /\ nvPending' = NoPicture /\ nvClient' = 0 /\ nvBase' = NoPicture /\ nvBacklog' = << >>
          /\ UNCHANGED << nvReceiver, nvWire, nvConnects >>
      BY <1>11 DEF RestartSender
    <2>2. NvTypes'
      BY <1>t, <1>p, <2>1 DEF NvTypes
    <2> QED
      BY <1>l, <2>1, <2>2 DEF NvInv, TrueToTheFrame
  <1>12. CASE RestartReceiver
    <2>1. /\ nvServer' = 0 /\ nvOver' = NoPicture /\ nvReceived' = NoPicture /\ nvShown' = NoPicture /\ nvWire' = << >>
          /\ UNCHANGED << nvSender, nvBacklog, nvCut, nvConnects >>
      BY <1>12 DEF RestartReceiver
    <2>2. NvTypes'
      BY <1>t, <1>p, <2>1 DEF NvTypes
    <2>3. Reaches' => nvBase' = NoPicture
      BY <2>1 DEF Reaches, NvInv
    <2> QED
      BY <1>n, <2>1, <2>2, <2>3 DEF NvInv, TrueToTheFrame
  <1>13. CASE UNCHANGED nvvars
    <2>1. UNCHANGED << nvSender, nvReceiver, nvLink >>
      BY <1>13 DEF nvvars
    <2>2. NvTypes'
      BY <1>t, <2>1 DEF NvTypes
    <2> QED
      BY <1>l, <2>1, <2>2 DEF NvInv, Reaches, TrueToTheFrame
  <1> QED
    BY <1>1, <1>2, <1>3, <1>4, <1>5, <1>6, <1>7, <1>8, <1>9, <1>10, <1>11, <1>12, <1>13 DEF NvNext

-----------------------------------------------------------------------------
(* The operator menu.                                                          *)

Sequence(s) == \E S : s \in Seq(S)
LastIn(s) == s[Len(s)]

LEMMA EmptySequence == Sequence(<< >>)
  <1>1. << >> \in Seq({})
    OBVIOUS
  <1> QED
    BY <1>1 DEF Sequence

LEMMA SequenceAppend ==
    ASSUME NEW s, Sequence(s), NEW e
    PROVE  Sequence(Append(s, e)) /\ Append(s, e) # << >> /\ LastIn(Append(s, e)) = e
  <1>1. PICK S : s \in Seq(S)
    BY DEF Sequence
  <1>2. s \in Seq(S \cup {e})
    BY <1>1
  <1>3. Append(s, e) \in Seq(S \cup {e}) /\ Len(Append(s, e)) = Len(s) + 1 /\ Append(s, e)[Len(s) + 1] = e
        /\ Len(s) \in Nat
    BY <1>2
  <1>4. Append(s, e) # << >>
    BY <1>3
  <1> QED
    BY <1>3, <1>4 DEF Sequence, LastIn

LEMMA SequenceTail ==
    ASSUME NEW s, Sequence(s), s # << >>
    PROVE  /\ Sequence(Tail(s))
           /\ Tail(s) = << >> => Head(s) = LastIn(s)
           /\ Tail(s) # << >> => LastIn(Tail(s)) = LastIn(s)
  <1>1. PICK S : s \in Seq(S)
    BY DEF Sequence
  <1>2. PICK rest, n : rest = Tail(s) /\ n = Len(s)
    OBVIOUS
  <1>3. n \in Nat \ {0} /\ Head(s) = s[1] /\ rest \in Seq(S) /\ Len(rest) = n - 1
    BY <1>1, <1>2
  <1>4. \A i \in 1..(n - 1) : rest[i] = s[i + 1]
    BY <1>1, <1>2
  <1>5. rest = << >> <=> n = 1
    BY <1>3
  <1>6. rest # << >> => rest[n - 1] = s[n]
    BY <1>3, <1>4, <1>5
  <1> QED
    BY <1>2, <1>3, <1>5, <1>6 DEF Sequence, LastIn

(* The last definition on its way, or with none and no action on its way back  *)
(* the one that is shown, is of the switches.                                 *)
OmInv ==
    /\ Sequence(omTasks) /\ Sequence(omActions) /\ Sequence(omInbox)
    /\ omPhase \in {"loading", "running"} => omGame \in OmGames
    /\ omPhase = "running" /\ omTasks # << >> => LastIn(omTasks) = MenuOf(omGame, omSwitches)
    /\ MenuShowsTheSwitches

LEMMA OmBegins == OmInit => OmInv
  BY EmptySequence DEF OmInit, OmInv, MenuShowsTheSwitches

LEMMA OmKept == OmInv /\ [OmNext]_omvars => OmInv'
  <1> SUFFICES ASSUME OmInv, [OmNext]_omvars PROVE OmInv'
    OBVIOUS
  <1>s. Sequence(omTasks) /\ Sequence(omActions) /\ Sequence(omInbox)
    BY DEF OmInv
  <1>m. \A g \in OmGames : MenuOf(g, omSwitches).game # "reset"
    BY OperatorMenuAssumption DEF MenuOf
  <1> USE DEF omUi, omWorker, omHost, omCounts
  <1>1. CASE UNCHANGED << omMenu, omActions, omTasks, omInbox, omGame, omSwitches >>
             /\ (omPhase' = "running" => omPhase = "running")
             /\ (omPhase' \in {"loading", "running"} => omPhase \in {"loading", "running"} \/ omGame' \in OmGames)
    BY <1>1 DEF OmInv, MenuShowsTheSwitches
  <1>2. CASE \/ PauseKey \/ Back \/ ReturnToMenu \/ (\E row \in PauseRows \cup {"adjust"} : Choose(row))
             \/ (\E row \in MenuRows : Select(row)) \/ EventsDone \/ TakeRequest
    BY <1>1, <1>2 DEF PauseKey, Back, ReturnToMenu, Choose, Select, EventsDone, TakeRequest, SameActions, Event
  <1>3. ASSUME NEW direction, Adjust(direction) PROVE OmInv'
    <2>1. PICK action : omActions' = Append(omActions, action)
      BY <1>3 DEF Adjust
    <2>2. UNCHANGED << omWorker, omHost >>
      BY <1>3 DEF Adjust
    <2>3. Sequence(omActions') /\ omActions' # << >>
      BY <1>s, <2>1, SequenceAppend
    <2> QED
      BY <2>2, <2>3 DEF OmInv, MenuShowsTheSwitches
  <1>4. CASE TaskStep
    <2>1. UNCHANGED << omInbox, omAsked, omHost, omCounts >>
      BY <1>4 DEF TaskStep
    <2>2. CASE omTasks = << >>
      BY <1>1, <1>4, <2>2 DEF TaskStep
    <2>3. CASE omTasks # << >>
      <3>1. omTasks' = Tail(omTasks) /\ IF Head(omTasks).game = "reset" THEN ResetUi ELSE NewMenu(Head(omTasks))
        BY <1>4, <2>3 DEF TaskStep
      <3>2. /\ Sequence(Tail(omTasks))
            /\ Tail(omTasks) = << >> => Head(omTasks) = LastIn(omTasks)
            /\ Tail(omTasks) # << >> => LastIn(Tail(omTasks)) = LastIn(omTasks)
        BY <1>s, <2>3, SequenceTail
      <3>3. Sequence(omActions')
        BY <1>s, <3>1, EmptySequence DEF ResetUi, NewMenu
      <3>4. omPhase = "running" /\ Tail(omTasks) = << >> => omMenu' = MenuOf(omGame, omSwitches)
        <4> SUFFICES ASSUME omPhase = "running", Tail(omTasks) = << >> PROVE omMenu' = MenuOf(omGame, omSwitches)
          OBVIOUS
        <4>1. Head(omTasks) = MenuOf(omGame, omSwitches) /\ omGame \in OmGames
          BY <2>3, <3>2 DEF OmInv
        <4>2. Head(omTasks).game # "reset"
          BY <1>m, <4>1
        <4> QED
          BY <3>1, <4>1, <4>2 DEF NewMenu
      <3>5. omPhase = "running" /\ Tail(omTasks) # << >> => LastIn(Tail(omTasks)) = MenuOf(omGame, omSwitches)
        BY <2>3, <3>2 DEF OmInv
      <3> QED
        BY <1>s, <2>1, <3>1, <3>2, <3>3, <3>4, <3>5 DEF OmInv, MenuShowsTheSwitches
    <2> QED
      BY <2>2, <2>3
  <1>5. CASE Harvest
    <2>1. UNCHANGED << omMenu, omTasks, omHost >>
      BY <1>5 DEF Harvest
    <2>2. CASE omActions = << >>
      BY <1>1, <1>5, <2>1, <2>2 DEF Harvest
    <2>3. CASE omActions # << >>
      <3>1. omInbox' = Append(omInbox, Head(omActions)) /\ omActions' = Tail(omActions)
        BY <1>5, <2>3 DEF Harvest
      <3>2. Sequence(omInbox') /\ omInbox' # << >> /\ Sequence(omActions')
        BY <1>s, <2>3, <3>1, SequenceAppend, SequenceTail
      <3> QED
        BY <2>1, <3>2 DEF OmInv, MenuShowsTheSwitches
    <2> QED
      BY <2>2, <2>3
  <1>6. ASSUME NEW game \in OmGames, Load(game) PROVE OmInv'
    BY <1>6 DEF Load, OmInv, MenuShowsTheSwitches
  <1>7. CASE Loaded \/ Drain
    <2>1. omTasks' = Append(omTasks, MenuOf(omGame, omSwitches')) /\ omGame' = omGame /\ omActions' = omActions
          /\ omInbox' \in {omInbox, << >>}
          /\ (omPhase' \in {"loading", "running"} => omPhase \in {"loading", "running"})
      BY <1>7 DEF Loaded, Drain, Sent
    <2>2. Sequence(omTasks') /\ omTasks' # << >> /\ LastIn(omTasks') = MenuOf(omGame, omSwitches')
      BY <1>s, <2>1, SequenceAppend
    <2>3. Sequence(omInbox')
      BY <1>s, <2>1, EmptySequence
    <2>4. MenuOf(omGame, omSwitches)' = MenuOf(omGame, omSwitches')
      BY <2>1 DEF MenuOf
    <2>5. LastIn(omTasks)' = LastIn(omTasks')
      BY DEF LastIn
    <2> QED
      BY <1>s, <2>1, <2>2, <2>3, <2>4, <2>5 DEF OmInv, MenuShowsTheSwitches
  <1>8. CASE Leave \/ Left
    <2>1. omPhase' \in {"reset", "none"} /\ omActions' = omActions /\ omInbox' \in {omInbox, << >>}
          /\ (omTasks' = omTasks \/ omTasks' = << [game |-> "reset", values |-> Default] >>)
      BY <1>8 DEF Leave, Left
    <2>2. Sequence(<< [game |-> "reset", values |-> Default] >>)
      <3>1. << [game |-> "reset", values |-> Default] >> \in Seq({[game |-> "reset", values |-> Default]})
        OBVIOUS
      <3> QED
        BY <3>1 DEF Sequence
    <2>3. Sequence(omTasks') /\ Sequence(omInbox') /\ Sequence(omActions')
      BY <1>s, <2>1, <2>2, EmptySequence
    <2> QED
      BY <2>1, <2>3 DEF OmInv, MenuShowsTheSwitches
  <1>9. CASE UNCHANGED omvars
    BY <1>1, <1>9 DEF omvars
  <1> QED
    BY <1>2, <1>3, <1>4, <1>5, <1>6, <1>7, <1>8, <1>9 DEF OmNext

-----------------------------------------------------------------------------
(* The controls.                                                               *)

Configs == [Owners -> [ImDevices -> [Actions -> Texts]]]
AllValid(config) == \A o \in Owners, d \in ImDevices, a \in Actions : config[o][d][a] \in Valid(o, d)
(* What may be in a table of an owner.                                         *)
TablesOf(o) == [Actions -> Valid(o, "keyboard")]
(* The editor holds a whole and valid map, which while it is open is the       *)
(* file's as a game would load it.                                            *)
ImInv ==
    /\ imFile \in Configs /\ imConfig \in Configs /\ AllValid(imConfig)
    /\ imProfile \in Owners /\ imDevice \in ImDevices
    /\ imRunning \in ImGames \cup {"none"}
    /\ imScreen # "closed" => imConfig = LoadedMap(imFile)
    /\ OnlyPlayableKeys

LEMMA ValidTexts ==
    ASSUME NEW o, NEW d
    PROVE  /\ Valid(o, d) \subseteq Texts /\ Valid(o, d) = Valid(o, "keyboard")
           /\ (o = "general" => "inherit" \notin Valid(o, d))
           /\ "reserved" \notin Valid(o, d)
           /\ (o # "general" => "inherit" \in Valid(o, d)) /\ "default" \in Valid(o, d) /\ "none" \in Valid(o, d)
           /\ \A p : (o = "general" <=> p = "general") => Valid(o, d) = Valid(p, d)
  BY InputMappingAssumption DEF Valid, Texts, Reserved

(* Whatever is in the file, what is loaded is valid.                           *)
LEMMA LoadedIsValid ==
    ASSUME NEW file \in Configs
    PROVE  LoadedMap(file) \in Configs /\ AllValid(LoadedMap(file))
  <1>1. ASSUME NEW o \in Owners, NEW d \in ImDevices, NEW a \in Actions
        PROVE  (IF file[o][d][a] \in Valid(o, d) THEN file[o][d][a] ELSE Fallback(o)[a]) \in Valid(o, d) \cap Texts
    BY ValidTexts DEF Fallback, DefaultTable, Inherited
  <1> QED
    BY <1>1 DEF LoadedMap, Configs, AllValid

(* A valid map is written as it is, and loaded as it was written.              *)
LEMMA SavedAndLoaded ==
    ASSUME NEW config \in Configs, AllValid(config)
    PROVE  Lines(config) = config /\ LoadedMap(config) = config
  <1>1. ASSUME NEW o \in Owners, NEW d \in ImDevices, NEW a \in Actions
        PROVE  /\ (IF o = "general" \/ config[o][d][a] \in Valid(o, d) THEN config[o][d][a] ELSE "inherit") = config[o][d][a]
               /\ (IF config[o][d][a] \in Valid(o, d) THEN config[o][d][a] ELSE Fallback(o)[a]) = config[o][d][a]
    BY DEF AllValid
  <1>2. config = [o \in Owners |-> [d \in ImDevices |-> [a \in Actions |-> config[o][d][a]]]]
    BY DEF Configs
  <1> QED
    BY <1>1, <1>2 DEF Lines, LoadedMap

(* A game plays with nothing but keys, whatever its map follows.               *)
LEMMA ResolvedIsPlayable ==
    ASSUME NEW config \in Configs, AllValid(config), NEW game \in ImGames, NEW d \in ImDevices, NEW a \in Actions
    PROVE  Resolved(config, game)[d][a] \notin Reserved \cup {"inherit"}
  <1>1. game \in Owners /\ "general" \in Owners
    BY DEF Owners
  <1>2. config[game][d][a] \in Valid(game, d) /\ config["general"][d][a] \in Valid("general", d)
    BY <1>1 DEF AllValid
  <1>3. config["general"][d][a] \notin Reserved \cup {"inherit"} /\ config[game][d][a] \notin Reserved
    BY <1>2, ValidTexts DEF Reserved
  <1>4. Base(config, game, d)[a] \in {config["general"][d][a], "space"}
    BY <1>1 DEF Base, Configs, Actions
  <1>5. Base(config, game, d)[a] \notin Reserved \cup {"inherit"}
    BY <1>3, <1>4 DEF Reserved
  <1>6. Resolved(config, game)[d][a] = IF config[game][d][a] = "inherit" THEN Base(config, game, d)[a] ELSE config[game][d][a]
    BY DEF Resolved
  <1> QED
    BY <1>3, <1>5, <1>6

LEMMA ImBegins == ImInit => ImInv
  <1> SUFFICES ASSUME ImInit PROVE ImInv
    OBVIOUS
  <1>1. PICK owner \in Owners, text \in Texts :
            imFile = [o \in Owners |-> [d \in ImDevices |->
                        IF o = owner /\ d = "keyboard" THEN [Fallback(o) EXCEPT !["action2"] = text] ELSE Fallback(o)]]
    BY DEF ImInit
  <1>2. "default" \in Texts /\ "inherit" \in Texts
    BY InputMappingAssumption DEF Texts
  <1>3. ASSUME NEW o \in Owners
        PROVE Fallback(o) \in [Actions -> Texts] /\ [Fallback(o) EXCEPT !["action2"] = text] \in [Actions -> Texts]
    BY <1>2 DEF Fallback, DefaultTable, Inherited
  <1>4. imFile \in Configs
    BY <1>1, <1>3 DEF Configs
  <1>5. imConfig \in Configs /\ AllValid(imConfig)
    BY <1>4, LoadedIsValid DEF ImInit
  <1>6. OnlyPlayableKeys
    BY <1>5, ResolvedIsPlayable DEF ImInit, OnlyPlayableKeys
  <1> QED
    BY <1>4, <1>5, <1>6, InputMappingAssumption DEF ImInit, ImInv, Owners

(* An edit leaves the editor with what is in the file.                         *)
LEMMA EditShown ==
    ASSUME ImInv, imScreen # "closed", NEW table \in TablesOf(imProfile), Edit(table)
    PROVE  ImInv'
  <1> DEFINE edited == [imConfig EXCEPT ![imProfile][imDevice] = table]
  <1>1. /\ \/ imFile' = Lines(edited) /\ imConfig' = edited
           \/ imFile' = imFile /\ imConfig' = imConfig
        /\ UNCHANGED << imScreen, imProfile, imDevice, imRunning, imLive >>
    BY DEF Edit, AfterFailure
  <1>2. \A a \in Actions : table[a] \in Valid(imProfile, imDevice) /\ table[a] \in Texts
    BY ValidTexts DEF TablesOf
  <1>3. table \in [Actions -> Texts]
    BY <1>2 DEF TablesOf
  <1>4. edited \in Configs
    BY <1>3 DEF ImInv, Configs
  <1>5. ASSUME NEW o \in Owners, NEW d \in ImDevices, NEW a \in Actions PROVE edited[o][d][a] \in Valid(o, d)
    <2>1. CASE o = imProfile /\ d = imDevice
      BY <1>2, <2>1 DEF ImInv, Configs
    <2>2. CASE ~(o = imProfile /\ d = imDevice)
      <3>1. edited[o][d] = imConfig[o][d]
        BY <2>2 DEF ImInv, Configs
      <3> QED
        BY <3>1 DEF ImInv, AllValid
    <2> QED
      BY <2>1, <2>2
  <1>6. AllValid(edited)
    BY <1>5 DEF AllValid
  <1>7. Lines(edited) = edited /\ LoadedMap(edited) = edited
    BY <1>4, <1>6, SavedAndLoaded
  <1> HIDE DEF edited
  <1>8. OnlyPlayableKeys'
    BY <1>1 DEF ImInv, OnlyPlayableKeys
  <1>9. CASE imFile' = Lines(edited) /\ imConfig' = edited
    BY <1>1, <1>4, <1>6, <1>7, <1>8, <1>9 DEF ImInv
  <1>10. CASE imFile' = imFile /\ imConfig' = imConfig
    BY <1>1, <1>8, <1>10 DEF ImInv
  <1> QED
    BY <1>1, <1>9, <1>10

LEMMA ImKept == ImInv /\ [ImNext]_imvars => ImInv'
  <1> SUFFICES ASSUME ImInv, [ImNext]_imvars PROVE ImInv'
    OBVIOUS
  <1>t. imFile \in Configs /\ imConfig \in Configs /\ AllValid(imConfig) /\ imProfile \in Owners /\ imDevice \in ImDevices
    BY DEF ImInv
  <1>l. LoadedMap(imFile) \in Configs /\ AllValid(LoadedMap(imFile))
    BY <1>t, LoadedIsValid
  <1>r. \A g \in ImGames, d \in ImDevices, a \in Actions : Resolved(LoadedMap(imFile), g)[d][a] \notin Reserved \cup {"inherit"}
    BY <1>l, ResolvedIsPlayable
  <1>1. ASSUME NEW p \in Owners, OpenEditor(p) \/ ChooseGame(p) PROVE ImInv'
    BY <1>1, <1>t, <1>l DEF OpenEditor, ChooseGame, ImInv, OnlyPlayableKeys
  <1>2. ASSUME NEW d \in ImDevices, ChooseDevice(d) PROVE ImInv'
    BY <1>2 DEF ChooseDevice, ImInv, OnlyPlayableKeys
  <1>3. CASE ChooseTab \/ BackOut \/ UNCHANGED imvars
    BY <1>3 DEF ChooseTab, BackOut, imvars, ImInv, OnlyPlayableKeys
  <1>4. CASE Close
    BY <1>4, <1>r DEF Close, ImInv, OnlyPlayableKeys
  <1>5. ASSUME NEW game \in ImGames, Launch(game) PROVE ImInv'
    BY <1>5, <1>r DEF Launch, ImInv, OnlyPlayableKeys
  <1>6. CASE LeaveEditor
    BY <1>6 DEF LeaveEditor, ImInv, OnlyPlayableKeys
  <1>7. ASSUME NEW action \in Actions, NEW text, Capture(action, text) PROVE ImInv'
    <2>1. text \in Valid(imProfile, "keyboard")
      BY <1>7, <1>t DEF Capture, Cleared, Valid
    <2>2. imConfig[imProfile][imDevice] \in TablesOf(imProfile)
      BY <1>t, ValidTexts DEF Configs, AllValid, TablesOf
    <2>3. [imConfig[imProfile][imDevice] EXCEPT ![action] = text] \in TablesOf(imProfile)
      BY <2>1, <2>2 DEF TablesOf
    <2> QED
      BY <1>7, <2>3, EditShown DEF Capture
  <1>8. CASE ResetDevice
    <2>1. Fallback(imProfile) \in TablesOf(imProfile)
      BY ValidTexts DEF Fallback, DefaultTable, Inherited, TablesOf
    <2> QED
      BY <1>8, <2>1, EditShown DEF ResetDevice
  <1>9. ASSUME NEW source \in Owners, CopyFrom(source) PROVE ImInv'
    <2>1. (IF source = "general" THEN Inherited ELSE imConfig[source][imDevice]) \in TablesOf(imProfile)
      <3>1. CASE source = "general"
        BY <1>9, <3>1, ValidTexts DEF CopyFrom, Inherited, TablesOf
      <3>2. CASE source # "general"
        <4>1. imConfig[source][imDevice] \in [Actions -> Texts]
          BY <1>t DEF Configs
        <4>2. ASSUME NEW a \in Actions PROVE imConfig[source][imDevice][a] \in Valid(imProfile, "keyboard")
          BY <1>t, <1>9, <3>2, ValidTexts DEF CopyFrom, AllValid
        <4> QED
          BY <3>2, <4>1, <4>2 DEF TablesOf
      <3> QED
        BY <3>1, <3>2
    <2> QED
      BY <1>9, <2>1, EditShown DEF CopyFrom
  <1> QED
    BY <1>1, <1>2, <1>3, <1>4, <1>5, <1>6, <1>7, <1>8, <1>9 DEF ImNext

LEMMA EditorShows == ImInv => EditorShowsTheFile /\ OnlyPlayableKeys
  BY DEF ImInv, EditorShowsTheFile

-----------------------------------------------------------------------------
(* The launcher's screens.                                                     *)

(* A strict total order. *)
Orders(R, S) ==
    /\ \A a \in S : << a, a >> \notin R
    /\ \A a, b \in S : a = b \/ << a, b >> \in R \/ << b, a >> \in R
    /\ \A a, b, c \in S : << a, b >> \in R /\ << b, c >> \in R => << a, c >> \in R

(* InOrder has the elements of a finite set and as many.                        *)
LEMMA InOrderOf ==
    ASSUME NEW S, IsFiniteSet(S), NEW R, Orders(R, S)
    PROVE  InOrder(S, R) \in [1..Cardinality(S) -> S] /\ Cardinality(S) \in Nat
  <1> DEFINE n == Cardinality(S)
             Down(x) == { y \in S : << y, x >> \in R }
             rank == [x \in S |-> Cardinality(Down(x)) + 1]
  <1>1. n \in Nat
    BY FS_CardinalityType
  <1>2. ASSUME NEW x \in S PROVE IsFiniteSet(Down(x)) /\ Cardinality(Down(x)) \in Nat /\ Cardinality(Down(x)) < n
    <2>1. Down(x) \in SUBSET S /\ x \notin Down(x)
      BY DEF Orders
    <2>2. IsFiniteSet(Down(x)) /\ Cardinality(Down(x)) <= n /\ (n = Cardinality(Down(x)) => S = Down(x))
      BY <2>1, FS_Subset
    <2>3. Cardinality(Down(x)) \in Nat
      BY <2>2, FS_CardinalityType
    <2> QED
      BY <1>1, <2>1, <2>2, <2>3
  <1>3. ASSUME NEW x \in S, NEW y \in S, << x, y >> \in R PROVE rank[x] # rank[y]
    <2>1. Down(x) \in SUBSET Down(y) /\ x \in Down(y) /\ x \notin Down(x)
      BY <1>3 DEF Orders
    <2>2. Cardinality(Down(y)) = Cardinality(Down(x)) => Down(y) = Down(x)
      BY <2>1, <1>2, FS_Subset
    <2>3. Cardinality(Down(y)) # Cardinality(Down(x))
      BY <2>1, <2>2
    <2>4. rank[x] = Cardinality(Down(x)) + 1 /\ rank[y] = Cardinality(Down(y)) + 1
      OBVIOUS
    <2>5. Cardinality(Down(x)) \in Int /\ Cardinality(Down(y)) \in Int
      BY <1>2
    <2> HIDE DEF Down, rank
    <2> QED
      BY <2>3, <2>4, <2>5
  <1>4. rank \in [S -> 1..n]
    <2>1. \A x \in S : Cardinality(Down(x)) + 1 \in 1..n
      <3> HIDE DEF Down, n
      <3> QED
        BY <1>1, <1>2
    <2> HIDE DEF Down, n
    <2> QED
      BY <2>1
  <1>5. \A x, y \in S : rank[x] = rank[y] => x = y
    <2> SUFFICES ASSUME NEW x \in S, NEW y \in S, x # y PROVE rank[x] # rank[y]
      OBVIOUS
    <2>1. << x, y >> \in R \/ << y, x >> \in R
      BY DEF Orders
    <2> HIDE DEF rank
    <2> QED
      BY <1>3, <2>1
  <1>6. rank \in Surjection(S, 1..n)
    <2>1. IsFiniteSet(1..n) /\ Cardinality(1..n) = n
      BY <1>1, FS_Interval
    <2> HIDE DEF rank
    <2>2. rank \in Injection(S, 1..n)
      BY <1>4, <1>5, Fun_IsInj
    <2> QED
      BY <2>1, <2>2, FS_Injection
  <1>7. ASSUME NEW i \in 1..n PROVE \E x \in S : Cardinality(Down(x)) = i - 1
    <2>1. PICK x \in S : rank[x] = i
      <3> HIDE DEF rank
      <3>1. \A t \in 1..n : \E x \in S : rank[x] = t
        BY <1>6, Fun_SurjectionProperties
      <3> QED
        BY <3>1
    <2>2. Cardinality(Down(x)) + 1 = i
      BY <2>1
    <2> HIDE DEF Down
    <2> QED
      BY <1>2, <2>2
  <1>8. InOrder(S, R) = [i \in 1..n |-> CHOOSE x \in S : Cardinality(Down(x)) = i - 1]
    BY DEF InOrder
  <1> HIDE DEF Down, rank, n
  <1> QED
    BY <1>1, <1>7, <1>8 DEF n

LEMMA LibraryIs ==
    /\ IsFiniteSet(DOMAIN LmLibrary) /\ DOMAIN LmLibrary \subseteq Nat \ {0}
    /\ \A g \in DOMAIN LmLibrary :
        /\ LmLibrary[g].mode \in {"none", "alternating", "simultaneous", "native_link"}
        /\ LmLibrary[g].board \in Nat /\ LmLibrary[g].publisher \in Nat /\ LmLibrary[g].plays \in Nat
  <1>1. DOMAIN LmLibrary = 1..Len(LmLibrary) /\ Len(LmLibrary) \in Nat
    <2>1. \A S : \A s \in Seq(S) : DOMAIN s = 1..Len(s) /\ Len(s) \in Nat
      OBVIOUS
    <2> QED
      BY <2>1, LauncherAssumption
  <1>2. IsFiniteSet(DOMAIN LmLibrary)
    BY <1>1, FS_Interval
  <1>3. \A g \in DOMAIN LmLibrary :
            LmLibrary[g] \in [mode : {"none", "alternating", "simultaneous", "native_link"}, peer : BOOLEAN,
                              board : Nat \ {0}, publisher : Nat, plays : Nat, works : BOOLEAN]
    <2>1. \A S : \A s \in Seq(S) : \A i \in DOMAIN s : s[i] \in S
      OBVIOUS
    <2> QED
      BY <2>1, LauncherAssumption
  <1> QED
    BY <1>1, <1>2, <1>3

(* Games in either order: as many as there are. *)
LEMMA SortedGames ==
    ASSUME NEW games \in SUBSET DOMAIN LmLibrary, NEW sort
    PROVE  /\ Sorted(games, sort) \in Seq(games)
           /\ games # {} => Len(Sorted(games, sort)) >= 1
           /\ Sorted(games, sort) = << >> => games = {}
  <1> DEFINE R == {p \in games \X games : Before(sort, p[1], p[2])}
  <1>1. IsFiniteSet(games) /\ games \subseteq Nat
    BY LibraryIs, FS_Subset
  <1>2. \A a, b \in games : << a, b >> \in R <=> Before(sort, a, b)
    OBVIOUS
  <1>3. \A g \in games : LmLibrary[g].plays \in Nat
    BY LibraryIs
  <1>4. Orders(R, games)
    <2> HIDE DEF R
    <2> QED
      BY <1>1, <1>2, <1>3 DEF Orders, Before
  <1>5. Sorted(games, sort) = InOrder(games, R)
    BY DEF Sorted
  <1> HIDE DEF R
  <1>6. Sorted(games, sort) \in [1..Cardinality(games) -> games] /\ Cardinality(games) \in Nat
    BY <1>1, <1>4, <1>5, InOrderOf
  <1>7. games # {} => Cardinality(games) # 0
    BY <1>1, FS_EmptySet
  <1>8. Sorted(games, sort) \in Seq(games) /\ Len(Sorted(games, sort)) = Cardinality(games)
    BY <1>6
  <1> QED
    BY <1>6, <1>7, <1>8

LEMMA PageKeysAre ==
    ASSUME NEW shelf \in SUBSET DOMAIN LmLibrary, NEW style, NEW pages
    PROVE  /\ Len(PageKeys(shelf, style, pages)) \in Nat
           /\ \A i \in 1..Len(PageKeys(shelf, style, pages)) :
                \E g \in Counted(shelf, style) : PageOf(g, pages) = PageKeys(shelf, style, pages)[i]
  <1> DEFINE keys == {PageOf(g, pages) : g \in Counted(shelf, style)} \ {0}
  <1>1. IsFiniteSet(Counted(shelf, style)) /\ Counted(shelf, style) \subseteq DOMAIN LmLibrary
    BY LibraryIs, FS_Subset DEF Counted
  <1>2. IsFiniteSet(keys)
    <2> DEFINE all == {PageOf(g, pages) : g \in Counted(shelf, style)}
               f == [g \in Counted(shelf, style) |-> PageOf(g, pages)]
    <2>1. f \in Surjection(Counted(shelf, style), all)
      <3>1. f \in [Counted(shelf, style) -> all]
        OBVIOUS
      <3>2. \A k \in all : \E g \in Counted(shelf, style) : f[g] = k
        OBVIOUS
      <3> HIDE DEF f, all
      <3> QED
        BY <3>1, <3>2, Fun_IsSurj
    <2>2. IsFiniteSet(all)
      <3> HIDE DEF f, all
      <3> QED
        BY <1>1, <2>1, FS_Surjection
    <2>3. keys \in SUBSET all
      OBVIOUS
    <2> HIDE DEF f, all, keys
    <2> QED
      BY <2>2, <2>3, FS_Subset
  <1>3. keys \subseteq Nat
    BY <1>1, LibraryIs DEF PageOf
  <1>4. Orders(Less(keys), keys)
    <2>1. \A a, b \in keys : << a, b >> \in Less(keys) <=> a < b
      BY DEF Less
    <2> HIDE DEF keys
    <2> QED
      BY <1>3, <2>1 DEF Orders
  <1>5. PageKeys(shelf, style, pages) = InOrder(keys, Less(keys))
    BY DEF PageKeys
  <1>6. \A k \in keys : \E g \in Counted(shelf, style) : PageOf(g, pages) = k
    OBVIOUS
  <1> HIDE DEF keys
  <1>7. PageKeys(shelf, style, pages) \in [1..Cardinality(keys) -> keys] /\ Cardinality(keys) \in Nat
    BY <1>2, <1>4, <1>5, InOrderOf
  <1>8. PageKeys(shelf, style, pages) \in Seq(keys)
    BY <1>7
  <1> QED
    BY <1>6, <1>8

ForTwo(g) == TwoScreens(g) \/ SystemLink(g)
Shelf == SUBSET DOMAIN LmLibrary
IsView(v) ==
    /\ v = [style |-> v.style, sort |-> v.sort, pages |-> v.pages, page |-> v.page, remembered |-> v.remembered]
    /\ v.page \in Int /\ v.remembered \in Int
IsList(list) ==
    /\ list = [rows |-> list.rows, blocked |-> list.blocked, at |-> list.at, first |-> list.first]
    /\ Sequence(list.rows) /\ list.at \in Int /\ list.first \in Nat
IsPeer(peer) ==
    /\ peer = [up |-> peer.up, node |-> peer.node, launch |-> peer.launch, known |-> peer.known]
    /\ peer.launch # 0 => ForTwo(peer.launch)
LmTypes ==
    /\ lmShelf \in Shelf /\ IsView(lmView) /\ IsPeer(lmPeer) /\ IsList(lmList)
    /\ lmScreen # "column" => lmList.at \in 0..(Len(lmList.rows) - 1)

(* A way that the game has, the one with the other machine included.           *)
WayOf(way, g) ==
    /\ way = "two" => Shared(g)
    /\ way = "twin" => TwoScreens(g)
    /\ way = "cabinets" => SystemLink(g)
(* What a screen offers fits, whatever has come and gone since it was drawn.   *)
LmOffers ==
    /\ lmScreen = "grid" =>
        \A i \in 1..Len(lmList.rows) : lmList.rows[i] \in lmShelf /\ MatchesPlayStyle(lmList.rows[i], lmView.style)
    /\ lmScreen = "how" => ForTwo(lmGame) /\ \A i \in 1..(Len(lmList.rows) - 1) : WayOf(lmList.rows[i], lmGame)
    /\ lmScreen = "twin" => TwoScreens(lmGame)
    /\ lmScreen = "cabinets" => SystemLink(lmGame)
    /\ lmScreen = "linked" => \A i \in 1..(Len(lmList.rows) - 1) : ForTwo(lmList.rows[i])
    /\ lmScreen \in {"grid", "how"} => ~lmEmpty
LmFits == LmTypes /\ LmOffers /\ WayFits /\ NoEmptyPage

-----------------------------------------------------------------------------
(* Lists.                                                                      *)
LEMMA ListIs ==
    ASSUME NEW items, Sequence(items), NEW blocked
    PROVE  LET list == ListOf(items, blocked)
           IN  /\ IsList(list) /\ list.at \in 0..(Len(list.rows) - 1) /\ Len(list.rows) - 1 = Len(items)
               /\ \A i \in 1..Len(items) : list.rows[i] = items[i]
  <1>1. PICK S : items \in Seq(S)
    BY DEF Sequence
  <1>2. items \in Seq(S \cup {"Back"})
    BY <1>1
  <1>3. PICK rows : rows = Append(items, "Back")
    OBVIOUS
  <1>4. /\ rows \in Seq(S \cup {"Back"}) /\ Len(rows) = Len(items) + 1 /\ Len(items) \in Nat
        /\ \A i \in 1..Len(items) : rows[i] = items[i]
    BY <1>2, <1>3
  <1>5. Sequence(rows)
    BY <1>4 DEF Sequence
  <1> QED
    BY <1>3, <1>4, <1>5 DEF ListOf, IsList

LEMMA InSight ==
    ASSUME NEW first \in Int, NEW row \in Int, NEW rows \in Int, NEW visible \in Nat \ {0}
    PROVE  Scrolled(first, row, rows, visible) \in Nat
  BY DEF Scrolled, Clamped

LEMMA GridIs ==
    ASSUME NEW S, NEW cards \in Seq(S), NEW at \in Int
    PROVE  LET grid == GridOf(cards, at)
           IN  /\ IsList(grid) /\ grid.rows = cards
               /\ Len(cards) >= 1 => grid.at \in 0..(Len(cards) - 1)
  <1>1. PICK n, cursor : n = Len(cards) /\ cursor = Clamped(at, 0, Len(cards) - 1)
    OBVIOUS
  <1>2. n \in Nat /\ cursor \in Int /\ (n >= 1 => cursor \in 0..(n - 1))
    BY <1>1 DEF Clamped
  <1>3. LmColumns \in Nat \ {0} /\ LmRows \in Nat \ {0}
    BY LauncherAssumption
  <1>4. PICK row, rows : row = cursor \div LmColumns /\ rows = (n + LmColumns - 1) \div LmColumns
    OBVIOUS
  <1>5. row \in Int /\ rows \in Int /\ 0 \in Int
    BY <1>2, <1>3, <1>4
  <1>7. Scrolled(0, row, rows, LmRows) \in Nat
    BY <1>3, <1>5, InSight
  <1>6. Sequence(cards)
    BY DEF Sequence
  <1> QED
    BY <1>1, <1>2, <1>4, <1>7, <1>6 DEF GridOf, IsList

LEMMA MovedIs ==
    ASSUME LmTypes, NEW at \in Int
    PROVE  IsList(MovedTo(at)) /\ MovedTo(at).rows = lmList.rows /\ MovedTo(at).at = at
  <1>1. PICK n : n = Len(lmList.rows)
    OBVIOUS
  <1>2. n \in Nat
    BY <1>1 DEF LmTypes, IsList, Sequence
  <1>3. Columns \in Nat \ {0} /\ Visible \in Nat \ {0}
    BY LauncherAssumption DEF Columns, Visible
  <1>4. at \div Columns \in Int /\ (n + Columns - 1) \div Columns \in Int /\ lmList.first \in Int
    BY <1>2, <1>3 DEF LmTypes, IsList
  <1>5. Scrolled(lmList.first, at \div Columns, (n + Columns - 1) \div Columns, Visible) \in Nat
    BY <1>3, <1>4, InSight
  <1>6. PICK first : first = Scrolled(lmList.first, at \div Columns, (n + Columns - 1) \div Columns, Visible)
    OBVIOUS
  <1>7. MovedTo(at) = [lmList EXCEPT !.at = at, !.first = first]
    BY <1>1, <1>6 DEF MovedTo, GridLines
  <1>8. MovedTo(at) = [rows |-> lmList.rows, blocked |-> lmList.blocked, at |-> at, first |-> first]
    BY <1>7 DEF LmTypes, IsList
  <1> QED
    BY <1>5, <1>6, <1>8 DEF LmTypes, IsList

-----------------------------------------------------------------------------
(* The browser.                                                                *)
LEMMA LapIs ==
    ASSUME NEW shelf \in Shelf, NEW view, IsView(view), NEW style
    PROVE  LET v == Lap(shelf, view, style)
           IN  /\ IsView(v) /\ v.style = view.style
               /\ v.pages # "none" => v.page + 1 \in 1..Len(PageKeys(shelf, style, v.pages))
  <1>1. PICK count : count = Len(PageKeys(shelf, style, view.pages))
    OBVIOUS
  <1>2. count \in Nat
    BY <1>1, PageKeysAre DEF Shelf
  <1>3. CASE view.pages = "none"
    BY <1>3 DEF Lap
  <1>4. CASE view.pages # "none" /\ count = 0
    BY <1>1, <1>4 DEF Lap, IsView
  <1>5. CASE view.pages # "none" /\ count # 0
    <2>1. Lap(shelf, view, style) = [view EXCEPT !.page = view.page % count]
      BY <1>1, <1>5 DEF Lap
    <2>2. view.page % count \in 0..(count - 1)
      BY <1>2, <1>5 DEF IsView
    <2> QED
      BY <1>1, <1>2, <2>1, <2>2 DEF IsView
  <1> QED
    BY <1>3, <1>4, <1>5

LEMMA CardsAre ==
    ASSUME NEW shelf \in Shelf, NEW v, NEW style,
           v.pages # "none" => v.page + 1 \in 1..Len(PageKeys(shelf, style, v.pages))
    PROVE  /\ Cards(shelf, v, style) \in Seq({g \in shelf : MatchesPlayStyle(g, style)})
           /\ Cards(shelf, v, style) = << >> => \A g \in shelf : ~MatchesPlayStyle(g, style)
           /\ Cards(shelf, v, style) # << >> => Len(Cards(shelf, v, style)) >= 1
  <1> DEFINE page == {g \in shelf : OnPage(g, shelf, v, style)}
  <1>1. page \in SUBSET DOMAIN LmLibrary /\ page \subseteq {g \in shelf : MatchesPlayStyle(g, style)}
    BY DEF Shelf, OnPage
  <1>2. Cards(shelf, v, style) = Sorted(page, v.sort)
    BY DEF Cards
  <1>3. page = {} => \A g \in shelf : ~MatchesPlayStyle(g, style)
    <2> SUFFICES ASSUME NEW g \in shelf, MatchesPlayStyle(g, style) PROVE page # {}
      OBVIOUS
    <2>1. CASE v.pages = "none"
      BY <2>1 DEF OnPage
    <2>2. CASE v.pages # "none"
      <3>1. PICK h \in Counted(shelf, style) :
                PageOf(h, v.pages) = PageKeys(shelf, style, v.pages)[v.page + 1]
        BY <2>2, PageKeysAre DEF Shelf
      <3>2. h \in page
        BY <3>1 DEF OnPage, Counted
      <3> QED
        BY <3>2
    <2> QED
      BY <2>1, <2>2
  <1> HIDE DEF page
  <1>4. /\ Sorted(page, v.sort) \in Seq(page)
        /\ page # {} => Len(Sorted(page, v.sort)) >= 1
        /\ Sorted(page, v.sort) = << >> => page = {}
    BY <1>1, SortedGames
  <1>5. Sorted(page, v.sort) \in Seq({g \in shelf : MatchesPlayStyle(g, style)})
    BY <1>1, <1>4
  <1>6. page = {} => Sorted(page, v.sort) = << >>
    BY <1>4
  <1> QED
    BY <1>2, <1>3, <1>4, <1>5, <1>6

(* The screens a step may end on.                                              *)

LEMMA Tuples ==
    ASSUME NEW a, NEW b, NEW c, NEW d, NEW e
    PROVE  /\ Sequence(<< a >>) /\ Sequence(<< a, b >>) /\ Sequence(<< a, b, c >>)
           /\ Sequence(<< a, b, c, d >>) /\ Sequence(<< a, b, c, d, e >>)
  <1> DEFINE S == {a, b, c, d, e}
  <1>1. << a >> \in Seq(S)
    OBVIOUS
  <1>2. << a, b >> \in Seq(S)
    OBVIOUS
  <1>3. << a, b, c >> \in Seq(S)
    OBVIOUS
  <1>4. << a, b, c, d >> \in Seq(S)
    OBVIOUS
  <1>5. << a, b, c, d, e >> \in Seq(S)
    OBVIOUS
  <1> HIDE DEF S
  <1> QED
    BY <1>1, <1>2, <1>3, <1>4, <1>5 DEF Sequence

(* A step that shows a list of no consequence, and starts nothing.             *)
Plain == {"system", "text", "message", "notice", "view", "style", "columns", "finding", "waiting", "kinds"}
LEMMA PlainFits ==
    ASSUME LmFits, NEW screen \in Plain, NEW items, Sequence(items), NEW blocked,
           ShowScreen(screen, ListOf(items, blocked)), lmShelf' = lmShelf, IsView(lmView'),
           lmView'.style = lmView.style, lmEmpty' \in {lmEmpty, FALSE}, lmStarted' = lmStarted, IsPeer(lmPeer')
    PROVE  LmFits'
  <1>1. LmTypes'
    BY ListIs DEF ShowScreen, LmFits, LmTypes, Plain
  <1>2. LmOffers'
    BY DEF ShowScreen, LmOffers, Plain
  <1>3. WayFits'
    BY DEF LmFits, WayFits, Shared, TwoScreens, SystemLink
  <1>4. NoEmptyPage'
    <2>1. CASE lmEmpty' = FALSE
      BY <2>1 DEF NoEmptyPage
    <2>2. CASE lmEmpty' = lmEmpty
      BY <2>2 DEF LmFits, NoEmptyPage, MatchesPlayStyle, Shared, TwoScreens, SystemLink
    <2> QED
      BY <2>1, <2>2
  <1> QED
    BY <1>1, <1>2, <1>3, <1>4 DEF LmFits

LEMMA FreshIs == ASSUME NEW style PROVE IsView(FreshView(style)) /\ FreshView(style).style = style
  BY DEF FreshView, IsView

LEMMA StartFits ==
    ASSUME LmFits, NEW game, NEW how, NEW node, NEW monitors, Started(game, how, node, monitors),
           WayOf(how, game), how = "linked_network" => ForTwo(game), lmShelf' = lmShelf, IsPeer(lmPeer')
    PROVE  LmFits'
  <1>1. lmStarted' = [game |-> game, how |-> how, node |-> node, monitors |-> monitors, wall |-> << >>]
    BY DEF Started, NoStart
  <1>2. lmScreen' = "gone" /\ lmList' = ListOf(<< >>, {}) /\ lmView' = FreshView(0) /\ lmEmpty' = FALSE
    BY DEF Started, ShowScreen
  <1>3. LmTypes'
    BY <1>2, ListIs, EmptySequence, FreshIs DEF LmFits, LmTypes
  <1>4. LmOffers' /\ NoEmptyPage'
    BY <1>2 DEF LmOffers, NoEmptyPage
  <1>5. WayFits'
    BY <1>1 DEF WayFits, WayOf, ForTwo, Shared, TwoScreens, SystemLink
  <1> QED
    BY <1>3, <1>4, <1>5 DEF LmFits

LEMMA BrowseFits ==
    ASSUME LmFits, NEW view, IsView(view), lmShelf' \in Shelf, Browse(lmShelf', view),
           lmStarted' \in {lmStarted, NoStart}, IsPeer(lmPeer')
    PROVE  LmFits'
  <1>1. PICK shelf, v, cards : shelf = lmShelf' /\ v = Lap(shelf, view, view.style) /\ cards = Cards(shelf, v, v.style)
    OBVIOUS
  <1>2. /\ IsView(v) /\ v.style = view.style
        /\ v.pages # "none" => v.page + 1 \in 1..Len(PageKeys(shelf, v.style, v.pages))
    <2>1. shelf \in Shelf /\ IsView(view)
      BY <1>1
    <2>2. LET u == Lap(shelf, view, view.style)
          IN  /\ IsView(u) /\ u.style = view.style
              /\ u.pages # "none" => u.page + 1 \in 1..Len(PageKeys(shelf, view.style, u.pages))
      BY <2>1, LapIs
    <2> QED
      BY <1>1, <2>2
  <1>3. /\ cards \in Seq({g \in shelf : MatchesPlayStyle(g, v.style)})
        /\ cards = << >> => \A g \in shelf : ~MatchesPlayStyle(g, v.style)
        /\ cards # << >> => Len(cards) >= 1
    <2>1. shelf \in Shelf
      BY <1>1
    <2> QED
      BY <1>1, <1>2, <2>1, CardsAre
  <1>4. /\ lmEmpty' = (cards = << >>)
        /\ IF cards = << >>
           THEN lmScreen' = "system" /\ lmList' = ListOf(SystemPages, {}) /\ lmView' = FreshView(v.style)
           ELSE lmScreen' = "grid" /\ lmList' = GridOf(cards, v.remembered) /\ lmView' = v
    BY <1>1 DEF Browse, ShowList, ShowScreen
  <1>5. WayFits'
    BY DEF LmFits, WayFits, NoStart, Shared, TwoScreens, SystemLink
  <1>6. CASE cards = << >>
    <2>1. Sequence(SystemPages)
      BY Tuples DEF SystemPages
    <2>2. LmTypes'
      BY <1>4, <1>6, <2>1, ListIs, FreshIs DEF LmTypes
    <2>3. LmOffers'
      BY <1>4, <1>6 DEF LmOffers
    <2>4. NoEmptyPage'
      BY <1>1, <1>3, <1>4, <1>6, FreshIs DEF NoEmptyPage, MatchesPlayStyle
    <2> QED
      BY <1>5, <2>2, <2>3, <2>4 DEF LmFits
  <1>7. CASE cards # << >>
    <2>1. v.remembered \in Int
      BY <1>2 DEF IsView
    <2>2. IsList(lmList') /\ lmList'.rows = cards /\ lmList'.at \in 0..(Len(cards) - 1)
      BY <1>3, <1>4, <1>7, <2>1, GridIs
    <2>3. LmTypes'
      BY <1>2, <1>4, <1>7, <2>2 DEF LmTypes
    <2>4. \A i \in 1..Len(cards) : cards[i] \in {g \in shelf : MatchesPlayStyle(g, v.style)}
      BY <1>3
    <2>5. LmOffers'
      BY <1>1, <1>4, <1>7, <2>2, <2>4 DEF LmOffers, MatchesPlayStyle
    <2> QED
      BY <1>4, <1>5, <1>7, <2>3, <2>5 DEF LmFits, NoEmptyPage
  <1> QED
    BY <1>6, <1>7

LEMMA SelectorFits ==
    ASSUME LmFits, NEW style, NEW shelf \in Shelf, lmShelf' = shelf, SelectorLap(shelf, style, lmPeer),
           lmStarted' \in {lmStarted, NoStart}
    PROVE  LmFits'
  <1>1. Browse(lmShelf', FreshView(style)) /\ lmShelf' \in Shelf
    BY DEF SelectorLap
  <1>2. IsPeer(lmPeer')
    BY DEF SelectorLap, LmFits, LmTypes, IsPeer
  <1> QED
    BY <1>1, <1>2, FreshIs, BrowseFits

LEMMA ColumnFits ==
    ASSUME LmFits, NEW view, IsView(view), NEW picked, NEW wanted, BrowseColumn(view, picked, wanted),
           lmShelf' = lmShelf, lmStarted' = lmStarted, lmPeer' = lmPeer
    PROVE  LmFits'
  <1>1. PICK v, cards : v = Lap(lmShelf, view, 0) /\ cards = Cards(lmShelf, v, 0)
    OBVIOUS
  <1>2. lmShelf \in Shelf
    BY DEF LmFits, LmTypes
  <1>3. /\ IsView(v)
        /\ v.pages # "none" => v.page + 1 \in 1..Len(PageKeys(lmShelf, 0, v.pages))
    BY <1>1, <1>2, LapIs
  <1>4. cards \in Seq({g \in lmShelf : MatchesPlayStyle(g, 0)})
    BY <1>1, <1>2, <1>3, CardsAre
  <1>5. /\ lmScreen' = "column" /\ lmList' = GridOf(cards, v.remembered) /\ lmEmpty' = lmEmpty
        /\ lmView' = [v EXCEPT !.style = lmView.style]
    BY <1>1 DEF BrowseColumn, ShowScreen
  <1>6. IsView(lmView') /\ lmView'.style = lmView.style
    BY <1>3, <1>5 DEF IsView
  <1>7. IsList(lmList')
    <2>1. v.remembered \in Int
      BY <1>3 DEF IsView
    <2> QED
      BY <1>4, <1>5, <2>1, GridIs
  <1>8. LmTypes'
    BY <1>2, <1>5, <1>6, <1>7 DEF LmFits, LmTypes, IsPeer, ForTwo, TwoScreens, SystemLink, Shared
  <1>9. LmOffers'
    BY <1>5 DEF LmOffers
  <1>10. WayFits' /\ NoEmptyPage'
    BY <1>5, <1>6 DEF LmFits, WayFits, NoEmptyPage, MatchesPlayStyle, Shared, TwoScreens, SystemLink
  <1> QED
    BY <1>8, <1>9, <1>10 DEF LmFits

LEMMA LappedFits ==
    ASSUME LmFits, NEW view, IsView(view), Lapped(view), lmShelf' = lmShelf, lmStarted' = lmStarted, lmPeer' = lmPeer
    PROVE  LmFits'
  <1>1. lmShelf' \in Shelf /\ IsPeer(lmPeer')
    BY DEF LmFits, LmTypes, IsPeer
  <1>2. CASE lmWall.wanted > 0
    BY <1>2, ColumnFits DEF Lapped
  <1>3. CASE ~(lmWall.wanted > 0)
    BY <1>1, <1>3, BrowseFits DEF Lapped
  <1> QED
    BY <1>2, <1>3

(* A step that leaves the screen as it is. *)
LEMMA QuietFits ==
    ASSUME LmFits, IsPeer(lmPeer'), UNCHANGED << lmShelf, lmView, lmScreen, lmList, lmGame, lmEmpty, lmStarted >>
    PROVE  LmFits'
  <1>1. LmTypes'
    BY DEF LmFits, LmTypes
  <1>2. LmOffers'
    BY DEF LmFits, LmOffers, MatchesPlayStyle, ForTwo, WayOf, Shared, TwoScreens, SystemLink
  <1>3. WayFits' /\ NoEmptyPage'
    BY DEF LmFits, WayFits, NoEmptyPage, MatchesPlayStyle, Shared, TwoScreens, SystemLink
  <1> QED
    BY <1>1, <1>2, <1>3 DEF LmFits

LEMMA MoveFits ==
    ASSUME LmFits, NEW at \in Int, lmScreen # "column" => at \in 0..(Len(lmList.rows) - 1), lmList' = MovedTo(at),
           UNCHANGED << lmShelf, lmView, lmScreen, lmGame, lmPeer, lmEmpty, lmStarted >>
    PROVE  LmFits'
  <1>1. IsList(lmList') /\ lmList'.rows = lmList.rows /\ lmList'.at = at
    BY MovedIs DEF LmFits
  <1>2. LmTypes'
    BY <1>1 DEF LmFits, LmTypes, IsPeer, ForTwo, Shared, TwoScreens, SystemLink
  <1>3. LmOffers'
    BY <1>1 DEF LmFits, LmOffers, MatchesPlayStyle, ForTwo, WayOf, Shared, TwoScreens, SystemLink
  <1>4. WayFits' /\ NoEmptyPage'
    BY DEF LmFits, WayFits, NoEmptyPage, MatchesPlayStyle, Shared, TwoScreens, SystemLink
  <1> QED
    BY <1>2, <1>3, <1>4 DEF LmFits

LEMMA PeerStays == ASSUME LmFits, lmPeer' = lmPeer PROVE IsPeer(lmPeer')
  BY DEF LmFits, LmTypes, IsPeer, ForTwo, Shared, TwoScreens, SystemLink
LEMMA PeerTaken == ASSUME LmFits, lmPeer' = Taken PROVE IsPeer(lmPeer')
  BY DEF LmFits, LmTypes, IsPeer, Taken

(* What is under the cursor of a screen other than a column's. *)
LEMMA CursorIs ==
    ASSUME LmFits, lmScreen # "column"
    PROVE  /\ lmList.at \in Int /\ lmList.at + 1 \in 1..Len(lmList.rows) /\ Len(lmList.rows) \in Nat
           /\ lmList.at < Len(lmList.rows) - 1 => lmList.at + 1 \in 1..(Len(lmList.rows) - 1)
  <1>1. Len(lmList.rows) \in Nat
    BY DEF LmFits, LmTypes, IsList, Sequence
  <1> QED
    BY <1>1 DEF LmFits, LmTypes

LEMMA WaysAre ==
    ASSUME NEW g, NEW up
    PROVE  Ways(g, up) \in Seq({way \in {"single", "two", "twin", "cabinets", "other"} : WayOf(way, g)})
  <1> DEFINE W == {way \in {"single", "two", "twin", "cabinets", "other"} : WayOf(way, g)}
  <1>1. /\ "single" \in W /\ "other" \in W
        /\ (Shared(g) => "two" \in W) /\ (TwoScreens(g) => "twin" \in W) /\ (SystemLink(g) => "cabinets" \in W)
    BY DEF WayOf
  <1> HIDE DEF W
  <1>2. << "single" >> \in Seq(W) /\ (IF Shared(g) THEN << "two" >> ELSE << >>) \in Seq(W)
    BY <1>1
  <1>3. (IF TwoScreens(g) THEN << "twin" >> ELSE << >>) \in Seq(W)
    BY <1>1
  <1>4. (IF SystemLink(g) THEN << "cabinets" >> ELSE << >>) \in Seq(W)
    BY <1>1
  <1>5. (IF up THEN << "other" >> ELSE << >>) \in Seq(W)
    BY <1>1
  <1> QED
    BY <1>2, <1>3, <1>4, <1>5 DEF Ways, W

LEMMA HowFits ==
    ASSUME LmFits, NEW g, ForTwo(g), AskHow(g), ~lmEmpty, lmEmpty' = lmEmpty, lmShelf' = lmShelf, lmStarted' = lmStarted
    PROVE  LmFits'
  <1>1. PICK ways : ways = Ways(g, lmPeer.up)
    OBVIOUS
  <1>2. ways \in Seq({way \in {"single", "two", "twin", "cabinets", "other"} : WayOf(way, g)})
    BY <1>1, WaysAre
  <1>3. Sequence(ways) /\ \A i \in 1..Len(ways) : WayOf(ways[i], g)
    BY <1>2 DEF Sequence
  <1>4. lmScreen' = "how" /\ lmList' = ListOf(ways, {}) /\ lmGame' = g /\ lmView' = FreshView(lmView.style)
    BY <1>1 DEF AskHow, ShowList, ShowScreen, BrowserEnds
  <1>5. /\ IsList(lmList') /\ lmList'.at \in 0..(Len(lmList'.rows) - 1) /\ Len(lmList'.rows) - 1 = Len(ways)
        /\ \A i \in 1..Len(ways) : lmList'.rows[i] = ways[i]
    BY <1>3, <1>4, ListIs
  <1>6. IsPeer(lmPeer')
    BY DEF AskHow, LmFits, LmTypes, IsPeer
  <1>7. LmTypes'
    BY <1>4, <1>5, <1>6, FreshIs DEF LmFits, LmTypes
  <1>8. LmOffers'
    BY <1>3, <1>4, <1>5 DEF LmOffers, ForTwo, WayOf, Shared, TwoScreens, SystemLink
  <1>9. WayFits' /\ NoEmptyPage'
    BY DEF LmFits, WayFits, NoEmptyPage, Shared, TwoScreens, SystemLink
  <1> QED
    BY <1>7, <1>8, <1>9 DEF LmFits

LEMMA PairFits ==
    ASSUME LmFits, NEW screen, AskScreens(screen), IsView(lmView'), ~lmEmpty, lmEmpty' = lmEmpty,
           (screen = "twin" /\ TwoScreens(lmGame')) \/ (screen = "cabinets" /\ SystemLink(lmGame')),
           lmShelf' = lmShelf, lmStarted' = lmStarted, lmPeer' = lmPeer
    PROVE  LmFits'
  <1>1. PICK blocked : ShowScreen(screen, ListOf(<< "one", "monitors" >>, blocked))
    BY DEF AskScreens
  <1>2. IsList(lmList') /\ lmList'.at \in 0..(Len(lmList'.rows) - 1)
    BY <1>1, Tuples, ListIs DEF ShowScreen
  <1>3. LmTypes'
    BY <1>2, PeerStays DEF LmFits, LmTypes
  <1>4. LmOffers'
    BY <1>1 DEF LmOffers, ShowScreen, Shared, TwoScreens, SystemLink
  <1>5. WayFits' /\ NoEmptyPage'
    BY DEF LmFits, WayFits, NoEmptyPage, Shared, TwoScreens, SystemLink
  <1> QED
    BY <1>3, <1>4, <1>5 DEF LmFits

LEMMA NetworkScreenFits ==
    ASSUME LmFits, NetworkScreen(lmPeer), UNCHANGED << lmShelf, lmPeer, lmView, lmGame, lmWall, lmEmpty, lmStarted >>
    PROVE  LmFits'
  <1>1. IsPeer(lmPeer') /\ IsView(lmView') /\ lmView'.style = lmView.style
    BY PeerStays DEF LmFits, LmTypes, IsView
  <1>2. CASE ~lmPeer.up
    BY <1>1, <1>2, Tuples, PlainFits DEF NetworkScreen, ShowList, Plain
  <1>3. CASE lmPeer.up /\ lmPeer.node = 2
    BY <1>1, <1>3, Tuples, PlainFits DEF NetworkScreen, ShowList, Plain
  <1>4. CASE lmPeer.up /\ lmPeer.node # 2
    BY <1>1, <1>4, Tuples, PlainFits DEF NetworkScreen, ShowList, Plain
  <1> QED
    BY <1>2, <1>3, <1>4

LEMMA FollowFits ==
    ASSUME LmFits, Follow, lmPeer.launch \in lmShelf, lmShelf' = lmShelf
    PROVE  LmFits'
  <1>1. lmPeer.launch # 0
    BY LibraryIs DEF LmFits, LmTypes, Shelf
  <1>2. ForTwo(lmPeer.launch)
    BY <1>1 DEF LmFits, LmTypes, IsPeer
  <1>3. Started(lmPeer.launch, "linked_network", 2, FALSE) /\ IsPeer(lmPeer')
    BY PeerTaken DEF Follow
  <1>4. WayOf("linked_network", lmPeer.launch)
    BY DEF WayOf
  <1> QED
    BY <1>2, <1>3, <1>4, StartFits

LEMMA NetworkFits ==
    ASSUME LmFits, NetworkLap, lmShelf' = lmShelf
    PROVE  LmFits'
  <1>1. CASE lmPeer.launch = 0
    BY <1>1, NetworkScreenFits DEF NetworkLap
  <1>2. CASE lmPeer.launch # 0 /\ lmPeer.launch \in lmShelf
    BY <1>2, FollowFits DEF NetworkLap
  <1>3. CASE lmPeer.launch # 0 /\ lmPeer.launch \notin lmShelf
    <2>1. /\ ShowScreen("notice", ListOf(<< >>, {})) /\ lmPeer' = Taken
          /\ UNCHANGED << lmView, lmGame, lmWall, lmEmpty, lmStarted >>
      BY <1>3 DEF NetworkLap, ShowList
    <2>2. IsPeer(lmPeer') /\ IsView(lmView') /\ lmView'.style = lmView.style
      BY <2>1, PeerTaken DEF LmFits, LmTypes, IsView
    <2> QED
      BY <2>1, <2>2, EmptySequence, PlainFits DEF Plain
  <1> QED
    BY <1>1, <1>2, <1>3

LEMMA SequenceConcat ==
    ASSUME NEW s, Sequence(s), NEW t, Sequence(t)
    PROVE  Sequence(s \o t)
  <1>1. PICK S, T : s \in Seq(S) /\ t \in Seq(T)
    BY DEF Sequence
  <1>2. s \in Seq(S \cup T) /\ t \in Seq(S \cup T)
    BY <1>1
  <1>3. s \o t \in Seq(S \cup T)
    BY <1>2
  <1> QED
    BY <1>3 DEF Sequence

LEMMA LinkedFits ==
    ASSUME LmFits, PickKind
    PROVE  LmFits'
  <1>1. PICK kind : kind = UnderCursor
    OBVIOUS
  <1>2. PICK cards : cards = Sorted(Linkable(kind), "label")
    OBVIOUS
  <1>3. /\ ShowScreen("linked", ListOf(cards, {}))
        /\ UNCHANGED << lmShelf, lmView, lmGame, lmWall, lmPeer, lmEmpty, lmStarted >>
    BY <1>1, <1>2 DEF PickKind, ShowList
  <1>4. Linkable(kind) \in SUBSET DOMAIN LmLibrary /\ \A g \in Linkable(kind) : ForTwo(g)
    BY DEF Linkable, LmFits, LmTypes, Shelf, ForTwo
  <1>5. cards \in Seq(Linkable(kind))
    BY <1>2, <1>4, SortedGames
  <1>6. Sequence(cards) /\ \A i \in 1..Len(cards) : ForTwo(cards[i])
    BY <1>4, <1>5 DEF Sequence
  <1>7. /\ IsList(lmList') /\ lmList'.at \in 0..(Len(lmList'.rows) - 1) /\ Len(lmList'.rows) - 1 = Len(cards)
        /\ \A i \in 1..Len(cards) : lmList'.rows[i] = cards[i]
    BY <1>3, <1>6, ListIs DEF ShowScreen
  <1>8. LmTypes'
    BY <1>3, <1>7, PeerStays DEF LmFits, LmTypes
  <1>9. LmOffers'
    BY <1>3, <1>6, <1>7 DEF LmOffers, ShowScreen, ForTwo, Shared, TwoScreens, SystemLink
  <1>10. WayFits' /\ NoEmptyPage'
    BY <1>3 DEF LmFits, WayFits, NoEmptyPage, MatchesPlayStyle, Shared, TwoScreens, SystemLink
  <1> QED
    BY <1>8, <1>9, <1>10 DEF LmFits

LEMMA CardFits ==
    ASSUME LmFits, PickCard
    PROVE  LmFits'
  <1>1. PICK card : card = UnderCursor
    OBVIOUS
  <1>2. lmScreen = "grid" /\ card \in lmShelf /\ MatchesPlayStyle(card, lmView.style) /\ ~lmEmpty
    BY <1>1, CursorIs DEF PickCard, UnderCursor, LmFits, LmOffers
  <1>3. lmShelf' = lmShelf /\ lmList.at \in Int /\ IsView(lmView)
    BY CursorIs DEF PickCard, LmFits, LmTypes
  <1>4. CASE /\ ShowList("text", << >>) /\ lmView' = [lmView EXCEPT !.remembered = lmList.at]
             /\ UNCHANGED << lmGame, lmWall, lmPeer, lmEmpty, lmStarted >>
    <2>1. IsView(lmView') /\ lmView'.style = lmView.style
      BY <1>3, <1>4 DEF IsView
    <2> QED
      BY <1>3, <1>4, <2>1, EmptySequence, PeerStays, PlainFits DEF ShowList, Plain
  <1>5. CASE Started(card, "single", 0, FALSE) /\ lmPeer' = lmPeer
    BY <1>3, <1>5, PeerStays, StartFits DEF WayOf
  <1>6. CASE /\ LmLibrary[card].works /\ SeveralWays(card)
             /\ AskHow(card) /\ UNCHANGED << lmWall, lmEmpty, lmStarted >>
    <2>1. ForTwo(card)
      BY <1>2, <1>6, LibraryIs DEF LmFits, LmTypes, Shelf, SeveralWays, ForTwo, TwoScreens, SystemLink, Shared
    <2> QED
      BY <1>2, <1>3, <1>6, <2>1, HowFits
  <1>7. CASE /\ lmView.style \in {1, 2} /\ Started(card, "two", 0, FALSE) /\ lmPeer' = lmPeer
    <2>1. WayOf("two", card)
      BY <1>2, <1>7 DEF WayOf, MatchesPlayStyle, Shared
    <2> QED
      BY <1>3, <1>7, <2>1, PeerStays, StartFits
  <1>8. CASE /\ lmView.style = 3 /\ AskScreens("twin")
             /\ lmGame' = card /\ BrowserEnds /\ UNCHANGED << lmWall, lmPeer, lmEmpty, lmStarted >>
    <2>1. TwoScreens(lmGame')
      BY <1>2, <1>8 DEF MatchesPlayStyle
    <2> QED
      BY <1>2, <1>3, <1>8, <2>1, FreshIs, PairFits DEF BrowserEnds
  <1>9. CASE /\ lmView.style = 4 /\ AskScreens("cabinets")
             /\ lmGame' = card /\ BrowserEnds /\ UNCHANGED << lmWall, lmPeer, lmEmpty, lmStarted >>
    <2>1. SystemLink(lmGame')
      BY <1>2, <1>9 DEF MatchesPlayStyle
    <2> QED
      BY <1>2, <1>3, <1>9, <2>1, FreshIs, PairFits DEF BrowserEnds
  <1> QED
    BY <1>1, <1>4, <1>5, <1>6, <1>7, <1>8, <1>9 DEF PickCard

LEMMA WayFitsOn ==
    ASSUME LmFits, PickWay
    PROVE  LmFits'
  <1>1. PICK way : way = UnderCursor
    OBVIOUS
  <1>2. lmScreen = "how" /\ ForTwo(lmGame) /\ WayOf(way, lmGame) /\ ~lmEmpty
    BY <1>1, CursorIs DEF PickWay, Chosen, UnderCursor, LmFits, LmOffers
  <1>3. lmShelf' = lmShelf /\ IsView(lmView)
    BY DEF PickWay, LmFits, LmTypes
  <1>4. CASE way \in {"single", "two"} /\ Started(lmGame, way, 0, FALSE) /\ lmPeer' = lmPeer
    BY <1>2, <1>3, <1>4, PeerStays, StartFits
  <1>5. CASE Started(lmGame, "linked_network", 1, FALSE) /\ lmPeer' = lmPeer
    BY <1>2, <1>3, <1>5, PeerStays, StartFits DEF WayOf
  <1>6. CASE /\ way \in {"twin", "cabinets"} /\ AskScreens(way)
             /\ lmView' = [lmView EXCEPT !.style = IF way = "twin" THEN 3 ELSE 4]
             /\ UNCHANGED << lmGame, lmWall, lmPeer, lmEmpty, lmStarted >>
    <2>1. IsView(lmView')
      BY <1>3, <1>6 DEF IsView
    <2>2. (way = "twin" /\ TwoScreens(lmGame')) \/ (way = "cabinets" /\ SystemLink(lmGame'))
      BY <1>2, <1>6 DEF WayOf
    <2> QED
      BY <1>2, <1>3, <1>6, <2>1, <2>2, PairFits
  <1> QED
    BY <1>1, <1>4, <1>5, <1>6 DEF PickWay

LEMMA ViewIs ==
    ASSUME NEW v, IsView(v), NEW style, NEW sort, NEW pages, NEW page \in Int, NEW remembered \in Int
    PROVE  /\ IsView([v EXCEPT !.page = page, !.remembered = remembered])
           /\ IsView([v EXCEPT !.style = style, !.remembered = remembered])
           /\ IsView([v EXCEPT !.sort = sort])
           /\ IsView([v EXCEPT !.pages = pages, !.page = page])
           /\ IsView([v EXCEPT !.remembered = remembered])
  <1>1. v = [style |-> v.style, sort |-> v.sort, pages |-> v.pages, page |-> v.page, remembered |-> v.remembered]
    BY DEF IsView
  <1>2. v.page \in Int /\ v.remembered \in Int
    BY DEF IsView
  <1>3. PICK a : a = [v EXCEPT !.page = page, !.remembered = remembered]
    OBVIOUS
  <1>4. a = [style |-> v.style, sort |-> v.sort, pages |-> v.pages, page |-> page, remembered |-> remembered]
    BY <1>1, <1>3
  <1>5. PICK b : b = [v EXCEPT !.style = style, !.remembered = remembered]
    OBVIOUS
  <1>6. b = [style |-> style, sort |-> v.sort, pages |-> v.pages, page |-> v.page, remembered |-> remembered]
    BY <1>1, <1>5
  <1>7. PICK c : c = [v EXCEPT !.pages = pages, !.page = page]
    OBVIOUS
  <1>8. c = [style |-> v.style, sort |-> v.sort, pages |-> pages, page |-> page, remembered |-> v.remembered]
    BY <1>1, <1>7
  <1>9. IsView(a) /\ IsView(b) /\ IsView(c)
    BY <1>2, <1>4, <1>6, <1>8 DEF IsView
  <1>10. IsView([v EXCEPT !.sort = sort]) /\ IsView([v EXCEPT !.remembered = remembered])
    BY <1>1, <1>2 DEF IsView
  <1> QED
    BY <1>3, <1>5, <1>7, <1>9, <1>10

(* The steps of the browser and of its view. *)
LEMMA ViewFits ==
    ASSUME LmFits, TurnPage \/ PickView \/ PickStyle \/ LeaveView \/ LeaveText
    PROVE  LmFits'
  <1>1. IsView(lmView) /\ lmList.at \in Int /\ lmShelf' = lmShelf /\ lmStarted' = lmStarted /\ lmPeer' = lmPeer
    BY DEF LmFits, LmTypes, IsList, TurnPage, PickView, PickStyle, LeaveView, LeaveText
  <1>0. PICK zero \in Int : zero = 0
    OBVIOUS
  <1>2. CASE TurnPage
    <2>1. PICK d \in {-1, 1} : Lapped([lmView EXCEPT !.page = lmView.page + d, !.remembered = 0])
      BY <1>2 DEF TurnPage
    <2>2. lmView.page + d \in Int
      BY <1>1 DEF IsView
    <2>3. IsView([lmView EXCEPT !.page = lmView.page + d, !.remembered = 0])
      BY <1>0, <1>1, <2>2, ViewIs
    <2> QED
      BY <1>1, <2>1, <2>3, LappedFits
  <1>3. CASE PickView
    <2>1. CASE UnderCursor = "style"
      <3>1. ShowScreen("style", ListOf(<< "0", "1", "2", "3", "4" >>, {})) /\ UNCHANGED << lmView, lmEmpty >>
        BY <1>3, <2>1 DEF PickView, ShowList
      <3> QED
        BY <1>1, <3>1, Tuples, PeerStays, PlainFits DEF Plain, IsView
    <2>2. CASE UnderCursor # "style"
      <3>1. PICK view : /\ Lapped(view)
                        /\ view = IF UnderCursor = "label" THEN FreshView(lmView.style)
                                  ELSE IF UnderCursor = "played" THEN [[lmView EXCEPT !.remembered = 0] EXCEPT !.sort = "played"]
                                  ELSE [[lmView EXCEPT !.remembered = 0] EXCEPT !.pages = UnderCursor, !.page = 0]
        BY <1>3, <2>2 DEF PickView
      <3>2. IsView([lmView EXCEPT !.remembered = 0])
        BY <1>0, <1>1, ViewIs
      <3>3. IsView(view)
        <4>1. CASE view = FreshView(lmView.style)
          BY <4>1, FreshIs
        <4>2. PICK v : v = [lmView EXCEPT !.remembered = 0]
          OBVIOUS
        <4>3. IsView(v) /\ 0 \in Int
          BY <3>2, <4>2
        <4>4. CASE view = [v EXCEPT !.sort = "played"]
          BY <4>3, <4>4, ViewIs
        <4>5. CASE view = [v EXCEPT !.pages = UnderCursor, !.page = 0]
          BY <1>0, <4>3, <4>5, ViewIs
        <4> QED
          BY <3>1, <4>1, <4>2, <4>4, <4>5
      <3> QED
        BY <1>1, <3>1, <3>3, LappedFits
    <2> QED
      BY <2>1, <2>2
  <1>4. CASE PickStyle
    <2>1. IsView([lmView EXCEPT !.style = lmList.at, !.remembered = 0])
      BY <1>0, <1>1, ViewIs
    <2> QED
      BY <1>1, <1>4, <2>1, LappedFits DEF PickStyle
  <1>5. CASE LeaveView
    <2>1. IsView([lmView EXCEPT !.remembered = 0])
      BY <1>1 DEF IsView
    <2> QED
      BY <1>1, <1>5, <2>1, LappedFits DEF LeaveView
  <1>6. CASE LeaveText
    BY <1>1, <1>6, LappedFits DEF LeaveText
  <1> QED
    BY <1>2, <1>3, <1>4, <1>5, <1>6

(* The ways back to the browser. *)
LEMMA BackFits ==
    ASSUME LmFits, BeginSelector \/ LeaveStart \/ LeaveMessage \/ LeaveNetwork
    PROVE  LmFits'
  <1>1. lmShelf \in Shelf /\ lmShelf' = lmShelf /\ lmStarted' \in {lmStarted, NoStart}
    BY DEF LmFits, LmTypes, BeginSelector, LeaveStart, LeaveMessage, LeaveNetwork
  <1>2. PICK style : SelectorLap(lmShelf, style, lmPeer)
    BY DEF BeginSelector, LeaveStart, LeaveMessage, LeaveNetwork
  <1> QED
    BY <1>1, <1>2, SelectorFits

(* A step that shows a list from which nothing starts. *)
LEMMA ListFits ==
    ASSUME LmFits, AskView \/ Information \/ LeaveGrid
    PROVE  LmFits'
  <1>1. IsView(lmView) /\ IsPeer(lmPeer') /\ lmShelf' = lmShelf /\ lmStarted' = lmStarted
    BY PeerStays DEF LmFits, LmTypes, AskView, Information, LeaveGrid
  <1>2. CASE AskView
    <2>1. PICK items : /\ items = << "label", "played", "board", "publisher" >>
                                  \o (IF lmWall.wanted = 0 THEN << "style" >> ELSE << >>)
                       /\ ShowScreen("view", ListOf(items, {})) /\ UNCHANGED << lmView, lmEmpty >>
      BY <1>2 DEF AskView, ShowList
    <2>2. Sequence(items)
      BY <2>1, Tuples, EmptySequence, SequenceConcat
    <2> QED
      BY <1>1, <2>1, <2>2, PlainFits DEF Plain, IsView
  <1>3. CASE Information
    BY <1>1, <1>3, EmptySequence, PlainFits DEF Information, ShowList, Plain, IsView
  <1>4. CASE LeaveGrid
    <2>1. ShowScreen("system", ListOf(SystemPages, {})) /\ lmView' = FreshView(lmView.style) /\ lmEmpty' = FALSE
      BY <1>4 DEF LeaveGrid, ShowList, BrowserEnds
    <2>2. Sequence(SystemPages)
      BY Tuples DEF SystemPages
    <2> QED
      BY <1>1, <2>1, <2>2, FreshIs, PlainFits DEF Plain
  <1> QED
    BY <1>2, <1>3, <1>4

LEMMA PageFits ==
    ASSUME LmFits, OpenPage
    PROVE  LmFits'
  <1>1. CASE NetworkLap /\ UNCHANGED lmShelf
    BY <1>1, NetworkFits
  <1>2. CASE /\ \E screen \in {"columns", "message"}, items \in {<< >>, << "2", "3" >>} : \E blocked :
                    ShowScreen(screen, ListOf(items, blocked))
             /\ UNCHANGED << lmShelf, lmView, lmGame, lmWall, lmPeer, lmEmpty, lmStarted >>
    <2>1. PICK screen \in Plain, items \in {<< >>, << "2", "3" >>} : \E blocked :
              Sequence(items) /\ ShowScreen(screen, ListOf(items, blocked))
      BY <1>2, Tuples, EmptySequence DEF Plain
    <2> QED
      BY <1>2, <2>1, PeerStays, PlainFits DEF LmFits, LmTypes, IsView
  <1>3. CASE \E shelf \in LmShelves : /\ lmShelf' = shelf /\ SelectorLap(shelf, lmView.style, lmPeer)
                                      /\ UNCHANGED lmStarted
    BY <1>3, LauncherAssumption, SelectorFits DEF Shelf
  <1>4. CASE SelectorLap(lmShelf, lmView.style, lmPeer) /\ UNCHANGED << lmShelf, lmStarted >>
    BY <1>4, SelectorFits DEF LmFits, LmTypes
  <1> QED
    BY <1>1, <1>2, <1>3, <1>4 DEF OpenPage, ShowList

LEMMA FitsKept == LmFits /\ [LmNext]_lmvars => LmFits'
  <1> SUFFICES ASSUME LmFits, [LmNext]_lmvars PROVE LmFits'
    OBVIOUS
  <1>t. IsView(lmView) /\ lmShelf \in Shelf /\ IsPeer(lmPeer) /\ IsList(lmList)
    BY DEF LmFits, LmTypes
  <1>1. CASE UNCHANGED lmvars \/ Proceed \/ TimesOut
    BY <1>1, PeerStays, QuietFits DEF lmvars, Proceed, TimesOut
  <1>2. CASE Lobby
    <2>1. IsPeer(lmPeer')
      BY <1>2, <1>t DEF Lobby, PeerComes, PeerLeaves, LaunchComes, IsPeer, ForTwo
    <2> QED
      BY <1>2, <2>1, QuietFits DEF Lobby
  <1>3. CASE Interrupted
    <2>0. lmShelf' = lmShelf
      BY <1>3 DEF Interrupted
    <2>1. CASE lmPeer.launch \in lmShelf /\ Follow
      BY <2>0, <2>1, FollowFits
    <2>2. CASE /\ ShowList("message", << >>) /\ lmPeer' = Taken
               /\ BrowserEnds /\ UNCHANGED << lmGame, lmWall, lmEmpty, lmStarted >>
      BY <2>0, <2>2, PeerTaken, FreshIs, EmptySequence, PlainFits DEF ShowList, BrowserEnds, Plain
    <2>3. CASE SelectorLap(lmShelf, lmView.style, lmPeer) /\ UNCHANGED lmStarted
      BY <1>t, <2>0, <2>3, SelectorFits
    <2>4. CASE lmScreen = "how" /\ AskHow(lmGame) /\ UNCHANGED << lmWall, lmEmpty, lmStarted >>
      <3>1. ForTwo(lmGame) /\ ~lmEmpty
        BY <2>4 DEF LmFits, LmOffers
      <3> QED
        BY <2>0, <2>4, <3>1, HowFits
    <2>5. CASE NetworkLap
      BY <2>0, <2>5, NetworkFits
    <2> QED
      BY <1>3, <2>1, <2>2, <2>3, <2>4, <2>5 DEF Interrupted
  <1>4. CASE MoveList
    <2>1. PICK n : n = Len(lmList.rows)
      OBVIOUS
    <2>2. n \in Nat \ {0} /\ lmList.at \in 0..(n - 1) /\ lmList.first \in Nat /\ lmScreen # "column" /\ LmLines \in Nat
      BY <1>4, <2>1, CursorIs, LauncherAssumption DEF MoveList, IsGrid, LmFits, LmTypes, IsList
    <2>3. PICK at : /\ lmList' = MovedTo(at)
                    /\ \/ \E d \in {-1, 1, -LmLines, LmLines} : at = (lmList.at + d) % n
                       \/ at \in {0, n - 1}
                       \/ at \in lmList.first..(lmList.first + LmLines - 1) /\ at < n
      BY <1>4, <2>1 DEF MoveList
    <2>4. at \in Int /\ at \in 0..(n - 1)
      BY <2>2, <2>3
    <2> QED
      BY <1>4, <2>1, <2>3, <2>4, MoveFits DEF MoveList
  <1>5. CASE MoveGrid
    <2>1. PICK n : n = Len(lmList.rows)
      OBVIOUS
    <2>2. n \in Nat /\ lmList.at \in Int /\ LmColumns \in Nat /\ (lmScreen # "column" => n >= 1)
      BY <2>1, CursorIs, LauncherAssumption DEF LmFits, LmTypes, IsList, Sequence
    <2>3. PICK at : /\ lmList' = MovedTo(at)
                    /\ \/ \E d \in {-1, 1} : at = Clamped(lmList.at + d, 0, n - 1)
                       \/ \E d \in {-LmColumns, LmColumns} : at = lmList.at + d /\ at \in 0..(n - 1)
      <3>1. CASE \E d \in {-1, 1} : lmList' = MovedTo(Clamped(lmList.at + d, 0, n - 1))
        BY <3>1
      <3>2. CASE \E d \in {-LmColumns, LmColumns} : lmList.at + d \in 0..(n - 1) /\ lmList' = MovedTo(lmList.at + d)
        BY <3>2
      <3> QED
        BY <1>5, <2>1, <3>1, <3>2 DEF MoveGrid
    <2>4. at \in Int /\ (n >= 1 => at \in 0..(n - 1))
      BY <2>2, <2>3 DEF Clamped
    <2> QED
      BY <1>5, <2>1, <2>2, <2>3, <2>4, MoveFits DEF MoveGrid
  <1>6. CASE PickPair
    <2>1. WayOf(lmScreen, lmGame) /\ lmScreen # "linked_network"
      BY <1>6 DEF PickPair, Chosen, WayOf, LmFits, LmOffers
    <2> QED
      BY <1>6, <2>1, PeerStays, StartFits DEF PickPair
  <1>7. CASE Exit
    <2>1. lmScreen' = "gone" /\ lmList' = ListOf(<< >>, {})
          /\ UNCHANGED << lmShelf, lmView, lmGame, lmWall, lmPeer, lmEmpty, lmStarted >>
      BY <1>7 DEF Exit, ShowScreen
    <2>2. LmTypes'
      BY <1>t, <2>1, EmptySequence, ListIs, PeerStays DEF LmTypes
    <2>3. LmOffers' /\ WayFits' /\ NoEmptyPage'
      BY <2>1 DEF LmOffers, LmFits, WayFits, NoEmptyPage, MatchesPlayStyle, Shared, TwoScreens, SystemLink
    <2> QED
      BY <2>2, <2>3 DEF LmFits
  <1>8. CASE PickLinked
    <2>1. PICK game : game = UnderCursor
      OBVIOUS
    <2>2. ForTwo(game) /\ WayOf("linked_network", game)
      BY <1>8, <2>1, CursorIs DEF PickLinked, Chosen, UnderCursor, LmFits, LmOffers, WayOf
    <2> QED
      BY <1>8, <2>1, <2>2, PeerStays, StartFits DEF PickLinked
  <1>9. CASE LeaveLinked \/ WaitOn
    BY <1>9, NetworkFits DEF LeaveLinked, WaitOn
  <1>10. CASE LeaveNotice
    BY <1>10, NetworkScreenFits DEF LeaveNotice
  <1>11. CASE PickColumns
    BY <1>11, FreshIs, ColumnFits DEF PickColumns
  <1>12. CASE PickColumn
    <2>1. CASE ~LmLibrary[UnderCursor].works
      <3>1. /\ ShowScreen("text", ListOf(<< >>, {})) /\ lmView' = [lmView EXCEPT !.remembered = lmList.at]
            /\ UNCHANGED << lmShelf, lmGame, lmWall, lmPeer, lmEmpty, lmStarted >>
        BY <1>12, <2>1 DEF PickColumn, ShowList
      <3>2. IsView(lmView') /\ lmView'.style = lmView.style
        BY <1>t, <3>1 DEF IsView, IsList
      <3> QED
        BY <3>1, <3>2, EmptySequence, PeerStays, PlainFits DEF Plain
    <2>2. CASE LmLibrary[UnderCursor].works /\ Len(Append(lmWall.picked, UnderCursor)) < lmWall.wanted
      BY <1>12, <2>2, FreshIs, ColumnFits DEF PickColumn
    <2>3. CASE LmLibrary[UnderCursor].works /\ ~(Len(Append(lmWall.picked, UnderCursor)) < lmWall.wanted)
      <3>1. PICK picked : lmStarted' = [NoStart EXCEPT !.game = picked[1], !.how = "single", !.wall = picked]
        BY <1>12, <2>3 DEF PickColumn
      <3>2. lmStarted'.how = "single"
        BY <3>1 DEF NoStart
      <3>3. /\ lmScreen' = "gone" /\ lmList' = ListOf(<< >>, {}) /\ lmView' = FreshView(0) /\ lmEmpty' = FALSE
            /\ lmShelf' = lmShelf /\ lmPeer' = lmPeer
        BY <1>12, <2>3 DEF PickColumn, ShowScreen
      <3>4. LmTypes'
        BY <1>t, <3>3, EmptySequence, ListIs, FreshIs, PeerStays DEF LmTypes
      <3> QED
        BY <3>2, <3>3, <3>4 DEF LmFits, LmOffers, WayFits, NoEmptyPage
    <2> QED
      BY <2>1, <2>2, <2>3
  <1>13. CASE LeaveColumn
    <2>1. CASE lmWall.picked = << >>
      BY <1>t, <1>13, <2>1, SelectorFits DEF LeaveColumn
    <2>2. CASE lmWall.picked # << >>
      BY <1>13, <2>2, FreshIs, ColumnFits DEF LeaveColumn
    <2> QED
      BY <2>1, <2>2
  <1> QED
    BY <1>1, <1>2, <1>3, <1>4, <1>5, <1>6, <1>7, <1>8, <1>9, <1>10, <1>11, <1>12, <1>13, CardFits, WayFitsOn,
       ViewFits, BackFits, ListFits, PageFits, LinkedFits DEF LmNext

LEMMA FitsBegins == LmInit => LmFits
  <1> SUFFICES ASSUME LmInit PROVE LmFits
    OBVIOUS
  <1>1. LmTypes
    BY EmptySequence, ListIs, FreshIs, LauncherAssumption DEF LmInit, LmTypes, IsPeer, Shelf
  <1>2. LmOffers /\ WayFits /\ NoEmptyPage
    BY DEF LmInit, LmOffers, WayFits, NoEmptyPage, NoStart
  <1> QED
    BY <1>1, <1>2 DEF LmFits

-----------------------------------------------------------------------------
(* A lap that has asked has not let a press pass.                              *)
LmLaps ==
    /\ lmLap = [asked |-> lmLap.asked, late |-> lmLap.late]
    /\ lmLap.late \in 0..1 /\ (lmLap.asked => lmLap.late = 0)

LEMMA EventKeepsLap == ASSUME LmLaps, OnEvent PROVE LmLaps'
  <1>1. Interrupts => lmLap.asked
    BY DEF OnEvent, Interrupts, Interruptible
  <1>2. lmLap' = [asked |-> FALSE, late |-> IF Interrupts THEN lmLap.late + 1 ELSE 0]
    BY DEF OnEvent, NextLap
  <1>3. CASE Interrupts
    BY <1>1, <1>2, <1>3 DEF LmLaps
  <1>4. CASE ~Interrupts
    BY <1>2, <1>4 DEF LmLaps
  <1> QED
    BY <1>3, <1>4

LEMMA LapsKept == LmLaps /\ [LmNext]_lmvars => LmLaps'
  <1> SUFFICES ASSUME LmLaps, [LmNext]_lmvars PROVE LmLaps'
    OBVIOUS
  <1>1. CASE UNCHANGED lmLap
    BY <1>1 DEF LmLaps
  <1>2. CASE lmLap' = [asked |-> FALSE, late |-> 0] \/ lmLap' = [asked |-> TRUE, late |-> 0]
    BY <1>2 DEF LmLaps
  <1>3. BeginSelector \/ Lobby \/ Proceed \/ Interrupted \/ UNCHANGED lmvars => LmLaps'
    BY <1>1, <1>2 DEF BeginSelector, Lobby, Proceed, Interrupted, lmvars
  <1>4. TimesOut \/ MoveList \/ MoveGrid \/ TurnPage \/ AskView \/ Information => OnEvent
    BY DEF TimesOut, MoveList, MoveGrid, TurnPage, AskView, Information
  <1>5. PickCard \/ PickWay \/ PickPair \/ PickView \/ PickStyle \/ OpenPage \/ PickKind \/ PickLinked \/ WaitOn
        \/ PickColumns \/ PickColumn => OnEvent
    BY DEF PickCard, PickWay, PickPair, PickView, PickStyle, OpenPage, PickKind, PickLinked, WaitOn,
           PickColumns, PickColumn, Chosen, Pressed
  <1>6. LeaveStart \/ LeaveView \/ LeaveText \/ LeaveMessage \/ LeaveGrid \/ Exit \/ LeaveLinked \/ LeaveNotice
        \/ LeaveNetwork \/ LeaveColumn => OnEvent
    BY DEF LeaveStart, LeaveView, LeaveText, LeaveMessage, LeaveGrid, Exit, LeaveLinked, LeaveNotice,
           LeaveNetwork, LeaveColumn, BackFrom
  <1> QED
    BY <1>3, <1>4, <1>5, <1>6, EventKeepsLap DEF LmNext

LmInv == LmFits /\ LmLaps
LEMMA LmBegins == LmInit => LmInv
  BY FitsBegins DEF LmInv, LmLaps, LmInit
LEMMA LmKept == LmInv /\ [LmNext]_lmvars => LmInv'
  BY FitsKept, LapsKept DEF LmInv
LEMMA LmShows == LmInv => WayFits /\ NoEmptyPage /\ MenuKnowsThePeer
  BY DEF LmInv, LmFits, LmLaps, MenuKnowsThePeer

-----------------------------------------------------------------------------
(* The wall.                                                                   *)

(* The quotient of a division, times its divisor, is within the dividend.       *)
LEMMA Quotient ==
    ASSUME NEW a \in Nat, NEW b \in Nat \ {0}
    PROVE  a \div b \in Nat /\ (a \div b) * b <= a
  OBVIOUS

LEMMA AtLeastOne ==
    ASSUME NEW a \in Nat, NEW b \in Nat \ {0}, a >= b
    PROVE  a \div b >= 1
  OBVIOUS

(* A display wide enough to divide is tiled, whichever column is played.        *)
LEMMA Tiled ==
    ASSUME NEW w \in Nat \ {0}, NEW n \in Nat \ {0, 1}, NEW f \in Int, Divided(w, n)
    PROVE  /\ \A c \in 0..(n - 1) : ColumnWidth(w, n, f, c) >= 1
           /\ \A c \in 0..(n - 1) : c + 1 \in 0..(n - 1) =>
                ColumnX(w, n, f, c + 1) = ColumnX(w, n, f, c) + ColumnWidth(w, n, f, c) + Gap(w)
           /\ ColumnX(w, n, f, n - 1) + ColumnWidth(w, n, f, n - 1) = w
  <1> DEFINE g == Gap(w)  us == Usable(w, n)  u == Unit(w, n, f)  hero == Hero(n, f)
             after(c) == IF hero /\ c > f THEN u ELSE 0
  <1>1. g \in Nat /\ us \in Nat /\ us >= n + 1 /\ us = w - g * (n - 1)
    <2>1. w \div 80 \in Nat
      OBVIOUS
    <2>2. g \in Nat
      BY <2>1 DEF Gap, Larger
    <2>3. g * (n - 1) \in Nat
      BY <2>2
    <2> QED
      BY <2>2, <2>3 DEF Usable, Divided
  <1>2. u \in Nat /\ u >= 1 /\ (IF hero THEN (n + 1) * u <= us ELSE n * u <= us)
    <2>1. CASE hero
      <3>1. u = us \div (n + 1)
        BY <2>1 DEF Unit
      <3>2. n + 1 \in Nat \ {0} /\ (n + 1) * u = u * (n + 1)
        BY <1>1, <3>1, Quotient
      <3> HIDE DEF u, us, hero
      <3> QED
        BY <1>1, <2>1, <3>1, <3>2, Quotient, AtLeastOne
    <2>2. CASE ~hero
      <3>1. u = us \div n
        BY <2>2 DEF Unit
      <3>2. n \in Nat \ {0} /\ n * u = u * n
        BY <1>1, <3>1, Quotient
      <3>3. us \in Nat /\ us >= n
        BY <1>1
      <3>4. us \div n >= 1 /\ us \div n \in Nat /\ (us \div n) * n <= us
        BY <3>2, <3>3, Quotient, AtLeastOne
      <3> HIDE DEF u, us, hero
      <3> QED
        BY <2>2, <3>1, <3>2, <3>4
    <2> QED
      BY <2>1, <2>2
  <1>3. \A c \in 0..(n - 1) : ColumnX(w, n, f, c) = c * (u + g) + after(c)
    BY DEF ColumnX
  <1>4. (n - 1) * (u + g) + after(n - 1) + g * 0 + 1 <= w
    <2>1. (n - 1) * (u + g) = (n - 1) * u + g * (n - 1)
      BY <1>1, <1>2
    <2>2. (n - 1) * u + u = n * u /\ n * u + u = (n + 1) * u
      BY <1>2
    <2>3. CASE hero
      <3>1. (n + 1) * u <= us
        BY <1>2, <2>3
      <3> QED
        BY <1>1, <1>2, <2>1, <2>2, <3>1
    <2>4. CASE ~hero
      <3>1. n * u <= us
        BY <1>2, <2>4
      <3> QED
        BY <1>1, <1>2, <2>1, <2>2, <2>4, <3>1
    <2> QED
      BY <2>3, <2>4
  <1>5. ColumnWidth(w, n, f, n - 1) = w - ColumnX(w, n, f, n - 1) /\ ColumnWidth(w, n, f, n - 1) >= 1
    BY <1>1, <1>2, <1>3, <1>4 DEF ColumnWidth, LastWidth, Larger
  <1>6. \A c \in 0..(n - 2) : ColumnWidth(w, n, f, c) = IF hero /\ c = f THEN 2 * u ELSE u
    BY DEF ColumnWidth
  <1>7. \A c \in 0..(n - 2) : ColumnX(w, n, f, c + 1) = ColumnX(w, n, f, c) + ColumnWidth(w, n, f, c) + g
    <2> SUFFICES ASSUME NEW c \in 0..(n - 2)
                 PROVE  ColumnX(w, n, f, c + 1) = ColumnX(w, n, f, c) + ColumnWidth(w, n, f, c) + g
      OBVIOUS
    <2>1. (c + 1) * (u + g) = c * (u + g) + u + g
      BY <1>1, <1>2
    <2>2. after(c + 1) = after(c) + (IF hero /\ c = f THEN u ELSE 0)
      BY <1>2
    <2>3. c * (u + g) \in Nat /\ after(c) \in Nat
      BY <1>1, <1>2
    <2> HIDE DEF u, g, hero, after
    <2> QED
      BY <1>1, <1>2, <1>3, <1>6, <2>1, <2>2, <2>3
  <1> QED
    BY <1>1, <1>2, <1>3, <1>5, <1>6, <1>7

(* On a display wide enough to be divided, whichever column is played, none is  *)
(* empty, each begins a gap after the one before it, and the last ends at the  *)
(* edge: for every number of columns and every such width.                    *)
THEOREM WallTiles == WlSpec => []ColumnsTile
  <1> DEFINE Display == wlWidth \in WlWidths
  <1>1. WlInit => Display
    BY DEF WlInit
  <1>2. ASSUME Display, [WlNext]_wlvars PROVE Display'
    <2>1. CASE UNCHANGED wlvars
      BY <1>2, <2>1 DEF wlvars
    <2>2. ASSUME NEW to \in Slots \cup {Nobody}, MoveFocus(to) PROVE Display'
      BY <1>2, <2>2 DEF MoveFocus
    <2>3. ASSUME NEW c \in Slots, OpenColumn(c) \/ Tile(c) \/ LeaveWall(c) \/ Killed(c) \/ ForgetWallFocus(c)
          PROVE  Display'
      BY <1>2, <2>3 DEF OpenColumn, Tile, LeaveWall, Killed, Gone, ForgetWallFocus
    <2>4. ASSUME NEW c \in Slots, OpenModal(c) \/ SwallowEvent(c) \/ CloseModal(c) \/ HandleEvent(c)
          PROVE  Display'
      BY <1>2, <2>4 DEF OpenModal, SwallowEvent, CloseModal, HandleEvent
    <2>5. ASSUME NEW c \in Slots,
                 PublishWallFocus(c) \/ HarvestAudio(c) \/ ApplyAudio(c) \/ LookAtFocus(c) \/ PlaceWallSlot(c)
          PROVE  Display'
      BY <1>2, <2>5 DEF PublishWallFocus, HarvestAudio, ApplyAudio, LookAtFocus, PlaceWallSlot
    <2> QED
      BY <1>2, <2>1, <2>2, <2>3, <2>4, <2>5 DEF WlNext
  <1>3. Display => ColumnsTile
    BY ArcadeWallAssumption, Tiled DEF ColumnsTile, Slots, Nobody
  <1> HIDE DEF Display
  <1> QED
    BY <1>1, <1>2, <1>3, PTL DEF WlSpec

-----------------------------------------------------------------------------
Sound == [active : BOOLEAN, changed : BOOLEAN, audible : -1..1, applied : -1..1, muted : BOOLEAN, missed : BOOLEAN]
WlTypes ==
    /\ wlUp \subseteq Slots /\ wlFocus \in wlUp \cup {Nobody}
    /\ wlEvents \in [Slots -> Seq({"gained", "lost"})]
    /\ wlSound \in [Slots -> Sound]

(* The last event on its way to a column tells whether it has the keyboard; with *)
(* none on its way the renderer knows, unless a modal took one or the column     *)
(* never had it.                                                               *)
Informed(c, events, s, focus) ==
    IF events # << >> THEN events[Len(events)] = (IF focus = c THEN "gained" ELSE "lost")
    ELSE s.missed \/ (s.active <=> focus = c) \/ (focus # c /\ ~s.changed /\ s.audible = -1)
(* The worker and the host loop pass on what the renderer knows.               *)
PassedOn(s) ==
    /\ ~s.changed /\ s.audible # -1 => s.audible = (IF s.active THEN 1 ELSE 0)
    /\ s.audible = -1 => s.applied = -1
    /\ s.muted <=> s.applied = 0
Column(c) ==
    /\ Informed(c, wlEvents[c], wlSound[c], wlFocus) /\ PassedOn(wlSound[c])
    /\ c \notin wlUp => wlEvents[c] = << >> /\ wlSound[c] = Fresh
WlInv == WlTypes /\ \A c \in Slots : Column(c)

(* A column that is not there stays as it was started.                          *)
LEMMA FreshColumn ==
    ASSUME NEW c \in Slots, NEW focus, focus # c
    PROVE  Fresh \in Sound /\ Informed(c, << >>, Fresh, focus) /\ PassedOn(Fresh)
  <1> DEFINE s == Fresh
  <1>1. s \in Sound
    BY DEF Fresh, Sound
  <1>2. s.active /\ ~s.changed /\ s.audible = -1 /\ s.applied = -1 /\ ~s.muted
    BY DEF Fresh
  <1>3. Informed(c, << >>, s, focus)
    BY <1>2 DEF Informed
  <1>4. PassedOn(s)
    BY <1>2 DEF PassedOn
  <1> QED
    BY <1>1, <1>3, <1>4

(* Those the compositor tells of a new focus are informed again.                *)
LEMMA ToldInformed ==
    ASSUME WlInv, NEW to \in Slots \cup {Nobody}, NEW events, events = Told(wlEvents, wlFocus, to)
    PROVE  /\ events \in [Slots -> Seq({"gained", "lost"})]
           /\ \A c \in Slots : Informed(c, events[c], wlSound[c], to)
           /\ \A c \in Slots : c \notin wlUp /\ c # to => events[c] = << >>
  <1>1. ASSUME NEW c \in Slots
        PROVE  /\ events[c] \in Seq({"gained", "lost"})
               /\ Informed(c, events[c], wlSound[c], to)
               /\ c \notin wlUp /\ c # to => events[c] = << >>
    <2>1. /\ wlEvents[c] \in Seq({"gained", "lost"}) /\ Informed(c, wlEvents[c], wlSound[c], wlFocus)
          /\ c \notin wlUp => wlEvents[c] = << >> /\ wlSound[c] = Fresh /\ wlFocus # c
      BY DEF WlInv, WlTypes, Column, Slots, Nobody
    <2>2. CASE c = wlFocus /\ c # to
      <3>1. events[c] = Append(wlEvents[c], "lost")
        BY <2>1, <2>2 DEF Told
      <3>2. events[c] # << >> /\ events[c][Len(events[c])] = "lost"
        BY <2>1, <3>1
      <3> QED
        BY <2>1, <2>2, <3>1, <3>2 DEF Informed
    <2>3. CASE c = to /\ c # wlFocus
      <3>1. events[c] = Append(wlEvents[c], "gained")
        BY <2>1, <2>3 DEF Told
      <3>2. events[c] # << >> /\ events[c][Len(events[c])] = "gained"
        BY <2>1, <3>1
      <3> QED
        BY <2>1, <2>3, <3>1, <3>2 DEF Informed
    <2>4. CASE (c = to /\ c = wlFocus) \/ (c # to /\ c # wlFocus)
      <3>1. events[c] = wlEvents[c]
        BY <2>4 DEF Told
      <3> QED
        BY <2>1, <2>4, <3>1 DEF Informed
    <2> QED
      BY <2>2, <2>3, <2>4
  <1> QED
    BY <1>1 DEF Told

(* The windows and the focus.                                                   *)
LEMMA WindowsStep ==
    ASSUME WlInv, NEW c \in Slots, NEW to \in Slots \cup {Nobody},
           OpenColumn(c) \/ MoveFocus(to) \/ LeaveWall(c) \/ Killed(c)
    PROVE  WlInv'
  <1>1. CASE OpenColumn(c)
    <2> PICK new \in {wlFocus, c} : wlFocus' = new /\ wlEvents' = Told(wlEvents, wlFocus, new)
      BY <1>1 DEF OpenColumn
    <2>1. wlUp' = wlUp \cup {c} /\ wlSound' = wlSound /\ new \in Slots \cup {Nobody} /\ wlFocus' = new
      BY <1>1 DEF OpenColumn, WlInv, WlTypes
    <2>2. /\ wlEvents' \in [Slots -> Seq({"gained", "lost"})]
          /\ \A d \in Slots : Informed(d, wlEvents'[d], wlSound[d], new)
          /\ \A d \in Slots : d \notin wlUp /\ d # new => wlEvents'[d] = << >>
      BY <2>1, ToldInformed
    <2>3. \A d \in Slots : d \notin wlUp' => d \notin wlUp /\ d # new
      BY <2>1 DEF WlInv, WlTypes, Slots, Nobody
    <2> QED
      BY <2>1, <2>2, <2>3 DEF WlInv, WlTypes, Column
  <1>2. CASE MoveFocus(to)
    <2>1. UNCHANGED << wlUp, wlSound >> /\ wlFocus' = to /\ to \in wlUp \cup {Nobody}
      BY <1>2 DEF MoveFocus
    <2>2. /\ wlEvents' \in [Slots -> Seq({"gained", "lost"})]
          /\ \A d \in Slots : Informed(d, wlEvents'[d], wlSound[d], to)
          /\ \A d \in Slots : d \notin wlUp /\ d # to => wlEvents'[d] = << >>
      BY <1>2, ToldInformed DEF MoveFocus
    <2>3. \A d \in Slots : d \notin wlUp => d # to
      BY <2>1 DEF Slots, Nobody
    <2> QED
      BY <2>1, <2>2, <2>3 DEF WlInv, WlTypes, Column
  <1>3. CASE LeaveWall(c) \/ Killed(c)
    <2>1. Gone(c)
      BY <1>3 DEF LeaveWall, Killed
    <2> PICK new \in (IF wlFocus = c THEN wlUp' \cup {Nobody} ELSE {wlFocus}) :
            wlFocus' = new /\ wlEvents' = [Told(wlEvents, wlFocus, new) EXCEPT ![c] = << >>]
      BY <2>1 DEF Gone
    <2> DEFINE events == Told(wlEvents, wlFocus, new)
    <2>2. wlUp' = wlUp \ {c} /\ wlSound' = [wlSound EXCEPT ![c] = Fresh]
      BY <2>1 DEF Gone
    <2>3. new \in wlUp' \cup {Nobody} /\ new # c /\ new \in Slots \cup {Nobody}
      BY <2>2 DEF WlInv, WlTypes, Slots, Nobody
    <2>4. /\ events \in [Slots -> Seq({"gained", "lost"})]
          /\ \A d \in Slots : Informed(d, events[d], wlSound[d], new)
          /\ \A d \in Slots : d \notin wlUp /\ d # new => events[d] = << >>
      BY <2>3, ToldInformed
    <2> HIDE DEF events
    <2>5. Fresh \in Sound /\ Informed(c, << >>, Fresh, new) /\ PassedOn(Fresh)
      BY <2>3, FreshColumn
    <2>6. WlTypes'
      <3>1. << >> \in Seq({"gained", "lost"})
        OBVIOUS
      <3> QED
        BY <2>2, <2>3, <2>4, <2>5, <3>1 DEF WlInv, WlTypes, events
    <2>7. ASSUME NEW d \in Slots PROVE Column(d)'
      <3>1. CASE d = c
        <4>1. wlEvents'[d] = << >> /\ wlSound'[d] = Fresh
          BY <2>2, <2>4, <3>1 DEF WlInv, WlTypes, events
        <4> QED
          BY <2>5, <3>1, <4>1 DEF Column
      <3>2. CASE d # c
        <4>1. wlEvents'[d] = events[d] /\ wlSound'[d] = wlSound[d]
          BY <2>2, <2>4, <3>2 DEF WlInv, WlTypes, events
        <4>2. d \notin wlUp' => d \notin wlUp /\ d # new
          BY <2>2, <2>3, <3>2 DEF Slots, Nobody
        <4> QED
          BY <2>4, <4>1, <4>2 DEF Column, WlInv
      <3> QED
        BY <3>1, <3>2
    <2> QED
      BY <2>6, <2>7 DEF WlInv
  <1> QED
    BY <1>1, <1>2, <1>3

(* The rest of a sequence of events ends with the same.                         *)
LEMMA TailEndsAlike ==
    ASSUME NEW q \in Seq({"gained", "lost"}), q # << >>
    PROVE  /\ Tail(q) \in Seq({"gained", "lost"})
           /\ Tail(q) # << >> => Tail(q)[Len(Tail(q))] = q[Len(q)]
           /\ Tail(q) = << >> => Head(q) = q[Len(q)]
  <1>1. /\ Tail(q) \in Seq({"gained", "lost"}) /\ Len(q) \in Nat /\ Len(q) >= 1
        /\ Len(Tail(q)) = Len(q) - 1 /\ Head(q) = q[1]
        /\ \A i \in 1..(Len(q) - 1) : Tail(q)[i] = q[i + 1]
    OBVIOUS
  <1>2. ASSUME Tail(q) # << >> PROVE Tail(q)[Len(Tail(q))] = q[Len(q)]
    <2>1. Len(Tail(q)) >= 1
      BY <1>1, <1>2
    <2> QED
      BY <1>1, <2>1
  <1>3. ASSUME Tail(q) = << >> PROVE Head(q) = q[Len(q)]
    <2>1. \A r : r = << >> => Len(r) = 0
      OBVIOUS
    <2>2. Len(Tail(q)) = 0
      BY <1>3, <2>1
    <2>3. Len(q) - 1 = 0
      BY <1>1, <2>2, Zenon
    <2>4. Len(q) = 1
      <3>1. Len(q) \in Nat
        OBVIOUS
      <3> QED
        BY <2>3, <3>1
    <2> QED
      BY <1>1, <2>4
  <1> QED
    BY <1>1, <1>2, <1>3

(* The sound of a column, on its way through its threads.                       *)
LEMMA SoundStep ==
    ASSUME WlInv, NEW c \in Slots, HandleEvent(c) \/ HarvestAudio(c) \/ ApplyAudio(c) \/ SwallowEvent(c)
    PROVE  WlInv'
  <1> DEFINE s == wlSound[c]  t == wlSound'[c]
  <1>1. UNCHANGED << wlUp, wlFocus >> /\ s \in Sound /\ Column(c)
    BY DEF HandleEvent, HarvestAudio, ApplyAudio, SwallowEvent, wlWindows, WlInv, WlTypes
  <1>2. c \in wlUp
    BY <1>1 DEF HandleEvent, HarvestAudio, ApplyAudio, SwallowEvent, Flipped, Column, Fresh
  <1>3. /\ t \in Sound /\ wlSound' = [wlSound EXCEPT ![c] = t] /\ PassedOn(t)
        /\ wlEvents'[c] \in Seq({"gained", "lost"}) /\ wlEvents' = [wlEvents EXCEPT ![c] = wlEvents'[c]]
        /\ Informed(c, wlEvents'[c], t, wlFocus)
    <2>1. CASE HandleEvent(c)
      <3> DEFINE q == wlEvents[c]  gained == Head(q) = "gained"
      <3>1. /\ q \in Seq({"gained", "lost"}) /\ q # << >> /\ wlEvents' = [wlEvents EXCEPT ![c] = Tail(q)]
            /\ wlSound' = [wlSound EXCEPT ![c].active = gained, ![c].changed = TRUE, ![c].missed = FALSE]
        BY <2>1 DEF HandleEvent, WlInv, WlTypes
      <3>2. t = [s EXCEPT !.active = gained, !.changed = TRUE, !.missed = FALSE] /\ wlEvents'[c] = Tail(q)
        BY <3>1 DEF WlInv, WlTypes
      <3>3. t \in Sound /\ wlSound' = [wlSound EXCEPT ![c] = t] /\ PassedOn(t)
        <4>1. s.active \in BOOLEAN /\ s.audible \in -1..1 /\ s.applied \in -1..1 /\ PassedOn(s)
          BY <1>1 DEF Sound, Column
        <4>2. t \in Sound
          BY <1>1, <3>2 DEF Sound
        <4>3. t.changed /\ t.audible = s.audible /\ t.applied = s.applied /\ t.muted = s.muted
          BY <1>1, <3>2 DEF Sound
        <4>4. PassedOn(t)
          BY <4>1, <4>3 DEF PassedOn
        <4>5. wlSound' = [wlSound EXCEPT ![c] = t]
          BY <3>1, <3>2 DEF WlInv, WlTypes
        <4> QED
          BY <4>2, <4>4, <4>5
      <3>4. /\ Tail(q) \in Seq({"gained", "lost"})
            /\ Tail(q) # << >> => Tail(q)[Len(Tail(q))] = q[Len(q)]
            /\ Tail(q) = << >> => Head(q) = q[Len(q)]
        BY <3>1, TailEndsAlike
      <3>5. q[Len(q)] = IF wlFocus = c THEN "gained" ELSE "lost"
        BY <1>1, <3>1 DEF Column, Informed
      <3>6. t.active = gained
        BY <1>1, <3>2 DEF Sound
      <3>7. Informed(c, Tail(q), t, wlFocus)
        BY <3>4, <3>5, <3>6 DEF Informed
      <3> QED
        BY <3>1, <3>2, <3>3, <3>4, <3>7
    <2>2. CASE HarvestAudio(c)
      <3>1. /\ wlEvents' = wlEvents /\ s.changed
            /\ wlSound' = [wlSound EXCEPT ![c].changed = FALSE, ![c].audible = IF s.active THEN 1 ELSE 0]
        BY <2>2 DEF HarvestAudio, wlWindows
      <3>2. t = [s EXCEPT !.changed = FALSE, !.audible = IF s.active THEN 1 ELSE 0]
        BY <3>1 DEF WlInv, WlTypes
      <3>3. t \in Sound /\ wlSound' = [wlSound EXCEPT ![c] = t] /\ PassedOn(t)
        <4>1. s.active \in BOOLEAN /\ s.audible \in -1..1 /\ s.applied \in -1..1 /\ PassedOn(s)
          BY <1>1 DEF Sound, Column
        <4>2. t \in Sound
          <5> DEFINE a == IF s.active THEN 1 ELSE 0
          <5>1. a \in -1..1 /\ t = [s EXCEPT !.changed = FALSE, !.audible = a]
            BY <3>2
          <5> HIDE DEF a
          <5> QED
            BY <1>1, <5>1 DEF Sound
        <4>3. /\ ~t.changed /\ t.audible = (IF s.active THEN 1 ELSE 0) /\ t.active = s.active
              /\ t.applied = s.applied /\ t.muted = s.muted
          BY <1>1, <3>2 DEF Sound
        <4>4. PassedOn(t)
          BY <4>1, <4>3 DEF PassedOn
        <4>5. wlSound' = [wlSound EXCEPT ![c] = t]
          BY <3>1, <3>2 DEF WlInv, WlTypes
        <4> QED
          BY <4>2, <4>4, <4>5
      <3>4. Informed(c, wlEvents[c], t, wlFocus)
        BY <1>1, <3>1, <3>2 DEF Sound, Column, Informed
      <3> QED
        BY <3>1, <3>3, <3>4 DEF WlInv, WlTypes
    <2>3. CASE ApplyAudio(c)
      <3>1. /\ wlEvents' = wlEvents /\ s.audible >= 0
            /\ wlSound' = [wlSound EXCEPT ![c].applied = s.audible, ![c].muted = (s.audible = 0)]
        BY <2>3 DEF ApplyAudio, wlWindows, Flipped
      <3>2. t = [s EXCEPT !.applied = s.audible, !.muted = (s.audible = 0)]
        BY <3>1 DEF WlInv, WlTypes
      <3>3. t \in Sound /\ wlSound' = [wlSound EXCEPT ![c] = t] /\ PassedOn(t)
        BY <1>1, <3>1, <3>2 DEF WlInv, WlTypes, Sound, Column, PassedOn
      <3>4. Informed(c, wlEvents[c], t, wlFocus)
        <4>1. t.active = s.active /\ t.changed = s.changed /\ t.audible = s.audible /\ t.missed = s.missed
          BY <1>1, <3>2 DEF Sound
        <4>2. Informed(c, wlEvents[c], s, wlFocus)
          BY <1>1 DEF Column
        <4> QED
          BY <4>1, <4>2 DEF Informed
      <3> QED
        BY <3>1, <3>3, <3>4 DEF WlInv, WlTypes
    <2>4. CASE SwallowEvent(c)
      <3> DEFINE q == wlEvents[c]
      <3>1. /\ q \in Seq({"gained", "lost"}) /\ q # << >> /\ wlEvents' = [wlEvents EXCEPT ![c] = Tail(q)]
            /\ wlSound' = [wlSound EXCEPT ![c].missed = TRUE]
        BY <2>4 DEF SwallowEvent, WlInv, WlTypes
      <3>2. t = [s EXCEPT !.missed = TRUE] /\ wlEvents'[c] = Tail(q) /\ wlSound' = [wlSound EXCEPT ![c] = t]
        BY <3>1 DEF WlInv, WlTypes
      <3>3. /\ t \in Sound /\ t.missed /\ t.changed = s.changed /\ t.active = s.active
            /\ t.audible = s.audible /\ t.applied = s.applied /\ t.muted = s.muted
        BY <1>1, <3>2 DEF Sound
      <3>4. PassedOn(t)
        BY <1>1, <3>3 DEF PassedOn, Column
      <3>5. Tail(q) \in Seq({"gained", "lost"}) /\ (Tail(q) # << >> => Tail(q)[Len(Tail(q))] = q[Len(q)])
        BY <3>1, TailEndsAlike
      <3>6. q[Len(q)] = IF wlFocus = c THEN "gained" ELSE "lost"
        BY <1>1, <3>1 DEF Column, Informed
      <3>7. Informed(c, Tail(q), t, wlFocus)
        BY <3>3, <3>5, <3>6 DEF Informed
      <3> QED
        BY <3>1, <3>2, <3>3, <3>4, <3>5, <3>7
    <2> QED
      BY <2>1, <2>2, <2>3, <2>4
  <1>4. \A d \in Slots : d # c => wlSound'[d] = wlSound[d] /\ wlEvents'[d] = wlEvents[d]
    BY <1>3 DEF WlInv, WlTypes
  <1>5. WlTypes'
    BY <1>1, <1>3 DEF WlInv, WlTypes
  <1> HIDE DEF t
  <1>6. ASSUME NEW d \in Slots PROVE Column(d)'
    <2>1. CASE d = c
      BY <1>1, <1>2, <1>3, <2>1 DEF Column, t
    <2>2. CASE d # c
      BY <1>1, <1>4, <2>2 DEF Column, WlInv
    <2> QED
      BY <2>1, <2>2
  <1> QED
    BY <1>5, <1>6 DEF WlInv

(* Whoever has had the keyboard is heard, once settled, exactly while having it,  *)
(* however the focus moves and windows open and go, unless a modal has taken the *)
(* last event of the focus.                                                    *)
THEOREM HeardIsPlayedHolds == WlSpec => []HeardIsPlayed
  <1>1. WlInit => WlInv
    <2> SUFFICES ASSUME WlInit PROVE WlInv
      OBVIOUS
    <2>1. Nobody \notin Slots
      BY DEF Slots, Nobody
    <2>2. \A c \in Slots : Fresh \in Sound /\ Informed(c, << >>, Fresh, Nobody) /\ PassedOn(Fresh)
      BY <2>1, FreshColumn
    <2>3. WlTypes
      <3>1. wlUp = {} /\ wlFocus = Nobody
        BY DEF WlInit
      <3>2. wlEvents \in [Slots -> Seq({"gained", "lost"})]
        BY DEF WlInit
      <3>3. wlSound \in [Slots -> Sound]
        BY <2>2 DEF WlInit
      <3> QED
        BY <3>1, <3>2, <3>3 DEF WlTypes
    <2>4. ASSUME NEW c \in Slots PROVE Column(c)
      <3>1. wlEvents[c] = << >> /\ wlSound[c] = Fresh /\ wlFocus = Nobody
        BY DEF WlInit
      <3> QED
        BY <2>2, <3>1 DEF Column
    <2> QED
      BY <2>3, <2>4 DEF WlInv
  <1>2. ASSUME WlInv, [WlNext]_wlvars PROVE WlInv'
    <2>1. ASSUME UNCHANGED << wlUp, wlFocus, wlEvents, wlSound >> PROVE WlInv'
      BY <1>2, <2>1 DEF WlInv, WlTypes, Column
    <2>2. CASE UNCHANGED wlvars
      BY <2>1, <2>2 DEF wlvars, wlWindows
    <2>3. ASSUME NEW c \in Slots,
                 OpenModal(c) \/ CloseModal(c) \/ Tile(c) \/ ForgetWallFocus(c) \/ PublishWallFocus(c) \/ LookAtFocus(c) \/ PlaceWallSlot(c)
          PROVE  WlInv'
      BY <2>1, <2>3 DEF OpenModal, CloseModal, Tile, ForgetWallFocus, PublishWallFocus, LookAtFocus, PlaceWallSlot, wlWindows
    <2>4. ASSUME NEW to \in Slots \cup {Nobody}, MoveFocus(to) PROVE WlInv'
      <3>1. 0 \in Slots
        BY ArcadeWallAssumption DEF Slots
      <3> QED
        BY <1>2, <2>4, <3>1, WindowsStep
    <2>5. ASSUME NEW c \in Slots, OpenColumn(c) \/ LeaveWall(c) \/ Killed(c) PROVE WlInv'
      BY <1>2, <2>5, WindowsStep
    <2>6. ASSUME NEW c \in Slots, HandleEvent(c) \/ HarvestAudio(c) \/ ApplyAudio(c) \/ SwallowEvent(c)
          PROVE  WlInv'
      BY <1>2, <2>6, SoundStep
    <2> QED
      BY <1>2, <2>2, <2>3, <2>4, <2>5, <2>6 DEF WlNext
  <1>3. WlInv => HeardIsPlayed
    <2> SUFFICES ASSUME WlInv, NEW c \in wlUp, Settled(c), ~wlSound[c].missed
                 PROVE  /\ wlFocus = c => ~wlSound[c].muted
                        /\ wlFocus # c /\ wlSound[c].audible # -1 => wlSound[c].muted
      BY DEF HeardIsPlayed
    <2>1. Column(c) /\ wlSound[c] \in Sound
      BY DEF WlInv, WlTypes
    <2> QED
      BY <2>1 DEF Column, Informed, PassedOn, Settled, Flipped, Sound
  <1> QED
    BY <1>1, <1>2, <1>3, PTL DEF WlSpec

-----------------------------------------------------------------------------
(* The ROM sets: where the files of every row lie, then the loader.            *)

(* The files of a row lie between two offsets of its region and mesh.          *)
Meshed(files, lo, hi) ==
    /\ \A f \in files : f.from \in Int /\ f.to \in Int /\ lo <= f.from /\ f.to <= hi
    /\ \A f, g \in files : f # g => Apart(f, g)

LEMMA MoreTimes == \A i, j, m \in Int : i <= j /\ 0 <= m => i * m <= j * m
  <1> SUFFICES ASSUME NEW i \in Int, NEW j \in Int, NEW m \in Int, i <= j, 0 <= m PROVE i * m <= j * m
    OBVIOUS
  <1>1. (j - i) * m >= 0
    BY SMT
  <1>2. (j - i) * m = j * m - i * m
    BY SMT
  <1> QED
    BY <1>1, <1>2

LEMMA InARow ==
    ASSUME NEW i \in Int, NEW j \in Int, NEW m \in Int, i < j, 0 <= m PROVE i * m + m <= j * m
  <1>1. (i + 1) * m <= j * m
    BY MoreTimes
  <1> QED
    BY <1>1

LEMMA LinearLaid ==
    ASSUME NEW at \in Int, NEW n \in Nat, NEW size \in Int, 1 <= size, NEW hi \in Int, hi = at + n * size
    PROVE  Meshed(Linear(at, n, size), at, hi)
  <1>1. ASSUME NEW i \in 0..(n - 1)
        PROVE  /\ File(at + i * size, size, 1, 1).from = at + i * size
               /\ File(at + i * size, size, 1, 1).to = at + i * size + size
               /\ 0 <= i * size /\ i * size + size <= n * size /\ i * size \in Int
    <2>1. 0 * size <= i * size /\ i * size + size <= n * size
      BY MoreTimes, InARow
    <2> QED
      BY <2>1 DEF File
  <1>2. ASSUME NEW i \in 0..(n - 1), NEW j \in 0..(n - 1), i # j
        PROVE  Apart(File(at + i * size, size, 1, 1), File(at + j * size, size, 1, 1))
    <2>1. i * size + size <= j * size \/ j * size + size <= i * size
      BY <1>2, InARow
    <2> QED
      BY <1>1, <2>1 DEF Apart
  <1>3. n * size \in Int
    OBVIOUS
  <1> DEFINE F(i) == File(at + i * size, size, 1, 1)
  <1>4. Linear(at, n, size) = {F(i) : i \in 0..(n - 1)}
    BY DEF Linear
  <1>5. ASSUME NEW i \in 0..(n - 1) PROVE F(i).from \in Int /\ F(i).to \in Int /\ at <= F(i).from
       /\ F(i).to <= at + n * size
    BY <1>1, <1>3
  <1>6. ASSUME NEW i \in 0..(n - 1), NEW j \in 0..(n - 1), F(i) # F(j) PROVE Apart(F(i), F(j))
    BY <1>2, <1>6
  <1> HIDE DEF F
  <1> QED
    BY <1>4, <1>5, <1>6 DEF Meshed

(* The pairs that share a stretch, dealt out word by word.                     *)
LEMMA WordsLaid ==
    ASSUME NEW at \in Int, NEW m \in Nat, NEW half \in Int, 1 <= half, NEW hi \in Int, hi = at + (2 * m) * (2 * half)
    PROVE  Meshed(Words(at, 2 * m, 2 * half), at, hi)
  <1> DEFINE F(i) == File(at + (i \div 2) * 2 * (2 * half) + ((i % 2) * 2), 2 * half, 4, 2)
             P(p, b) == at + p * (4 * half) + b * 2
  <1>1. ASSUME NEW a \in Int
        PROVE  /\ File(a, 2 * half, 4, 2).from = a
               /\ File(a, 2 * half, 4, 2).to = a + 4 * half - 2
               /\ File(a, 2 * half, 4, 2).lanes = {a % 4, (a + 1) % 4}
    <2>1. (2 * half) \div 2 = half
      OBVIOUS
    <2>2. \A j \in 0..1, k \in 0..3 : (a + (j + (k * 4))) % 4 = (a + j) % 4
      OBVIOUS
    <2>3. {(a + (j + (k * 4))) % 4 : j \in 0..2 - 1, k \in 0..3} = {a % 4, (a + 1) % 4}
      BY <2>2
    <2> QED
      BY <2>1, <2>3 DEF File
  <1>2. ASSUME NEW i \in 0..(2 * m - 1)
        PROVE  \E p \in 0..(m - 1), b \in {0, 1} : i = 2 * p + b /\ F(i) = File(P(p, b), 2 * half, 4, 2)
    <2>1. PICK p \in 0..(m - 1), b \in {0, 1} : i = 2 * p + b /\ i \div 2 = p /\ i % 2 = b
      OBVIOUS
    <2>2. p * 2 * (2 * half) = p * (4 * half)
      OBVIOUS
    <2> QED
      BY <2>1, <2>2
  <1>3. ASSUME NEW p \in 0..(m - 1)
        PROVE  p * (4 * half) \in Int /\ 0 <= p * (4 * half) /\ p * (4 * half) + 4 * half <= (2 * m) * (2 * half)
    <2>1. 0 * (4 * half) <= p * (4 * half) /\ p * (4 * half) + 4 * half <= m * (4 * half)
      BY MoreTimes, InARow
    <2>2. m * (4 * half) = (2 * m) * (2 * half)
      OBVIOUS
    <2> QED
      BY <2>1, <2>2
  <1>4. ASSUME NEW p \in 0..(m - 1), NEW q \in 0..(m - 1), NEW b \in {0, 1}, NEW c \in {0, 1}, p # q \/ b # c
        PROVE  Apart(File(P(p, b), 2 * half, 4, 2), File(P(q, c), 2 * half, 4, 2))
    <2>1. P(p, b) \in Int /\ P(q, c) \in Int
      BY <1>3
    <2>2. CASE p # q
      <3>1. p * (4 * half) + 4 * half <= q * (4 * half) \/ q * (4 * half) + 4 * half <= p * (4 * half)
        BY <2>2, InARow
      <3>2. P(p, b) + 4 * half - 2 <= P(q, c) \/ P(q, c) + 4 * half - 2 <= P(p, b)
        BY <3>1, <1>3
      <3> QED
        BY <1>1, <2>1, <3>2 DEF Apart
    <2>3. CASE p = q /\ b # c
      <3>1. P(p, b) = P(q, c) + 2 \/ P(q, c) = P(p, b) + 2
        BY <1>3, <2>3
      <3>2. {P(p, b) % 4, (P(p, b) + 1) % 4} \cap {P(q, c) % 4, (P(q, c) + 1) % 4} = {}
        <4> HIDE DEF P
        <4> QED
          BY <2>1, <3>1
      <3> QED
        BY <1>1, <2>1, <3>2 DEF Apart
    <2> QED
      BY <1>4, <2>2, <2>3
  <1>5. Words(at, 2 * m, 2 * half) = {F(i) : i \in 0..(2 * m - 1)}
    BY DEF Words
  <1>6. ASSUME NEW p \in 0..(m - 1), NEW b \in {0, 1}
        PROVE  /\ File(P(p, b), 2 * half, 4, 2).from \in Int /\ File(P(p, b), 2 * half, 4, 2).to \in Int
               /\ at <= File(P(p, b), 2 * half, 4, 2).from
               /\ File(P(p, b), 2 * half, 4, 2).to <= at + (2 * m) * (2 * half)
    <2>1. P(p, b) \in Int
      BY <1>3
    <2>2. at <= P(p, b) /\ P(p, b) + 4 * half - 2 <= at + (2 * m) * (2 * half)
      BY <1>3
    <2> HIDE DEF P
    <2> QED
      BY <1>1, <2>1, <2>2
  <1>7. ASSUME NEW i \in 0..(2 * m - 1)
        PROVE  F(i).from \in Int /\ F(i).to \in Int /\ at <= F(i).from /\ F(i).to <= at + (2 * m) * (2 * half)
    <2> HIDE DEF F, P
    <2> QED
      BY <1>2, <1>6
  <1>8. ASSUME NEW i \in 0..(2 * m - 1), NEW j \in 0..(2 * m - 1), F(i) # F(j) PROVE Apart(F(i), F(j))
    <2> HIDE DEF F, P
    <2>1. i # j
      BY <1>8
    <2> QED
      BY <1>2, <1>4, <2>1
  <1> HIDE DEF F
  <1> QED
    BY <1>5, <1>7, <1>8 DEF Meshed

(* The pairs dealt out byte by byte.                                           *)
LEMMA BytePairsLaid ==
    ASSUME NEW at \in Int, NEW m \in Nat, NEW size \in Int, 1 <= size, NEW hi \in Int, hi = at + (2 * m) * size
    PROVE  Meshed(BytePairs(at, 2 * m, size), at, hi)
  <1> DEFINE F(i) == File(at + (i \div 2) * 2 * size + (i % 2), size, 2, 1)
             P(p, b) == at + p * (2 * size) + b
  <1>1. ASSUME NEW a \in Int
        PROVE  /\ File(a, size, 2, 1).from = a
               /\ File(a, size, 2, 1).to = a + 2 * size - 1
               /\ File(a, size, 2, 1).lanes = {a % 4, (a + 2) % 4}
    <2>1. size \div 1 = size
      OBVIOUS
    <2>2. \A j \in 0..0, k \in 0..3 : (a + (j + (k * 2))) % 4 = (a + 2 * (k % 2)) % 4
      OBVIOUS
    <2>3. {(a + (j + (k * 2))) % 4 : j \in 0..1 - 1, k \in 0..3} = {a % 4, (a + 2) % 4}
      BY <2>2
    <2> QED
      BY <2>1, <2>3 DEF File
  <1>2. ASSUME NEW i \in 0..(2 * m - 1)
        PROVE  \E p \in 0..(m - 1), b \in {0, 1} : i = 2 * p + b /\ F(i) = File(P(p, b), size, 2, 1)
    <2>1. PICK p \in 0..(m - 1), b \in {0, 1} : i = 2 * p + b /\ i \div 2 = p /\ i % 2 = b
      OBVIOUS
    <2>2. p * 2 * size = p * (2 * size)
      OBVIOUS
    <2> QED
      BY <2>1, <2>2
  <1>3. ASSUME NEW p \in 0..(m - 1)
        PROVE  p * (2 * size) \in Int /\ 0 <= p * (2 * size) /\ p * (2 * size) + 2 * size <= (2 * m) * size
    <2>1. 0 * (2 * size) <= p * (2 * size) /\ p * (2 * size) + 2 * size <= m * (2 * size)
      BY MoreTimes, InARow
    <2>2. m * (2 * size) = (2 * m) * size
      OBVIOUS
    <2> QED
      BY <2>1, <2>2
  <1>4. ASSUME NEW p \in 0..(m - 1), NEW q \in 0..(m - 1), NEW b \in {0, 1}, NEW c \in {0, 1}, p # q \/ b # c
        PROVE  Apart(File(P(p, b), size, 2, 1), File(P(q, c), size, 2, 1))
    <2>1. P(p, b) \in Int /\ P(q, c) \in Int
      BY <1>3
    <2>2. CASE p # q
      <3>1. p * (2 * size) + 2 * size <= q * (2 * size) \/ q * (2 * size) + 2 * size <= p * (2 * size)
        BY <2>2, InARow
      <3>2. P(p, b) + 2 * size - 1 <= P(q, c) \/ P(q, c) + 2 * size - 1 <= P(p, b)
        BY <3>1, <1>3
      <3> QED
        BY <1>1, <2>1, <3>2 DEF Apart
    <2>3. CASE p = q /\ b # c
      <3>1. P(p, b) = P(q, c) + 1 \/ P(q, c) = P(p, b) + 1
        BY <1>3, <2>3
      <3>2. {P(p, b) % 4, (P(p, b) + 2) % 4} \cap {P(q, c) % 4, (P(q, c) + 2) % 4} = {}
        <4> HIDE DEF P
        <4> QED
          BY <2>1, <3>1
      <3> QED
        BY <1>1, <2>1, <3>2 DEF Apart
    <2> QED
      BY <1>4, <2>2, <2>3
  <1>5. BytePairs(at, 2 * m, size) = {F(i) : i \in 0..(2 * m - 1)}
    BY DEF BytePairs
  <1>6. ASSUME NEW p \in 0..(m - 1), NEW b \in {0, 1}
        PROVE  /\ File(P(p, b), size, 2, 1).from \in Int /\ File(P(p, b), size, 2, 1).to \in Int
               /\ at <= File(P(p, b), size, 2, 1).from
               /\ File(P(p, b), size, 2, 1).to <= at + (2 * m) * size
    <2>1. P(p, b) \in Int
      BY <1>3
    <2>2. at <= P(p, b) /\ P(p, b) + 2 * size - 1 <= at + (2 * m) * size
      BY <1>3
    <2> HIDE DEF P
    <2> QED
      BY <1>1, <2>1, <2>2
  <1>7. ASSUME NEW i \in 0..(2 * m - 1)
        PROVE  F(i).from \in Int /\ F(i).to \in Int /\ at <= F(i).from /\ F(i).to <= at + (2 * m) * size
    <2> HIDE DEF F, P
    <2> QED
      BY <1>2, <1>6
  <1>8. ASSUME NEW i \in 0..(2 * m - 1), NEW j \in 0..(2 * m - 1), F(i) # F(j) PROVE Apart(F(i), F(j))
    <2> HIDE DEF F, P
    <2>1. i # j
      BY <1>8
    <2> QED
      BY <1>2, <1>4, <2>1
  <1> HIDE DEF F
  <1> QED
    BY <1>5, <1>7, <1>8 DEF Meshed

(* Up to four files dealt out over the bytes of a word.                        *)
LEMMA BytesLaid ==
    ASSUME NEW at \in Int, NEW n \in Nat, n <= 4, NEW size \in Int, 1 <= size, NEW hi \in Int, hi = at + 4 * size
    PROVE  Meshed(Bytes(at, n, size), at, hi)
  <1> DEFINE F(i) == File(at + i, size, 4, 1)
  <1>1. ASSUME NEW i \in 0..(n - 1)
        PROVE  F(i).from = at + i /\ F(i).to = at + i + 4 * size - 3 /\ F(i).lanes = {(at + i) % 4}
    <2>1. size \div 1 = size
      OBVIOUS
    <2>2. \A j \in 0..0, k \in 0..3 : (at + i + (j + (k * 4))) % 4 = (at + i) % 4
      OBVIOUS
    <2>3. {(at + i + (j + (k * 4))) % 4 : j \in 0..1 - 1, k \in 0..3} = {(at + i) % 4}
      BY <2>2
    <2> QED
      BY <2>1, <2>3 DEF File
  <1>2. ASSUME NEW i \in 0..(n - 1), NEW j \in 0..(n - 1), i # j PROVE Apart(F(i), F(j))
    <2>1. {(at + i) % 4} \cap {(at + j) % 4} = {}
      BY <1>2
    <2> QED
      BY <1>1, <2>1 DEF Apart
  <1>3. Bytes(at, n, size) = {F(i) : i \in 0..(n - 1)}
    BY DEF Bytes
  <1>4. ASSUME NEW i \in 0..(n - 1) PROVE F(i).from \in Int /\ F(i).to \in Int /\ at <= F(i).from
       /\ F(i).to <= at + 4 * size
    <2> HIDE DEF F
    <2> QED
      BY <1>1
  <1>5. ASSUME NEW i \in 0..(n - 1), NEW j \in 0..(n - 1), F(i) # F(j) PROVE Apart(F(i), F(j))
    BY <1>2, <1>5
  <1> HIDE DEF F
  <1> QED
    BY <1>3, <1>4, <1>5 DEF Meshed

(* Two stretches one behind the other.                                         *)
LEMMA BothLaid ==
    ASSUME NEW X, NEW Y, NEW lo \in Int, NEW a \in Int, NEW b \in Int, NEW hi \in Int,
           Meshed(X, lo, a), Meshed(Y, b, hi), lo <= a, a <= b, b <= hi
    PROVE  Meshed(X \cup Y, lo, hi)
  <1>1. \A f \in X, g \in Y : Apart(f, g) /\ Apart(g, f)
    BY DEF Meshed, Apart
  <1> QED
    BY <1>1 DEF Meshed

(* Stretches that do not meet.                                                 *)
LEMMA ClearLaid ==
    ASSUME NEW X, NEW Y, NEW lo \in Int, NEW a \in Int, NEW b \in Int, NEW hi \in Int,
           Meshed(X, lo, a), Meshed(Y, b, hi), a <= b \/ hi <= lo
    PROVE  \A f \in X, g \in Y : Apart(f, g) /\ Apart(g, f)
  BY DEF Meshed, Apart

(* A row whose files have their place, and two rows that do not meet.          *)
RowOk(row) ==
    /\ Fits(row) /\ row.neededBy \in {"start", "audit", "whole", "none"}
    /\ \A f, g \in row.files : f # g => Apart(f, g)
KeptApart(r, s) ==
    r.region = s.region => \A f \in r.files, g \in s.files : Apart(f, g) /\ Apart(g, f)
WellLaid(rows) ==
    /\ rows # << >> /\ \E S : rows \in Seq(S)
    /\ \A i \in 1..Len(rows) : RowOk(rows[i])
    /\ \A i, j \in 1..Len(rows) : i < j => KeptApart(rows[i], rows[j])

LEMMA RowLaid ==
    ASSUME NEW region, NEW size \in Int, NEW files, NEW by \in {"start", "audit", "whole", "none"}, NEW notices,
           NEW lo \in Int, NEW hi \in Int, Meshed(files, lo, hi), hi <= size
    PROVE  LET r == Row(region, size, files, by, notices)
           IN  RowOk(r) /\ r.region = region /\ r.files = files /\ r.neededBy = by
  BY DEF Meshed, Row, RowOk, Fits

LEMMA Joined ==
    ASSUME NEW S, NEW T, NEW s \in Seq(S), NEW t \in Seq(T)
    PROVE  /\ s \o t \in Seq(S \cup T) /\ Len(s \o t) = Len(s) + Len(t) /\ Len(s) \in Nat /\ Len(t) \in Nat
           /\ \A i \in 1..Len(s) : (s \o t)[i] = s[i]
           /\ \A k \in 1..Len(t) : (s \o t)[Len(s) + k] = t[k]
  <1>1. s \in Seq(S \cup T) /\ t \in Seq(S \cup T) /\ Len(s) \in Nat /\ Len(t) \in Nat
    OBVIOUS
  <1> QED
    BY <1>1

LEMMA JoinLaid ==
    ASSUME NEW s, NEW t, WellLaid(s), WellLaid(t),
           \A i \in 1..Len(s), j \in 1..Len(t) : KeptApart(s[i], t[j])
    PROVE  WellLaid(s \o t)
  <1>1. PICK S : s \in Seq(S)
    BY DEF WellLaid
  <1>2. PICK T : t \in Seq(T)
    BY DEF WellLaid
  <1>3. /\ s \o t \in Seq(S \cup T) /\ Len(s \o t) = Len(s) + Len(t) /\ Len(s) \in Nat /\ Len(t) \in Nat
        /\ \A i \in 1..Len(s) : (s \o t)[i] = s[i]
        /\ \A i \in 1..Len(t) : (s \o t)[Len(s) + i] = t[i]
    BY <1>1, <1>2, Joined
  <1>4. Len(s) > 0
    BY <1>1 DEF WellLaid
  <1>5. \A i \in 1..(Len(s) + Len(t)) : i \in 1..Len(s) \/ \E k \in 1..Len(t) : i = Len(s) + k
    <2> SUFFICES ASSUME NEW i \in 1..(Len(s) + Len(t)), i \notin 1..Len(s) PROVE \E k \in 1..Len(t) : i = Len(s) + k
      OBVIOUS
    <2>1. i - Len(s) \in 1..Len(t) /\ i = Len(s) + (i - Len(s))
      BY <1>3
    <2> QED
      BY <2>1
  <1>6. ASSUME NEW i \in 1..(Len(s) + Len(t)) PROVE RowOk((s \o t)[i])
    BY <1>3, <1>5 DEF WellLaid
  <1>7. ASSUME NEW i \in 1..(Len(s) + Len(t)), NEW j \in 1..(Len(s) + Len(t)), i < j
        PROVE  KeptApart((s \o t)[i], (s \o t)[j])
    <2>1. CASE i \in 1..Len(s) /\ j \in 1..Len(s)
      BY <1>3, <1>7, <2>1 DEF WellLaid
    <2>2. CASE i \in 1..Len(s) /\ j \notin 1..Len(s)
      BY <1>3, <1>5, <2>2
    <2>3. CASE i \notin 1..Len(s)
      <3>1. PICK k \in 1..Len(t), l \in 1..Len(t) : i = Len(s) + k /\ j = Len(s) + l /\ k < l
        BY <1>3, <1>5, <1>7, <2>3
      <3> QED
        BY <1>3, <3>1 DEF WellLaid
    <2> QED
      BY <2>1, <2>2, <2>3
  <1>8. s \o t # << >>
    BY <1>3, <1>4
  <1> QED
    BY <1>3, <1>6, <1>7, <1>8 DEF WellLaid

Needs == {"start", "audit", "whole", "none"}
(* What the proofs below use of a row.                                         *)
RowAt(r, region, by, lo, hi) ==
    /\ RowOk(r) /\ r.region = region /\ r.neededBy = by
    /\ lo \in Int /\ hi \in Int /\ Meshed(r.files, lo, hi)

LEMMA RowsPlace ==
    ASSUME NEW region, NEW size \in Int, NEW files, NEW by \in Needs, NEW notices,
           NEW lo \in Int, NEW hi \in Int, Meshed(files, lo, hi), hi <= size
    PROVE  RowAt(Row(region, size, files, by, notices), region, by, lo, hi)
  BY DEF Meshed, Row, RowOk, Fits, RowAt, Needs

LEMMA LinearRow ==
    ASSUME NEW region, NEW size \in Int, NEW by \in Needs, NEW notices,
           NEW at \in Int, NEW n \in Nat, NEW unit \in Int, 1 <= unit, NEW hi \in Int, hi = at + n * unit, hi <= size
    PROVE  RowAt(Row(region, size, Linear(at, n, unit), by, notices), region, by, at, hi)
  <1>1. Meshed(Linear(at, n, unit), at, hi)
    BY LinearLaid
  <1> QED
    BY <1>1, RowsPlace

LEMMA EvenWordsLaid ==
    ASSUME NEW at \in Int, NEW n \in Nat, NEW unit \in Int, n % 2 = 0, unit % 2 = 0, 2 <= unit,
           NEW hi \in Int, hi = at + n * unit
    PROVE  Meshed(Words(at, n, unit), at, hi)
  <1>1. PICK m \in Nat, half \in Int : n = 2 * m /\ unit = 2 * half /\ 1 <= half
    <2>1. n \div 2 \in Nat /\ unit \div 2 \in Int /\ n = 2 * (n \div 2) /\ unit = 2 * (unit \div 2)
         /\ 1 <= unit \div 2
      OBVIOUS
    <2> QED
      BY <2>1
  <1> QED
    BY <1>1, WordsLaid

LEMMA WordsRow ==
    ASSUME NEW region, NEW size \in Int, NEW by \in Needs, NEW notices,
           NEW at \in Int, NEW n \in Nat, NEW unit \in Int, n % 2 = 0, unit % 2 = 0, 2 <= unit,
           NEW hi \in Int, hi = at + n * unit, hi <= size
    PROVE  RowAt(Row(region, size, Words(at, n, unit), by, notices), region, by, at, hi)
  <1>1. Meshed(Words(at, n, unit), at, hi)
    BY EvenWordsLaid
  <1> QED
    BY <1>1, RowsPlace

LEMMA BytePairsRow ==
    ASSUME NEW region, NEW size \in Int, NEW by \in Needs, NEW notices,
           NEW at \in Int, NEW n \in Nat, NEW unit \in Int, n % 2 = 0, 1 <= unit, NEW hi \in Int,
               hi = at + n * unit, hi <= size
    PROVE  RowAt(Row(region, size, BytePairs(at, n, unit), by, notices), region, by, at, hi)
  <1>1. PICK m \in Nat : n = 2 * m
    <2>1. n \div 2 \in Nat /\ n = 2 * (n \div 2)
      OBVIOUS
    <2> QED
      BY <2>1
  <1>3. Meshed(BytePairs(at, n, unit), at, hi)
    BY <1>1, BytePairsLaid
  <1> QED
    BY <1>3, RowsPlace

LEMMA BytesRow ==
    ASSUME NEW region, NEW size \in Int, NEW by \in Needs, NEW notices,
           NEW at \in Int, NEW n \in Nat, n <= 4, NEW unit \in Int, 1 <= unit, NEW hi \in Int, hi = at + 4 * unit,
               hi <= size
    PROVE  RowAt(Row(region, size, Bytes(at, n, unit), by, notices), region, by, at, hi)
  <1>1. Meshed(Bytes(at, n, unit), at, hi)
    BY BytesLaid
  <1> QED
    BY <1>1, RowsPlace

LEMMA OwnRegions ==
    ASSUME NEW s, NEW S, s \in Seq(S), s # << >>, \A i \in 1..Len(s) : RowOk(s[i]),
           \A i, j \in 1..Len(s) : i < j => s[i].region # s[j].region
    PROVE  WellLaid(s)
  BY DEF WellLaid, KeptApart

(* The boards of System 22.                                                    *)
NoneWhole(rows) == \A i \in 1..Len(rows) : rows[i].neededBy # "whole"
Laid22(rows) == WellLaid(rows) /\ NoneWhole(rows)
NoEeprom(rows) == \A i \in 1..Len(rows) : rows[i].region # "eeprom"

LEMMA Nine22 ==
    ASSUME NEW a, NEW b, NEW c, NEW d, NEW e, NEW f, NEW g, NEW h, NEW k,
           RowOk(a), RowOk(b), RowOk(c), RowOk(d), RowOk(e), RowOk(f), RowOk(g), RowOk(h), RowOk(k),
           a.region = "program", b.region = "mcu", c.region = "textures", d.region = "tilemap", e.region = "points",
           f.region = "samples", g.region = "gamma", h.region = "c71", k.region = "c74",
           \A r \in {a, b, c, d, e, f, g, h, k} : r.neededBy # "whole"
    PROVE  LET s == << a, b, c, d, e, f, g, h, k >>
           IN  Laid22(s) /\ NoEeprom(s)
  <1> DEFINE s == << a, b, c, d, e, f, g, h, k >>
  <1>1. PICK S : S = {a, b, c, d, e, f, g, h, k}
    OBVIOUS
  <1>2. a \in S /\ b \in S /\ c \in S /\ d \in S /\ e \in S /\ f \in S /\ g \in S /\ h \in S /\ k \in S
    BY <1>1
  <1>3. s \in Seq(S) /\ Len(s) = 9 /\ s # << >>
    BY <1>2
  <1>4. s[1] = a /\ s[2] = b /\ s[3] = c /\ s[4] = d /\ s[5] = e /\ s[6] = f /\ s[7] = g /\ s[8] = h /\ s[9] = k
    OBVIOUS
  <1> HIDE DEF s
  <1>5. \A i \in 1..9 : RowOk(s[i]) /\ s[i].neededBy # "whole" /\ s[i].region # "eeprom"
    BY <1>4
  <1>6. ASSUME NEW i \in 1..9, NEW j \in 1..9, i < j PROVE s[i].region # s[j].region
    BY <1>4, <1>6
  <1>7. WellLaid(s)
    BY <1>3, <1>5, <1>6, OwnRegions
  <1>8. NoneWhole(s)
    BY <1>3, <1>5 DEF NoneWhole
  <1> QED
    BY <1>3, <1>5, <1>7, <1>8 DEF s, Laid22, NoEeprom

LEMMA Board22Laid ==
    ASSUME NEW mcu \in Nat, NEW mcuSize \in Nat, NEW textures, NEW colours \in Nat, NEW points \in Nat,
        NEW pointSize \in Nat,
           NEW notices, 1 <= mcu, mcu <= mcuSize, Meshed(textures, 0, \h1000000), 1 <= colours, colours <= \h200000,
           points * \h80000 <= pointSize
    PROVE  LET s == Board22(mcu, mcuSize, textures, colours, points, pointSize, notices)
           IN  Laid22(s) /\ NoEeprom(s)
  <1> DEFINE a == Row("program", \h200000, Bytes(0, 4, \h80000), "start", notices)
             b == Needed("mcu", mcuSize, Linear(0, 1, mcu))
             c == Audited22("textures", \h1000000, textures)
             d == Audited22("tilemap", \h280000, Linear(0, 1, colours) \cup Linear(\h200000, 1, \h80000))
             e == Needed("points", pointSize, Linear(0, points, \h80000))
             f == Audited22("samples", \h1000000, Linear(0, 4, \h100000))
             g == Audited22("gamma", \h300, Linear(0, 3, \h100))
             h == Needed("c71", \h2000, Linear(0, 1, \h2000))
             k == Needed("c74", \h4000, Linear(0, 1, \h4000))
  <1>w. "start" \in Needs /\ "audit" \in Needs
    BY DEF Needs
  <1>a. RowAt(a, "program", "start", 0, \h200000)
    BY SMT, <1>w, BytesRow
  <1>b. RowAt(b, "mcu", "start", 0, 1 * mcu)
    BY SMT, <1>w, LinearRow DEF Needed
  <1>c. RowAt(c, "textures", "audit", 0, \h1000000)
    BY SMT, <1>w, RowsPlace DEF Audited22
  <1>d. RowAt(d, "tilemap", "audit", 0, \h280000)
    <2>1. Meshed(Linear(0, 1, colours), 0, colours)
      <3>1. colours = 0 + 1 * colours
        OBVIOUS
      <3> QED
        BY SMT, <3>1, LinearLaid
    <2>a. Meshed(Linear(\h200000, 1, \h80000), \h200000, \h280000)
      BY SMT, LinearLaid
    <2>2. Meshed(Linear(0, 1, colours) \cup Linear(\h200000, 1, \h80000), 0, \h280000)
      BY SMT, <2>1, <2>a, BothLaid
    <2> QED
      BY SMT, <1>w, <2>2, RowsPlace DEF Audited22
  <1>e. RowAt(e, "points", "start", 0, points * \h80000)
    BY SMT, <1>w, LinearRow DEF Needed
  <1>f. RowAt(f, "samples", "audit", 0, 4 * \h100000)
    BY SMT, <1>w, LinearRow DEF Audited22
  <1>g. RowAt(g, "gamma", "audit", 0, 3 * \h100)
    BY SMT, <1>w, LinearRow DEF Audited22
  <1>h. RowAt(h, "c71", "start", 0, 1 * \h2000)
    BY SMT, <1>w, LinearRow DEF Needed
  <1>k. RowAt(k, "c74", "start", 0, 1 * \h4000)
    BY SMT, <1>w, LinearRow DEF Needed
  <1>1. Board22(mcu, mcuSize, textures, colours, points, pointSize, notices) = << a, b, c, d, e, f, g, h, k >>
    BY SMT DEF Board22
  <1> HIDE DEF a, b, c, d, e, f, g, h, k
  <1> QED
    BY SMT, <1>1, <1>a, <1>b, <1>c, <1>d, <1>e, <1>f, <1>g, <1>h, <1>k, Nine22 DEF RowAt

LEMMA Eight22 ==
    ASSUME NEW a, NEW b, NEW c, NEW d, NEW e, NEW f, NEW g, NEW h,
           RowOk(a), RowOk(b), RowOk(c), RowOk(d), RowOk(e), RowOk(f), RowOk(g), RowOk(h),
           a.region = "program", b.region = "mcu", c.region = "sprites", d.region = "textures", e.region = "tilemap",
           f.region = "points", g.region = "samples", h.region = "c71",
           \A r \in {a, b, c, d, e, f, g, h} : r.neededBy # "whole"
    PROVE  LET s == << a, b, c, d, e, f, g, h >>
           IN  Laid22(s) /\ NoEeprom(s)
  <1> DEFINE s == << a, b, c, d, e, f, g, h >>
  <1>1. PICK S : S = {a, b, c, d, e, f, g, h}
    OBVIOUS
  <1>2. a \in S /\ b \in S /\ c \in S /\ d \in S /\ e \in S /\ f \in S /\ g \in S /\ h \in S
    BY <1>1
  <1>3. s \in Seq(S) /\ Len(s) = 8 /\ s # << >>
    BY <1>2
  <1>4. s[1] = a /\ s[2] = b /\ s[3] = c /\ s[4] = d /\ s[5] = e /\ s[6] = f /\ s[7] = g /\ s[8] = h
    OBVIOUS
  <1> HIDE DEF s
  <1>5. \A i \in 1..8 : RowOk(s[i]) /\ s[i].neededBy # "whole" /\ s[i].region # "eeprom"
    BY <1>4
  <1>6. ASSUME NEW i \in 1..8, NEW j \in 1..8, i < j PROVE s[i].region # s[j].region
    BY <1>4, <1>6
  <1>7. WellLaid(s)
    BY <1>3, <1>5, <1>6, OwnRegions
  <1>8. NoneWhole(s)
    BY <1>3, <1>5 DEF NoneWhole
  <1> QED
    BY <1>3, <1>5, <1>7, <1>8 DEF s, Laid22, NoEeprom

LEMMA SuperBoard22Laid ==
    ASSUME NEW sprites \in 1..8, NEW textures \in 1..8, NEW points \in Nat, NEW pointSize \in Nat,
        NEW secondWave \in Nat,
           points * \h80000 <= pointSize, 1 <= secondWave, secondWave <= \h800000
    PROVE  LET s == SuperBoard22(sprites, textures, points, pointSize, secondWave)
           IN  Laid22(s) /\ NoEeprom(s)
  <1> DEFINE a == Needed("program", \h400000, Bytes(0, 4, \h100000))
             b == Needed("mcu", \h80000, Linear(0, 1, \h80000))
             c == Audited22("sprites", \h1000000, Linear(0, sprites, \h200000))
             d == Audited22("textures", \h1000000, Linear(0, textures, \h200000))
             e == Audited22("tilemap", \h280000, Linear(0, 1, \h200000) \cup Linear(\h200000, 1, \h80000))
             f == Needed("points", pointSize, Linear(0, points, \h80000))
             g == Audited22("samples", \h1000000, Linear(0, 1, \h400000) \cup Linear(\h800000, 1, secondWave))
             h == Needed("c71", \h2000, Linear(0, 1, \h2000))
  <1>w. "start" \in Needs /\ "audit" \in Needs
    BY DEF Needs
  <1>a. RowAt(a, "program", "start", 0, \h400000)
    BY SMT, <1>w, BytesRow DEF Needed
  <1>b. RowAt(b, "mcu", "start", 0, \h80000)
    BY SMT, <1>w, LinearRow DEF Needed
  <1>c. RowAt(c, "sprites", "audit", 0, sprites * \h200000)
    BY SMT, <1>w, LinearRow DEF Audited22
  <1>d. RowAt(d, "textures", "audit", 0, textures * \h200000)
    BY SMT, <1>w, LinearRow DEF Audited22
  <1>e. RowAt(e, "tilemap", "audit", 0, \h280000)
    <2>1. Meshed(Linear(0, 1, \h200000), 0, \h200000)
      BY SMT, LinearLaid
    <2>a. Meshed(Linear(\h200000, 1, \h80000), \h200000, \h280000)
      BY SMT, LinearLaid
    <2>2. Meshed(Linear(0, 1, \h200000) \cup Linear(\h200000, 1, \h80000), 0, \h280000)
      BY SMT, <2>1, <2>a, BothLaid
    <2> QED
      BY SMT, <1>w, <2>2, RowsPlace DEF Audited22
  <1>f. RowAt(f, "points", "start", 0, points * \h80000)
    BY SMT, <1>w, LinearRow DEF Needed
  <1>g. RowAt(g, "samples", "audit", 0, \h800000 + secondWave)
    <2>1. Meshed(Linear(0, 1, \h400000), 0, \h400000)
      BY SMT, LinearLaid
    <2>a. Meshed(Linear(\h800000, 1, secondWave), \h800000, \h800000 + secondWave)
      BY SMT, LinearLaid
    <2>2. Meshed(Linear(0, 1, \h400000) \cup Linear(\h800000, 1, secondWave), 0, \h800000 + secondWave)
      BY SMT, <2>1, <2>a, BothLaid
    <2> QED
      BY SMT, <1>w, <2>2, RowsPlace DEF Audited22
  <1>h. RowAt(h, "c71", "start", 0, \h2000)
    BY SMT, <1>w, LinearRow DEF Needed
  <1>1. SuperBoard22(sprites, textures, points, pointSize, secondWave) = << a, b, c, d, e, f, g, h >>
    BY SMT DEF SuperBoard22
  <1> HIDE DEF a, b, c, d, e, f, g, h
  <1> QED
    BY SMT, <1>1, <1>a, <1>b, <1>c, <1>d, <1>e, <1>f, <1>g, <1>h, Eight22 DEF RowAt

LEMMA WithEeprom ==
    ASSUME NEW s, Laid22(s), NoEeprom(s) PROVE Laid22(Append(s, Eeprom))
  <1>1. RowAt(Eeprom, "eeprom", "none", 0, \h2000)
    <2>1. "none" \in Needs
      BY DEF Needs
    <2> QED
      BY SMT, <2>1, LinearRow DEF Eeprom
  <1> DEFINE t == << Eeprom >>
  <1>2. PICK S : s \in Seq(S)
    BY DEF Laid22, WellLaid
  <1>3. Append(s, Eeprom) = s \o t
    BY <1>2
  <1>4. t \in Seq({Eeprom}) /\ Len(t) = 1 /\ t[1] = Eeprom /\ t # << >>
    OBVIOUS
  <1> HIDE DEF t
  <1>5. WellLaid(t)
    BY <1>1, <1>4 DEF WellLaid, RowAt
  <1>6. \A i \in 1..Len(s), j \in 1..Len(t) : KeptApart(s[i], t[j])
    BY <1>1, <1>4 DEF KeptApart, RowAt, NoEeprom
  <1>7. WellLaid(s \o t)
    BY <1>5, <1>6, JoinLaid DEF Laid22
  <1>8. NoneWhole(s \o t)
    <2>2. /\ Len(s \o t) = Len(s) + Len(t) /\ Len(s) \in Nat
          /\ \A i \in 1..Len(s) : (s \o t)[i] = s[i]
          /\ \A k \in 1..Len(t) : (s \o t)[Len(s) + k] = t[k]
      BY <1>2, <1>4, Joined
    <2>4. 1 \in 1..Len(t)
      BY <1>4
    <2>5. Eeprom.neededBy # "whole"
      BY <1>1 DEF RowAt
    <2> QED
      BY <1>4, <2>2, <2>4, <2>5 DEF Laid22, NoneWhole
  <1> QED
    BY <1>3, <1>7, <1>8 DEF Laid22

LEMMA Layouts22 ==
    /\ \A n : Laid22(RidgeRacer(n))
    /\ Laid22(RaveRacer) /\ Laid22(VictoryLap) /\ Laid22(CyberCommando) /\ Laid22(AceDriver)
    /\ Laid22(TimeCrisis) /\ Laid22(DirtDash) /\ Laid22(AquaJet)
  <1>1. Meshed(UpperTextures, 0, \h1000000)
    <2>1. Meshed(Linear(\h800000, 4, \h200000), \h800000, \h1000000)
      BY SMT, LinearLaid
    <2> QED
      BY SMT, <2>1 DEF UpperTextures, Meshed
  <1>2. Meshed(Linear(0, 8, \h200000), 0, \h1000000)
    BY SMT, LinearLaid
  <1>3. \A n : Laid22(RidgeRacer(n))
    BY SMT, <1>1, Board22Laid DEF RidgeRacer
  <1>4. Laid22(RaveRacer)
    BY SMT, <1>2, Board22Laid, WithEeprom DEF RaveRacer
  <1>5. Laid22(VictoryLap)
    BY SMT, <1>2, Board22Laid DEF VictoryLap
  <1>6. Laid22(CyberCommando)
    BY SMT, <1>1, Board22Laid, WithEeprom DEF CyberCommando
  <1>7. Laid22(TimeCrisis) /\ Laid22(DirtDash)
    BY SMT, SuperBoard22Laid DEF TimeCrisis, DirtDash
  <1>8. Laid22(AquaJet)
    BY SMT, SuperBoard22Laid, WithEeprom DEF AquaJet
  <1> QED
    BY <1>3, <1>4, <1>5, <1>6, <1>7, <1>8 DEF AceDriver

(* No row of these regions but the named ones.                                 *)
OnlyIn(rows, names) == \A i \in 1..Len(rows) : rows[i].region \in names

LEMMA PhoenixLaid ==
    WellLaid(PhoenixRows)
        /\ OnlyIn(PhoenixRows, {"program", "background_graphics", "foreground_graphics", "palette_prom"})
  <1> DEFINE a == Unsized("program", \h4000, Linear(0, 8, \h800))
             b == Unsized("background_graphics", \h1000, Linear(0, 2, \h800))
             c == Unsized("foreground_graphics", \h1000, Linear(0, 2, \h800))
             d == Unsized("palette_prom", \h200, Linear(0, 2, \h100))
  <1>w. "start" \in Needs
    BY DEF Needs
  <1>a. RowAt(a, "program", "start", 0, \h4000)
    BY SMT, <1>w, LinearRow DEF Unsized
  <1>b. RowAt(b, "background_graphics", "start", 0, \h1000)
    BY SMT, <1>w, LinearRow DEF Unsized
  <1>c. RowAt(c, "foreground_graphics", "start", 0, \h1000)
    BY SMT, <1>w, LinearRow DEF Unsized
  <1>d. RowAt(d, "palette_prom", "start", 0, \h200)
    BY SMT, <1>w, LinearRow DEF Unsized
  <1>1. PhoenixRows = << a, b, c, d >>
    BY SMT DEF PhoenixRows
  <1> HIDE DEF a, b, c, d
  <1> DEFINE s == << a, b, c, d >>
  <1>2. PICK S : S = {a, b, c, d}
    OBVIOUS
  <1>3. a \in S /\ b \in S /\ c \in S /\ d \in S
    BY <1>2
  <1>4. s \in Seq(S) /\ Len(s) = 4 /\ s # << >>
    BY <1>3
  <1>5. s[1] = a /\ s[2] = b /\ s[3] = c /\ s[4] = d
    OBVIOUS
  <1> HIDE DEF s
  <1>6. /\ a.region = "program" /\ RowOk(a)
        /\ b.region = "background_graphics" /\ RowOk(b)
        /\ c.region = "foreground_graphics" /\ RowOk(c)
        /\ d.region = "palette_prom" /\ RowOk(d)
    BY <1>a, <1>b, <1>c, <1>d DEF RowAt
  <1>7. \A i \in 1..4 : RowOk(s[i])
    BY <1>5, <1>6
  <1>8. OnlyIn(s, {"program", "background_graphics", "foreground_graphics", "palette_prom"})
    BY <1>4, <1>5, <1>6 DEF OnlyIn
  <1>9. ASSUME NEW i \in 1..4, NEW j \in 1..4, i < j PROVE s[i].region # s[j].region
    BY <1>5, <1>6, <1>9
  <1>10. WellLaid(s)
    BY <1>4, <1>7, <1>9, OwnRegions
  <1> QED
    BY <1>1, <1>8, <1>10 DEF s

LEMMA GalaxianLaid ==
    ASSUME NEW programs \in 1..8, NEW chars \in 1..4
    PROVE  WellLaid(GalaxianRows(programs, chars))
           /\ OnlyIn(GalaxianRows(programs, chars), {"program", "char_rom", "palette"})
  <1> DEFINE a == Sized("program", \h4000, Linear(0, programs, \h800))
             b == Sized("char_rom", \h2000, Linear(0, chars, \h800))
             c == Sized("palette", 32, Linear(0, 1, 32))
  <1>w. "start" \in Needs
    BY DEF Needs
  <1>a. RowAt(a, "program", "start", 0, programs * \h800)
    BY SMT, <1>w, LinearRow DEF Sized
  <1>b. RowAt(b, "char_rom", "start", 0, chars * \h800)
    BY SMT, <1>w, LinearRow DEF Sized
  <1>c. RowAt(c, "palette", "start", 0, 32)
    BY SMT, <1>w, LinearRow DEF Sized
  <1>1. GalaxianRows(programs, chars) = << a, b, c >>
    BY SMT DEF GalaxianRows
  <1> HIDE DEF a, b, c
  <1> DEFINE s == << a, b, c >>
  <1>2. PICK S : S = {a, b, c}
    OBVIOUS
  <1>3. a \in S /\ b \in S /\ c \in S
    BY <1>2
  <1>4. s \in Seq(S) /\ Len(s) = 3 /\ s # << >>
    BY <1>3
  <1>5. s[1] = a /\ s[2] = b /\ s[3] = c
    OBVIOUS
  <1> HIDE DEF s
  <1>6. /\ a.region = "program" /\ RowOk(a)
        /\ b.region = "char_rom" /\ RowOk(b)
        /\ c.region = "palette" /\ RowOk(c)
    BY <1>a, <1>b, <1>c DEF RowAt
  <1>7. \A i \in 1..3 : RowOk(s[i])
    BY <1>5, <1>6
  <1>8. OnlyIn(s, {"program", "char_rom", "palette"})
    BY <1>4, <1>5, <1>6 DEF OnlyIn
  <1>9. ASSUME NEW i \in 1..3, NEW j \in 1..3, i < j PROVE s[i].region # s[j].region
    BY <1>5, <1>6, <1>9
  <1>10. WellLaid(s)
    BY <1>4, <1>7, <1>9, OwnRegions
  <1> QED
    BY <1>1, <1>8, <1>10 DEF s

LEMMA GalagaLaid ==
    WellLaid(GalagaRows)
        /\ OnlyIn(GalagaRows, {"main", "sub", "sound", "chars", "sprites", "palette", "char_lookup",
            "sprite_lookup", "waveform"})
  <1> DEFINE a == Needed("main", \h4000, Linear(0, 4, \h1000))
             b == Chip("sub", \h1000)
             c == Chip("sound", \h1000)
             d == Chip("chars", \h1000)
             e == Needed("sprites", \h2000, Linear(0, 2, \h1000))
             f == Chip("palette", \h20)
             g == Chip("char_lookup", \h100)
             h == Chip("sprite_lookup", \h100)
             k == Chip("waveform", \h100)
  <1>w. "start" \in Needs
    BY DEF Needs
  <1>a. RowAt(a, "main", "start", 0, \h4000)
    BY SMT, <1>w, LinearRow DEF Needed
  <1>b. RowAt(b, "sub", "start", 0, \h1000)
    BY SMT, <1>w, LinearRow DEF Chip, Needed
  <1>c. RowAt(c, "sound", "start", 0, \h1000)
    BY SMT, <1>w, LinearRow DEF Chip, Needed
  <1>d. RowAt(d, "chars", "start", 0, \h1000)
    BY SMT, <1>w, LinearRow DEF Chip, Needed
  <1>e. RowAt(e, "sprites", "start", 0, \h2000)
    BY SMT, <1>w, LinearRow DEF Needed
  <1>f. RowAt(f, "palette", "start", 0, \h20)
    BY SMT, <1>w, LinearRow DEF Chip, Needed
  <1>g. RowAt(g, "char_lookup", "start", 0, \h100)
    BY SMT, <1>w, LinearRow DEF Chip, Needed
  <1>h. RowAt(h, "sprite_lookup", "start", 0, \h100)
    BY SMT, <1>w, LinearRow DEF Chip, Needed
  <1>k. RowAt(k, "waveform", "start", 0, \h100)
    BY SMT, <1>w, LinearRow DEF Chip, Needed
  <1>1. GalagaRows = << a, b, c, d, e, f, g, h, k >>
    BY SMT DEF GalagaRows
  <1> HIDE DEF a, b, c, d, e, f, g, h, k
  <1> DEFINE s == << a, b, c, d, e, f, g, h, k >>
  <1>2. PICK S : S = {a, b, c, d, e, f, g, h, k}
    OBVIOUS
  <1>3. a \in S /\ b \in S /\ c \in S /\ d \in S /\ e \in S /\ f \in S /\ g \in S /\ h \in S /\ k \in S
    BY <1>2
  <1>4. s \in Seq(S) /\ Len(s) = 9 /\ s # << >>
    BY <1>3
  <1>5. s[1] = a /\ s[2] = b /\ s[3] = c /\ s[4] = d /\ s[5] = e /\ s[6] = f /\ s[7] = g /\ s[8] = h /\ s[9] = k
    OBVIOUS
  <1> HIDE DEF s
  <1>6. /\ a.region = "main" /\ RowOk(a)
        /\ b.region = "sub" /\ RowOk(b)
        /\ c.region = "sound" /\ RowOk(c)
        /\ d.region = "chars" /\ RowOk(d)
        /\ e.region = "sprites" /\ RowOk(e)
        /\ f.region = "palette" /\ RowOk(f)
        /\ g.region = "char_lookup" /\ RowOk(g)
        /\ h.region = "sprite_lookup" /\ RowOk(h)
        /\ k.region = "waveform" /\ RowOk(k)
    BY <1>a, <1>b, <1>c, <1>d, <1>e, <1>f, <1>g, <1>h, <1>k DEF RowAt
  <1>7. \A i \in 1..9 : RowOk(s[i])
    BY <1>5, <1>6
  <1>8. OnlyIn(s, {"main", "sub", "sound", "chars", "sprites", "palette", "char_lookup", "sprite_lookup", "waveform"})
    BY <1>4, <1>5, <1>6 DEF OnlyIn
  <1>9. ASSUME NEW i \in 1..9, NEW j \in 1..9, i < j PROVE s[i].region # s[j].region
    BY <1>5, <1>6, <1>9
  <1>10. WellLaid(s)
    BY <1>4, <1>7, <1>9, OwnRegions
  <1> QED
    BY <1>1, <1>8, <1>10 DEF s

LEMMA PacManiaLaid ==
    WellLaid(PacManiaRows)
        /\ OnlyIn(PacManiaRows, {"program6", "program7", "sound0", "sound1", "mcu", "voice", "chars", "mask",
            "sprite0", "sprite1"})
  <1> DEFINE a == Chip("program6", \h20000)
             b == Chip("program7", \h10000)
             c == Chip("sound0", \h10000)
             d == Chip("sound1", \h10000)
             e == Chip("mcu", \h1000)
             f == Chip("voice", \h10000)
             g == Needed("chars", \h80000, Linear(0, 4, \h20000))
             h == Chip("mask", \h10000)
             k == Chip("sprite0", \h20000)
             m == Chip("sprite1", \h20000)
  <1>w. "start" \in Needs
    BY DEF Needs
  <1>a. RowAt(a, "program6", "start", 0, \h20000)
    BY SMT, <1>w, LinearRow DEF Chip, Needed
  <1>b. RowAt(b, "program7", "start", 0, \h10000)
    BY SMT, <1>w, LinearRow DEF Chip, Needed
  <1>c. RowAt(c, "sound0", "start", 0, \h10000)
    BY SMT, <1>w, LinearRow DEF Chip, Needed
  <1>d. RowAt(d, "sound1", "start", 0, \h10000)
    BY SMT, <1>w, LinearRow DEF Chip, Needed
  <1>e. RowAt(e, "mcu", "start", 0, \h1000)
    BY SMT, <1>w, LinearRow DEF Chip, Needed
  <1>f. RowAt(f, "voice", "start", 0, \h10000)
    BY SMT, <1>w, LinearRow DEF Chip, Needed
  <1>g. RowAt(g, "chars", "start", 0, \h80000)
    BY SMT, <1>w, LinearRow DEF Needed
  <1>h. RowAt(h, "mask", "start", 0, \h10000)
    BY SMT, <1>w, LinearRow DEF Chip, Needed
  <1>k. RowAt(k, "sprite0", "start", 0, \h20000)
    BY SMT, <1>w, LinearRow DEF Chip, Needed
  <1>m. RowAt(m, "sprite1", "start", 0, \h20000)
    BY SMT, <1>w, LinearRow DEF Chip, Needed
  <1>1. PacManiaRows = << a, b, c, d, e, f, g, h, k, m >>
    BY SMT DEF PacManiaRows
  <1> HIDE DEF a, b, c, d, e, f, g, h, k, m
  <1> DEFINE s == << a, b, c, d, e, f, g, h, k, m >>
  <1>2. PICK S : S = {a, b, c, d, e, f, g, h, k, m}
    OBVIOUS
  <1>3. a \in S /\ b \in S /\ c \in S /\ d \in S /\ e \in S /\ f \in S /\ g \in S /\ h \in S /\ k \in S /\ m \in S
    BY <1>2
  <1>4. s \in Seq(S) /\ Len(s) = 10 /\ s # << >>
    BY <1>3
  <1>5. s[1] = a /\ s[2] = b /\ s[3] = c /\ s[4] = d /\ s[5] = e /\ s[6] = f /\ s[7] = g /\ s[8] = h /\ s[9] = k
       /\ s[10] = m
    OBVIOUS
  <1> HIDE DEF s
  <1>6. /\ a.region = "program6" /\ RowOk(a)
        /\ b.region = "program7" /\ RowOk(b)
        /\ c.region = "sound0" /\ RowOk(c)
        /\ d.region = "sound1" /\ RowOk(d)
        /\ e.region = "mcu" /\ RowOk(e)
        /\ f.region = "voice" /\ RowOk(f)
        /\ g.region = "chars" /\ RowOk(g)
        /\ h.region = "mask" /\ RowOk(h)
        /\ k.region = "sprite0" /\ RowOk(k)
        /\ m.region = "sprite1" /\ RowOk(m)
    BY <1>a, <1>b, <1>c, <1>d, <1>e, <1>f, <1>g, <1>h, <1>k, <1>m DEF RowAt
  <1>7. \A i \in 1..10 : RowOk(s[i])
    BY <1>5, <1>6
  <1>8. OnlyIn(s, {"program6", "program7", "sound0", "sound1", "mcu", "voice", "chars", "mask", "sprite0", "sprite1"})
    BY <1>4, <1>5, <1>6 DEF OnlyIn
  <1>9. ASSUME NEW i \in 1..10, NEW j \in 1..10, i < j PROVE s[i].region # s[j].region
    BY <1>5, <1>6, <1>9
  <1>10. WellLaid(s)
    BY <1>4, <1>7, <1>9, OwnRegions
  <1> QED
    BY <1>1, <1>8, <1>10 DEF s

LEMMA GngLaid ==
    WellLaid(GngRows) /\ OnlyIn(GngRows, {"main", "sound", "chars", "tiles", "sprites", "proms"})
  <1> DEFINE a == Needed("main", \h18000, Linear(\h4000, 1, \h4000) \cup Linear(\h8000, 1,
       \h8000) \cup Linear(\h10000, 1, \h8000))
             b == Chip("sound", \h8000)
             c == Chip("chars", \h4000)
             d == Needed("tiles", \h18000, Linear(0, 6, \h4000))
             e == Needed("sprites", \h20000, Linear(0, 3, \h4000) \cup Linear(\h10000, 3, \h4000))
             f == Needed("proms", \h200, Linear(0, 2, \h100))
  <1>w. "start" \in Needs
    BY DEF Needs
  <1>a. RowAt(a, "main", "start", \h4000, \h18000)
    <2>1. Meshed(Linear(\h4000, 1, \h4000), \h4000, \h8000)
      BY SMT, LinearLaid
    <2>2. Meshed(Linear(\h8000, 1, \h8000), \h8000, \h10000)
      BY SMT, LinearLaid
    <2>3. Meshed(Linear(\h10000, 1, \h8000), \h10000, \h18000)
      BY SMT, LinearLaid
    <2>4. Meshed(Linear(\h4000, 1, \h4000) \cup Linear(\h8000, 1, \h8000), \h4000, \h10000)
      BY SMT, <2>1, <2>2, BothLaid
    <2>5. Meshed(Linear(\h4000, 1, \h4000) \cup Linear(\h8000, 1, \h8000) \cup Linear(\h10000, 1, \h8000), \h4000,
         \h18000)
      BY SMT, <2>4, <2>3, BothLaid
    <2> QED
      BY SMT, <1>w, <2>5, RowsPlace DEF Needed
  <1>b. RowAt(b, "sound", "start", 0, \h8000)
    BY SMT, <1>w, LinearRow DEF Chip, Needed
  <1>c. RowAt(c, "chars", "start", 0, \h4000)
    BY SMT, <1>w, LinearRow DEF Chip, Needed
  <1>d. RowAt(d, "tiles", "start", 0, \h18000)
    BY SMT, <1>w, LinearRow DEF Needed
  <1>e. RowAt(e, "sprites", "start", 0, \h1c000)
    <2>1. Meshed(Linear(0, 3, \h4000), 0, \hc000)
      BY SMT, LinearLaid
    <2>2. Meshed(Linear(\h10000, 3, \h4000), \h10000, \h1c000)
      BY SMT, LinearLaid
    <2>3. Meshed(Linear(0, 3, \h4000) \cup Linear(\h10000, 3, \h4000), 0, \h1c000)
      BY SMT, <2>1, <2>2, BothLaid
    <2> QED
      BY SMT, <1>w, <2>3, RowsPlace DEF Needed
  <1>f. RowAt(f, "proms", "start", 0, \h200)
    BY SMT, <1>w, LinearRow DEF Needed
  <1>1. GngRows = << a, b, c, d, e, f >>
    BY SMT DEF GngRows
  <1> HIDE DEF a, b, c, d, e, f
  <1> DEFINE s == << a, b, c, d, e, f >>
  <1>2. PICK S : S = {a, b, c, d, e, f}
    OBVIOUS
  <1>3. a \in S /\ b \in S /\ c \in S /\ d \in S /\ e \in S /\ f \in S
    BY <1>2
  <1>4. s \in Seq(S) /\ Len(s) = 6 /\ s # << >>
    BY <1>3
  <1>5. s[1] = a /\ s[2] = b /\ s[3] = c /\ s[4] = d /\ s[5] = e /\ s[6] = f
    OBVIOUS
  <1> HIDE DEF s
  <1>6. /\ a.region = "main" /\ RowOk(a)
        /\ b.region = "sound" /\ RowOk(b)
        /\ c.region = "chars" /\ RowOk(c)
        /\ d.region = "tiles" /\ RowOk(d)
        /\ e.region = "sprites" /\ RowOk(e)
        /\ f.region = "proms" /\ RowOk(f)
    BY <1>a, <1>b, <1>c, <1>d, <1>e, <1>f DEF RowAt
  <1>7. \A i \in 1..6 : RowOk(s[i])
    BY <1>5, <1>6
  <1>8. OnlyIn(s, {"main", "sound", "chars", "tiles", "sprites", "proms"})
    BY <1>4, <1>5, <1>6 DEF OnlyIn
  <1>9. ASSUME NEW i \in 1..6, NEW j \in 1..6, i < j PROVE s[i].region # s[j].region
    BY <1>5, <1>6, <1>9
  <1>10. WellLaid(s)
    BY <1>4, <1>7, <1>9, OwnRegions
  <1> QED
    BY <1>1, <1>8, <1>10 DEF s

LEMMA ShinobiLaid ==
    WellLaid(ShinobiRows)
        /\ OnlyIn(ShinobiRows, {"program", "tile_plane0", "tile_plane1", "tile_plane2", "sprite_gfx", "sound_prog",
            "sound_data"})
  <1> DEFINE a == Sized("program", \h40000, BytePairs(0, 2, \h20000))
             b == Unsized("tile_plane0", \h20000, Linear(0, 1, \h20000))
             c == Unsized("tile_plane1", \h20000, Linear(0, 1, \h20000))
             d == Unsized("tile_plane2", \h20000, Linear(0, 1, \h20000))
             e == Row("sprite_gfx", \h80000, BytePairs(0, 4, \h20000), "none", {"short"})
             f == Row("sound_prog", \h8000, Linear(0, 1, \h8000), "audit", {})
             g == Row("sound_data", \h20000, Linear(0, 1, \h20000), "audit", {})
  <1>w. "audit" \in Needs /\ "none" \in Needs /\ "start" \in Needs
    BY DEF Needs
  <1>a. RowAt(a, "program", "start", 0, \h40000)
    BY SMT, <1>w, BytePairsRow DEF Sized
  <1>b. RowAt(b, "tile_plane0", "start", 0, \h20000)
    BY SMT, <1>w, LinearRow DEF Unsized
  <1>c. RowAt(c, "tile_plane1", "start", 0, \h20000)
    BY SMT, <1>w, LinearRow DEF Unsized
  <1>d. RowAt(d, "tile_plane2", "start", 0, \h20000)
    BY SMT, <1>w, LinearRow DEF Unsized
  <1>e. RowAt(e, "sprite_gfx", "none", 0, \h80000)
    BY SMT, <1>w, BytePairsRow
  <1>f. RowAt(f, "sound_prog", "audit", 0, \h8000)
    BY SMT, <1>w, LinearRow
  <1>g. RowAt(g, "sound_data", "audit", 0, \h20000)
    BY SMT, <1>w, LinearRow
  <1>1. ShinobiRows = << a, b, c, d, e, f, g >>
    BY SMT DEF ShinobiRows
  <1> HIDE DEF a, b, c, d, e, f, g
  <1> DEFINE s == << a, b, c, d, e, f, g >>
  <1>2. PICK S : S = {a, b, c, d, e, f, g}
    OBVIOUS
  <1>3. a \in S /\ b \in S /\ c \in S /\ d \in S /\ e \in S /\ f \in S /\ g \in S
    BY <1>2
  <1>4. s \in Seq(S) /\ Len(s) = 7 /\ s # << >>
    BY <1>3
  <1>5. s[1] = a /\ s[2] = b /\ s[3] = c /\ s[4] = d /\ s[5] = e /\ s[6] = f /\ s[7] = g
    OBVIOUS
  <1> HIDE DEF s
  <1>6. /\ a.region = "program" /\ RowOk(a)
        /\ b.region = "tile_plane0" /\ RowOk(b)
        /\ c.region = "tile_plane1" /\ RowOk(c)
        /\ d.region = "tile_plane2" /\ RowOk(d)
        /\ e.region = "sprite_gfx" /\ RowOk(e)
        /\ f.region = "sound_prog" /\ RowOk(f)
        /\ g.region = "sound_data" /\ RowOk(g)
    BY <1>a, <1>b, <1>c, <1>d, <1>e, <1>f, <1>g DEF RowAt
  <1>7. \A i \in 1..7 : RowOk(s[i])
    BY <1>5, <1>6
  <1>8. OnlyIn(s, {"program", "tile_plane0", "tile_plane1", "tile_plane2", "sprite_gfx", "sound_prog", "sound_data"})
    BY <1>4, <1>5, <1>6 DEF OnlyIn
  <1>9. ASSUME NEW i \in 1..7, NEW j \in 1..7, i < j PROVE s[i].region # s[j].region
    BY <1>5, <1>6, <1>9
  <1>10. WellLaid(s)
    BY <1>4, <1>7, <1>9, OwnRegions
  <1> QED
    BY <1>1, <1>8, <1>10 DEF s

LEMMA JoinedIn ==
    ASSUME NEW s, NEW t, NEW X, NEW Y, WellLaid(s), WellLaid(t), OnlyIn(s, X), OnlyIn(t, Y)
    PROVE  OnlyIn(s \o t, X \cup Y)
  <1>1. PICK S, T : s \in Seq(S) /\ t \in Seq(T)
    BY DEF WellLaid
  <1>2. /\ Len(s \o t) = Len(s) + Len(t) /\ Len(s) \in Nat /\ Len(t) \in Nat
        /\ \A i \in 1..Len(s) : (s \o t)[i] = s[i]
        /\ \A k \in 1..Len(t) : (s \o t)[Len(s) + k] = t[k]
    BY <1>1, Joined
  <1>3. ASSUME NEW i \in 1..(Len(s) + Len(t)) PROVE (s \o t)[i].region \in X \cup Y
    <2>1. CASE i \in 1..Len(s)
      BY <1>2, <2>1 DEF OnlyIn
    <2>2. CASE i \notin 1..Len(s)
      <3>1. PICK k \in 1..Len(t) : i = Len(s) + k
        <4>1. i - Len(s) \in 1..Len(t) /\ i = Len(s) + (i - Len(s))
          BY <1>2, <2>2
        <4> QED
          BY <4>1
      <3> QED
        BY <1>2, <3>1 DEF OnlyIn
    <2> QED
      BY <2>1, <2>2
  <1> QED
    BY <1>2, <1>3 DEF OnlyIn

LEMMA JoinApart ==
    ASSUME NEW s, NEW t, NEW X, NEW Y, WellLaid(s), WellLaid(t), OnlyIn(s, X), OnlyIn(t, Y), X \cap Y = {}
    PROVE  WellLaid(s \o t) /\ OnlyIn(s \o t, X \cup Y)
  <1>1. \A i \in 1..Len(s), j \in 1..Len(t) : KeptApart(s[i], t[j])
    BY DEF OnlyIn, KeptApart
  <1>2. WellLaid(s \o t)
    BY <1>1, JoinLaid
  <1>3. OnlyIn(s \o t, X \cup Y)
    BY JoinedIn
  <1> QED
    BY <1>2, <1>3

LEMMA MathTablesLaid ==
    WellLaid(MathTables) /\ OnlyIn(MathTables, {"copro_tgp_tables", "other_data"})
  <1> DEFINE a == Needed("copro_tgp_tables", \h40000, Words(0, 2, \h20000))
             b == Needed("other_data", \h80000, Words(0, 4, \h20000))
  <1>w. "start" \in Needs
    BY DEF Needs
  <1>a. RowAt(a, "copro_tgp_tables", "start", 0, \h40000)
    BY SMT, <1>w, WordsRow DEF Needed
  <1>b. RowAt(b, "other_data", "start", 0, \h80000)
    BY SMT, <1>w, WordsRow DEF Needed
  <1>1. MathTables = << a, b >>
    BY SMT DEF MathTables
  <1> HIDE DEF a, b
  <1> DEFINE s == << a, b >>
  <1>2. PICK S : S = {a, b}
    OBVIOUS
  <1>3. a \in S /\ b \in S
    BY <1>2
  <1>4. s \in Seq(S) /\ Len(s) = 2 /\ s # << >>
    BY <1>3
  <1>5. s[1] = a /\ s[2] = b
    OBVIOUS
  <1> HIDE DEF s
  <1>6. /\ a.region = "copro_tgp_tables" /\ RowOk(a)
        /\ b.region = "other_data" /\ RowOk(b)
    BY <1>a, <1>b DEF RowAt
  <1>7. \A i \in 1..2 : RowOk(s[i])
    BY <1>5, <1>6
  <1>8. OnlyIn(s, {"copro_tgp_tables", "other_data"})
    BY <1>4, <1>5, <1>6 DEF OnlyIn
  <1>9. ASSUME NEW i \in 1..2, NEW j \in 1..2, i < j PROVE s[i].region # s[j].region
    BY <1>5, <1>6, <1>9
  <1>10. WellLaid(s)
    BY <1>4, <1>7, <1>9, OwnRegions
  <1> QED
    BY <1>1, <1>8, <1>10 DEF s

LEMMA CrxLaid ==
    WellLaid(Crx) /\ OnlyIn(Crx, {"samples", "video_tables"} \cup {"copro_tgp_tables", "other_data"})
  <1> DEFINE a == Needed("samples", \h800000, Linear(0, 4, \h200000))
             b == Needed("video_tables", \h200000, Bytes(0, 3, \h80000))
  <1>w. "start" \in Needs
    BY DEF Needs
  <1>a. RowAt(a, "samples", "start", 0, \h800000)
    BY SMT, <1>w, LinearRow DEF Needed
  <1>b. RowAt(b, "video_tables", "start", 0, \h200000)
    BY SMT, <1>w, BytesRow DEF Needed
  <1>1. Crx = << a, b >> \o MathTables
    BY SMT DEF Crx
  <1> HIDE DEF a, b
  <1> DEFINE s == << a, b >>
  <1>2. PICK S : S = {a, b}
    OBVIOUS
  <1>3. a \in S /\ b \in S
    BY <1>2
  <1>4. s \in Seq(S) /\ Len(s) = 2 /\ s # << >>
    BY <1>3
  <1>5. s[1] = a /\ s[2] = b
    OBVIOUS
  <1> HIDE DEF s
  <1>6. /\ a.region = "samples" /\ RowOk(a)
        /\ b.region = "video_tables" /\ RowOk(b)
    BY <1>a, <1>b DEF RowAt
  <1>7. \A i \in 1..2 : RowOk(s[i])
    BY <1>5, <1>6
  <1>8. OnlyIn(s, {"samples", "video_tables"})
    BY <1>4, <1>5, <1>6 DEF OnlyIn
  <1>9. ASSUME NEW i \in 1..2, NEW j \in 1..2, i < j PROVE s[i].region # s[j].region
    BY <1>5, <1>6, <1>9
  <1>10. WellLaid(s)
    BY <1>4, <1>7, <1>9, OwnRegions
  <1>11. {"samples", "video_tables"} \cap {"copro_tgp_tables", "other_data"} = {}
    OBVIOUS
  <1>12. WellLaid(s \o MathTables)
       /\ OnlyIn(s \o MathTables, {"samples", "video_tables"} \cup {"copro_tgp_tables", "other_data"})
    BY <1>8, <1>10, <1>11, MathTablesLaid, JoinApart
  <1> QED
    BY <1>1, <1>12 DEF s

LEMMA SegaRallyLaid ==
    WellLaid(SegaRally)
  <1> DEFINE a == Needed("main_cpu", \h200000, Words(0, 2, \h80000))
             b == Needed("main_data", \h2400000, Words(0, 6, \h200000))
             c == Needed("copro_data", \h800000, Words(0, 2, \h200000))
             d == Needed("drive_cpu", \h10000, Linear(0, 1, \h10000))
             e == Needed("polygon_data", \h2000000, Words(0, 4, \h200000))
             f == Needed("texture_data", \h1000000, Words(0, 2, \h200000))
             g == Needed("communication_cpu", \h20000, Linear(0, 1, \h20000))
             h == Needed("sound_cpu", \h80000, Linear(0, 1, \h40000))
             k == Row("billboard_cpu", \h10000, Linear(0, 1, \h10000), "none", Exact)
  <1>w. "none" \in Needs /\ "start" \in Needs
    BY DEF Needs
  <1>a. RowAt(a, "main_cpu", "start", 0, \h100000)
    BY SMT, <1>w, WordsRow DEF Needed
  <1>b. RowAt(b, "main_data", "start", 0, \hc00000)
    BY SMT, <1>w, WordsRow DEF Needed
  <1>c. RowAt(c, "copro_data", "start", 0, \h400000)
    BY SMT, <1>w, WordsRow DEF Needed
  <1>d. RowAt(d, "drive_cpu", "start", 0, \h10000)
    BY SMT, <1>w, LinearRow DEF Needed
  <1>e. RowAt(e, "polygon_data", "start", 0, \h800000)
    BY SMT, <1>w, WordsRow DEF Needed
  <1>f. RowAt(f, "texture_data", "start", 0, \h400000)
    BY SMT, <1>w, WordsRow DEF Needed
  <1>g. RowAt(g, "communication_cpu", "start", 0, \h20000)
    BY SMT, <1>w, LinearRow DEF Needed
  <1>h. RowAt(h, "sound_cpu", "start", 0, \h40000)
    BY SMT, <1>w, LinearRow DEF Needed
  <1>k. RowAt(k, "billboard_cpu", "none", 0, \h10000)
    BY SMT, <1>w, LinearRow
  <1>1. SegaRally = << a, b, c, d, e, f, g, h, k >> \o Crx
    BY SMT DEF SegaRally
  <1> HIDE DEF a, b, c, d, e, f, g, h, k
  <1> DEFINE s == << a, b, c, d, e, f, g, h, k >>
  <1>2. PICK S : S = {a, b, c, d, e, f, g, h, k}
    OBVIOUS
  <1>3. a \in S /\ b \in S /\ c \in S /\ d \in S /\ e \in S /\ f \in S /\ g \in S /\ h \in S /\ k \in S
    BY <1>2
  <1>4. s \in Seq(S) /\ Len(s) = 9 /\ s # << >>
    BY <1>3
  <1>5. s[1] = a /\ s[2] = b /\ s[3] = c /\ s[4] = d /\ s[5] = e /\ s[6] = f /\ s[7] = g /\ s[8] = h /\ s[9] = k
    OBVIOUS
  <1> HIDE DEF s
  <1>6. /\ a.region = "main_cpu" /\ RowOk(a)
        /\ b.region = "main_data" /\ RowOk(b)
        /\ c.region = "copro_data" /\ RowOk(c)
        /\ d.region = "drive_cpu" /\ RowOk(d)
        /\ e.region = "polygon_data" /\ RowOk(e)
        /\ f.region = "texture_data" /\ RowOk(f)
        /\ g.region = "communication_cpu" /\ RowOk(g)
        /\ h.region = "sound_cpu" /\ RowOk(h)
        /\ k.region = "billboard_cpu" /\ RowOk(k)
    BY <1>a, <1>b, <1>c, <1>d, <1>e, <1>f, <1>g, <1>h, <1>k DEF RowAt
  <1>7. \A i \in 1..9 : RowOk(s[i])
    BY <1>5, <1>6
  <1>8. OnlyIn(s, {"main_cpu", "main_data", "copro_data", "drive_cpu", "polygon_data", "texture_data",
       "communication_cpu", "sound_cpu", "billboard_cpu"})
    BY <1>4, <1>5, <1>6 DEF OnlyIn
  <1>9. ASSUME NEW i \in 1..9, NEW j \in 1..9, i < j PROVE s[i].region # s[j].region
    BY <1>5, <1>6, <1>9
  <1>10. WellLaid(s)
    BY <1>4, <1>7, <1>9, OwnRegions
  <1>11. {"main_cpu", "main_data", "copro_data", "drive_cpu", "polygon_data", "texture_data", "communication_cpu",
       "sound_cpu", "billboard_cpu"} \cap ({"samples", "video_tables"} \cup {"copro_tgp_tables", "other_data"}) = {}
    OBVIOUS
  <1>12. WellLaid(s \o Crx)
    BY <1>8, <1>10, <1>11, CrxLaid, JoinApart
  <1> QED
    BY <1>1, <1>12 DEF s

LEMMA VirtuaCop2Laid ==
    WellLaid(VirtuaCop2)
  <1> DEFINE a == Needed("main_cpu", \h200000, Words(0, 4, \h80000))
             b == Needed("main_data", \h2400000, Words(0, 6, \h200000))
             c == Needed("main_data", \h2400000, Words(\hc00000, 2, \h80000) \cup Linear(\hd00000, 3, \h100000))
             d == Needed("polygon_data", \h800000, Words(0, 2, \h200000))
             e == Needed("texture_data", \h400000, Words(0, 2, \h200000))
             f == Needed("sound_cpu", \h80000, Linear(0, 1, \h80000))
  <1>w. "start" \in Needs
    BY DEF Needs
  <1>a. RowAt(a, "main_cpu", "start", 0, \h200000)
    BY SMT, <1>w, WordsRow DEF Needed
  <1>b. RowAt(b, "main_data", "start", 0, \hc00000)
    BY SMT, <1>w, WordsRow DEF Needed
  <1>c. RowAt(c, "main_data", "start", \hc00000, \h1000000)
    <2>1. Meshed(Words(\hc00000, 2, \h80000), \hc00000, \hd00000)
      BY SMT, EvenWordsLaid
    <2>2. Meshed(Linear(\hd00000, 3, \h100000), \hd00000, \h1000000)
      BY SMT, LinearLaid
    <2>3. Meshed(Words(\hc00000, 2, \h80000) \cup Linear(\hd00000, 3, \h100000), \hc00000, \h1000000)
      BY SMT, <2>1, <2>2, BothLaid
    <2> QED
      BY SMT, <1>w, <2>3, RowsPlace DEF Needed
  <1>d. RowAt(d, "polygon_data", "start", 0, \h400000)
    BY SMT, <1>w, WordsRow DEF Needed
  <1>e. RowAt(e, "texture_data", "start", 0, \h400000)
    BY SMT, <1>w, WordsRow DEF Needed
  <1>f. RowAt(f, "sound_cpu", "start", 0, \h80000)
    BY SMT, <1>w, LinearRow DEF Needed
  <1>1. VirtuaCop2 = << a, b, c, d, e, f >> \o Crx
    BY SMT DEF VirtuaCop2
  <1> HIDE DEF a, b, c, d, e, f
  <1> DEFINE s == << a, b, c, d, e, f >>
  <1>2. PICK S : S = {a, b, c, d, e, f}
    OBVIOUS
  <1>3. a \in S /\ b \in S /\ c \in S /\ d \in S /\ e \in S /\ f \in S
    BY <1>2
  <1>4. s \in Seq(S) /\ Len(s) = 6 /\ s # << >>
    BY <1>3
  <1>5. s[1] = a /\ s[2] = b /\ s[3] = c /\ s[4] = d /\ s[5] = e /\ s[6] = f
    OBVIOUS
  <1> HIDE DEF s
  <1>6. /\ a.region = "main_cpu" /\ RowOk(a)
        /\ b.region = "main_data" /\ RowOk(b)
        /\ c.region = "main_data" /\ RowOk(c)
        /\ d.region = "polygon_data" /\ RowOk(d)
        /\ e.region = "texture_data" /\ RowOk(e)
        /\ f.region = "sound_cpu" /\ RowOk(f)
    BY <1>a, <1>b, <1>c, <1>d, <1>e, <1>f DEF RowAt
  <1>7. \A i \in 1..6 : RowOk(s[i])
    BY <1>5, <1>6
  <1>8. OnlyIn(s, {"main_cpu", "main_data", "polygon_data", "texture_data", "sound_cpu"})
    BY <1>4, <1>5, <1>6 DEF OnlyIn
  <1>d0. KeptApart(b, c)
    BY SMT, <1>b, <1>c, ClearLaid DEF RowAt, KeptApart
  <1>9. ASSUME NEW i \in 1..6, NEW j \in 1..6, i < j PROVE s[i].region # s[j].region \/ (i = 2 /\ j = 3)
    BY <1>5, <1>6, <1>9
  <1>9a. \A i, j \in 1..6 : i < j => KeptApart(s[i], s[j])
    BY <1>5, <1>9, <1>d0 DEF KeptApart
  <1>10. WellLaid(s)
    BY <1>4, <1>7, <1>9a DEF WellLaid
  <1>11. {"main_cpu", "main_data", "polygon_data", "texture_data", "sound_cpu"}
       \cap ({"samples", "video_tables"} \cup {"copro_tgp_tables", "other_data"}) = {}
    OBVIOUS
  <1>12. WellLaid(s \o Crx)
    BY <1>8, <1>10, <1>11, CrxLaid, JoinApart
  <1> QED
    BY <1>1, <1>12 DEF s

LEMMA VirtuaCopLaid ==
    WellLaid(VirtuaCop)
  <1> DEFINE a == Needed("main_cpu", \h200000, Words(0, 4, \h20000))
             b == Needed("main_data", \h2000000, Words(0, 4, \h200000))
             c == Needed("main_data", \h2000000, Words(\h800000, 2, \h80000))
             d == Needed("polygon_data", \h1000000, Words(0, 2, \h200000))
             e == Needed("texture_data", \h1000000, Words(0, 2, \h200000))
             f == Needed("sound_cpu", \hc0000, Linear(0, 2, \h20000))
             g == Needed("multipcm_samples_1", \h400000, Linear(0, 4, \h100000))
             h == Needed("multipcm_samples_2", \h400000, Linear(0, 2, \h200000))
             k == Needed("io_cpu", \h10000, Linear(0, 1, \h10000))
  <1>w. "start" \in Needs
    BY DEF Needs
  <1>a. RowAt(a, "main_cpu", "start", 0, \h80000)
    BY SMT, <1>w, WordsRow DEF Needed
  <1>b. RowAt(b, "main_data", "start", 0, \h800000)
    BY SMT, <1>w, WordsRow DEF Needed
  <1>c. RowAt(c, "main_data", "start", \h800000, \h900000)
    BY SMT, <1>w, WordsRow DEF Needed
  <1>d. RowAt(d, "polygon_data", "start", 0, \h400000)
    BY SMT, <1>w, WordsRow DEF Needed
  <1>e. RowAt(e, "texture_data", "start", 0, \h400000)
    BY SMT, <1>w, WordsRow DEF Needed
  <1>f. RowAt(f, "sound_cpu", "start", 0, \h40000)
    BY SMT, <1>w, LinearRow DEF Needed
  <1>g. RowAt(g, "multipcm_samples_1", "start", 0, \h400000)
    BY SMT, <1>w, LinearRow DEF Needed
  <1>h. RowAt(h, "multipcm_samples_2", "start", 0, \h400000)
    BY SMT, <1>w, LinearRow DEF Needed
  <1>k. RowAt(k, "io_cpu", "start", 0, \h10000)
    BY SMT, <1>w, LinearRow DEF Needed
  <1>1. VirtuaCop = << a, b, c, d, e, f, g, h, k >> \o MathTables
    BY SMT DEF VirtuaCop
  <1> HIDE DEF a, b, c, d, e, f, g, h, k
  <1> DEFINE s == << a, b, c, d, e, f, g, h, k >>
  <1>2. PICK S : S = {a, b, c, d, e, f, g, h, k}
    OBVIOUS
  <1>3. a \in S /\ b \in S /\ c \in S /\ d \in S /\ e \in S /\ f \in S /\ g \in S /\ h \in S /\ k \in S
    BY <1>2
  <1>4. s \in Seq(S) /\ Len(s) = 9 /\ s # << >>
    BY <1>3
  <1>5. s[1] = a /\ s[2] = b /\ s[3] = c /\ s[4] = d /\ s[5] = e /\ s[6] = f /\ s[7] = g /\ s[8] = h /\ s[9] = k
    OBVIOUS
  <1> HIDE DEF s
  <1>6. /\ a.region = "main_cpu" /\ RowOk(a)
        /\ b.region = "main_data" /\ RowOk(b)
        /\ c.region = "main_data" /\ RowOk(c)
        /\ d.region = "polygon_data" /\ RowOk(d)
        /\ e.region = "texture_data" /\ RowOk(e)
        /\ f.region = "sound_cpu" /\ RowOk(f)
        /\ g.region = "multipcm_samples_1" /\ RowOk(g)
        /\ h.region = "multipcm_samples_2" /\ RowOk(h)
        /\ k.region = "io_cpu" /\ RowOk(k)
    BY <1>a, <1>b, <1>c, <1>d, <1>e, <1>f, <1>g, <1>h, <1>k DEF RowAt
  <1>7. \A i \in 1..9 : RowOk(s[i])
    BY <1>5, <1>6
  <1>8. OnlyIn(s, {"main_cpu", "main_data", "polygon_data", "texture_data", "sound_cpu", "multipcm_samples_1",
       "multipcm_samples_2", "io_cpu"})
    BY <1>4, <1>5, <1>6 DEF OnlyIn
  <1>d0. KeptApart(b, c)
    BY SMT, <1>b, <1>c, ClearLaid DEF RowAt, KeptApart
  <1>9. ASSUME NEW i \in 1..9, NEW j \in 1..9, i < j PROVE s[i].region # s[j].region \/ (i = 2 /\ j = 3)
    BY <1>5, <1>6, <1>9
  <1>9a. \A i, j \in 1..9 : i < j => KeptApart(s[i], s[j])
    BY <1>5, <1>9, <1>d0 DEF KeptApart
  <1>10. WellLaid(s)
    BY <1>4, <1>7, <1>9a DEF WellLaid
  <1>11. {"main_cpu", "main_data", "polygon_data", "texture_data", "sound_cpu", "multipcm_samples_1",
       "multipcm_samples_2", "io_cpu"} \cap {"copro_tgp_tables", "other_data"} = {}
    OBVIOUS
  <1>12. WellLaid(s \o MathTables)
    BY <1>8, <1>10, <1>11, MathTablesLaid, JoinApart
  <1> QED
    BY <1>1, <1>12 DEF s

(* What a Model 1 board's boot program leaves to the first pair of its code.   *)
BootLaid(boot) ==
    /\ Meshed(boot, 0, \h1000000)
    /\ \A f \in boot : f.to <= \h200000 \/ \h300000 <= f.from
TablesBelow(rows) ==
    \A i \in 1..Len(rows) : rows[i].region = "lookup_tables" => Meshed(rows[i].files, 0, \h40000)
TablesAbove(rows) ==
    \A i \in 1..Len(rows) : rows[i].region = "lookup_tables" => Meshed(rows[i].files, \h40000, \h0e0000)
Names1 == {"main_cpu", "sound_cpu", "samples_1", "samples_2", "polygon_data", "copro_data", "lookup_tables"}

LEMMA Board1Laid ==
    ASSUME NEW boot, BootLaid(boot), NEW rom_o \in 0..8, rom_o % 2 = 0, NEW sound \in 1..2, NEW samples \in 1..2,
           NEW polygons \in 0..8, polygons % 2 = 0, NEW copro \in 0..4
    PROVE  WellLaid(Board1(boot, rom_o, sound, samples, polygons, copro))
           /\ OnlyIn(Board1(boot, rom_o, sound, samples, polygons, copro), Names1)
               /\ TablesBelow(Board1(boot, rom_o, sound, samples, polygons, copro))
  <1> DEFINE a == Needed("main_cpu", \h2000000, BytePairs(\h200000, 2, \h80000))
             b == Needed("main_cpu", \h2000000, boot)
             c == Needed("main_cpu", \h2000000, BytePairs(\h1000000, rom_o, \h80000))
             d == Needed("sound_cpu", \hc0000, Linear(0, sound, \h20000))
             e == Needed("samples_1", \h400000, Linear(0, samples, \h200000))
             f == Needed("samples_2", \h400000, Linear(0, samples, \h200000))
             g == Needed("polygon_data", \h1000000, Words(0, polygons, \h200000))
             h == Needed("copro_data", \h200000, Bytes(0, copro, \h80000))
             k == Needed("lookup_tables", \h0e0000, Words(0, 2, \h20000))
  <1>w. "start" \in Needs
    BY DEF Needs
  <1>a. RowAt(a, "main_cpu", "start", \h200000, \h300000)
    BY SMT, <1>w, BytePairsRow DEF Needed
  <1>b. RowAt(b, "main_cpu", "start", 0, \h1000000)
    BY SMT, <1>w, RowsPlace DEF Needed, BootLaid
  <1>c. RowAt(c, "main_cpu", "start", \h1000000, \h1000000 + rom_o * \h80000)
    BY SMT, <1>w, BytePairsRow DEF Needed
  <1>d. RowAt(d, "sound_cpu", "start", 0, sound * \h20000)
    BY SMT, <1>w, LinearRow DEF Needed
  <1>e. RowAt(e, "samples_1", "start", 0, samples * \h200000)
    BY SMT, <1>w, LinearRow DEF Needed
  <1>f. RowAt(f, "samples_2", "start", 0, samples * \h200000)
    BY SMT, <1>w, LinearRow DEF Needed
  <1>g. RowAt(g, "polygon_data", "start", 0, polygons * \h200000)
    BY SMT, <1>w, WordsRow DEF Needed
  <1>h. RowAt(h, "copro_data", "start", 0, \h200000)
    BY SMT, <1>w, BytesRow DEF Needed
  <1>k. RowAt(k, "lookup_tables", "start", 0, \h40000)
    BY SMT, <1>w, WordsRow DEF Needed
  <1>1. Board1(boot, rom_o, sound, samples, polygons, copro) = << a, b, c, d, e, f, g, h, k >>
    BY SMT DEF Board1
  <1> HIDE DEF a, b, c, d, e, f, g, h, k
  <1> DEFINE s == << a, b, c, d, e, f, g, h, k >>
  <1>2. PICK S : S = {a, b, c, d, e, f, g, h, k}
    OBVIOUS
  <1>3. a \in S /\ b \in S /\ c \in S /\ d \in S /\ e \in S /\ f \in S /\ g \in S /\ h \in S /\ k \in S
    BY <1>2
  <1>4. s \in Seq(S) /\ Len(s) = 9 /\ s # << >>
    BY <1>3
  <1>5. s[1] = a /\ s[2] = b /\ s[3] = c /\ s[4] = d /\ s[5] = e /\ s[6] = f /\ s[7] = g /\ s[8] = h /\ s[9] = k
    OBVIOUS
  <1> HIDE DEF s
  <1>6. /\ a.region = "main_cpu" /\ RowOk(a)
        /\ b.region = "main_cpu" /\ RowOk(b)
        /\ c.region = "main_cpu" /\ RowOk(c)
        /\ d.region = "sound_cpu" /\ RowOk(d)
        /\ e.region = "samples_1" /\ RowOk(e)
        /\ f.region = "samples_2" /\ RowOk(f)
        /\ g.region = "polygon_data" /\ RowOk(g)
        /\ h.region = "copro_data" /\ RowOk(h)
        /\ k.region = "lookup_tables" /\ RowOk(k)
    BY <1>a, <1>b, <1>c, <1>d, <1>e, <1>f, <1>g, <1>h, <1>k DEF RowAt
  <1>7. \A i \in 1..9 : RowOk(s[i])
    BY <1>5, <1>6
  <1>8. OnlyIn(s, Names1)
    BY <1>4, <1>5, <1>6 DEF OnlyIn, Names1
  <1>d0. KeptApart(a, b)
    <2>1. a.files = BytePairs(\h200000, 2, \h80000) /\ b.files = boot
      BY SMT DEF a, b, Needed, Row
    <2>2. \A x \in a.files : x.from \in Int /\ x.to \in Int /\ \h200000 <= x.from /\ x.to <= \h300000
      BY SMT, <1>a DEF RowAt, Meshed
    <2>3. \A x \in b.files : x.from \in Int /\ x.to \in Int /\ (x.to <= \h200000 \/ \h300000 <= x.from)
      BY SMT, <2>1 DEF BootLaid, Meshed
    <2> QED
      BY SMT, <2>2, <2>3 DEF KeptApart, Apart
  <1>d1. KeptApart(a, c)
    BY SMT, <1>a, <1>c, ClearLaid DEF RowAt, KeptApart
  <1>d2. KeptApart(b, c)
    BY SMT, <1>b, <1>c, ClearLaid DEF RowAt, KeptApart
  <1>9. ASSUME NEW i \in 1..9, NEW j \in 1..9, i < j PROVE s[i].region # s[j].region \/ (i = 1
       /\ j = 2) \/ (i = 1 /\ j = 3) \/ (i = 2 /\ j = 3)
    BY <1>5, <1>6, <1>9
  <1>9a. \A i, j \in 1..9 : i < j => KeptApart(s[i], s[j])
    BY <1>5, <1>9, <1>d0, <1>d1, <1>d2 DEF KeptApart
  <1>10. WellLaid(s)
    BY <1>4, <1>7, <1>9a DEF WellLaid
  <1>x. TablesBelow(s)
    BY SMT, <1>4, <1>5, <1>6, <1>k DEF TablesBelow, RowAt
  <1> QED
    BY <1>1, <1>8, <1>10, <1>x DEF s

LEMMA JoinTables ==
    ASSUME NEW s, NEW t, NEW X, WellLaid(s), WellLaid(t), OnlyIn(s, Names1), OnlyIn(t, X),
           X \cap Names1 \subseteq {"lookup_tables"}, TablesBelow(s), TablesAbove(t)
    PROVE  WellLaid(s \o t) /\ OnlyIn(s \o t, Names1 \cup X)
  <1>1. ASSUME NEW i \in 1..Len(s), NEW j \in 1..Len(t), s[i].region = t[j].region PROVE KeptApart(s[i], t[j])
    <2>1. s[i].region = "lookup_tables" /\ t[j].region = "lookup_tables"
      BY SMT, <1>1 DEF OnlyIn
    <2>2. Meshed(s[i].files, 0, \h40000) /\ Meshed(t[j].files, \h40000, \h0e0000)
      BY SMT, <2>1 DEF TablesBelow, TablesAbove
    <2> QED
      BY SMT, <2>2, ClearLaid DEF KeptApart
  <1>2. \A i \in 1..Len(s), j \in 1..Len(t) : KeptApart(s[i], t[j])
    BY SMT, <1>1 DEF KeptApart
  <1>3. WellLaid(s \o t)
    BY SMT, <1>2, JoinLaid
  <1> QED
    BY SMT, <1>3, JoinedIn

LEMMA PairedTablesLaid ==
    WellLaid(PairedTables) /\ OnlyIn(PairedTables, {"lookup_tables"}) /\ TablesAbove(PairedTables)
  <1> DEFINE a == Needed("lookup_tables", \h0e0000, Words(\h40000, 4, \h20000))
             b == Needed("lookup_tables", \h0e0000, Linear(\hc0000, 1, \h20000))
  <1>w. "start" \in Needs
    BY DEF Needs
  <1>a. RowAt(a, "lookup_tables", "start", \h40000, \hc0000)
    BY SMT, <1>w, WordsRow DEF Needed
  <1>b. RowAt(b, "lookup_tables", "start", \hc0000, \he0000)
    BY SMT, <1>w, LinearRow DEF Needed
  <1>1. PairedTables = << a, b >>
    BY SMT DEF PairedTables
  <1> HIDE DEF a, b
  <1> DEFINE s == << a, b >>
  <1>2. PICK S : S = {a, b}
    OBVIOUS
  <1>3. a \in S /\ b \in S
    BY <1>2
  <1>4. s \in Seq(S) /\ Len(s) = 2 /\ s # << >>
    BY <1>3
  <1>5. s[1] = a /\ s[2] = b
    OBVIOUS
  <1> HIDE DEF s
  <1>6. /\ a.region = "lookup_tables" /\ RowOk(a)
        /\ b.region = "lookup_tables" /\ RowOk(b)
    BY <1>a, <1>b DEF RowAt
  <1>7. \A i \in 1..2 : RowOk(s[i])
    BY <1>5, <1>6
  <1>8. OnlyIn(s, {"lookup_tables"})
    BY <1>4, <1>5, <1>6 DEF OnlyIn
  <1>d0. KeptApart(a, b)
    BY SMT, <1>a, <1>b, ClearLaid DEF RowAt, KeptApart
  <1>9. ASSUME NEW i \in 1..2, NEW j \in 1..2, i < j PROVE s[i].region # s[j].region \/ (i = 1 /\ j = 2)
    BY <1>5, <1>6, <1>9
  <1>9a. \A i, j \in 1..2 : i < j => KeptApart(s[i], s[j])
    BY <1>5, <1>9, <1>d0 DEF KeptApart
  <1>10. WellLaid(s)
    BY <1>4, <1>7, <1>9a DEF WellLaid
  <1>x. TablesAbove(s)
    <2>1. Meshed(a.files, \h40000, \h0e0000)
      BY SMT, <1>a DEF RowAt, Meshed
    <2>2. Meshed(b.files, \h40000, \h0e0000)
      BY SMT, <1>b DEF RowAt, Meshed
    <2> QED
      BY SMT, <1>4, <1>5, <2>1, <2>2 DEF TablesAbove
  <1> QED
    BY <1>1, <1>8, <1>10, <1>x DEF s

(* What the sets have behind the rows they share.                              *)
FormulaRows ==
  << Needed("lookup_tables", \h0e0000, Linear(\h40000, 5, \h20000)),
     Needed("communication_cpu", \h20000, Linear(0, 1, \h20000)),
     IoBoard("whole"),
     Row("default_nvram", \h100, Linear(0, 1, \h100), "whole", Exact),
     Row("legacy_tgp", \h2000, Linear(0, 1, \h2000), "whole", Exact) >>
FighterRows ==
  << Tgp,
     IoBoard("start") >>
StarWarsRows ==
  << Tgp,
     IoBoard("start"),
     Needed("dsb_cpu", \h20000, Linear(0, 1, \h20000)),
     Needed("dsb_mpeg", \h800000, Linear(0, 2, \h200000)) >>
WingWarRows ==
  << Tgp >>

LEMMA FormulaRowsLaid ==
    WellLaid(FormulaRows)
        /\ OnlyIn(FormulaRows, {"lookup_tables", "communication_cpu", "io_cpu", "default_nvram", "legacy_tgp"})
            /\ TablesAbove(FormulaRows)
  <1> DEFINE a == Needed("lookup_tables", \h0e0000, Linear(\h40000, 5, \h20000))
             b == Needed("communication_cpu", \h20000, Linear(0, 1, \h20000))
             c == IoBoard("whole")
             d == Row("default_nvram", \h100, Linear(0, 1, \h100), "whole", Exact)
             e == Row("legacy_tgp", \h2000, Linear(0, 1, \h2000), "whole", Exact)
  <1>w. "start" \in Needs /\ "whole" \in Needs
    BY DEF Needs
  <1>a. RowAt(a, "lookup_tables", "start", \h40000, \h0e0000)
    BY SMT, <1>w, LinearRow DEF Needed
  <1>b. RowAt(b, "communication_cpu", "start", 0, \h20000)
    BY SMT, <1>w, LinearRow DEF Needed
  <1>c. RowAt(c, "io_cpu", "whole", 0, \h10000)
    BY SMT, <1>w, LinearRow DEF IoBoard
  <1>d. RowAt(d, "default_nvram", "whole", 0, \h100)
    BY SMT, <1>w, LinearRow
  <1>e. RowAt(e, "legacy_tgp", "whole", 0, \h2000)
    BY SMT, <1>w, LinearRow
  <1>1. FormulaRows = << a, b, c, d, e >>
    BY SMT DEF FormulaRows
  <1> HIDE DEF a, b, c, d, e
  <1> DEFINE s == << a, b, c, d, e >>
  <1>2. PICK S : S = {a, b, c, d, e}
    OBVIOUS
  <1>3. a \in S /\ b \in S /\ c \in S /\ d \in S /\ e \in S
    BY <1>2
  <1>4. s \in Seq(S) /\ Len(s) = 5 /\ s # << >>
    BY <1>3
  <1>5. s[1] = a /\ s[2] = b /\ s[3] = c /\ s[4] = d /\ s[5] = e
    OBVIOUS
  <1> HIDE DEF s
  <1>6. /\ a.region = "lookup_tables" /\ RowOk(a)
        /\ b.region = "communication_cpu" /\ RowOk(b)
        /\ c.region = "io_cpu" /\ RowOk(c)
        /\ d.region = "default_nvram" /\ RowOk(d)
        /\ e.region = "legacy_tgp" /\ RowOk(e)
    BY <1>a, <1>b, <1>c, <1>d, <1>e DEF RowAt
  <1>7. \A i \in 1..5 : RowOk(s[i])
    BY <1>5, <1>6
  <1>8. OnlyIn(s, {"lookup_tables", "communication_cpu", "io_cpu", "default_nvram", "legacy_tgp"})
    BY <1>4, <1>5, <1>6 DEF OnlyIn
  <1>9. ASSUME NEW i \in 1..5, NEW j \in 1..5, i < j PROVE s[i].region # s[j].region
    BY <1>5, <1>6, <1>9
  <1>10. WellLaid(s)
    BY <1>4, <1>7, <1>9, OwnRegions
  <1>x. TablesAbove(s)
    BY SMT, <1>4, <1>5, <1>6, <1>a DEF TablesAbove, RowAt
  <1> QED
    BY <1>1, <1>8, <1>10, <1>x DEF s

LEMMA FighterRowsLaid ==
    WellLaid(FighterRows) /\ OnlyIn(FighterRows, {"legacy_tgp", "io_cpu"})
  <1> DEFINE a == Tgp
             b == IoBoard("start")
  <1>w. "start" \in Needs
    BY DEF Needs
  <1>a. RowAt(a, "legacy_tgp", "start", 0, \h2000)
    BY SMT, <1>w, LinearRow DEF Tgp, Needed
  <1>b. RowAt(b, "io_cpu", "start", 0, \h10000)
    BY SMT, <1>w, LinearRow DEF IoBoard
  <1>1. FighterRows = << a, b >>
    BY SMT DEF FighterRows
  <1> HIDE DEF a, b
  <1> DEFINE s == << a, b >>
  <1>2. PICK S : S = {a, b}
    OBVIOUS
  <1>3. a \in S /\ b \in S
    BY <1>2
  <1>4. s \in Seq(S) /\ Len(s) = 2 /\ s # << >>
    BY <1>3
  <1>5. s[1] = a /\ s[2] = b
    OBVIOUS
  <1> HIDE DEF s
  <1>6. /\ a.region = "legacy_tgp" /\ RowOk(a)
        /\ b.region = "io_cpu" /\ RowOk(b)
    BY <1>a, <1>b DEF RowAt
  <1>7. \A i \in 1..2 : RowOk(s[i])
    BY <1>5, <1>6
  <1>8. OnlyIn(s, {"legacy_tgp", "io_cpu"})
    BY <1>4, <1>5, <1>6 DEF OnlyIn
  <1>9. ASSUME NEW i \in 1..2, NEW j \in 1..2, i < j PROVE s[i].region # s[j].region
    BY <1>5, <1>6, <1>9
  <1>10. WellLaid(s)
    BY <1>4, <1>7, <1>9, OwnRegions
  <1> QED
    BY <1>1, <1>8, <1>10 DEF s

LEMMA StarWarsRowsLaid ==
    WellLaid(StarWarsRows) /\ OnlyIn(StarWarsRows, {"legacy_tgp", "io_cpu", "dsb_cpu", "dsb_mpeg"})
  <1> DEFINE a == Tgp
             b == IoBoard("start")
             c == Needed("dsb_cpu", \h20000, Linear(0, 1, \h20000))
             d == Needed("dsb_mpeg", \h800000, Linear(0, 2, \h200000))
  <1>w. "start" \in Needs
    BY DEF Needs
  <1>a. RowAt(a, "legacy_tgp", "start", 0, \h2000)
    BY SMT, <1>w, LinearRow DEF Tgp, Needed
  <1>b. RowAt(b, "io_cpu", "start", 0, \h10000)
    BY SMT, <1>w, LinearRow DEF IoBoard
  <1>c. RowAt(c, "dsb_cpu", "start", 0, \h20000)
    BY SMT, <1>w, LinearRow DEF Needed
  <1>d. RowAt(d, "dsb_mpeg", "start", 0, \h400000)
    BY SMT, <1>w, LinearRow DEF Needed
  <1>1. StarWarsRows = << a, b, c, d >>
    BY SMT DEF StarWarsRows
  <1> HIDE DEF a, b, c, d
  <1> DEFINE s == << a, b, c, d >>
  <1>2. PICK S : S = {a, b, c, d}
    OBVIOUS
  <1>3. a \in S /\ b \in S /\ c \in S /\ d \in S
    BY <1>2
  <1>4. s \in Seq(S) /\ Len(s) = 4 /\ s # << >>
    BY <1>3
  <1>5. s[1] = a /\ s[2] = b /\ s[3] = c /\ s[4] = d
    OBVIOUS
  <1> HIDE DEF s
  <1>6. /\ a.region = "legacy_tgp" /\ RowOk(a)
        /\ b.region = "io_cpu" /\ RowOk(b)
        /\ c.region = "dsb_cpu" /\ RowOk(c)
        /\ d.region = "dsb_mpeg" /\ RowOk(d)
    BY <1>a, <1>b, <1>c, <1>d DEF RowAt
  <1>7. \A i \in 1..4 : RowOk(s[i])
    BY <1>5, <1>6
  <1>8. OnlyIn(s, {"legacy_tgp", "io_cpu", "dsb_cpu", "dsb_mpeg"})
    BY <1>4, <1>5, <1>6 DEF OnlyIn
  <1>9. ASSUME NEW i \in 1..4, NEW j \in 1..4, i < j PROVE s[i].region # s[j].region
    BY <1>5, <1>6, <1>9
  <1>10. WellLaid(s)
    BY <1>4, <1>7, <1>9, OwnRegions
  <1> QED
    BY <1>1, <1>8, <1>10 DEF s

LEMMA WingWarRowsLaid ==
    WellLaid(WingWarRows) /\ OnlyIn(WingWarRows, {"legacy_tgp"})
  <1> DEFINE a == Tgp
  <1>w. "start" \in Needs
    BY DEF Needs
  <1>a. RowAt(a, "legacy_tgp", "start", 0, \h2000)
    BY SMT, <1>w, LinearRow DEF Tgp, Needed
  <1>1. WingWarRows = << a >>
    BY SMT DEF WingWarRows
  <1> HIDE DEF a
  <1> DEFINE s == << a >>
  <1>2. PICK S : S = {a}
    OBVIOUS
  <1>3. a \in S
    BY <1>2
  <1>4. s \in Seq(S) /\ Len(s) = 1 /\ s # << >>
    BY <1>3
  <1>5. s[1] = a
    OBVIOUS
  <1> HIDE DEF s
  <1>6. /\ a.region = "legacy_tgp" /\ RowOk(a)
    BY <1>a DEF RowAt
  <1>7. \A i \in 1..1 : RowOk(s[i])
    BY <1>5, <1>6
  <1>8. OnlyIn(s, {"legacy_tgp"})
    BY <1>4, <1>5, <1>6 DEF OnlyIn
  <1>9. ASSUME NEW i \in 1..1, NEW j \in 1..1, i < j PROVE s[i].region # s[j].region
    BY <1>5, <1>6, <1>9
  <1>10. WellLaid(s)
    BY <1>4, <1>7, <1>9, OwnRegions
  <1> QED
    BY <1>1, <1>8, <1>10 DEF s

LEMMA Boots ==
    /\ BootLaid(Linear(\hfc0000, 2, \h20000))
    /\ BootLaid(Linear(0, 2, \h80000) \cup Linear(\hf80000, 1, \h80000))
    /\ BootLaid(Linear(0, 2, \h20000) \cup Linear(\hfc0000, 2, \h20000))
  <1>1. ASSUME NEW X, NEW Y, NEW b \in Int, Meshed(X, 0, b), 0 <= b, b <= \h200000,
               NEW c \in Int, Meshed(Y, c, \h1000000), \h300000 <= c, c <= \h1000000
        PROVE  BootLaid(X \cup Y) /\ BootLaid(Y)
    <2>1. \A x \in X : x.to \in Int /\ x.to <= \h200000
      BY SMT, <1>1 DEF Meshed
    <2>2. \A x \in Y : x.from \in Int /\ \h300000 <= x.from
      BY SMT, <1>1 DEF Meshed
    <2>3. Meshed(X \cup Y, 0, \h1000000)
      BY SMT, <1>1, BothLaid
    <2>4. Meshed(Y, 0, \h1000000)
      BY SMT, <1>1 DEF Meshed
    <2> QED
      BY SMT, <2>1, <2>2, <2>3, <2>4 DEF BootLaid
  <1>2. /\ Meshed(Linear(\hfc0000, 2, \h20000), \hfc0000, \h1000000)
        /\ Meshed(Linear(\hf80000, 1, \h80000), \hf80000, \h1000000)
    BY SMT, LinearLaid
  <1>3. /\ Meshed(Linear(0, 2, \h80000), 0, \h100000)
        /\ Meshed(Linear(0, 2, \h20000), 0, \h40000)
    BY SMT, LinearLaid
  <1>4. BootLaid(Linear(0, 2, \h80000) \cup Linear(\hf80000, 1, \h80000))
    BY SMT, <1>1, <1>2, <1>3
  <1>5. BootLaid(Linear(0, 2, \h20000) \cup Linear(\hfc0000, 2, \h20000)) /\ BootLaid(Linear(\hfc0000, 2, \h20000))
    BY SMT, <1>1, <1>2, <1>3
  <1> QED
    BY <1>4, <1>5

LEMMA Model1Laid ==
    WellLaid(VirtuaFormula) /\ WellLaid(VirtuaFighter) /\ WellLaid(StarWarsArcade) /\ WellLaid(WingWar)
  <1>1. ASSUME NEW s, WellLaid(s), OnlyIn(s, Names1), TablesBelow(s)
        PROVE  WellLaid(s \o PairedTables) /\ OnlyIn(s \o PairedTables, Names1)
    <2>1. {"lookup_tables"} \cap Names1 \subseteq {"lookup_tables"} /\ Names1 \cup {"lookup_tables"} = Names1
      BY DEF Names1
    <2> QED
      BY Zenon, <1>1, <2>1, PairedTablesLaid, JoinTables
  <1>2. Names1 \cap {"legacy_tgp", "io_cpu"} = {} /\ Names1 \cap {"legacy_tgp", "io_cpu", "dsb_cpu", "dsb_mpeg"} = {}
        /\ Names1 \cap {"legacy_tgp"} = {}
    BY DEF Names1
  <1>3. WellLaid(VirtuaFighter)
    <2> DEFINE s == Board1(Linear(\hfc0000, 2, \h20000), 8, 2, 2, 8, 0)
    <2>1. WellLaid(s) /\ OnlyIn(s, Names1) /\ TablesBelow(s)
      BY SMT, Boots, Board1Laid
    <2> HIDE DEF s
    <2>2. WellLaid(s \o PairedTables) /\ OnlyIn(s \o PairedTables, Names1)
      BY Zenon, <1>1, <2>1
    <2>3. WellLaid((s \o PairedTables) \o FighterRows)
      BY Zenon, <2>2, <1>2, FighterRowsLaid, JoinApart
    <2> QED
      BY SMT, <2>3 DEF s, VirtuaFighter, FighterRows
  <1>4. WellLaid(StarWarsArcade)
    <2> DEFINE s == Board1(Linear(0, 2, \h80000) \cup Linear(\hf80000, 1, \h80000), 0, 1, 2, 6, 4)
               t == StarWarsRows
    <2>1. WellLaid(s) /\ OnlyIn(s, Names1) /\ TablesBelow(s)
      BY SMT, Boots, Board1Laid
    <2>t. WellLaid(t) /\ OnlyIn(t, {"legacy_tgp", "io_cpu", "dsb_cpu", "dsb_mpeg"})
      BY SMT, StarWarsRowsLaid
    <2>3. StarWarsArcade = (s \o PairedTables) \o t
      BY SMT DEF StarWarsArcade, StarWarsRows
    <2> HIDE DEF s, t
    <2>2. WellLaid(s \o PairedTables) /\ OnlyIn(s \o PairedTables, Names1)
      BY Zenon, <1>1, <2>1
    <2> QED
      BY Zenon, <2>2, <2>3, <2>t, <1>2, JoinApart
  <1>5. WellLaid(WingWar)
    <2> DEFINE s == Board1(Linear(0, 2, \h20000) \cup Linear(\hfc0000, 2, \h20000), 6, 2, 2, 8, 4)
    <2>1. WellLaid(s) /\ OnlyIn(s, Names1) /\ TablesBelow(s)
      BY SMT, Boots, Board1Laid
    <2> HIDE DEF s
    <2>2. WellLaid(s \o PairedTables) /\ OnlyIn(s \o PairedTables, Names1)
      BY Zenon, <1>1, <2>1
    <2>3. WellLaid((s \o PairedTables) \o WingWarRows)
      BY Zenon, <2>2, <1>2, WingWarRowsLaid, JoinApart
    <2> QED
      BY SMT, <2>3 DEF s, WingWar, WingWarRows
  <1>6. WellLaid(VirtuaFormula)
    <2> DEFINE s == Board1(Linear(\hfc0000, 2, \h20000), 8, 1, 1, 8, 4)
               t == FormulaRows
               X == {"lookup_tables", "communication_cpu", "io_cpu", "default_nvram", "legacy_tgp"}
    <2>1. WellLaid(s) /\ OnlyIn(s, Names1) /\ TablesBelow(s)
      BY SMT, Boots, Board1Laid
    <2>t. WellLaid(t) /\ OnlyIn(t, X) /\ TablesAbove(t)
      BY SMT, FormulaRowsLaid
    <2>2. X \cap Names1 \subseteq {"lookup_tables"}
      BY DEF Names1
    <2>3. VirtuaFormula = s \o t
      BY SMT DEF VirtuaFormula, FormulaRows
    <2> HIDE DEF s, t, X
    <2> QED
      BY Zenon, <2>1, <2>t, <2>2, <2>3, JoinTables
  <1> QED
    BY SMT, <1>3, <1>4, <1>5, <1>6

(* Every set of the tables.                                                    *)
LEMMA EveryLayout ==
    \A g \in DOMAIN Layout : WellLaid(Layout[g]) /\ (g \in DropsTheRegion => NoneWhole(Layout[g]))
  <1>1. \A n : WellLaid(RidgeRacer(n)) /\ NoneWhole(RidgeRacer(n))
    BY SMT, Layouts22 DEF Laid22
  <1>2. /\ \A rows \in {AceDriver, RaveRacer, VictoryLap, CyberCommando, TimeCrisis, DirtDash, AquaJet} :
               WellLaid(rows) /\ NoneWhole(rows)
    BY SMT, Layouts22 DEF Laid22
  <1>3. WellLaid(GalaxianRows(5, 2)) /\ WellLaid(GalaxianRows(8, 4))
    BY GalaxianLaid
  <1>4. /\ WellLaid(SegaRally) /\ WellLaid(VirtuaCop2) /\ WellLaid(VirtuaCop)
        /\ WellLaid(PhoenixRows) /\ WellLaid(GalagaRows) /\ WellLaid(PacManiaRows) /\ WellLaid(GngRows)
            /\ WellLaid(ShinobiRows)
    BY SegaRallyLaid, VirtuaCop2Laid, VirtuaCopLaid, PhoenixLaid, GalagaLaid, PacManiaLaid, GngLaid, ShinobiLaid
  <1> QED
    BY SMT, <1>1, <1>2, <1>3, <1>4, Model1Laid DEF Layout, DropsTheRegion

RowCount == Len(Rows)
\* The damage for which a loader gives a set up.
Fatal(i) ==
    /\ Noticed(i)
    /\ Rows[i].neededBy = "start" \/ (Rows[i].neededBy = "whole" /\ Readable(romFault[2]))

(* What is placed when the loader comes to a row, what it has refused, and     *)
(* what the two judges made of it.                                            *)
RomInv ==
    /\ romGame \in DOMAIN Layout
    /\ romFault \in {NoFault} \cup ((1..RowCount) \X FaultKinds)
    /\ romPhase \in {"identify", "load", "judge", "judged"}
    /\ romPlaced \subseteq 1..RowCount
    /\ romRefused => romFault # NoFault
    /\ romPhase = "identify" => romNext = 1 /\ romPlaced = {} /\ ~romRefused
    /\ romPhase = "load" => romNext \in 1..RowCount
    /\ romPhase \in {"judge", "judged"} => romRefused \/ romNext = RowCount + 1
    /\ romPhase = "load" \/ ~romRefused =>
         /\ romPlaced = {i \in 1..(romNext - 1) : ~Noticed(i)}
         /\ \A i \in 1..(romNext - 1) : Fatal(i) => romRefused \/ romGame \in DropsTheRegion
    /\ romPhase = "judged" =>
         /\ romAudited <=> (~romRefused /\ Has({"start", "audit"}))
         /\ romStarted <=> (~romRefused /\ Has({"start"}))

LEMMA LayoutFacts ==
    ASSUME romGame \in DOMAIN Layout
    PROVE  /\ RowCount \in Nat /\ RowCount >= 1 /\ DOMAIN Rows = 1..RowCount
           /\ \A i \in 1..RowCount : RowOk(Rows[i])
           /\ \A i, j \in 1..RowCount : i < j => KeptApart(Rows[i], Rows[j])
           /\ romGame \in DropsTheRegion => \A i \in 1..RowCount : Rows[i].neededBy # "whole"
  <1>1. WellLaid(Rows) /\ (romGame \in DropsTheRegion => NoneWhole(Rows))
    BY EveryLayout DEF Rows
  <1>2. PICK S : Rows \in Seq(S)
    BY <1>1 DEF WellLaid
  <1>3. Len(Rows) \in Nat /\ DOMAIN Rows = 1..Len(Rows) /\ Len(Rows) >= 1
    <2>1. Rows # << >>
      BY <1>1 DEF WellLaid
    <2> HIDE DEF Rows
    <2> QED
      BY <1>2, <2>1
  <1> QED
    BY <1>1, <1>3 DEF WellLaid, NoneWhole, RowCount

LEMMA NothingNoticed ==
    ASSUME romFault = NoFault, NEW n \in Nat, NEW i \in 1..n PROVE ~Noticed(i)
  BY DEF NoFault, Noticed, Damaged

LEMMA OpenedWell == ASSUME NEW g \in RomGames, OpenSet(g) PROVE RomInv'
  BY RomGamesAssumption DEF OpenSet, RomInv, Rows, RowCount

LEMMA RomBegins == RomInit => RomInv
  BY RomGamesAssumption DEF RomInit, RomInv, Rows, RowCount

LEMMA RomStep == RomInv /\ [RomNext]_romvars => RomInv'
  <1> SUFFICES ASSUME RomInv, [RomNext]_romvars PROVE RomInv'
    OBVIOUS
  <1>1. CASE UNCHANGED romvars
    BY <1>1 DEF romvars, RomInv, RowCount, Rows, Noticed, Fatal, Damaged, Has
  <1>2. CASE AnotherSet
    BY <1>2, OpenedWell DEF AnotherSet
  <1>3. ASSUME NEW recognised \in BOOLEAN, Identify(recognised) PROVE RomInv'
    <2> USE <1>3 DEF Identify
    <2>1. RowCount \in Nat /\ RowCount >= 1
      BY LayoutFacts DEF RomInv
    <2>2. UNCHANGED RowCount /\ \A i : UNCHANGED Noticed(i) /\ UNCHANGED Fatal(i)
      BY DEF RowCount, Rows, Noticed, Fatal, Damaged
    <2>3. ~recognised => romFault # NoFault
      BY DEF Damaged, NoFault
    <2>4. romPhase = "identify" /\ romNext = 1 /\ romPlaced = {} /\ ~romRefused
      BY DEF RomInv
    <2>5. 1..(romNext - 1) = {}
      BY <2>4
    <2>6. /\ UNCHANGED <<romGame, romFault, romNext, romPlaced>> /\ (romRefused' <=> ~recognised)
          /\ romPhase' = IF recognised THEN "load" ELSE "judge"
      OBVIOUS
    <2>7. romPlaced' = {i \in 1..(romNext' - 1) : ~Noticed(i)'}
      BY <2>4, <2>5, <2>6
    <2>8. \A i \in 1..(romNext' - 1) : Fatal(i)' => romRefused' \/ romGame' \in DropsTheRegion
      BY <2>5, <2>6
    <2>9. romPhase' \in {"load", "judge"} /\ (romPhase' = "judge" => romRefused')
         /\ (romRefused' => romFault' # NoFault)
      BY <2>3, <2>6
    <2>10. romNext' \in 1..RowCount'
      BY <2>1, <2>2, <2>4, <2>6
    <2> QED
      BY <2>1, <2>2, <2>4, <2>6, <2>7, <2>8, <2>9, <2>10 DEF RomInv
  <1>4. CASE LoadRow
    <2> DEFINE good == Fits(Rows[romNext]) /\ ~Noticed(romNext)
               fatal == /\ ~good
                        /\ \/ Rows[romNext].neededBy = "start"
                           \/ Rows[romNext].neededBy = "whole" /\ Readable(romFault[2])
    <2>1. /\ RowCount \in Nat /\ romNext \in 1..RowCount /\ romPhase = "load"
          /\ RowOk(Rows[romNext])
      BY <1>4, LayoutFacts DEF RomInv, LoadRow
    <2>2. /\ good <=> ~Noticed(romNext)
          /\ fatal <=> Fatal(romNext)
      BY <2>1 DEF RowOk, Fatal
    <2>3. /\ romPlaced' = IF good THEN romPlaced \cup {romNext} ELSE romPlaced
          /\ romRefused' = (romRefused \/ (fatal /\ romGame \notin DropsTheRegion))
          /\ romNext' = romNext + 1
          /\ romPhase' = IF romNext = RowCount \/ (fatal /\ romGame \notin KeepsGoing \cup DropsTheRegion)
                         THEN "judge" ELSE "load"
          /\ UNCHANGED <<romGame, romFault, romAudited, romStarted>>
      BY <1>4 DEF LoadRow, Filled, RowCount
    <2> HIDE DEF good, fatal
    <2>4. UNCHANGED RowCount /\ \A i : (Noticed(i)' <=> Noticed(i)) /\ (Fatal(i)' <=> Fatal(i))
      BY <2>3 DEF RowCount, Rows, Noticed, Fatal, Damaged
    <2>5. romFault = NoFault => ~Fatal(romNext)
      BY <2>1, NothingNoticed DEF Fatal
    <2>6. romPlaced = {i \in 1..(romNext - 1) : ~Noticed(i)}
      BY <2>1 DEF RomInv
    <2>7. romPlaced' = {i \in 1..romNext : ~Noticed(i)}
      BY <2>1, <2>2, <2>3, <2>6
    <2>8. romPlaced' = {i \in 1..(romNext' - 1) : ~Noticed(i)'}
      BY <2>1, <2>3, <2>4, <2>7
    <2>9. \A i \in 1..(romNext' - 1) : Fatal(i)' => romRefused' \/ romGame' \in DropsTheRegion
      <3> SUFFICES ASSUME NEW i \in 1..romNext, Fatal(i) PROVE romRefused' \/ romGame \in DropsTheRegion
        BY <2>1, <2>3, <2>4
      <3>1. CASE i = romNext
        BY <2>2, <2>3, <3>1
      <3>2. CASE i # romNext
        <4>1. i \in 1..(romNext - 1)
          BY <2>1, <3>2
        <4>2. Fatal(i) => romRefused \/ romGame \in DropsTheRegion
          BY <2>1, <4>1 DEF RomInv
        <4> QED
          BY <2>3, <4>2
      <3> QED
        BY <3>1, <3>2
    <2>10. romPlaced' \subseteq 1..RowCount
      BY <2>1, <2>7
    <2>11. romPhase' \in {"load", "judge"} /\ (romPhase' = "load" => romNext' \in 1..RowCount)
           /\ (romPhase' = "judge" => romRefused' \/ romNext' = RowCount + 1)
      <3>1. CASE romNext = RowCount
        BY <2>1, <2>3, <3>1
      <3>2. CASE romNext # RowCount /\ (fatal /\ romGame \notin KeepsGoing \cup DropsTheRegion)
        BY <2>3, <3>2
      <3>3. CASE romNext # RowCount /\ ~(fatal /\ romGame \notin KeepsGoing \cup DropsTheRegion)
        BY <2>1, <2>3, <3>3
      <3> QED
        BY <3>1, <3>2, <3>3
    <2>12. romRefused' => romFault' # NoFault
      BY <2>2, <2>3, <2>5 DEF RomInv
    <2> QED
      BY <2>3, <2>4, <2>8, <2>9, <2>10, <2>11, <2>12 DEF RomInv
  <1>5. CASE Judge
    BY <1>5 DEF Judge, RomInv, RowCount, Rows, Noticed, Fatal, Damaged, Has
  <1> QED
    BY <1>1, <1>2, <1>3, <1>4, <1>5 DEF RomNext

LEMMA RomShows == RomInv => RomsHold
  <1> SUFFICES ASSUME RomInv PROVE NothingOverwritten /\ AuditTellsTheTruth
    BY DEF RomsHold
  <1>1. /\ RowCount \in Nat /\ RowCount >= 1 /\ DOMAIN Rows = 1..RowCount
        /\ \A i \in 1..RowCount : RowOk(Rows[i])
        /\ \A i, j \in 1..RowCount : i < j => KeptApart(Rows[i], Rows[j])
        /\ romGame \in DropsTheRegion => \A i \in 1..RowCount : Rows[i].neededBy # "whole"
    BY LayoutFacts DEF RomInv
  <1>2. NothingOverwritten
    <2> SUFFICES ASSUME NEW i \in romPlaced, NEW j \in romPlaced, Rows[i].region = Rows[j].region,
                        NEW x \in Rows[i].files, NEW y \in Rows[j].files, i # j \/ x # y
                 PROVE  Apart(x, y)
      BY DEF NothingOverwritten
    <2>1. i \in 1..RowCount /\ j \in 1..RowCount
      BY DEF RomInv
    <2>2. CASE i = j
      BY <1>1, <2>1, <2>2 DEF RowOk
    <2>3. CASE i < j \/ j < i
      BY <1>1, <2>1, <2>3 DEF KeptApart
    <2> QED
      BY <1>1, <2>1, <2>2, <2>3
  <1>3. AuditTellsTheTruth
    <2> SUFFICES ASSUME romPhase = "judged"
                 PROVE  /\ romFault = NoFault => romAudited
                        /\ romAudited => romStarted
                        /\ romAudited => \A i \in DOMAIN Rows :
                             Noticed(i) => \/ Rows[i].neededBy = "none"
                                           \/ Rows[i].neededBy = "whole" /\ ~Readable(romFault[2])
      BY DEF AuditTellsTheTruth
    <2>1. /\ romAudited <=> (~romRefused /\ Has({"start", "audit"}))
          /\ romStarted <=> (~romRefused /\ Has({"start"}))
      BY DEF RomInv
    <2>2. ~romRefused => /\ romPlaced = {i \in 1..RowCount : ~Noticed(i)}
                         /\ \A i \in 1..RowCount : Fatal(i) => romGame \in DropsTheRegion
      BY <1>1 DEF RomInv
    <2>3. ASSUME romFault = NoFault PROVE romAudited
      BY <1>1, <2>1, <2>2, <2>3, NothingNoticed DEF RomInv, Has
    <2>4. romAudited => romStarted
      BY <2>1 DEF Has
    <2>5. ASSUME romAudited, NEW i \in DOMAIN Rows, Noticed(i)
          PROVE  \/ Rows[i].neededBy = "none"
                 \/ Rows[i].neededBy = "whole" /\ ~Readable(romFault[2])
      <3>1. i \notin romPlaced
        BY <1>1, <2>1, <2>2, <2>5
      <3>2. Rows[i].neededBy \notin {"start", "audit"}
        BY <2>1, <2>5, <3>1 DEF Has
      <3>3. Rows[i].neededBy \in {"none", "whole"}
        BY <1>1, <3>2 DEF RowOk
      <3>4. ~Fatal(i) \/ romGame \in DropsTheRegion
        BY <1>1, <2>1, <2>2, <2>5
      <3> QED
        BY <1>1, <2>5, <3>3, <3>4 DEF Fatal
    <2> QED
      BY <2>3, <2>4, <2>5
  <1> QED
    BY <1>2, <1>3

-----------------------------------------------------------------------------
(* Whichever part runs, the others stand still.                                *)

(* The initial states of the application have those of every part.            *)
LEMMA PartsBegin ==
    Init => /\ HsInit /\ SdInit /\ VkInit /\ RnInit /\ OmInit /\ NvInit
            /\ RomInit /\ CiInit /\ ImInit /\ WlInit /\ LmInit
  BY DEF Init

(* A step of the application is a step of a part or leaves it alone.           *)
LEMMA PartsStep ==
    [Next]_vars => /\ [HsNext]_hsvars /\ [SdNext]_sdvars /\ [VkNext]_vkvars /\ [RnNext]_rnvars
                   /\ [OmNext]_omvars /\ [NvNext]_nvvars /\ [AwNext]_awvars /\ [RomNext]_romvars
                   /\ [CiNext]_civars
                   /\ [ImNext]_imvars /\ [WlNext]_wlvars /\ [LmNext]_lmvars
  BY DEF Next, vars

(* The invariants of the parts, together.                                      *)
AppInv == HsInv /\ SdInv /\ VkInv /\ RnInv /\ OmInv /\ NvInv /\ RomInv /\ CiInv /\ ImInv /\ LmInv

(* Each part keeps its invariant, whichever part runs.                         *)
THEOREM AppHolds == Spec => []AppInv
  <1>1. Init => AppInv
    BY PartsBegin, HsBegins, SdBegins, VkBegins, RnBegins, OmBegins, NvBegins, RomBegins, CiBegins, ImBegins,
       LmBegins
       DEF AppInv
  <1>2. AppInv /\ [Next]_vars => AppInv'
    BY PartsStep, HsKept, SdKept, VkKept, RnKept, OmKept, NvKept, RomStep, CiKept, ImKept, LmKept
       DEF AppInv
  <1> QED
    BY <1>1, <1>2, PTL DEF Spec

(* Files under their own names never get worse, whatever the games score, the   *)
(* operator resets and a download leaves half done: a table of scores keeps    *)
(* its best through every power cycle in which the disc could read it and      *)
(* close and rename what was written, what a reset changes is in a backup, a   *)
(* cached picture is whole.                                                    *)
THEOREM FilesKeptHolds == Spec => FilesKept
  <1>1. AppInv /\ [Next]_vars => [FileImproves]_hsvars /\ [Undoable]_sdvars /\ [NoneHalfWritten]_awvars
    BY PartsStep, HsImproves, SdUndoable, AwWhole DEF AppInv
  <1>2. /\ AppInv /\ [Next]_vars => [FileImproves]_hsvars
        /\ AppInv /\ [Next]_vars => [Undoable]_sdvars
        /\ AppInv /\ [Next]_vars => [NoneHalfWritten]_awvars
    BY <1>1
  <1>3. Spec => [][FileImproves]_hsvars /\ [][Undoable]_sdvars /\ [][NoneHalfWritten]_awvars
    BY <1>2, AppHolds, PTL DEF Spec
  <1> QED
    BY <1>3, PTL DEF FilesKept, BestKept, Recoverable, CachedIsWhole, FileImproves, Undoable, NoneHalfWritten

(* A shadow that is shown is of that frame and game, a frame begun on a device  *)
(* that was found lost is shown by OpenGL, or else the next one is, and a tap  *)
(* of any bound input reaches the board, for any frames, keys, pads and slots. *)
THEOREM FramesAndTapsHolds == Spec => FramesAndTaps
  <1>1. AppInv /\ [Next]_vars => [OwnShadow]_rnvars /\ [LossCostsAFrame]_rnvars /\ [TapArrives]_civars
    BY PartsStep, RnShows, CiArrives DEF AppInv
  <1>2. /\ AppInv /\ [Next]_vars => [OwnShadow]_rnvars
        /\ AppInv /\ [Next]_vars => [LossCostsAFrame]_rnvars
        /\ AppInv /\ [Next]_vars => [TapArrives]_civars
    BY <1>1
  <1>3. Spec => [][OwnShadow]_rnvars /\ [][LossCostsAFrame]_rnvars /\ [][TapArrives]_civars
    BY <1>2, AppHolds, PTL DEF Spec
  <1> QED
    BY <1>3, PTL DEF FramesAndTaps, ShadowOfThisFrame, ShownDespiteLoss, TapReachesTheBoard,
                     OwnShadow, LossCostsAFrame, TapArrives

(* But for the sheets it streams and the images it uploads the presenter writes *)
(* nothing the GPU still reads, it waits on a semaphore of its own, and a      *)
(* viewer decodes a frame of the stream on the picture it was coded on: for    *)
(* any images, calls, frames and connections, whatever the driver refuses.     *)
THEOREM WrittenWhenReadHolds == Spec => [](WritesAwaited /\ OwnSemaphore /\ TrueToTheFrame)
  <1>1. AppInv => WritesAwaited /\ OwnSemaphore /\ TrueToTheFrame
    BY SemaphoresAreOwn DEF AppInv, VkInv, NvInv
  <1> QED
    BY <1>1, AppHolds, PTL

(* It also samples no image that is gone, as long as only the call that shows a *)
(* picture fails to make its target.                                          *)
THEOREM DrawnFromWhatIsLiveHolds == ASSUME TargetsWhole PROVE Spec => []DrawnFromWhatIsLive
  <1>1. Init => VkLive
    BY PartsBegin, VkBegins
  <1>2. AppInv /\ VkLive /\ [Next]_vars => VkLive'
    BY PartsStep, VkStaysLive, TargetsWhole DEF AppInv
  <1>3. AppInv /\ VkLive => DrawnFromWhatIsLive
    BY SemaphoresAreOwn DEF AppInv, VkInv, VkLive, NvInv, DrawnFromWhatIsLive
  <1> QED
    BY <1>1, <1>2, <1>3, AppHolds, PTL DEF Spec

(* The menus show what holds, for any games, switches, bindings and library,    *)
(* and however the commands between menu and game are delayed.                 *)
THEOREM MenusTellTheTruthHolds == Spec => []MenusTellTheTruth
  <1>1. AppInv => MenusTellTheTruth
    BY EditorShows, LmShows DEF AppInv, OmInv, MenusTellTheTruth
  <1> QED
    BY <1>1, AppHolds, PTL

(* No loader writes one file over another, for any of its sets, and the audit   *)
(* of a set finds what its loader will find, whatever file is damaged: what    *)
(* it passes starts, what is whole passes it, and nothing damaged does but     *)
(* what the board can do without.                                             *)
THEOREM RomsHoldAlways == Spec => []RomsHold
  <1>1. AppInv => RomsHold
    BY RomShows DEF AppInv
  <1> QED
    BY <1>1, AppHolds, PTL
=============================================================================
