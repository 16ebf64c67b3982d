-------------------------------- MODULE MCApp --------------------------------
(* Small instances of the parts of the application around the boards.  They    *)
(* share no variable: Init chooses the one that runs, the others keep one of   *)
(* their initial states.                                                      *)
EXTENDS SavedScores, SavedData, Presenter, Renderer, OperatorMenu, VideoStream,
        Artwork, RomLoading, CabinetInput, InputMapping, ArcadeWall, Launcher

(* Players in turn; linked cabinets; one player; and a set that does not work. *)
Libraried(mode, board, publisher, plays, works) ==
    [mode |-> mode, peer |-> works, board |-> board, publisher |-> publisher, plays |-> plays, works |-> works]
FourGames == << Libraried("alternating", 1, 1, 0, TRUE), Libraried("native_link", 2, 1, 1, TRUE),
                Libraried("none", 1, 1, 0, TRUE), Libraried("simultaneous", 2, 0, 0, FALSE) >>

VARIABLE part
vars == << part, hsvars, sdvars, vkvars, rnvars, omvars, nvvars, awvars, romvars, civars, imvars,
           wlvars, lmvars >>

Init ==
    /\ part \in {"scores", "data", "presenter", "renderer", "menu", "stream", "artwork", "roms",
                 "input", "mapping", "wall", "launcher"}
    /\ OmInit /\ NvInit /\ WlInit
    /\ HsInit /\ (part # "scores" => hsOwn = Absent /\ hsMame = Absent)
    /\ SdInit /\ (part # "data" => sdChips = Model2Files /\ sdLive = NothingOnDisk)
    /\ VkInit /\ (part # "presenter" => vkTargets /\ vkImage = 1)
    /\ RnInit /\ (part # "renderer" => rnOutput = "software")
    /\ AwInit /\ (part # "artwork" => awKind = "cover" /\ awToken /\ awName = "t" /\ awBroken = {})
    /\ RomInit /\ (part # "roms" => romGame = "galaga" /\ romFault = NoFault)
    /\ CiInit /\ (part # "input" => ciKeyOf = [s \in CiSlots |-> "k1"])
    /\ ImInit
    /\ (part # "mapping" =>
           /\ imRunning = "none" /\ imFile["general"]["keyboard"]["action2"] = "none"
           /\ \A g \in ImGames : imFile[g] = [d \in ImDevices |-> Fallback(g)])
    /\ LmInit /\ (part # "launcher" => lmShelf = {3})

Next ==
    /\ UNCHANGED part
    /\ part # "scores" => UNCHANGED hsvars
    /\ part # "data" => UNCHANGED sdvars
    /\ part # "presenter" => UNCHANGED vkvars
    /\ part # "renderer" => UNCHANGED rnvars
    /\ part # "menu" => UNCHANGED omvars
    /\ part # "stream" => UNCHANGED nvvars
    /\ part # "artwork" => UNCHANGED awvars
    /\ part # "roms" => UNCHANGED romvars
    /\ part # "input" => UNCHANGED civars
    /\ part # "mapping" => UNCHANGED imvars
    /\ part # "wall" => UNCHANGED wlvars
    /\ part # "launcher" => UNCHANGED lmvars
    /\ \/ part = "scores" /\ HsNext
       \/ part = "data" /\ SdNext
       \/ part = "presenter" /\ VkNext
       \/ part = "renderer" /\ RnNext
       \/ part = "menu" /\ OmNext
       \/ part = "stream" /\ NvNext
       \/ part = "artwork" /\ AwNext
       \/ part = "roms" /\ RomNext
       \/ part = "input" /\ CiNext
       \/ part = "mapping" /\ ImNext
       \/ part = "wall" /\ WlNext
       \/ part = "launcher" /\ LmNext

Spec == Init /\ [][Next]_vars

------------------------------------------------------------------------------
(* What is shown is drawn from what is live: of the buffers whose writers wait *)
(* for the frame before, the presenter writes none that the GPU still reads;   *)
(* it frees no image the GPU reads and waits on its own semaphore; and a       *)
(* viewer decodes a frame of the stream on the picture it was coded on.        *)
DrawnFromWhatIsLive == WritesAwaited /\ SamplesLive /\ OwnSemaphore /\ TrueToTheFrame

(* The menus show what holds: the operator menu the switches of the game that  *)
(* runs, the mapping editor what the file says, and no map lets a game run on  *)
(* a key that is taken or on a mark for another map; the launcher starts a     *)
(* game only in a way it has, has no empty page, and follows the other machine. *)
MenusTellTheTruth ==
    /\ MenuShowsTheSwitches /\ EditorShowsTheFile /\ OnlyPlayableKeys
    /\ WayFits /\ NoEmptyPage /\ MenuKnowsThePeer

(* The loaders put each ROM in a place of its own, and the audit of the set    *)
(* finds what the loader will find.                                            *)
RomsHold == NothingOverwritten /\ AuditTellsTheTruth

(* Files under their own names never get worse: a table of scores keeps its    *)
(* best unless the disc fails where the code does not look, a reset can be     *)
(* undone, and a cached picture is whole.                                      *)
FilesKept == BestKept /\ Recoverable /\ CachedIsWhole

(* A frame's shadows are of that frame, a device found lost stops no more than *)
(* one frame, and a tap of a bound input reaches the board.                    *)
FramesAndTaps == ShadowOfThisFrame /\ ShownDespiteLoss /\ TapReachesTheBoard
=============================================================================
