------------------------------- MODULE MCBoards -------------------------------
(* Small instances of the boards and of their sessions.  The application plays *)
(* one board at a time: Init chooses the part that runs, the others keep one   *)
(* of their initial states.                                                    *)
EXTENDS Model2Session, Xbox360Session, Pcsx2Session, C139Link,
        System22Board, System22Geometry, System22Sound, Model1Sound, Model1Board,
        Model1IoBoard, Tms320C25,
        GalagaLink, Model2Sound, Model2Board, Model2Geometry,
        Model2Nvram

VARIABLE part
vars == << part, m2vars, xvars, nvars, pvars, cvars, s22vars, g22vars, c352vars, m1vars, m1vvars,
           m1ivars, m1nvars, m1evars, ctcvars, dsbvars, dspvars, aluvars, glvars, scvars, muvars,
           mbvars, mgvars, mnvars >>

(* Two addresses for the MPEG sound ROM, by high and low byte.  The address    *)
(* that has the bytes of both lies behind its end.                            *)
TwoAddresses == { << 0, 1 >>, << 1, 0 >> }
EndOfRom == << 1, 0 >>

Init ==
    /\ part \in {"model2", "xbox360", "native", "system246", "c139", "s22board", "s22geometry",
                 "s22sound", "m1sound", "m1video", "m1irq", "m1nvram", "m1eeprom", "ctc", "dsb",
                 "dsp", "alu", "galaga", "m2sound", "m2uart", "m2board", "m2geometry", "m2nvram"}
    /\ M2Init /\ X360Init /\ NativeInit /\ Pcsx2Init /\ C139Init /\ G22Init /\ C352Init
    /\ M1SoundInit /\ M1vInit /\ M1iInit /\ M1eInit /\ CtcInit /\ DsbInit /\ DspInit /\ AluInit
    /\ GlInit /\ ScInit /\ MuInit /\ MbInit /\ MgInit
    /\ S22Init /\ (part # "s22board" => s22super /\ s22link)
    /\ M1nInit /\ (part # "m1nvram" => m1nBoard /\ m1nFile = NoFile)
    /\ MnInit /\ (part # "m2nvram" => mnCabinet)

Next ==
    /\ UNCHANGED part
    /\ part # "model2" => UNCHANGED m2vars
    /\ part # "xbox360" => UNCHANGED xvars
    /\ part # "native" => UNCHANGED nvars
    /\ part # "system246" => UNCHANGED pvars
    /\ part # "c139" => UNCHANGED cvars
    /\ part # "s22board" => UNCHANGED s22vars
    /\ part # "s22geometry" => UNCHANGED g22vars
    /\ part # "s22sound" => UNCHANGED c352vars
    /\ part # "m1sound" => UNCHANGED m1vars
    /\ part # "m1video" => UNCHANGED m1vvars
    /\ part # "m1irq" => UNCHANGED m1ivars
    /\ part # "m1nvram" => UNCHANGED m1nvars
    /\ part # "m1eeprom" => UNCHANGED m1evars
    /\ part # "ctc" => UNCHANGED ctcvars
    /\ part # "dsb" => UNCHANGED dsbvars
    /\ part # "dsp" => UNCHANGED dspvars
    /\ part # "alu" => UNCHANGED aluvars
    /\ part # "galaga" => UNCHANGED glvars
    /\ part # "m2sound" => UNCHANGED scvars
    /\ part # "m2uart" => UNCHANGED muvars
    /\ part # "m2board" => UNCHANGED mbvars
    /\ part # "m2geometry" => UNCHANGED mgvars
    /\ part # "m2nvram" => UNCHANGED mnvars
    /\ \/ part = "model2" /\ M2Next
       \/ part = "xbox360" /\ X360Next
       \/ part = "native" /\ NativeNext
       \/ part = "system246" /\ Pcsx2Next
       \/ part = "c139" /\ C139Next
       \/ part = "s22board" /\ S22Next
       \/ part = "s22geometry" /\ G22Next
       \/ part = "s22sound" /\ C352Next
       \/ part = "m1sound" /\ M1SoundNext
       \/ part = "m1video" /\ M1vNext
       \/ part = "m1irq" /\ M1iNext
       \/ part = "m1nvram" /\ M1nNext
       \/ part = "m1eeprom" /\ M1eNext
       \/ part = "ctc" /\ CtcNext
       \/ part = "dsb" /\ DsbNext
       \/ part = "dsp" /\ DspNext
       \/ part = "alu" /\ AluNext
       \/ part = "galaga" /\ GlNext
       \/ part = "m2sound" /\ ScNext
       \/ part = "m2uart" /\ MuNext
       \/ part = "m2board" /\ MbNext
       \/ part = "m2geometry" /\ MgNext
       \/ part = "m2nvram" /\ MnNext

Spec == Init /\ [][Next]_vars /\ NativeFairness

------------------------------------------------------------------------------
(* Between the threads of a session nothing is lost that was handed over: a    *)
(* press of a switch that is folded (or of another, in a frame that was not    *)
(* replaced), the test switch let go, a driver's credit, a coin, a byte for    *)
(* the sound board; and no dead driver's packet is played.                     *)
NothingLostBetweenThreads ==
    NoPressLost /\ TestLetGo /\ CreditsKept /\ NoPacketOfTheDead /\ CoinsKept /\ EveryByteOnce
        /\ NoFreeCredit
(* What the parts of a board change goes in order: an Xbox 360 driver's sound,  *)
(* the display banks of Model 1 from a frame to its drawing, and the sums that *)
(* the DSP carries from one word to the next.                                 *)
InOrder == SoundInOrder /\ SameBanks /\ SumsAreExact

(* The interrupt controllers hold the line that what is pending asks for, and  *)
(* no counter's deadline is missed.                                            *)
InterruptsServed == AssertedIsHighest /\ PendingHoldsTheLine /\ LineAsPending /\ NoneOverdue

(* A frame of the System 22 link arrives whole or not at all, the game is told *)
(* of it, and a partner who restarts is heard again.                           *)
LinkKeepsFrames == WholeFrames /\ FrameAnnounced /\ NotDeafForLong
(* What has to happen happens: two linked Galaga boards start their game in    *)
(* time, and a child process is ended with its session.                       *)
HappensInTime == [][StartedInTime']_glvars /\ NoChildLeft

(* What a game has changed in its settings is marked to be saved or is saved,  *)
(* or its save was torn where the code does not look.                          *)
ChangesMarked == UnmarkedIsSaved /\ NothingUnmarked
(* The settings change only by a whole command of the game, and the role of a  *)
(* linked cabinet survives the game's own writing of its record.               *)
SettingsOnlyAsMeant == OnlyAsClocked /\ RoleSurvivesTheGame

(* The geometry engines read inside their RAM, light an object by its own      *)
(* lights and join strips by their common edge; their DSP returns where it was *)
(* called from and repeats the word it was told to.                           *)
GeometryHolds == InRam /\ LitByOwnObject /\ StripsJoined /\ StackServes /\ WordAfterWord
(* Their arithmetic: the DSP divides by conditional subtraction, and a farther *)
(* polygon is never filed before a nearer one.                                *)
ArithmeticHolds == Divides /\ NearerFirst

(* What the processors ask of the sound chips is what the chips do, but for    *)
(* the flag of its direction that the C352 turns itself.                       *)
CommandsReachTheChips == ChipFollows /\ WholeAddresses /\ KeyedNotesSound

(* The parts of a board keep pace: the i960 is ahead of its clock by no more    *)
(* than it owes and its waits gave it, no FIFO is over its limit by more than  *)
(* one instruction, and the sound line carries no more than its bit rate.      *)
BoardsKeepPace == NotOverclocked /\ FifosBounded /\ WireKeepsTime
=============================================================================
