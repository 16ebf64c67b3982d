---------------------------- MODULE InputMapping ----------------------------
(* The controls the user edits, the file they are kept in, and what a running *)
(* game plays with.  A game inherits the General table of a device wherever   *)
(* it has no binding of its own; the file may have been edited by hand.       *)
EXTENDS Naturals

CONSTANTS
    ImGames,        \* installed games; those in ImPedalGames have a built-in pedal key
    ImPedalGames,
    ImDevices,      \* the keyboard and the controllers
    ImInputs,       \* keys, or buttons and axes of a controller
    ImMaxEdits      \* bound: changes tried, saved or not

ASSUME InputMappingAssumption ==
    /\ ImPedalGames \subseteq ImGames /\ "keyboard" \in ImDevices /\ "default" \in ImInputs
    /\ {"reserved", "inherit"} \cap ImInputs = {}
    /\ ImMaxEdits \in Nat

VARIABLES
    imFile,         \* the lines of input.ini: owner, device and action to text
    imConfig,       \* input_mapping_config of the open editor: general, games
    imScreen,       \* "closed", "devices", "tabs" or "controls"
    imProfile,      \* the profile edited: "general" or a game
    imDevice,       \* the device edited
    imRunning,      \* the game whose controls editor is over it, or "none" (launcher)
    imLive,         \* m_mappings, resolved for the running game
    imEdits

imvars == << imFile, imConfig, imScreen, imProfile, imDevice, imRunning, imLive, imEdits >>

Actions == {"action1", "action2"}           \* action2 is p1_action2, the pedal
Owners == ImGames \cup {"general"}
Reserved == {"reserved"}                    \* P and Escape, keyboard only
Texts == ImInputs \cup Reserved \cup {"none", "inherit"}
DefaultTable == [a \in Actions |-> "default"]
Inherited == [a \in Actions |-> "inherit"]
Fallback(owner) == IF owner = "general" THEN DefaultTable ELSE Inherited

(* load_input_mappings: a line that is not valid leaves the default.          *)
ValidSlip(owner, device) == Texts \ IF owner = "general" THEN {"inherit"} ELSE {}
\* valid_keyboard_binding, valid_controller_binding and the two for overrides
Valid(owner, device) ==
    (ImInputs \cup {"none"}) \cup IF owner = "general" THEN {} ELSE {"inherit"}
LoadedMap(file) ==
    [o \in Owners |-> [d \in ImDevices |-> [a \in Actions |->
        IF file[o][d][a] \in Valid(o, d) THEN file[o][d][a] ELSE Fallback(o)[a]]]]
(* save_input_mappings writes every General binding and the valid overrides.  *)
Lines(config) ==
    [o \in Owners |-> [d \in ImDevices |-> [a \in Actions |->
        IF o = "general" \/ config[o][d][a] \in Valid(o, d) THEN config[o][d][a] ELSE "inherit"]]]

(* keyboard_bindings_for, controller_bindings_for *)
Base(config, game, device) ==
    IF game \in ImPedalGames /\ device = "keyboard"
    THEN [config["general"][device] EXCEPT !["action2"] = "space"]
    ELSE config["general"][device]
Resolved(config, game) ==
    [d \in ImDevices |-> [a \in Actions |->
        IF config[game][d][a] = "inherit" THEN Base(config, game, d)[a] ELSE config[game][d][a]]]

ImInit ==
    /\ imFile \in {[o \in Owners |-> [d \in ImDevices |->
                        IF o = owner /\ d = "keyboard" THEN [Fallback(o) EXCEPT !["action2"] = text] ELSE Fallback(o)]] :
                      owner \in Owners, text \in Texts}
    /\ imConfig = LoadedMap(imFile) /\ imScreen = "closed" /\ imProfile = "general" /\ imDevice = "keyboard"
    /\ imRunning \in ImGames \cup {"none"}
    /\ imLive = IF imRunning = "none" THEN << >> ELSE Resolved(imConfig, imRunning)
    /\ imEdits = 0

-----------------------------------------------------------------------------
(* show_input_mapper edits any profile, show_game_input_mapper the one of the *)
(* running game; each loads the file anew.                                    *)

OpenEditor(profile) ==
    /\ imScreen = "closed" /\ imScreen' = "devices" /\ imProfile' = profile
    /\ imRunning = "none" \/ profile = imRunning
    /\ imConfig' = LoadedMap(imFile)
    /\ UNCHANGED << imFile, imDevice, imRunning, imLive, imEdits >>
ChooseGame(profile) ==
    /\ imScreen = "devices" /\ imRunning = "none" /\ profile # imProfile /\ imProfile' = profile
    /\ UNCHANGED << imFile, imConfig, imScreen, imDevice, imRunning, imLive, imEdits >>
ChooseDevice(device) ==         \* edit_device
    /\ imScreen = "devices" /\ imScreen' = "tabs" /\ imDevice' = device
    /\ UNCHANGED << imFile, imConfig, imProfile, imRunning, imLive, imEdits >>
ChooseTab ==
    /\ imScreen = "tabs" /\ imScreen' = "controls"
    /\ UNCHANGED << imFile, imConfig, imProfile, imDevice, imRunning, imLive, imEdits >>
BackOut ==
    /\ imScreen \in {"tabs", "controls"}
    /\ imScreen' = IF imScreen = "tabs" THEN "devices" ELSE "tabs"
    /\ UNCHANGED << imFile, imConfig, imProfile, imDevice, imRunning, imLive, imEdits >>
(* The running game reloads its mappings when the editor is closed.           *)
Close ==
    /\ imScreen = "devices" /\ imScreen' = "closed"
    /\ imLive' = IF imRunning = "none" THEN << >> ELSE Resolved(LoadedMap(imFile), imRunning)
    /\ UNCHANGED << imFile, imConfig, imProfile, imDevice, imRunning, imEdits >>
Launch(game) ==
    /\ imScreen = "closed" /\ imRunning = "none" /\ imRunning' = game
    /\ imLive' = Resolved(LoadedMap(imFile), game)
    /\ UNCHANGED << imFile, imConfig, imScreen, imProfile, imDevice, imEdits >>
LeaveEditor ==
    /\ imScreen = "closed" /\ imRunning # "none" /\ imRunning' = "none" /\ imLive' = << >>
    /\ UNCHANGED << imFile, imConfig, imScreen, imProfile, imDevice, imEdits >>

AfterFailureSlip(config, edited) == edited
\* save_or_report and copy_device_profile put the old table back.
AfterFailure(config, edited) == config
(* Every change is saved at once; a save that fails anywhere leaves the file. *)
Edit(table) ==
    LET edited == [imConfig EXCEPT ![imProfile][imDevice] = table]
    IN  /\ imEdits < ImMaxEdits /\ imEdits' = imEdits + 1
        /\ \/ imFile' = Lines(edited) /\ imConfig' = edited
           \/ imFile' = imFile /\ imConfig' = AfterFailure(imConfig, edited)
        /\ UNCHANGED << imScreen, imProfile, imDevice, imRunning, imLive >>
(* capture_binding: Delete unmaps, Backspace follows General where there is   *)
(* one; a reserved key is refused.                                            *)
Cleared == {"none"} \cup IF imProfile = "general" THEN {} ELSE {"inherit"}
Capture(action, text) ==
    /\ imScreen = "controls" /\ text \in (ImInputs \ {"default"}) \cup Cleared
    /\ Edit([imConfig[imProfile][imDevice] EXCEPT ![action] = text])
ResetDevice == imScreen = "tabs" /\ Edit(Fallback(imProfile))
(* copy_game_keyboard_mapping, copy_game_controller_mapping: General as the   *)
(* source means every override goes.                                          *)
CopyFrom(source) ==
    /\ imScreen = "tabs" /\ imProfile # "general" /\ source # imProfile
    /\ Edit(IF source = "general" THEN Inherited ELSE imConfig[source][imDevice])

ImNext ==
    \/ \E p \in Owners : OpenEditor(p) \/ ChooseGame(p) \/ CopyFrom(p)
    \/ \E d \in ImDevices : ChooseDevice(d)
    \/ \E g \in ImGames : Launch(g)
    \/ \E a \in Actions, t \in Texts : Capture(a, t)
    \/ ChooseTab \/ BackOut \/ Close \/ LeaveEditor \/ ResetDevice
ImSpec == ImInit /\ [][ImNext]_imvars

-----------------------------------------------------------------------------
\* What the open editor shows is what a game started now would load: an edit
\* that could not be saved leaves no trace in it.
EditorShowsTheFile ==
    imScreen # "closed" => \A g \in ImGames : Resolved(imConfig, g) = Resolved(LoadedMap(imFile), g)

\* No running game plays with a key the shell takes first, not even after a
\* mapping file edited by hand, and each of its switches is resolved: it has a
\* binding of its own or of the general map, or, when the player has cleared
\* it, none, but not the mark "inherit" that refers to another map.
OnlyPlayableKeys ==
    imRunning # "none" => \A d \in ImDevices, a \in Actions :
        imLive[d][a] \notin Reserved \cup {"inherit"}

=============================================================================
