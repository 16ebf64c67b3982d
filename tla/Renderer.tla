------------------------------ MODULE Renderer ------------------------------
(* The renderer of the video thread: one job or window event at a time.  A    *)
(* frame is drawn by the presenter itself, or drawn by OpenGL and shown in    *)
(* OpenGL's window or handed to the presenter.  What a board submits with     *)
(* every frame (palette, text, the 2D layers) is the number of the frame it   *)
(* belongs to, a game's ROM data the number of the game.                      *)
EXTENDS Naturals

CONSTANTS
    Switches,       \* the outputs the settings menu can choose
    MaxFrames,      \* bound: frames of all games
    MaxGames        \* bound: games

Outputs == {"opengl", "vulkan", "software"}
ASSUME RendererAssumption == Switches \subseteq Outputs /\ MaxFrames \in Nat /\ MaxGames \in Nat \ {0}

VARIABLES
    rnOutput,           \* m_active_backend
    rnLost,             \* g_device_lost: of the process, and never cleared
    rnDead,             \* it is the device of this presenter that was found lost
    rnDirty,            \* swapchain_dirty
    rnLive,             \* m_native_frame_live
    rnBoard, rnGame,    \* the board whose game runs, and the game's number
    rnFrame, rnStep,    \* the frame being submitted and how far it is
    rnQueued,           \* m_queued_polygons: whether a shadow is among them
    rnShadow, rnAge,    \* m_temporal_shadow_polygons: frame and game, and their age
    rnData,             \* per-frame data: OpenGL's copy and the presenter's
    rnRoms,             \* ROM data: likewise
    rnResident,         \* the picture in the presenter's scene image
    rnTexture,          \* the picture in m_last_present_texture
    rnMenu,             \* m_settings_visible
    rnShown             \* the picture the window shows, and who drew it there

rnDevice == << rnOutput, rnLost, rnDead, rnDirty >>
rnOut == << rnDevice, rnLive >>
rnBoards == << rnBoard, rnGame, rnFrame, rnStep, rnQueued >>
rnShade == << rnShadow, rnAge >>
rnStores == << rnData, rnRoms >>
rnPicture == << rnResident, rnTexture, rnShown >>
rnvars == << rnOut, rnBoards, rnShade, rnStores, rnPicture, rnMenu >>

NoShadow == [frame |-> 0, game |-> 0]
NothingDrawn == [gl |-> 0, vk |-> 0]
Drawing(frame, data, shadow) == [frame |-> frame, data |-> data, shadow |-> shadow, game |-> rnGame]
NoPictureYet == [frame |-> 0, data |-> 0, shadow |-> NoShadow, game |-> 0]

RnInit ==
    /\ rnOutput \in Outputs /\ rnLost = FALSE /\ rnDead = FALSE /\ rnDirty = FALSE /\ rnLive = FALSE
    /\ rnBoard = "none" /\ rnGame = 0 /\ rnFrame = 0 /\ rnStep = "shown" /\ rnQueued = FALSE
    /\ rnShadow = NoShadow /\ rnAge = 2
    /\ rnData = NothingDrawn /\ rnRoms = NothingDrawn
    /\ rnResident = NoPictureYet /\ rnTexture = NoPictureYet /\ rnMenu = FALSE
    /\ rnShown = [picture |-> NoPictureYet, by |-> "none"]

Presenter == rnOutput # "opengl"
OpenGlNeeded == ~rnLive             \* opengl_textures_needed()

-----------------------------------------------------------------------------
(* The output is switched from the settings menu; a replacement that cannot   *)
(* be initialized leaves the output as it was.  A new presenter has nothing,  *)
(* and a device of its own; that one was lost before stays on record.         *)

NewPresenter(output) ==
    /\ rnOutput' = output /\ rnDead' = FALSE /\ rnDirty' = FALSE /\ rnResident' = NoPictureYet
    /\ rnData' = [rnData EXCEPT !.vk = 0] /\ rnRoms' = [rnRoms EXCEPT !.vk = 0]
Switch(output) ==
    /\ rnMenu /\ output # rnOutput /\ NewPresenter(output)
    /\ UNCHANGED << rnLost, rnLive, rnBoards, rnShade, rnTexture, rnShown, rnMenu >>

(* A call to the device finds it lost, between two frames (an upload) or in   *)
(* one (Claims, Bridged).                                                      *)
FoundLost == rnOutput = "vulkan" /\ ~rnDead /\ rnLost' = TRUE /\ rnDead' = TRUE
Lose ==
    /\ FoundLost
    /\ UNCHANGED << rnOutput, rnDirty, rnLive, rnBoards, rnShade, rnStores, rnPicture, rnMenu >>

(* The pause menu: the board stands still while it is on the screen. *)
TogglePause ==
    /\ rnMenu' = ~rnMenu
    /\ UNCHANGED << rnOut, rnBoards, rnShade, rnStores, rnPicture >>

-----------------------------------------------------------------------------
(* A game starts: a System 22 board sends its ROM data once, which also drops *)
(* the shadow of the game before; the presenter takes the data if it can.     *)

Start(board, taken) ==
    /\ rnStep = "shown" /\ ~rnMenu /\ rnGame < MaxGames
    /\ rnBoard' = board /\ rnGame' = rnGame + 1 /\ rnQueued' = FALSE
    /\ taken => rnOutput = "vulkan"
    /\ IF board = "system22"
       THEN /\ rnRoms' = [gl |-> rnGame', vk |-> IF taken THEN rnGame' ELSE rnRoms.vk]
            /\ rnShadow' = NoShadow /\ rnAge' = 2
       ELSE ~taken /\ UNCHANGED << rnRoms, rnShade >>
    /\ UNCHANGED << rnOut, rnFrame, rnStep, rnData, rnPicture, rnMenu >>

(* submit_polygons, then submit_palette and submit_text_layer: OpenGL's copy  *)
(* is skipped while the presenter draws the frames itself.                    *)
NextFrame == rnStep = "shown" /\ ~rnMenu /\ rnFrame < MaxFrames
Polygons(shadow) ==
    /\ NextFrame /\ rnBoard = "system22"
    /\ rnFrame' = rnFrame + 1 /\ rnStep' = "polygons" /\ rnQueued' = shadow
    /\ UNCHANGED << rnOut, rnBoard, rnGame, rnShade, rnStores, rnPicture, rnMenu >>
DataOf(frame, taken) ==
    [gl |-> IF OpenGlNeeded THEN frame ELSE rnData.gl, vk |-> IF taken THEN frame ELSE rnData.vk]
Layers(taken) ==
    /\ rnStep = "polygons" /\ rnStep' = "layers"
    /\ taken => rnOutput = "vulkan"
    /\ rnData' = DataOf(rnFrame, taken)
    /\ UNCHANGED << rnOut, rnBoard, rnGame, rnFrame, rnQueued, rnShade, rnRoms, rnPicture, rnMenu >>

-----------------------------------------------------------------------------
(* The presenter takes a picture (render_board_frame returns true): it shows  *)
(* it, or gets no image of the swapchain or no answer of the fence in time,   *)
(* or the wait or vkQueuePresentKHR finds the device lost; then nobody shows  *)
(* it.  A lost device takes a picture only when it has no image to give: the  *)
(* swapchain is made again with the next, which fails, as every submit does.  *)

Show(picture, by) == rnShown' = [picture |-> picture, by |-> by]
Claims(picture) ==
    /\ rnOutput = "vulkan" /\ UNCHANGED rnOutput
    /\ \/ ~rnDead /\ Show(picture, "native") /\ rnDirty' \in BOOLEAN /\ UNCHANGED << rnLost, rnDead >>
       \/ ~rnDead /\ rnDirty' \in BOOLEAN /\ UNCHANGED << rnLost, rnDead, rnShown >>
       \/ rnDead /\ ~rnDirty /\ rnDirty' = TRUE /\ UNCHANGED << rnLost, rnDead, rnShown >>
       \/ FoundLost /\ rnDirty' = FALSE /\ UNCHANGED rnShown

(* present_texture: OpenGL's window shows the picture, or the presenter is    *)
(* handed it and may show nothing.  Once a device was lost no presenter is    *)
(* handed anything: the first picture to come here drops it.                  *)
Recovered == Presenter /\ rnLost
DropPresenterSlip == UNCHANGED rnDevice
DropPresenter == rnOutput' = "opengl" /\ rnDead' = FALSE /\ rnDirty' = FALSE /\ UNCHANGED rnLost
Bridged(picture) ==
    /\ UNCHANGED rnOutput
    /\ \/ Show(picture, "readback") /\ UNCHANGED << rnLost, rnDead >>
       \/ UNCHANGED << rnLost, rnDead, rnShown >>
       \/ FoundLost /\ UNCHANGED rnShown
    /\ rnDirty' \in IF rnOutput = "vulkan" THEN BOOLEAN ELSE {rnDirty}
PresentTexture(picture) ==
    \/ Presenter /\ ~rnLost /\ Bridged(picture)
    \/ Recovered /\ DropPresenter /\ Show(picture, "window")
    \/ ~Presenter /\ UNCHANGED rnDevice /\ Show(picture, "window")

(* A frame is drawn by the presenter or by OpenGL.  A finished picture goes   *)
(* to no presenter once a device was lost, and is not in the presenter's      *)
(* image when it was not copied there.                                        *)
Native(picture) ==
    /\ Claims(picture) /\ rnLive' = TRUE /\ UNCHANGED rnTexture
    /\ rnBoard = "rgba" => ~rnLost
    /\ rnResident' = picture \/ (rnBoard = "rgba" /\ rnResident' = rnResident /\ rnShown' = rnShown)
ThroughOpenGl(picture) ==
    /\ PresentTexture(picture) /\ rnTexture' = picture
    /\ rnLive' = (rnLive /\ ~Presenter)
    /\ UNCHANGED rnResident
Drawn(frame, data, shadow) ==
    Native(Drawing(frame, data.vk, shadow)) \/ ThroughOpenGl(Drawing(frame, data.gl, shadow))

(* render_scene: the shadow of the frame before is drawn once more by a frame *)
(* that brings none, and by that frame only.                                  *)
CarriedSlip == ~rnQueued /\ rnShadow # NoShadow
Carried == ~rnQueued /\ rnAge = 0 /\ rnShadow # NoShadow
OlderShadow ==
    LET age == IF rnAge < 2 THEN rnAge + 1 ELSE rnAge
    IN rnAge' = age /\ rnShadow' = IF age >= 2 THEN NoShadow ELSE rnShadow
RenderScene ==
    /\ rnStep = "layers" /\ rnStep' = "shown" /\ rnQueued' = FALSE
    /\ LET own == [frame |-> rnFrame, game |-> rnGame]
       IN \/ rnQueued /\ rnShadow' = own /\ rnAge' = 0 /\ Drawn(rnFrame, rnData, own)
          \/ Carried /\ rnAge' = 1 /\ UNCHANGED rnShadow /\ Drawn(rnFrame, rnData, rnShadow)
          \/ ~rnQueued /\ ~Carried /\ OlderShadow /\ Drawn(rnFrame, rnData, NoShadow)
    /\ UNCHANGED << rnBoard, rnGame, rnFrame, rnStores, rnMenu >>

(* present_model2_frame brings the layers and the polygons in one job;        *)
(* present_rgba_frame a finished picture.                                     *)
Model2Frame(taken) ==
    /\ NextFrame /\ rnBoard = "model2" /\ rnFrame' = rnFrame + 1
    /\ taken => rnOutput = "vulkan"
    /\ rnData' = DataOf(rnFrame', taken) /\ Drawn(rnFrame', rnData', NoShadow)
    /\ UNCHANGED << rnBoard, rnGame, rnStep, rnQueued, rnShade, rnRoms, rnMenu >>
RgbaFrame ==
    /\ NextFrame /\ rnBoard = "rgba" /\ rnFrame' = rnFrame + 1
    /\ Drawn(rnFrame', [gl |-> rnFrame', vk |-> rnFrame'], NoShadow)
    /\ UNCHANGED << rnBoard, rnGame, rnStep, rnQueued, rnShade, rnStores, rnMenu >>

(* refresh_output: a picture is wanted again while the board stands still.    *)
FromImage == rnLive /\ Presenter /\ ~rnMenu /\ rnResident # NoPictureYet
Refresh ==
    /\ rnStep = "shown"
    /\ \/ FromImage /\ Claims(rnResident) /\ UNCHANGED rnLive
       \/ rnTexture # NoPictureYet /\ PresentTexture(rnTexture) /\ rnLive' = (rnLive /\ ~Recovered)
    /\ UNCHANGED << rnBoards, rnShade, rnStores, rnResident, rnTexture, rnMenu >>

RnNext ==
    \/ \E output \in Switches : Switch(output)
    \/ Lose \/ TogglePause
    \/ \E board \in {"system22", "model2", "rgba"}, taken \in BOOLEAN : Start(board, taken)
    \/ \E shadow \in BOOLEAN : Polygons(shadow)
    \/ \E taken \in BOOLEAN : Layers(taken) \/ Model2Frame(taken)
    \/ RenderScene \/ RgbaFrame \/ Refresh
RnSpec == RnInit /\ [][RnNext]_rnvars

-----------------------------------------------------------------------------
(* A car's shadow is drawn by the frame that brings it and by the next one at *)
(* most, and no game is shown with the shadow of another: temporal shadows    *)
(* are carried for one frame only and dropped when a game sends its ROM data. *)
Completed == rnStep = "layers" /\ rnStep' = "shown"
NewlyShown == Completed /\ rnShown'.picture.frame = rnFrame
ShadowOfThisFrame ==
    [][NewlyShown /\ rnShown'.picture.shadow # NoShadow =>
        rnShown'.picture.shadow.game = rnGame /\ rnShown'.picture.shadow.frame + 1 >= rnFrame]_rnvars

(* A lost device stops the pictures for one frame at most beside the one that *)
(* finds the loss: a frame begun on a device found lost is shown by OpenGL's  *)
(* own window, unless the swapchain is found without an image at that frame,  *)
(* and then the next frame is.  (The frame in which the loss is found may be  *)
(* shown nowhere.)                                                            *)
FrameDone == Completed \/ (rnStep' = "shown" /\ rnFrame' # rnFrame)
ShownDespiteLoss ==
    [][rnDead /\ FrameDone =>
        \/ rnShown'.picture.frame = rnFrame' /\ rnShown'.by = "window" /\ rnOutput' = "opengl"
        \/ ~rnDirty /\ rnDirty' /\ rnDead']_rnvars

=============================================================================
