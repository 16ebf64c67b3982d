----------------------------- MODULE Presenter -----------------------------
(* The Vulkan presenter: the calls the renderer makes on it, one at a time,   *)
(* while the GPU works on the frame submitted last and the compositor keeps   *)
(* the images presented to it.  Host memory the GPU reads is a buffer and the *)
(* call that wrote it, by number and kind; an image is the number of its view. *)
EXTENDS Naturals, FiniteSets

CONSTANTS
    Images,         \* the images of a swapchain
    SceneSizes,     \* sizes of the picture a board draws
    RetryEvery,     \* native_retry_countdown: 30
    ImageFailures,  \* the calls in which creating the scene's images can fail
    MaxVkCalls      \* bound: calls

ASSUME PresenterAssumption ==
    /\ Images # {} /\ SceneSizes \subseteq Nat \ {0}
    /\ RetryEvery \in Nat \ {0} /\ ImageFailures \subseteq {"board", "system22", "model2"} /\ MaxVkCalls \in Nat

VARIABLES
    vkStep, vkCall,     \* where the call is, and which: [kind, size]
    vkCalls,            \* number of the call
    vkDirty,            \* swapchain_dirty
    vkTargets,          \* framebuffers is not empty
    vkStaging,          \* staging_mapped is not null
    vkNative,           \* "unbuilt", native_ready or native_failed
    vkRetry,            \* native_retry_countdown
    vkFence,            \* frame_fence: "signalled", "submitted" or "reset"
    vkAvailable,        \* image_available is signalled
    vkImage, vkOwned,   \* the image acquired last, and all the presenter has
    vkPresents,         \* presents waiting, each for an image and on a semaphore
    vkMemory,           \* host memory: buffer -> the call that wrote it
    vkFlight,           \* what the frame in flight reads of it
    vkFlightView,       \* the scene view it samples
    vkScene,            \* scene_image: its size and view, and whether scene_framebuffer is made
    vkBound, vkValid,   \* the view in post_set, descriptors_valid
    vkPipelines,        \* the boards whose pipelines are made
    vkPending,          \* what the next frame records: of the boards' scenes and "stream"
    vkHave              \* have_board_frame

vkSwapchain == << vkDirty, vkTargets, vkStaging >>
vkSync == << vkFence, vkAvailable, vkImage, vkOwned, vkPresents, vkFlight, vkFlightView >>
vkPicture == << vkScene, vkBound, vkValid, vkPending, vkHave >>
vkPath == << vkNative, vkRetry, vkPipelines >>
vkvars == << vkStep, vkCall, vkCalls, vkSwapchain, vkSync, vkPicture, vkPath, vkMemory >>

Buffers == {"upload", "vertices", "staging", "stream"}
NoView == 0
Unread == << >>                     \* a frame that reads none of the buffers
ToScreen == {"board", "repeat", "bridge"}
Boards == {"system22", "model2"}    \* those whose scene is drawn here
Unawaited == {"sheet", "image"}     \* calls that write without wait_frame_fence
Kinds == ToScreen \cup Boards \cup Unawaited
WrittenBy(call, kind) == [call |-> call, kind |-> kind]

VkInit ==
    /\ vkStep = "idle" /\ vkCall = [kind |-> "repeat", size |-> 0] /\ vkCalls = 0
    /\ vkDirty = FALSE /\ vkTargets \in BOOLEAN /\ vkStaging = TRUE
    /\ vkNative = "unbuilt" /\ vkRetry = 0 /\ vkPipelines = {}
    /\ vkFence = "signalled" /\ vkAvailable = FALSE
    /\ vkImage \in Images /\ vkOwned = {} /\ vkPresents = {}
    /\ vkMemory = [b \in Buffers |-> WrittenBy(0, "repeat")] /\ vkFlight = Unread /\ vkFlightView = NoView
    /\ vkScene = [size |-> 0, view |-> NoView, framebuffer |-> FALSE]
    /\ vkBound = NoView /\ vkValid = FALSE /\ vkPending = {} /\ vkHave = FALSE

At(step) == vkStep = step
Returns == vkStep' = "idle"
GiveUp == vkNative' = "failed" /\ Returns
(* vkDeviceWaitIdle: nothing submitted is left to run. *)
DeviceIdle == vkFence # "submitted"

-----------------------------------------------------------------------------
(* A call begins.  A picture that is to be repeated has the size of the last. *)

SizeOf(kind, size) == IF kind = "repeat" THEN vkScene.size ELSE size
Declined(kind) ==
    \/ kind \in {"board", "repeat"} /\ vkNative = "failed"
    \/ kind = "repeat" /\ (~vkHave \/ vkScene.view = NoView)
BeginCall(kind, size) ==
    /\ At("idle") /\ vkCalls < MaxVkCalls /\ ~Declined(kind)
    /\ vkCalls' = vkCalls + 1 /\ vkCall' = [kind |-> kind, size |-> SizeOf(kind, size)]
    /\ vkStep' = IF kind \in ToScreen THEN "swapchain" ELSE "native"
    /\ UNCHANGED << vkSwapchain, vkSync, vkPicture, vkPath, vkMemory >>

(* The window changed its size. *)
Resized ==
    /\ At("swapchain") /\ ~vkDirty /\ vkDirty' = TRUE
    /\ UNCHANGED << vkStep, vkCall, vkCalls, vkTargets, vkStaging, vkSync, vkPicture, vkPath, vkMemory >>

(* create_swapchain: its targets may be missing, which is no failure; without *)
(* staging memory it has failed, but the swapchain is the new one.            *)
Rebuilt(targets, staging) ==
    /\ DeviceIdle
    /\ vkDirty' = FALSE /\ vkTargets' = targets /\ vkStaging' = staging
    /\ vkOwned' = {} /\ vkPresents' = {}
    /\ UNCHANGED << vkFence, vkAvailable, vkImage, vkFlight, vkFlightView >>
NoWindowYet == vkDirty' = TRUE /\ UNCHANGED << vkTargets, vkStaging, vkSync >>

SwapchainStep ==
    /\ At("swapchain")
    /\ LET next == IF vkCall.kind = "bridge" THEN "retire" ELSE "native"
       IN \/ ~vkDirty /\ vkStep' = next /\ UNCHANGED << vkSwapchain, vkSync >>
          \/ vkDirty /\ NoWindowYet /\ Returns
          \/ /\ vkDirty
             /\ \E targets, staging \in BOOLEAN :
                   Rebuilt(targets, staging) /\ vkStep' = IF staging THEN next ELSE "idle"
    /\ UNCHANGED << vkCall, vkCalls, vkPicture, vkPath, vkMemory >>

-----------------------------------------------------------------------------
(* create_native_path *)

AfterNative ==
    CASE vkCall.kind \in {"board"} \cup Boards -> "target"
      [] vkCall.kind = "repeat" -> "retire"
      [] vkCall.kind = "sheet" -> "pipelines"
      [] OTHER -> "store"
(* The gamma ramp and the blank panels go through the upload buffer. *)
Write(buffer) == vkMemory' = [vkMemory EXCEPT ![buffer] = WrittenBy(vkCalls, vkCall.kind)]
Build ==
    \/ vkNative' = "ready" /\ vkStep' = AfterNative /\ Write("upload")
    \/ GiveUp /\ UNCHANGED vkMemory
NativeReady ==
    /\ At("native") /\ vkNative = "ready" /\ vkStep' = AfterNative
    /\ UNCHANGED << vkCall, vkCalls, vkSwapchain, vkSync, vkPicture, vkPath, vkMemory >>
NativeDeclines ==
    /\ At("native") /\ Returns
    /\ \/ vkNative = "failed" /\ UNCHANGED vkRetry
       \/ vkNative = "unbuilt" /\ ~vkTargets /\ vkRetry > 1 /\ vkRetry' = vkRetry - 1
    /\ UNCHANGED << vkCall, vkCalls, vkSwapchain, vkSync, vkPicture, vkNative, vkPipelines, vkMemory >>
NativeBuilds ==
    /\ At("native") /\ vkNative = "unbuilt" /\ vkTargets /\ Build
    /\ UNCHANGED << vkCall, vkCalls, vkSwapchain, vkSync, vkPicture, vkRetry, vkPipelines >>
NativeRetries ==
    /\ At("native") /\ vkNative = "unbuilt" /\ ~vkTargets /\ vkRetry <= 1 /\ vkRetry' = RetryEvery
    /\ \/ NoWindowYet /\ Returns /\ UNCHANGED << vkNative, vkMemory >>
       \/ \E targets, staging \in BOOLEAN :
             /\ Rebuilt(targets, staging)
             /\ IF targets /\ staging THEN Build ELSE Returns /\ UNCHANGED << vkNative, vkMemory >>
    /\ UNCHANGED << vkCall, vkCalls, vkPicture, vkPipelines >>

-----------------------------------------------------------------------------
(* ensure_scene_target, for a picture and for a scene to be drawn. *)

TargetFits == vkScene.size = vkCall.size /\ vkScene.framebuffer
RetiredSlip(valid) == valid
Retired(valid) == FALSE             \* a new view is in no descriptor
AfterTarget == IF vkCall.kind \in Boards THEN "pipelines" ELSE "retire"
NewScene(framebuffer) ==
    vkScene' = [size |-> vkCall.size, view |-> vkScene.view + 1, framebuffer |-> framebuffer]
TargetStep ==
    /\ At("target")
    /\ \/ TargetFits /\ vkStep' = AfterTarget /\ UNCHANGED << vkScene, vkValid, vkNative >>
       \/ /\ ~TargetFits /\ DeviceIdle /\ vkStep' = AfterTarget
          /\ NewScene(TRUE) /\ vkValid' = Retired(vkValid) /\ UNCHANGED vkNative
       \/ /\ ~TargetFits /\ DeviceIdle /\ vkCall.kind \in ImageFailures   \* the depth image fails after the scene's
          /\ NewScene(FALSE) /\ UNCHANGED vkValid
          /\ IF vkCall.kind = "board" THEN GiveUp ELSE Returns /\ UNCHANGED vkNative
    /\ UNCHANGED << vkCall, vkCalls, vkSwapchain, vkSync, vkBound, vkPending, vkHave, vkRetry,
                    vkPipelines, vkMemory >>

(* The pipelines of a board are made when its first scene, or a sheet, comes. *)
PipelinesOf(kind) == IF kind = "sheet" THEN "system22" ELSE kind
PipelineStep ==
    /\ At("pipelines")
    /\ \/ /\ vkPipelines' = vkPipelines \cup {PipelinesOf(vkCall.kind)}
          /\ vkStep' = IF vkCall.kind = "sheet" THEN "store" ELSE "retire"
       \/ PipelinesOf(vkCall.kind) \notin vkPipelines /\ Returns /\ UNCHANGED vkPipelines
    /\ UNCHANGED << vkCall, vkCalls, vkSwapchain, vkSync, vkPicture, vkNative, vkRetry, vkMemory >>

-----------------------------------------------------------------------------
(* wait_frame_fence: the frame in flight has retired, or five seconds passed. *)

MayWriteSlip == TRUE
MayWrite == vkFence = "signalled"
Retire ==
    /\ At("retire") /\ MayWrite
    /\ vkStep' = IF vkCall.kind \in Boards THEN "store" ELSE "acquire"
    /\ UNCHANGED << vkCall, vkCalls, vkSwapchain, vkSync, vkPicture, vkPath, vkMemory >>
FenceTimesOut ==
    /\ At("retire") /\ vkFence # "signalled" /\ Returns
    /\ UNCHANGED << vkCall, vkCalls, vkSwapchain, vkSync, vkPicture, vkPath, vkMemory >>

(* A scene leaves its vertices, a sheet that streams its texels, and either   *)
(* is recorded with the next frame; another image is uploaded at once.  The    *)
(* scenes have waited for the frame in flight; a sheet waits for nothing, and *)
(* an image for the upload before it, though that frame may read the same     *)
(* memory.                                                                    *)
Stored(buffer, pending) ==
    /\ At("store") /\ Returns /\ Write(buffer) /\ vkPending' = vkPending \cup pending
    /\ UNCHANGED << vkCall, vkCalls, vkSwapchain, vkSync, vkScene, vkBound, vkValid, vkPath >>
StoreSystem22Scene == vkCall.kind = "system22" /\ Stored("vertices", {"system22"}) /\ vkHave' = TRUE
StoreModel2Scene == vkCall.kind = "model2" /\ Stored("vertices", {"model2"}) /\ vkHave' = TRUE
StoreSheet == vkCall.kind = "sheet" /\ Stored("stream", {"stream"}) /\ UNCHANGED vkHave
StoreImage == vkCall.kind = "image" /\ Stored("upload", {}) /\ UNCHANGED vkHave

-----------------------------------------------------------------------------
(* vkAcquireNextImageKHR and what must not go wrong after it. *)

AcquireFails ==
    /\ At("acquire") /\ vkDirty' = TRUE /\ Returns
    /\ UNCHANGED << vkCall, vkCalls, vkTargets, vkStaging, vkSync, vkPicture, vkPath, vkMemory >>
Acquire(image) ==
    /\ At("acquire") /\ image \notin vkOwned \cup {p.image : p \in vkPresents}
    /\ vkImage' = image /\ vkOwned' = vkOwned \cup {image} /\ vkAvailable' = TRUE
    /\ vkStep' = "record"
    /\ UNCHANGED << vkCall, vkCalls, vkSwapchain, vkFence, vkPresents, vkFlight, vkFlightView,
                    vkPicture, vkPath, vkMemory >>

NoFramebuffer ==
    /\ At("record") /\ vkCall.kind # "bridge" /\ ~vkTargets /\ GiveUp
    /\ UNCHANGED << vkCall, vkCalls, vkSwapchain, vkSync, vkPicture, vkRetry, vkPipelines, vkMemory >>
NoStaging ==
    /\ At("record") /\ vkCall.kind = "bridge" /\ ~vkStaging
    /\ vkFence' = "reset" /\ vkDirty' = TRUE /\ Returns
    /\ UNCHANGED << vkCall, vkCalls, vkTargets, vkStaging, vkAvailable, vkImage, vkOwned, vkPresents,
                    vkFlight, vkFlightView, vkPicture, vkPath, vkMemory >>

(* The frame is recorded: the bridge reads its staging memory, a native frame *)
(* the panels or the picture uploaded for it and what is pending: the sheets,  *)
(* and the scene of one board.                                                *)
SceneDue == IF "system22" \in vkPending THEN {"system22"} ELSE vkPending \cap {"model2"}
Reads ==
    {"upload"} \cup (vkPending \cap {"stream"}) \cup {"vertices" : b \in SceneDue}
BoundNow == IF vkValid THEN vkBound ELSE vkScene.view
RecordNative ==
    /\ At("record") /\ vkCall.kind # "bridge" /\ vkTargets
    /\ vkFence' = "reset" /\ vkStep' = "submit" /\ Write("upload")
    /\ vkPending' = vkPending \ ({"stream"} \cup SceneDue)
    /\ vkBound' = BoundNow /\ vkValid' = TRUE
    /\ vkFlight' = [b \in Reads |-> vkMemory'[b]] /\ vkFlightView' = BoundNow
    /\ UNCHANGED << vkCall, vkCalls, vkSwapchain, vkAvailable, vkImage, vkOwned, vkPresents,
                    vkScene, vkHave, vkPath >>
RecordBridge ==
    /\ At("record") /\ vkCall.kind = "bridge" /\ vkStaging
    /\ vkFence' = "reset" /\ vkStep' = "submit" /\ Write("staging")
    /\ vkFlight' = [b \in {"staging"} |-> vkMemory'[b]] /\ vkFlightView' = NoView
    /\ UNCHANGED << vkCall, vkCalls, vkSwapchain, vkAvailable, vkImage, vkOwned, vkPresents,
                    vkPicture, vkPath >>

(* Each image has a semaphore of its own for its present to wait on. *)
FinishedOfSlip(image) == CHOOSE i \in Images : TRUE
FinishedOf(image) == image
Submit ==
    /\ At("submit") /\ vkFence' = "submitted" /\ vkAvailable' = FALSE /\ vkStep' = "present"
    /\ UNCHANGED << vkCall, vkCalls, vkSwapchain, vkImage, vkOwned, vkPresents, vkFlight, vkFlightView,
                    vkPicture, vkPath, vkMemory >>
SubmitFails ==
    /\ At("submit") /\ vkFlight' = Unread /\ vkFlightView' = NoView
    /\ IF vkCall.kind = "bridge" THEN Returns /\ UNCHANGED vkNative ELSE GiveUp
    /\ UNCHANGED << vkCall, vkCalls, vkSwapchain, vkFence, vkAvailable, vkImage, vkOwned, vkPresents,
                    vkPicture, vkRetry, vkPipelines, vkMemory >>
Present ==
    /\ At("present") /\ Returns /\ vkOwned' = vkOwned \ {vkImage}
    /\ vkPresents' = vkPresents \cup {[image |-> vkImage, semaphore |-> FinishedOf(vkImage)]}
    /\ \/ vkDirty' = TRUE /\ UNCHANGED vkHave              \* out of date or suboptimal
       \/ vkHave' = (vkHave \/ vkCall.kind # "bridge") /\ UNCHANGED vkDirty
    /\ UNCHANGED << vkCall, vkCalls, vkTargets, vkStaging, vkFence, vkAvailable, vkImage, vkFlight,
                    vkFlightView, vkScene, vkBound, vkValid, vkPending, vkPath, vkMemory >>

-----------------------------------------------------------------------------
(* The GPU finishes the frame; the compositor is done with an image.  A lost  *)
(* device is replaced, with everything that was made on it.                   *)

Finish ==
    /\ vkFence = "submitted" /\ vkStep # "present" /\ vkFence' = "signalled"
    /\ vkFlight' = Unread /\ vkFlightView' = NoView
    /\ UNCHANGED << vkStep, vkCall, vkCalls, vkSwapchain, vkAvailable, vkImage, vkOwned, vkPresents,
                    vkPicture, vkPath, vkMemory >>
Shown(present) ==
    /\ present \in vkPresents /\ (present.image # vkImage \/ DeviceIdle)
    /\ vkPresents' = vkPresents \ {present}
    /\ UNCHANGED << vkStep, vkCall, vkCalls, vkSwapchain, vkFence, vkAvailable, vkImage, vkOwned,
                    vkFlight, vkFlightView, vkPicture, vkPath, vkMemory >>
Reinitialize ==
    /\ At("idle") /\ vkCalls > 0 /\ DeviceIdle
    /\ vkDirty' = FALSE /\ vkTargets' \in BOOLEAN /\ vkStaging' = TRUE
    /\ vkNative' = "unbuilt" /\ vkRetry' = 0 /\ vkPipelines' = {}
    /\ vkFence' = "signalled" /\ vkAvailable' = FALSE /\ vkOwned' = {} /\ vkPresents' = {}
    /\ vkFlight' = Unread /\ vkFlightView' = NoView
    /\ vkScene' = [size |-> 0, view |-> NoView, framebuffer |-> FALSE]
    /\ vkBound' = NoView /\ vkValid' = FALSE /\ vkPending' = {} /\ vkHave' = FALSE
    /\ UNCHANGED << vkStep, vkCall, vkCalls, vkImage, vkMemory >>

VkNext ==
    \/ \E kind \in Kinds, size \in SceneSizes : BeginCall(kind, size)
    \/ Resized \/ SwapchainStep
    \/ NativeReady \/ NativeDeclines \/ NativeBuilds \/ NativeRetries
    \/ TargetStep \/ PipelineStep \/ Retire \/ FenceTimesOut
    \/ StoreSystem22Scene \/ StoreModel2Scene \/ StoreSheet \/ StoreImage
    \/ AcquireFails \/ (\E image \in Images : Acquire(image)) \/ NoFramebuffer \/ NoStaging
    \/ RecordNative \/ RecordBridge \/ Submit \/ SubmitFails \/ Present
    \/ Finish \/ (\E present \in vkPresents : Shown(present)) \/ Reinitialize
VkSpec == VkInit /\ [][VkNext]_vkvars

-----------------------------------------------------------------------------
(* Of the memory the frame in flight reads, nothing is written before the GPU  *)
(* has read it but by a sheet that streams and by an image: its vertices, the *)
(* picture of a bridge, and what any other call uploads are its own.          *)
WritesAwaited ==
    \A b \in DOMAIN vkFlight : vkFlight[b] = vkMemory[b] \/ vkMemory[b].kind \in Unawaited

(* A frame samples the scene image there is, never one destroyed since.       *)
SamplesLive == vkFlightView \in {NoView, vkScene.view}

(* No two presents wait on one semaphore: a semaphore a present still waits   *)
(* on would be signalled again, and one of the two would wait for good.       *)
OwnSemaphore == \A p, q \in vkPresents : p.semaphore = q.semaphore => p = q

=============================================================================
