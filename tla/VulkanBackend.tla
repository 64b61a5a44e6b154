---------------------------- MODULE VulkanBackend ----------------------------
(***************************************************************************)
(* The frames of VulkanBackend: two of them in flight, each with a fence   *)
(* and a command buffer, presented on the images of a swap chain, and      *)
(* three garbage collectors that defer the destruction of Vulkan buffers   *)
(* until no frame uses them.  One thread calls BeginFrame, draws, and      *)
(* calls EndFrame; the GPU executes the frames submitted to it.            *)
(***************************************************************************)
EXTENDS Integers, FiniteSets, Sequences

CONSTANTS
  RenderBuffers,  \* buffers of the render system, that are drawn
  VkBuffers,      \* Vulkan buffers: memory of the device or of the host
  Images,         \* images of the swap chain
  NoFrame,        \* a swap chain image that no frame was rendered to
  Followed,       \* mishaps after which a behaviour goes on
  MaxFrames       \* bound: frames presented

ASSUME VulkanAssumption ==
  /\ IsFiniteSet(VkBuffers)
  /\ MaxFrames \in Nat
  /\ NoFrame \notin Int

VARIABLES
  pc,            \* where the thread is: "app" or "frame" between calls
  frameIndex,    \* frame_index_
  frameCounter,  \* frame_counter_
  image,         \* frame_buffer_index_
  recreateSwap,  \* recreate_swap_
  gcIndex,       \* garbage_collector_index_
  garbage,       \* garbage_ of each of garbage_collectors_
  drawn,         \* render_state_.buffers
  updates,       \* render_state_.buffer_updates, as <<source, destination>>
  fence,         \* is frames_[i].render_finished_fence signaled?
  imageFence,    \* the frame whose fence frame_buffers_[i] waits for
  queue,         \* frames submitted and not finished, in order
  commands,      \* the command buffer of each frame
  memory,        \* contents of each Vulkan buffer
  skips,         \* BeginFrames that failed since the last frame or wait
  stopped        \* a mishap happened that is not followed further

frameVars == <<pc, frameIndex, frameCounter, image, recreateSwap, imageFence>>
gcVars == <<gcIndex, garbage>>
stateVars == <<drawn, updates>>
gpuVars == <<fence, queue, commands>>
logVars == <<skips, stopped>>

kMaxFramesInFlight == 2
Slots == 0 .. kMaxFramesInFlight - 1
Collectors == 0 .. kMaxFramesInFlight

(* Contents: a number of the application, 0 if never written, or none.     *)
Destroyed == -1
Unwritten == 0

Contents(b) == IF memory[b] = Destroyed THEN Unwritten ELSE memory[b]

Unused == {b \in VkBuffers : memory[b] = Destroyed}

(* Between calls the application may edit, create and delete buffers.      *)
(* Bound: not after the last frame.                                        *)
InApplication == pc \in {"app", "frame"} /\ frameCounter < MaxFrames

Idle == [stage |-> "idle", copies |-> {}, draws |-> {}]

BackendInit ==
  /\ pc = "app"
  /\ frameIndex = 0
  /\ frameCounter = 0
  /\ image \in Images
  /\ recreateSwap = FALSE
  /\ gcIndex = 0
  /\ garbage = [c \in Collectors |-> {}]
  /\ drawn = {}
  /\ updates = {}
  /\ fence = [s \in Slots |-> TRUE]
  /\ imageFence = [i \in Images |-> NoFrame]
  /\ queue = <<>>
  /\ commands = [s \in Slots |-> Idle]
  /\ memory = [b \in VkBuffers |-> Destroyed]
  /\ skips = 0
  /\ stopped = FALSE

(* A mishap is a failure, or an order of calls, whose consequences the code *)
(* does not deal with.  Unless it is Followed a behaviour ends there.      *)
Mishap(m, happens) == stopped' = (happens /\ m \notin Followed)

(* ~VulkanBuffer: its Vulkan buffer is destroyed once it is collected.     *)
Dispose(S) == garbage' = [garbage EXCEPT ![gcIndex] = @ \cup S]

Collect(C) ==
  LET collected == UNION {garbage[c] : c \in C} IN
  /\ memory' = [b \in VkBuffers |->
                  IF b \in collected THEN Destroyed ELSE memory[b]]
  /\ garbage' = [c \in Collectors |-> IF c \in C THEN {} ELSE garbage[c]]

-----------------------------------------------------------------------------
(* The window's size changed: its callback runs between calls.  The flag   *)
(* is read by BeginFrame only, so that it is set before one is enough.     *)
ResizeWindow ==
  /\ pc = "app" /\ InApplication
  /\ recreateSwap' = TRUE
  /\ UNCHANGED <<pc, frameIndex, frameCounter, image, imageFence, gcVars,
                 stateVars, gpuVars, memory, logVars>>

(* Mutant of NextFrame: one collector for each frame in flight.            *)
NextFrameTwoCollectors ==
  /\ pc = "app"
  /\ frameCounter < MaxFrames
  /\ fence[frameIndex]
  /\ gcIndex' = (gcIndex + 1) % kMaxFramesInFlight
  /\ Collect({gcIndex'})
  /\ UNCHANGED <<frameIndex, frameCounter, imageFence, stateVars, gpuVars>>

(* Mutant of NextFrame: no wait for the frame's fence.                     *)
NextFrameUnfenced ==
  /\ pc = "app"
  /\ frameCounter < MaxFrames
  /\ gcIndex' = (gcIndex + 1) % (kMaxFramesInFlight + 1)
  /\ Collect({gcIndex'})
  /\ UNCHANGED <<frameIndex, frameCounter, imageFence, stateVars, gpuVars>>

(* BeginFrame: after the wait for the fence the next collector is          *)
(* collected and becomes the current one, whether or not a frame begins.   *)
NextFrame ==
  /\ pc = "app"
  /\ frameCounter < MaxFrames
  /\ fence[frameIndex]
  /\ gcIndex' = (gcIndex + 1) % (kMaxFramesInFlight + 1)
  /\ Collect({gcIndex'})
  /\ UNCHANGED <<frameIndex, frameCounter, imageFence, stateVars, gpuVars>>

(* An image is acquired, any one: even one that a frame in flight is still *)
(* rendered to.                                                            *)
BeginFrame ==
  /\ NextFrame
  /\ ~recreateSwap
  /\ image' \in Images
  /\ pc' = "frame"
  /\ UNCHANGED <<recreateSwap, logVars>>

(* The swap chain is out of date, or an error: no image, or no commands    *)
(* for the one acquired (which nobody uses).  Or the window has no size.   *)
BeginFrameFails ==
  /\ NextFrame
  /\ recreateSwap' \in {TRUE, recreateSwap}
  /\ skips' = 1
  /\ Mishap("skipped", skips = 1)
  /\ UNCHANGED <<pc, image>>

BeginFrameRecreates ==
  /\ NextFrame
  /\ recreateSwap
  /\ pc' = "recreate"
  /\ UNCHANGED <<image, recreateSwap, logVars>>

(* RecreateSwap: waitIdle, then everything is collected.  If InitSwapChain *)
(* succeeds an image is acquired as above.                                 *)
RecreateSwap ==
  /\ pc = "recreate"
  /\ queue = <<>>
  /\ Collect(Collectors)
  /\ imageFence' = [i \in Images |-> NoFrame]
  /\ skips' = 0
  /\ \/ pc' = "frame" /\ recreateSwap' = FALSE /\ image' \in Images
     \/ pc' = "app" /\ recreateSwap' \in BOOLEAN /\ UNCHANGED image
  /\ UNCHANGED <<frameIndex, frameCounter, gcIndex, stateVars, gpuVars,
                 stopped>>

-----------------------------------------------------------------------------
(* The end of a frame.  EndFrame records the copies and the draws; it is   *)
(* part of EndFrame of VulkanFrames, which asks the buffers for them.      *)
Record(copies, draws) ==
  /\ pc = "frame"
  /\ updates' = updates \cup copies
  /\ commands' = [commands EXCEPT ![frameIndex] =
       [stage |-> "recorded", copies |-> updates', draws |-> draws]]
  /\ pc' = "submit"
  /\ UNCHANGED <<frameIndex, frameCounter, image, recreateSwap, imageFence,
                 gcIndex, drawn, fence, queue, skips>>

(* EndFramePresent: the image's last frame must have finished before the   *)
(* fence of this one is reset.                                             *)
Submit ==
  /\ pc = "submit"
  /\ \A s \in Slots : imageFence[image] = s => fence[s]
  /\ imageFence' = [imageFence EXCEPT ![image] = frameIndex]
  /\ fence' = [fence EXCEPT ![frameIndex] = FALSE]
  /\ queue' = Append(queue, frameIndex)
  /\ commands' = [commands EXCEPT ![frameIndex].stage = "queued"]
  /\ pc' = "app"
  /\ skips' = 0
  /\ UNCHANGED <<image, gcVars, memory>>

(* Mutant of Present: the index does not wrap.                             *)
PresentUnwrapped ==
  /\ Submit
  /\ drawn' = {}
  /\ updates' = {}
  /\ frameIndex' = frameIndex + 1
  /\ frameCounter' = frameCounter + 1
  /\ UNCHANGED <<recreateSwap, stopped>>

Present ==
  /\ Submit
  /\ drawn' = {}
  /\ updates' = {}
  /\ frameIndex' = (frameIndex + 1) % kMaxFramesInFlight
  /\ frameCounter' = frameCounter + 1
  /\ UNCHANGED <<recreateSwap, stopped>>

(* The swap chain is out of date, or an error: the render state is kept.   *)
PresentFails ==
  /\ Submit
  /\ recreateSwap' \in {TRUE, recreateSwap}
  /\ Mishap("unpresented", drawn # {})
  /\ UNCHANGED <<frameIndex, frameCounter, stateVars>>

-----------------------------------------------------------------------------
(* The GPU: a frame's copies, made any time after it is submitted, come    *)
(* before its draws and, by their barrier, those of later frames; they are *)
(* not held up by draws of earlier ones.  A fence is signaled when its     *)
(* frame and all frames before it are finished.                            *)
GpuCopy(s) ==
  LET copies == commands[s].copies IN
  /\ commands[s].stage = "queued"
  /\ s = Head(queue) \/ commands[Head(queue)].stage = "drawing"
  /\ commands' = [commands EXCEPT ![s].stage = "drawing"]
  /\ memory' = [b \in VkBuffers |->
       IF memory[b] # Destroyed /\ \E u \in copies : u[2] = b
       THEN Contents((CHOOSE u \in copies : u[2] = b)[1])
       ELSE memory[b]]
  /\ UNCHANGED <<frameVars, gcVars, stateVars, fence, queue, logVars>>

GpuFinish ==
  /\ queue # <<>>
  /\ commands[Head(queue)].stage = "drawing"
  /\ commands' = [commands EXCEPT ![Head(queue)] = Idle]
  /\ fence' = [fence EXCEPT ![Head(queue)] = TRUE]
  /\ queue' = Tail(queue)
  /\ UNCHANGED <<frameVars, gcVars, stateVars, memory, logVars>>

BackendNext ==
  \/ ResizeWindow \/ BeginFrame \/ BeginFrameFails \/ BeginFrameRecreates \/ RecreateSwap
  \/ Present \/ PresentFails
  \/ GpuFinish
  \/ \E s \in Slots : GpuCopy(s)
=============================================================================
