----------------------------- MODULE VulkanFrames -----------------------------
(***************************************************************************)
(* Rendering: the backend's frames, and the render buffers that the        *)
(* application draws in them and sets or edits at any time; a buffer that  *)
(* a frame in flight may still use is not written but replaced.  How       *)
(* depends on the buffer's volatility:                                     *)
(*   kStaticWrite      a host buffer for each write, copied by a frame;    *)
(*   kStaticReadWrite  one host buffer, kept, and copied by a frame;       *)
(*   kPerFrame         a device buffer for each frame, written by the CPU. *)
(* A value stands for the contents of a buffer up to its size, of which    *)
(* Set writes all and an edit keeps what it does not change.  Nothing else *)
(* is done to buffers that are drawn: Clear and a Resize that grows have   *)
(* no caller (Mesh resizes to 0), and they are not modelled.               *)
(***************************************************************************)
EXTENDS VulkanBackend

CONSTANTS
  NoBuffer,   \* a render buffer, or host buffer, that does not exist
  MaxValues   \* bound: values the application writes

VARIABLES
  buffers,    \* the render buffers
  latest,     \* what the last successful write to a render buffer wrote
  written     \* values written so far: each write writes another one

bufferVars == <<buffers, latest, written>>

kNeverUsedFrame == -1000
Kinds == {"kStaticWrite", "kStaticReadWrite", "kPerFrame"}

BufferObjects ==
  [kind : Kinds, host : VkBuffers \cup {NoBuffer}, device : [Slots -> VkBuffers],
   local : Nat, dirty : SUBSET Slots, wasDirty : SUBSET Slots,
   view : {"none", "unmodified", "modified"}, renderFrame : Int,
   transferFrame : Int, bound : SUBSET Slots, set : [Slots -> VkBuffers]]

ASSUME RenderBufferAssumption ==
  /\ NoBuffer \notin VkBuffers \cup BufferObjects
  /\ MaxValues \in Nat

BufferInit ==
  /\ buffers = [r \in RenderBuffers |-> NoBuffer]
  /\ latest = [r \in RenderBuffers |-> Unwritten]
  /\ written = 0

Exists(r) == buffers[r] # NoBuffer
IsKind(r, kind) == Exists(r) /\ buffers[r].kind = kind

(* Mutant of FrameInUse: only the current frame is in use.                 *)
FrameInUseOnlyLast(frame) == frame > frameCounter - 1

FrameInUse(frame) == frame > frameCounter - 2

(* The Vulkan buffers a render buffer owns.                                *)
Handles(b) ==
  IF b = NoBuffer THEN {}
  ELSE ({b.host} \ {NoBuffer}) \cup {b.device[s] : s \in Slots}

(* The render buffer becomes b; what it owned and b does not is disposed.  *)
Become(r, b) ==
  /\ buffers' = [buffers EXCEPT ![r] = b]
  /\ Dispose(Handles(buffers[r]) \ Handles(b))

(* Values are written to a Vulkan buffer; another one may just be created. *)
Store(b, value) == [memory EXCEPT ![b] = value]
StoreWith(b, value, created) ==
  [memory EXCEPT ![b] = value, ![created] = Contents(created)]

NextValue == written + 1
Write ==
  /\ InApplication
  /\ written < MaxValues
  /\ written' = NextValue
  /\ UNCHANGED <<frameVars, gcIndex, stateVars, gpuVars, skips>>

Edit ==
  /\ InApplication
  /\ UNCHANGED <<frameVars, gcIndex, stateVars, gpuVars, skips, written>>

(* Where a static buffer's values go: to the device buffer it has, unless  *)
(* that one is in use.                                                     *)
DeviceFor(b, taken) ==
  IF FrameInUse(b.renderFrame) THEN Unused \ {taken} ELSE {b.device[0]}

(* Mutant of WithDevice: the new handle keeps its version.                 *)
WithDeviceUnversioned(b, d) ==
  IF d = b.device[0] THEN b
  ELSE [b EXCEPT !.device = [s \in Slots |-> d],
                 !.renderFrame = kNeverUsedFrame]

(* SetAllBufferHandles: a new version, that no descriptor set is bound to. *)
WithDevice(b, d) ==
  IF d = b.device[0] THEN b
  ELSE [b EXCEPT !.device = [s \in Slots |-> d], !.bound = {},
                 !.renderFrame = kNeverUsedFrame]

-----------------------------------------------------------------------------
(* Creation and destruction.                                               *)
NewBuffer(kind, host, device) ==
  [kind |-> kind, host |-> host, device |-> device, local |-> Unwritten,
   dirty |-> {}, wasDirty |-> {}, view |-> "none",
   renderFrame |-> kNeverUsedFrame, transferFrame |-> kNeverUsedFrame,
   bound |-> {}, set |-> device]

(* Bound: buffers are created before the first frame and the first write.  *)
Started == frameCounter > 0 \/ gcIndex # 0 \/ pc # "app" \/ written > 0

Create(r, kind) ==
  /\ Edit
  /\ ~Exists(r)
  /\ ~Started
  /\ \E d0, d1, h \in Unused \cup {NoBuffer} :
       /\ NoBuffer \notin {d0, d1}
       /\ (kind = "kPerFrame") = (d0 # d1)
       /\ (kind = "kStaticReadWrite") = (h # NoBuffer)
       /\ h \notin {d0, d1}
       /\ Become(r, NewBuffer(kind, h,
                              [s \in Slots |-> IF s = 0 THEN d0 ELSE d1]))
       /\ memory' = [b \in VkBuffers |->
                       IF b \in {d0, d1, h} THEN Unwritten ELSE memory[b]]
  /\ latest' = [latest EXCEPT ![r] = Unwritten]
  /\ UNCHANGED stopped

(* The application does not delete what it draws in the current frame, nor *)
(* what it edits.                                                          *)
DeleteBuffer(r) ==
  /\ Edit
  /\ Exists(r)
  /\ pc = "frame" => r \notin drawn
  /\ buffers[r].view = "none"
  /\ Become(r, NoBuffer)
  /\ UNCHANGED <<memory, latest, stopped>>
-----------------------------------------------------------------------------
(* kStaticWrite: while it is dirty its host buffer is written again;       *)
(* otherwise PrepForWrite makes a host buffer, and a device buffer if the  *)
(* one it has is in use.  If that fails there is no host buffer again.     *)
SetStaticWrite(r) ==
  LET b == buffers[r] IN
  /\ Write
  /\ IsKind(r, "kStaticWrite")
  /\ \/ /\ b.dirty # {}
        /\ memory' = Store(b.host, NextValue)
        /\ latest' = [latest EXCEPT ![r] = NextValue]
        /\ UNCHANGED <<buffers, garbage>>
     \/ /\ b.dirty = {}
        /\ \E h \in Unused : \E d \in DeviceFor(b, h) :
             /\ Become(r, [WithDevice(b, d) EXCEPT !.host = h, !.dirty = Slots])
             /\ memory' = StoreWith(h, NextValue, d)
             /\ latest' = [latest EXCEPT ![r] = NextValue]
     \/ /\ b.dirty = {}
        /\ FrameInUse(b.renderFrame)
        /\ \E h \in Unused : Dispose({h}) /\ memory' = Store(h, Unwritten)
        /\ UNCHANGED <<buffers, latest>>
  /\ UNCHANGED stopped

-----------------------------------------------------------------------------
(* kStaticReadWrite.  EnsureHostBufferIsWritable: a host buffer that a     *)
(* frame in flight may copy is replaced.                                   *)
HostFor(b) == IF FrameInUse(b.transferFrame) THEN Unused ELSE {b.host}

WithHost(b, h) ==
  IF h = b.host THEN b
  ELSE [b EXCEPT !.host = h, !.transferFrame = kNeverUsedFrame]

(* A host buffer written between two frames may be one that the frame      *)
(* before the last still copies.                                           *)
HostWritten(h) ==
  Mishap("writtenInFlight",
         \E s \in Slots : \E u \in commands[s].copies :
           commands[s].stage = "queued" /\ u[1] = h)

SetStaticReadWrite(r) ==
  LET b == buffers[r] IN
  /\ Write
  /\ IsKind(r, "kStaticReadWrite")
  /\ b.view = "none"
  /\ \E h \in HostFor(b) :
       LET c == WithHost(b, h) IN
       /\ HostWritten(h)
       /\ \/ /\ b.dirty # {}
             /\ Become(r, c)
             /\ memory' = Store(h, NextValue)
             /\ latest' = [latest EXCEPT ![r] = NextValue]
          \/ /\ b.dirty = {}
             /\ \E d \in DeviceFor(b, h) :
                  /\ Become(r, [WithDevice(c, d) EXCEPT !.dirty = Slots])
                  /\ memory' = StoreWith(h, NextValue, d)
             /\ latest' = [latest EXCEPT ![r] = NextValue]
          \/ /\ b.dirty = {}          \* no device buffer: returns false
             /\ FrameInUse(b.renderFrame)
             /\ Become(r, c)
             /\ memory' = Store(h, NextValue)
             /\ UNCHANGED latest

(* A view of the host buffer, with its contents copied if it is replaced.  *)
EditBeginStatic(r) ==
  LET b == buffers[r] IN
  /\ Edit
  /\ IsKind(r, "kStaticReadWrite")
  /\ b.view = "none"
  /\ \E h \in HostFor(b) :
       /\ Become(r, [WithHost(b, h) EXCEPT !.view = "unmodified",
                                           !.wasDirty = b.dirty, !.dirty = {}])
       /\ memory' = Store(h, memory[b.host])
  /\ UNCHANGED <<latest, stopped>>

ModifyStatic(r) ==
  LET b == buffers[r] IN
  /\ Write
  /\ IsKind(r, "kStaticReadWrite")
  /\ b.view # "none"
  /\ Become(r, [b EXCEPT !.view = "modified"])
  /\ memory' = Store(b.host, NextValue)
  /\ HostWritten(b.host)
  /\ UNCHANGED latest

(* OnEditEnd; without a device buffer the edit is not copied, nor is what  *)
(* was set before it.                                                      *)
EditEndStatic(r) ==
  LET b == [buffers[r] EXCEPT !.view = "none"]
  IN
  /\ Edit
  /\ IsKind(r, "kStaticReadWrite")
  /\ \/ /\ buffers[r].view = "unmodified"
        /\ Become(r, [b EXCEPT !.dirty = b.wasDirty])
        /\ UNCHANGED <<memory, latest, stopped>>
     \/ /\ buffers[r].view = "modified"
        /\ \E d \in DeviceFor(b, b.host) :
             /\ Become(r, [WithDevice(b, d) EXCEPT !.dirty = Slots])
             /\ memory' = Store(d, Contents(d))
        /\ latest' = [latest EXCEPT ![r] = memory[b.host]]
        /\ UNCHANGED stopped
     \/ /\ buffers[r].view = "modified"
        /\ FrameInUse(b.renderFrame)
        /\ Become(r, b)
        /\ latest' = [latest EXCEPT ![r] = memory[b.host]]
        /\ Mishap("editLost", TRUE)
        /\ UNCHANGED memory

-----------------------------------------------------------------------------
(* kPerFrame: values are written to local_buffer_, and from it to each     *)
(* frame's device buffer when that frame is rendered.                      *)
SetPerFrame(r) ==
  /\ Write
  /\ IsKind(r, "kPerFrame")
  /\ buffers[r].view = "none"
  /\ Become(r, [buffers[r] EXCEPT !.local = NextValue, !.dirty = Slots])
  /\ latest' = [latest EXCEPT ![r] = NextValue]
  /\ UNCHANGED <<memory, stopped>>

EditBeginPerFrame(r) ==
  /\ Edit
  /\ IsKind(r, "kPerFrame")
  /\ buffers[r].view = "none"
  /\ Become(r, [buffers[r] EXCEPT !.view = "unmodified"])
  /\ UNCHANGED <<memory, latest, stopped>>

ModifyPerFrame(r) ==
  /\ Write
  /\ IsKind(r, "kPerFrame")
  /\ buffers[r].view # "none"
  /\ Become(r, [buffers[r] EXCEPT !.view = "modified", !.local = NextValue])
  /\ UNCHANGED <<memory, latest, stopped>>

EditEndPerFrame(r) ==
  LET b == [buffers[r] EXCEPT !.view = "none"]
  IN
  /\ Edit
  /\ IsKind(r, "kPerFrame")
  /\ \/ buffers[r].view = "unmodified" /\ Become(r, b) /\ UNCHANGED latest
     \/ /\ buffers[r].view = "modified"
        /\ Become(r, [b EXCEPT !.dirty = Slots])
        /\ latest' = [latest EXCEPT ![r] = b.local]
  /\ UNCHANGED <<memory, stopped>>

BufferNext ==
  \E r \in RenderBuffers :
    \/ \E kind \in Kinds : Create(r, kind)
    \/ DeleteBuffer(r)
    \/ SetStaticWrite(r) \/ SetStaticReadWrite(r) \/ SetPerFrame(r)
    \/ EditBeginStatic(r) \/ ModifyStatic(r) \/ EditEndStatic(r)
    \/ EditBeginPerFrame(r) \/ ModifyPerFrame(r) \/ EditEndPerFrame(r)

-----------------------------------------------------------------------------
(* DoRender: the buffer after it is rendered in the current frame, the     *)
(* copies it asks the frame for, and what the CPU writes.  A kPerFrame     *)
(* buffer that could not be mapped stays dirty.                            *)
Copies(b) ==
  IF b.kind # "kPerFrame" /\ b.dirty # {}
  THEN {<<b.host, b.device[frameIndex]>>}
  ELSE {}

Rendered(b, mapped) ==
  CASE b.kind = "kStaticWrite" ->
         [b EXCEPT !.renderFrame = frameCounter, !.dirty = {},
                   !.host = NoBuffer]
    [] b.kind = "kStaticReadWrite" ->
         [b EXCEPT !.renderFrame = frameCounter, !.dirty = {},
                   !.transferFrame = IF b.dirty # {} THEN frameCounter ELSE @]
    [] b.kind = "kPerFrame" ->
         [b EXCEPT !.dirty = IF mapped THEN @ \ {frameIndex} ELSE @]

MappedTo(b, mapped) ==
  IF b.kind = "kPerFrame" /\ mapped /\ frameIndex \in b.dirty
  THEN {b.device[frameIndex]}
  ELSE {}

(* VulkanBindingData::OnRender: the frame's descriptor set is updated if   *)
(* it is bound to another version of the buffer's handle.                  *)
Bound(b) ==
  [b EXCEPT !.bound = @ \cup {frameIndex},
            !.set[frameIndex] =
              IF frameIndex \in b.bound THEN @ ELSE b.device[frameIndex]]

(* A draw reads the buffer directly, or through the frame's descriptor set.*)
Drawn(b) == {b.device[frameIndex], b.set[frameIndex]}

-----------------------------------------------------------------------------
(* The frames, with what is drawn in them.                                 *)
allFrameVars == <<frameVars, gcVars, stateVars, gpuVars, logVars, memory, bufferVars>>

FramesInit == BackendInit /\ BufferInit

Draw(r) ==
  /\ pc = "frame"
  /\ Exists(r)
  /\ drawn' = drawn \cup {r}
  /\ UNCHANGED <<frameVars, gcVars, updates, gpuVars, logVars, memory,
                 bufferVars>>

(* Every buffer that is drawn is rendered, then the commands are recorded. *)
(* A render state that was kept may hold buffers that no longer exist.     *)
EndFrame(mapped) ==
  LET rendered == {r \in drawn : Exists(r)}
      after == [r \in RenderBuffers |->
                  IF r \in rendered THEN Bound(Rendered(buffers[r], mapped))
                                    ELSE buffers[r]]
      local(v) == CHOOSE r \in rendered : v \in MappedTo(buffers[r], mapped)
  IN
  /\ Record(UNION {Copies(buffers[r]) : r \in rendered},
            UNION {{<<b, IF buffers[r].view = "none" THEN latest[r]
                                                     ELSE Unwritten>> :
                    b \in Drawn(after[r])} : r \in rendered})
  /\ buffers' = after
  /\ Dispose(UNION {Handles(buffers[r]) \ Handles(after[r]) : r \in rendered})
  /\ memory' = [v \in VkBuffers |->
       IF \E r \in rendered : v \in MappedTo(buffers[r], mapped)
       THEN buffers[local(v)].local
       ELSE memory[v]]
  /\ mapped \/ \E r \in rendered : MappedTo(buffers[r], TRUE) # {}
  /\ stopped' = \/ ~mapped /\ "unmapped" \notin Followed
                \/ /\ "drawnInEdit" \notin Followed
                   /\ \E r \in rendered :
                        buffers[r].view # "none" /\ buffers[r].wasDirty # {}
  /\ UNCHANGED <<latest, written>>

FramesNext ==
  /\ ~stopped
  /\ \/ BackendNext /\ UNCHANGED bufferVars
     \/ BufferNext
     \/ \E r \in RenderBuffers : Draw(r)
     \/ \E mapped \in BOOLEAN : EndFrame(mapped)

FramesSpec == FramesInit /\ [][FramesNext]_allFrameVars

-----------------------------------------------------------------------------
(* A Vulkan buffer that a frame uses, or is to use, exists: the collectors *)
(* destroy nothing too early.  It takes two BeginFrames in a row that      *)
(* fail, or a frame that is not presented, to break this.                  *)
UsedExist ==
    /\ \A s \in Slots : commands[s].stage # "idle" =>
         /\ \A u \in commands[s].copies :
              memory[u[2]] # Destroyed
              /\ (commands[s].stage # "drawing" => memory[u[1]] # Destroyed)
         /\ \A d \in commands[s].draws : memory[d[1]] # Destroyed
    /\ \A r \in drawn : Exists(r)

(* While the GPU draws a frame it finds in each buffer what the            *)
(* application had last written to it when the frame ended.                *)
DrawsLatest ==
    \A s \in Slots : commands[s].stage = "drawing" =>
      \A d \in commands[s].draws : d[2] # Unwritten => memory[d[1]] = d[2]

(* A frame's commands are not recorded again, and its fence not reset,     *)
(* before the GPU is done with it; an unsignaled fence will be signaled,   *)
(* so that nobody waits for it in vain.                                    *)
FencesGuard ==
  /\ \A s \in Slots : fence[s] <=> commands[s].stage \in {"idle", "recorded"}
  /\ \A s \in Slots : ~fence[s] => \E i \in DOMAIN queue : queue[i] = s
  /\ \A i, j \in DOMAIN queue : queue[i] = queue[j] => i = j
  /\ pc \in {"recreate", "frame", "submit"} => fence[frameIndex]
  /\ frameIndex = frameCounter % kMaxFramesInFlight

(* A frame copies to no buffer that a frame before it may still copy to or *)
(* draw: a device buffer is not written in flight.                         *)
CopiesApart ==
  \A i, j \in DOMAIN queue : i < j =>
    LET first == commands[queue[i]]
        second == commands[queue[j]]
    IN
    \A u \in second.copies :
      /\ \A w \in first.copies : u[2] # w[2]
      /\ \A d \in first.draws : u[2] # d[1]
=============================================================================
