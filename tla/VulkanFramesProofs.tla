------------------------- MODULE VulkanFramesProofs --------------------------
(***************************************************************************)
(* What holds of VulkanFrames for any render buffers, Vulkan buffers and   *)
(* swap chain images, however many frames and values there are.            *)
(***************************************************************************)
EXTENDS VulkanFrames, SequenceTheorems, TLAPS

Copied == VkBuffers \X VkBuffers
Commands ==
  [stage : {"idle", "recorded", "queued", "drawing"}, copies : SUBSET Copied,
   draws : SUBSET (VkBuffers \X Int)]

FrameTypes ==
  /\ pc \in {"app", "recreate", "frame", "submit"}
  /\ frameIndex \in Slots /\ frameCounter \in Nat
  /\ gcIndex \in Collectors /\ garbage \in [Collectors -> SUBSET VkBuffers]
  /\ drawn \subseteq RenderBuffers /\ updates \subseteq Copied
  /\ fence \in [Slots -> BOOLEAN] /\ queue \in Seq(Slots)
  /\ commands \in [Slots -> Commands]
  /\ memory \in [VkBuffers -> Int]
  /\ skips \in {0, 1} /\ stopped \in BOOLEAN

(* What a render buffer is bound to is what it has; what it copies from is  *)
(* there.                                                                  *)
IsSound(b) ==
  /\ b \in BufferObjects
  /\ b.kind = "kStaticReadWrite" => b.host \in VkBuffers
  /\ b.kind = "kStaticWrite" /\ b.dirty # {} => b.host \in VkBuffers
  /\ b.kind # "kPerFrame" => \A s, t \in Slots : b.device[s] = b.device[t]
  /\ \A s \in b.bound : b.set[s] = b.device[s]

BufferTypes ==
  /\ buffers \in [RenderBuffers -> BufferObjects \cup {NoBuffer}]
  /\ latest \in [RenderBuffers -> Int]
  /\ written \in Nat
  /\ \A r \in RenderBuffers : Exists(r) => IsSound(buffers[r])

(* Where commands are: a frame's are recorded only for it to submit them.   *)
StageInv ==
  /\ \A s \in Slots :
       commands[s].stage = "recorded" <=> pc = "submit" /\ s = frameIndex
  /\ \A i \in DOMAIN queue : commands[queue[i]].stage \in {"queued", "drawing"}

(* Every Vulkan buffer that exists has one owner: a render buffer, or one   *)
(* of the collectors.                                                      *)
OwnedInv ==
  /\ \A r \in RenderBuffers : \A b \in Handles(buffers[r]) :
       memory[b] # Destroyed /\ \A c \in Collectors : b \notin garbage[c]
  /\ \A q, r \in RenderBuffers : \A b \in Handles(buffers[q]) :
       b \in Handles(buffers[r]) => q = r
  /\ \A c \in Collectors : \A b \in garbage[c] :
       memory[b] # Destroyed /\ \A d \in Collectors : b \in garbage[d] => c = d

FrameInv == FrameTypes /\ BufferTypes /\ StageInv /\ FencesGuard /\ OwnedInv

-----------------------------------------------------------------------------
NoFrameLost == "skipped" \notin Followed /\ "unpresented" \notin Followed

(* Between frames nothing is drawn, and copies are recorded in one frame.   *)
DrawnInv ==
  /\ \A r \in drawn : Exists(r)
  /\ ~stopped /\ pc \in {"app", "recreate"} => drawn = {}
  /\ ~stopped /\ (pc # "submit" \/ drawn = {}) => updates = {}

(* What the commands of a frame still use: where they copy from until they *)
(* have, where they copy to, and what they draw.                           *)
WritesOrDraws(s, b) ==
  /\ commands[s].stage # "idle"
  /\ \/ \E u \in commands[s].copies : u[2] = b
     \/ \E d \in commands[s].draws : d[1] = b
Reads(s, b) ==
  /\ commands[s].stage \in {"recorded", "queued"}
  /\ \E u \in commands[s].copies : u[1] = b
Uses(s, b) == WritesOrDraws(s, b) \/ Reads(s, b)

(* The frame is done before the one the fence of which BeginFrame waits for.*)
IsBefore(s) ==
  \E i, j \in DOMAIN queue : i < j /\ queue[i] = s /\ queue[j] = frameIndex

Next1(c) == (c + 1) % (kMaxFramesInFlight + 1)

(* What a frame uses is no garbage that is collected before it is done: it  *)
(* was disposed of after the frame had begun, or one failed BeginFrame     *)
(* before.                                                                 *)
GarbageInv ==
  /\ ~stopped /\ pc = "app" =>
       \A s \in Slots, b \in VkBuffers : s # frameIndex /\ Uses(s, b) =>
         \/ IsBefore(s)
         \/ /\ b \notin garbage[Next1(gcIndex)]
            /\ skips = 0 => b \notin garbage[Next1(Next1(gcIndex))]
  /\ pc = "submit" =>
       \A b \in VkBuffers : Uses(frameIndex, b) =>
         \A c \in Collectors : b \in garbage[c] => c = gcIndex

UsedInv == \A s \in Slots, b \in VkBuffers : Uses(s, b) => memory[b] # Destroyed

UseInv == DrawnInv /\ GarbageInv /\ UsedInv

-----------------------------------------------------------------------------
NoDrawInEdit == NoFrameLost /\ "drawnInEdit" \notin Followed

(* A copy of the buffer is to be made.                                      *)
Awaits(b) ==
  /\ b.kind # "kPerFrame"
  /\ b.dirty # {} \/ (b.view # "none" /\ b.wasDirty # {})

IsStatic(r) == Exists(r) /\ buffers[r].kind # "kPerFrame"

(* The frame that last used a device buffer is recorded with it, and what   *)
(* is to be copied to is not used by the last frame.                       *)
LastRendered(r, s) ==
  /\ pc = "submit" /\ s = frameIndex => buffers[r].renderFrame = frameCounter
  /\ s # frameIndex => IsBefore(s) \/ buffers[r].renderFrame >= frameCounter - 1
  /\ Awaits(buffers[r]) => pc \in {"app", "recreate"} /\ (s = frameIndex \/ IsBefore(s))

RenderedInv ==
  ~stopped => \A r \in RenderBuffers, s \in Slots :
    IsStatic(r) /\ WritesOrDraws(s, buffers[r].device[0]) => LastRendered(r, s)

ApartInv ==
  pc = "submit" => \A u \in commands[frameIndex].copies :
    \A s \in Slots : s # frameIndex => ~WritesOrDraws(s, u[2])

CopyInv == RenderedInv /\ ApartInv /\ CopiesApart

-----------------------------------------------------------------------------
(***************************************************************************)
(* Slots, collectors and what render buffers own                           *)
(***************************************************************************)
LEMMA SlotFacts ==
  /\ Slots = {0, 1} /\ Collectors = {0, 1, 2}
  /\ \A c \in Collectors :
       /\ Next1(c) \in Collectors
       /\ Next1(c) # c /\ Next1(Next1(c)) # c /\ Next1(Next1(c)) # Next1(c)
       /\ \A d \in Collectors : d \in {c, Next1(c), Next1(Next1(c))}
BY DEF Slots, Collectors, kMaxFramesInFlight, Next1

LEMMA FrameIndices ==
  /\ 0 % kMaxFramesInFlight = 0
  /\ \A n \in Nat : (n + 1) % kMaxFramesInFlight = ((n % kMaxFramesInFlight) + 1) % kMaxFramesInFlight
  /\ \A s \in Slots : (s + 1) % kMaxFramesInFlight \in Slots /\ (s + 1) % kMaxFramesInFlight # s
BY DEF Slots, kMaxFramesInFlight

LEMMA ConstantFacts == NoBuffer \notin VkBuffers /\ NoBuffer \notin BufferObjects
BY RenderBufferAssumption

LEMMA ObjectFields ==
  ASSUME NEW b \in BufferObjects
  PROVE  /\ b.kind \in Kinds /\ b.host \in VkBuffers \cup {NoBuffer}
         /\ b.device \in [Slots -> VkBuffers] /\ b.set \in [Slots -> VkBuffers]
         /\ b.local \in Nat /\ b.dirty \in SUBSET Slots /\ b.wasDirty \in SUBSET Slots
         /\ b.view \in {"none", "unmodified", "modified"}
         /\ b.renderFrame \in Int /\ b.transferFrame \in Int /\ b.bound \in SUBSET Slots
BY DEF BufferObjects

LEMMA HandleFacts ==
  /\ Handles(NoBuffer) = {}
  /\ \A b \in BufferObjects :
       /\ Handles(b) \subseteq VkBuffers
       /\ b.device[0] \in Handles(b) /\ b.device[1] \in Handles(b)
       /\ \A s \in Slots : b.device[s] \in Handles(b)
       /\ b.host \in VkBuffers => b.host \in Handles(b)
       /\ \A v \in Handles(b) :
            v = b.host \/ v = b.device[0] \/ v = b.device[1]
BY SlotFacts, ConstantFacts, ObjectFields DEF Handles

(* The Vulkan buffer a static buffer is copied to, if it changes.           *)
LEMMA DeviceFacts ==
  ASSUME NEW b \in BufferObjects, IsSound(b), b.kind # "kPerFrame", NEW d \in VkBuffers
  PROVE  /\ WithDevice(b, d) \in BufferObjects /\ IsSound(WithDevice(b, d))
         /\ \A s \in Slots : WithDevice(b, d).device[s] = d
         /\ WithDevice(b, d).host = b.host /\ WithDevice(b, d).kind = b.kind
         /\ WithDevice(b, d).view = b.view /\ WithDevice(b, d).dirty = b.dirty
         /\ d = b.device[0] => WithDevice(b, d) = b
<1>1. CASE d = b.device[0]
  BY <1>1, SlotFacts DEF WithDevice, IsSound
<1>2. CASE d # b.device[0]
  <2> DEFINE never == kNeverUsedFrame
             c == [b EXCEPT !.device = [s \in Slots |-> d], !.bound = {},
                            !.renderFrame = never]
  <2>1. WithDevice(b, d) = c
    BY <1>2 DEF WithDevice
  <2>2. c \in BufferObjects
    <3>1. never \in Int
      BY DEF kNeverUsedFrame
    <3> HIDE DEF never
    <3> QED
      BY <3>1 DEF BufferObjects
  <2>3. /\ c.device = [s \in Slots |-> d] /\ c.bound = {} /\ c.host = b.host
        /\ c.kind = b.kind /\ c.view = b.view /\ c.dirty = b.dirty
    BY DEF BufferObjects
  <2>4. IsSound(c)
    BY <2>2, <2>3 DEF IsSound
  <2> QED
    BY <1>2, <2>1, <2>2, <2>3, <2>4
<1> QED
  BY <1>1, <1>2

LEMMA HostFacts ==
  ASSUME NEW b \in BufferObjects, IsSound(b), b.kind = "kStaticReadWrite", NEW h \in VkBuffers
  PROVE  /\ WithHost(b, h) \in BufferObjects /\ IsSound(WithHost(b, h))
         /\ WithHost(b, h).host = h /\ WithHost(b, h).device = b.device
         /\ WithHost(b, h).kind = b.kind /\ WithHost(b, h).renderFrame = b.renderFrame
         /\ WithHost(b, h).view = b.view /\ WithHost(b, h).dirty = b.dirty
         /\ WithHost(b, h).wasDirty = b.wasDirty
<1>1. CASE h = b.host
  BY <1>1 DEF WithHost
<1>2. CASE h # b.host
  <2> DEFINE never == kNeverUsedFrame
             c == [b EXCEPT !.host = h, !.transferFrame = never]
  <2>1. WithHost(b, h) = c
    BY <1>2 DEF WithHost
  <2>2. c \in BufferObjects
    <3>1. never \in Int
      BY DEF kNeverUsedFrame
    <3> HIDE DEF never
    <3> QED
      BY <3>1 DEF BufferObjects
  <2>3. /\ c.device = b.device /\ c.bound = b.bound /\ c.host = h /\ c.set = b.set
        /\ c.kind = b.kind /\ c.view = b.view /\ c.dirty = b.dirty
        /\ c.wasDirty = b.wasDirty /\ c.renderFrame = b.renderFrame
    BY DEF BufferObjects
  <2>4. IsSound(c)
    BY <2>2, <2>3 DEF IsSound
  <2> QED
    BY <2>1, <2>2, <2>3, <2>4
<1> QED
  BY <1>1, <1>2

-----------------------------------------------------------------------------
(***************************************************************************)
(* What the application does to one render buffer                          *)
(***************************************************************************)
(* The buffer's device buffer is the one it was, or a new one.              *)
KeepsOrReplaces(old, new) ==
  \/ /\ new.device[0] = old.device[0] /\ new.renderFrame = old.renderFrame
     /\ Awaits(new) => Awaits(old) \/ ~FrameInUse(old.renderFrame)
  \/ memory[new.device[0]] = Destroyed

(* A render buffer becomes `new`, and `gone` is disposed of: all of it is    *)
(* what the render buffer owned or is made by the step.                    *)
Changes(r, new, gone) ==
  /\ new = NoBuffer \/ (new \in BufferObjects /\ IsSound(new))
  /\ buffers' = [buffers EXCEPT ![r] = new]
  /\ garbage' = [garbage EXCEPT ![gcIndex] = @ \cup gone]
  /\ memory' \in [VkBuffers -> Int]
  /\ \A b \in VkBuffers : memory[b] # Destroyed => memory'[b] # Destroyed
  /\ \A b \in Handles(new) :
       b \in Handles(buffers[r]) \/ (memory[b] = Destroyed /\ memory'[b] # Destroyed)
  /\ gone \subseteq VkBuffers
  /\ \A b \in gone :
       /\ b \notin Handles(new)
       /\ b \in Handles(buffers[r]) \/ (memory[b] = Destroyed /\ memory'[b] # Destroyed)

(* What there is to know of a step of the application with a render buffer. *)
Edits(r, new) ==
  /\ pc \in {"app", "frame"}
  /\ pc = "frame" /\ new = NoBuffer => r \notin drawn
  /\ UNCHANGED <<pc, frameIndex, frameCounter, gcIndex, drawn, updates, fence, queue, commands, skips>>
  /\ latest' \in [RenderBuffers -> Int] /\ written' \in Nat /\ stopped' \in BOOLEAN
  /\ new # NoBuffer /\ new.kind # "kPerFrame" =>
       \/ Exists(r) /\ buffers[r].kind = new.kind /\ KeepsOrReplaces(buffers[r], new)
       \/ memory[new.device[0]] = Destroyed
  /\ \E gone \in SUBSET VkBuffers : Changes(r, new, gone)

(* What a new value, or a new Vulkan buffer, is.                            *)
LEMMA Values ==
  ASSUME FrameInv
  PROVE  /\ NextValue \in Nat /\ NextValue # Destroyed /\ Unwritten # Destroyed
         /\ Unwritten \in Int /\ Destroyed \in Int /\ Unwritten \in Nat
         /\ \A v \in VkBuffers : Contents(v) \in Int /\ Contents(v) # Destroyed
         /\ Unused = {v \in VkBuffers : memory[v] = Destroyed}
<1>1. written \in Nat /\ memory \in [VkBuffers -> Int]
  BY DEF FrameInv, FrameTypes, BufferTypes
<1>2. NextValue \in Nat /\ NextValue # Destroyed
  BY <1>1 DEF NextValue, Destroyed
<1>3. Unwritten # Destroyed /\ Unwritten \in Int /\ Destroyed \in Int /\ Unwritten \in Nat
  BY DEF Unwritten, Destroyed
<1> QED
  BY <1>1, <1>2, <1>3 DEF Contents, Unused

LEMMA Stored ==
  ASSUME FrameInv, NEW b \in VkBuffers, NEW v \in Int, v # Destroyed
  PROVE  /\ Store(b, v) \in [VkBuffers -> Int] /\ Store(b, v)[b] # Destroyed
         /\ \A c \in VkBuffers : memory[c] # Destroyed => Store(b, v)[c] # Destroyed
         /\ \A d \in VkBuffers :
              /\ StoreWith(b, v, d) \in [VkBuffers -> Int]
              /\ StoreWith(b, v, d)[b] # Destroyed /\ StoreWith(b, v, d)[d] # Destroyed
              /\ \A c \in VkBuffers : memory[c] # Destroyed => StoreWith(b, v, d)[c] # Destroyed
<1>1. memory \in [VkBuffers -> Int]
  BY DEF FrameInv, FrameTypes
<1> QED
  BY <1>1, Values DEF Store, StoreWith

(* A render buffer that exists, and what it owns.                           *)
LEMMA Existing ==
  ASSUME FrameInv, NEW r \in RenderBuffers, Exists(r)
  PROVE  /\ buffers[r] \in BufferObjects /\ IsSound(buffers[r])
         /\ \A b \in Handles(buffers[r]) : b \in VkBuffers /\ memory[b] # Destroyed
         /\ \A s \in Slots : buffers[r].device[s] \in VkBuffers
                             /\ memory[buffers[r].device[s]] # Destroyed
<1>1. buffers[r] \in BufferObjects /\ IsSound(buffers[r])
  BY DEF FrameInv, BufferTypes, Exists
<1>2. \A b \in Handles(buffers[r]) : b \in VkBuffers /\ memory[b] # Destroyed
  BY <1>1, HandleFacts DEF FrameInv, OwnedInv
<1> QED
  BY <1>1, <1>2, HandleFacts

(* Become, of a buffer that is replaced by a sound one.                     *)
LEMMA Becomes ==
  ASSUME FrameInv, NEW r \in RenderBuffers, NEW new, Become(r, new),
         new = NoBuffer \/ (new \in BufferObjects /\ IsSound(new)),
         memory' \in [VkBuffers -> Int],
         \A b \in VkBuffers : memory[b] # Destroyed => memory'[b] # Destroyed,
         \A b \in Handles(new) :
           b \in Handles(buffers[r]) \/ (memory[b] = Destroyed /\ memory'[b] # Destroyed)
  PROVE  \E gone \in SUBSET VkBuffers : Changes(r, new, gone)
<1> DEFINE gone == Handles(buffers[r]) \ Handles(new)
<1>1. gone \subseteq VkBuffers
  <2>1. buffers[r] = NoBuffer \/ buffers[r] \in BufferObjects
    BY DEF FrameInv, BufferTypes
  <2> QED
    BY <2>1, HandleFacts
<1>2. \A b \in gone : b \in Handles(buffers[r]) /\ b \notin Handles(new)
  OBVIOUS
<1>3. /\ buffers' = [buffers EXCEPT ![r] = new]
      /\ garbage' = [garbage EXCEPT ![gcIndex] = @ \cup gone]
  BY DEF Become, Dispose
<1> HIDE DEF gone
<1>4. Changes(r, new, gone)
  BY <1>1, <1>2, <1>3 DEF Changes
<1> QED
  BY <1>1, <1>4

LEMMA WriteFacts ==
  ASSUME FrameInv
  PROVE  /\ Write => /\ pc \in {"app", "frame"}
                     /\ UNCHANGED <<pc, frameIndex, frameCounter, gcIndex, drawn, updates,
                                    fence, queue, commands, skips>>
                     /\ written' \in Nat
         /\ Edit => /\ pc \in {"app", "frame"}
                    /\ UNCHANGED <<pc, frameIndex, frameCounter, gcIndex, drawn, updates,
                                   fence, queue, commands, skips>>
                    /\ written' \in Nat
<1>1. written \in Nat
  BY DEF FrameInv, BufferTypes
<1> QED
  BY <1>1, Values DEF Write, Edit, InApplication, frameVars, stateVars, gpuVars

LEMMA CreateEdits ==
  ASSUME FrameInv, NEW r \in RenderBuffers, NEW kind \in Kinds, Create(r, kind)
  PROVE  \E new \in BufferObjects : Edits(r, new)
<1>1. PICK d0 \in Unused \cup {NoBuffer}, d1 \in Unused \cup {NoBuffer}, h \in Unused \cup {NoBuffer} :
        /\ NoBuffer \notin {d0, d1}
        /\ (kind = "kPerFrame") = (d0 # d1)
        /\ (kind = "kStaticReadWrite") = (h # NoBuffer)
        /\ h \notin {d0, d1}
        /\ Become(r, NewBuffer(kind, h, [s \in Slots |-> IF s = 0 THEN d0 ELSE d1]))
        /\ memory' = [b \in VkBuffers |-> IF b \in {d0, d1, h} THEN Unwritten ELSE memory[b]]
  BY DEF Create
<1> DEFINE device == [s \in Slots |-> IF s = 0 THEN d0 ELSE d1]
           new == NewBuffer(kind, h, device)
<1>2. /\ d0 \in VkBuffers /\ d1 \in VkBuffers /\ h \in VkBuffers \cup {NoBuffer}
      /\ memory[d0] = Destroyed /\ memory[d1] = Destroyed
      /\ h # NoBuffer => h \in VkBuffers /\ memory[h] = Destroyed
  BY <1>1, ConstantFacts DEF Unused
<1>3. /\ device \in [Slots -> VkBuffers] /\ device[0] = d0 /\ device[1] = d1
  BY <1>2, SlotFacts
<1> HIDE DEF device
<1>4. new \in BufferObjects
  <2> DEFINE never == kNeverUsedFrame
             none == Unwritten
  <2>1. never \in Int /\ none \in Nat
    BY DEF kNeverUsedFrame, Unwritten
  <2>2. new = [kind |-> kind, host |-> h, device |-> device, local |-> none,
               dirty |-> {}, wasDirty |-> {}, view |-> "none",
               renderFrame |-> never, transferFrame |-> never,
               bound |-> {}, set |-> device]
    BY DEF NewBuffer
  <2> HIDE DEF never, none, new
  <2> QED
    BY <1>2, <1>3, <2>1, <2>2 DEF BufferObjects
<1>5. /\ new.kind = kind /\ new.host = h /\ new.device = device /\ new.dirty = {}
      /\ new.bound = {}
  BY DEF NewBuffer
<1> HIDE DEF new
<1>6. IsSound(new)
  BY <1>1, <1>2, <1>3, <1>4, <1>5, SlotFacts DEF IsSound
<1>7. /\ memory' \in [VkBuffers -> Int]
      /\ \A b \in VkBuffers : memory[b] # Destroyed => memory'[b] # Destroyed
      /\ memory'[d0] # Destroyed /\ memory'[d1] # Destroyed
      /\ h # NoBuffer => memory'[h] # Destroyed
  BY <1>1, <1>2, Values DEF FrameInv, FrameTypes
<1>8. \A b \in Handles(new) : b \in VkBuffers /\ memory[b] = Destroyed /\ memory'[b] # Destroyed
  <2> SUFFICES ASSUME NEW b \in Handles(new)
               PROVE  b \in VkBuffers /\ memory[b] = Destroyed /\ memory'[b] # Destroyed
    OBVIOUS
  <2>1. b \in VkBuffers /\ (b = h \/ b = d0 \/ b = d1)
    BY <1>3, <1>4, <1>5, HandleFacts
  <2> QED
    BY <1>2, <1>7, <2>1, ConstantFacts
<1>9. \E gone \in SUBSET VkBuffers : Changes(r, new, gone)
  BY <1>1, <1>4, <1>6, <1>7, <1>8, Becomes DEF new, device
<1>10. new # NoBuffer
  BY <1>4, ConstantFacts
<1>11. /\ latest' \in [RenderBuffers -> Int] /\ stopped' \in BOOLEAN
  BY Values DEF Create, FrameInv, FrameTypes, BufferTypes
<1>12. memory[new.device[0]] = Destroyed
  BY <1>2, <1>3, <1>5
<1>13. Edits(r, new)
  BY <1>9, <1>10, <1>11, <1>12, WriteFacts DEF Edits, Create
<1> QED
  BY <1>4, <1>13

LEMMA DeleteEdits ==
  ASSUME FrameInv, NEW r \in RenderBuffers, DeleteBuffer(r)
  PROVE  Edits(r, NoBuffer)
<1>1. memory' = memory /\ latest' = latest /\ stopped' = stopped
  BY DEF DeleteBuffer
<1>2. memory \in [VkBuffers -> Int]
  BY DEF FrameInv, FrameTypes
<1>3. \E gone \in SUBSET VkBuffers : Changes(r, NoBuffer, gone)
  <2>1. Become(r, NoBuffer)
    BY DEF DeleteBuffer
  <2>2. \A b \in Handles(NoBuffer) :
          b \in Handles(buffers[r]) \/ (memory[b] = Destroyed /\ memory'[b] # Destroyed)
    BY HandleFacts
  <2> QED
    BY <1>1, <1>2, <2>1, <2>2, Becomes
<1> QED
  BY <1>1, <1>3, WriteFacts DEF Edits, DeleteBuffer, FrameInv, FrameTypes, BufferTypes

LEMMA SetStaticWriteEdits ==
  ASSUME FrameInv, NEW r \in RenderBuffers, SetStaticWrite(r)
  PROVE  \E new \in BufferObjects : Edits(r, new)
<1> DEFINE b == buffers[r]
<1>1. /\ Write /\ Exists(r) /\ b.kind = "kStaticWrite" /\ stopped' = stopped
  BY DEF SetStaticWrite, IsKind
<1>2. /\ b \in BufferObjects /\ IsSound(b) /\ b \in BufferObjects /\ b # NoBuffer
      /\ \A v \in Handles(b) : v \in VkBuffers /\ memory[v] # Destroyed
      /\ b.device[0] \in VkBuffers /\ b.renderFrame \in Int
  BY <1>1, Existing, SlotFacts, ObjectFields DEF Exists
<1>3. stopped' \in BOOLEAN /\ latest \in [RenderBuffers -> Int]
  BY <1>1 DEF FrameInv, FrameTypes, BufferTypes
<1>4. \A v \in Unused : v \in VkBuffers /\ memory[v] = Destroyed
  BY DEF Unused
<1>5. CASE /\ b.dirty # {}
           /\ memory' = Store(b.host, NextValue)
           /\ latest' = [latest EXCEPT ![r] = NextValue]
           /\ UNCHANGED <<buffers, garbage>>
  <2>1. b.host \in VkBuffers
    BY <1>1, <1>2, <1>5 DEF IsSound
  <2>2. /\ memory' \in [VkBuffers -> Int]
        /\ \A v \in VkBuffers : memory[v] # Destroyed => memory'[v] # Destroyed
    BY <1>5, <2>1, Stored, Values
  <2>3. Changes(r, b, {})
    <3>1. /\ buffers' = [buffers EXCEPT ![r] = b]
          /\ garbage' = [garbage EXCEPT ![gcIndex] = @ \cup {}]
      BY <1>5 DEF FrameInv, FrameTypes, BufferTypes
    <3> QED
      BY <1>2, <2>2, <3>1 DEF Changes
  <2>4. latest' \in [RenderBuffers -> Int]
    BY <1>3, <1>5, Values
  <2>5. KeepsOrReplaces(b, b)
    BY DEF KeepsOrReplaces
  <2>6. Edits(r, b)
    BY <1>1, <1>2, <1>3, <2>3, <2>4, <2>5, WriteFacts DEF Edits
  <2> QED
    BY <1>2, <2>6
<1>6. ASSUME b.dirty = {}, NEW h \in Unused, NEW d \in DeviceFor(b, h),
             Become(r, [WithDevice(b, d) EXCEPT !.host = h, !.dirty = Slots]),
             memory' = StoreWith(h, NextValue, d),
             latest' = [latest EXCEPT ![r] = NextValue]
      PROVE  \E new \in BufferObjects : Edits(r, new)
  <2> DEFINE c == WithDevice(b, d)
             new == [c EXCEPT !.host = h, !.dirty = Slots]
  <2>1. d \in VkBuffers /\ h \in VkBuffers /\ memory[h] = Destroyed /\ d # h
        /\ (memory[d] = Destroyed \/ (d = b.device[0] /\ ~FrameInUse(b.renderFrame)))
    <3>1. CASE FrameInUse(b.renderFrame)
      BY <1>4, <1>6, <3>1 DEF DeviceFor
    <3>2. CASE ~FrameInUse(b.renderFrame)
      <4>1. d = b.device[0] /\ memory[d] # Destroyed
        BY <1>2, <3>2, HandleFacts DEF DeviceFor
      <4> QED
        BY <1>2, <1>4, <3>2, <4>1
    <3> QED
      BY <3>1, <3>2
  <2>2. /\ c \in BufferObjects /\ IsSound(c) /\ \A s \in Slots : c.device[s] = d
        /\ c.host = b.host /\ c.kind = b.kind /\ c.view = b.view
        /\ d = b.device[0] => c = b
    BY <1>1, <1>2, <2>1, DeviceFacts
  <2> HIDE DEF c
  <2>3. /\ new \in BufferObjects /\ new.device = c.device /\ new.host = h
        /\ new.kind = c.kind /\ new.bound = c.bound /\ new.set = c.set
        /\ new.renderFrame = c.renderFrame
    BY <2>1, <2>2 DEF BufferObjects
  <2> HIDE DEF new
  <2>4. IsSound(new)
    BY <1>1, <2>1, <2>2, <2>3 DEF IsSound
  <2>5. /\ memory' \in [VkBuffers -> Int]
        /\ \A v \in VkBuffers : memory[v] # Destroyed => memory'[v] # Destroyed
        /\ memory'[h] # Destroyed /\ memory'[d] # Destroyed
    <3>1. NextValue \in Int /\ NextValue # Destroyed
      BY Values
    <3> HIDE DEF b
    <3> QED
      BY <1>6, <2>1, <3>1, Stored, ZenonT(60)
  <2>6. \A v \in Handles(new) :
          v \in Handles(b) \/ (memory[v] = Destroyed /\ memory'[v] # Destroyed)
    <3> SUFFICES ASSUME NEW v \in Handles(new)
                 PROVE  v \in Handles(b) \/ (memory[v] = Destroyed /\ memory'[v] # Destroyed)
      OBVIOUS
    <3>1. v = h \/ v = d
      BY <2>2, <2>3, HandleFacts, SlotFacts
    <3> QED
      BY <1>2, <2>1, <2>5, <3>1, HandleFacts
  <2>7. \E gone \in SUBSET VkBuffers : Changes(r, new, gone)
    BY <1>6, <2>3, <2>4, <2>5, <2>6, Becomes DEF new, c
  <2>8. KeepsOrReplaces(b, new)
    <3>1. new.device[0] = d
      BY <2>2, <2>3, SlotFacts
    <3>2. CASE memory[d] = Destroyed
      BY <3>1, <3>2 DEF KeepsOrReplaces
    <3>3. CASE d = b.device[0] /\ ~FrameInUse(b.renderFrame)
      BY <2>2, <2>3, <3>1, <3>3 DEF KeepsOrReplaces
    <3> QED
      BY <2>1, <3>2, <3>3
  <2>9. latest' \in [RenderBuffers -> Int]
    BY <1>3, <1>6, Values
  <2>10. Edits(r, new)
    <3>1. /\ pc \in {"app", "frame"} /\ written' \in Nat
          /\ UNCHANGED <<pc, frameIndex, frameCounter, gcIndex, drawn, updates,
                         fence, queue, commands, skips>>
      BY <1>1, WriteFacts
    <3>2. new # NoBuffer /\ new.kind = buffers[r].kind
      BY <2>2, <2>3, ConstantFacts
    <3> QED
      BY <1>1, <1>3, <2>7, <2>8, <2>9, <3>1, <3>2 DEF Edits
  <2> QED
    BY <2>3, <2>10
<1>7. ASSUME NEW h \in Unused, Dispose({h}), memory' = Store(h, Unwritten),
             UNCHANGED <<buffers, latest>>
      PROVE  \E new \in BufferObjects : Edits(r, new)
  <2>1. h \in VkBuffers /\ memory[h] = Destroyed
    BY <1>4
  <2>2. /\ memory' \in [VkBuffers -> Int] /\ memory'[h] # Destroyed
        /\ \A v \in VkBuffers : memory[v] # Destroyed => memory'[v] # Destroyed
    BY <1>7, <2>1, Stored, Values
  <2>3. h \notin Handles(b)
    BY <1>2, <2>1
  <2>4. /\ buffers' = [buffers EXCEPT ![r] = b]
        /\ garbage' = [garbage EXCEPT ![gcIndex] = @ \cup {h}]
    BY <1>7 DEF Dispose, FrameInv, BufferTypes
  <2>5. Changes(r, b, {h})
    BY <1>2, <2>1, <2>2, <2>3, <2>4 DEF Changes
  <2>6. KeepsOrReplaces(b, b)
    BY DEF KeepsOrReplaces
  <2>7. Edits(r, b)
    BY <1>1, <1>2, <1>3, <1>7, <2>1, <2>5, <2>6, WriteFacts DEF Edits
  <2> QED
    BY <1>2, <2>7
<1> QED
  BY <1>5, <1>6, <1>7, <1>2 DEF SetStaticWrite

(* To know what is done to an existing buffer.                              *)
LEMMA EditsExisting ==
  ASSUME FrameInv, NEW r \in RenderBuffers, Exists(r), NEW new \in BufferObjects,
         Write \/ Edit, new.kind = buffers[r].kind,
         new.kind # "kPerFrame" => KeepsOrReplaces(buffers[r], new),
         latest' \in [RenderBuffers -> Int], stopped' \in BOOLEAN,
         \E gone \in SUBSET VkBuffers : Changes(r, new, gone)
  PROVE  \E n \in BufferObjects : Edits(r, n)
<1>1. /\ pc \in {"app", "frame"} /\ written' \in Nat
      /\ UNCHANGED <<pc, frameIndex, frameCounter, gcIndex, drawn, updates,
                     fence, queue, commands, skips>>
  BY WriteFacts
<1>2. new # NoBuffer
  BY ConstantFacts
<1>3. Edits(r, new)
  BY <1>1, <1>2 DEF Edits
<1> QED
  BY <1>3

(* A new device or host buffer is one that does not exist, or the one there *)
(* is.                                                                     *)
LEMMA DeviceChoice ==
  ASSUME FrameInv, NEW b \in BufferObjects, NEW h, NEW d \in DeviceFor(b, h)
  PROVE  /\ d \in VkBuffers
         /\ \/ memory[d] = Destroyed /\ d # h
            \/ d = b.device[0] /\ ~FrameInUse(b.renderFrame)
<1>1. b.device[0] \in VkBuffers
  BY ObjectFields, SlotFacts
<1> QED
  BY <1>1 DEF DeviceFor, Unused

LEMMA HostChoice ==
  ASSUME FrameInv, NEW b \in BufferObjects, b.host \in VkBuffers, NEW h \in HostFor(b)
  PROVE  h \in VkBuffers /\ (memory[h] = Destroyed \/ h = b.host)
BY DEF HostFor, Unused

(* What a replaced device buffer means for the copies to it.                *)
LEMMA Replaced ==
  ASSUME FrameInv, NEW b \in BufferObjects, NEW new \in BufferObjects,
         NEW d \in VkBuffers, new.device[0] = d,
         \/ memory[d] = Destroyed
         \/ d = b.device[0] /\ ~FrameInUse(b.renderFrame) /\ new.renderFrame = b.renderFrame
  PROVE  KeepsOrReplaces(b, new)
BY DEF KeepsOrReplaces

LEMMA SetStaticReadWriteEdits ==
  ASSUME FrameInv, NEW r \in RenderBuffers, SetStaticReadWrite(r)
  PROVE  \E new \in BufferObjects : Edits(r, new)
<1> DEFINE b == buffers[r]
<1>1. /\ Write /\ Exists(r) /\ b.kind = "kStaticReadWrite"
  BY DEF SetStaticReadWrite, IsKind
<1>2. /\ b \in BufferObjects /\ IsSound(b)
      /\ \A v \in Handles(b) : v \in VkBuffers /\ memory[v] # Destroyed
  BY <1>1, Existing
<1>3. b.host \in VkBuffers /\ b.device[0] \in VkBuffers /\ b.renderFrame \in Int
  BY <1>1, <1>2, SlotFacts, ObjectFields DEF IsSound
<1>4. latest \in [RenderBuffers -> Int] /\ NextValue \in Int /\ NextValue # Destroyed
  BY Values DEF FrameInv, BufferTypes
<1>5. PICK h \in HostFor(b) :
        LET c == WithHost(b, h) IN
        /\ HostWritten(h)
        /\ \/ /\ b.dirty # {}
              /\ Become(r, c)
              /\ memory' = Store(h, NextValue)
              /\ latest' = [latest EXCEPT ![r] = NextValue]
           \/ /\ b.dirty = {}
              /\ \E d \in DeviceFor(b, h) :
                   /\ Become(r, [WithDevice(c, d) EXCEPT !.dirty = Slots])
                   /\ memory' = StoreWith(h, NextValue, d)
              /\ latest' = [latest EXCEPT ![r] = NextValue]
           \/ /\ b.dirty = {}
              /\ FrameInUse(b.renderFrame)
              /\ Become(r, c)
              /\ memory' = Store(h, NextValue)
              /\ UNCHANGED latest
  BY DEF SetStaticReadWrite
<1> DEFINE c == WithHost(b, h)
<1> HIDE DEF b
<1>6. h \in VkBuffers /\ (memory[h] = Destroyed \/ h = b.host)
  BY <1>2, <1>3, HostChoice
<1>7. /\ c \in BufferObjects /\ IsSound(c) /\ c.host = h /\ c.device = b.device
      /\ c.kind = b.kind /\ c.renderFrame = b.renderFrame
      /\ c.view = b.view /\ c.dirty = b.dirty /\ c.wasDirty = b.wasDirty
  BY <1>1, <1>2, <1>6, HostFacts
<1> HIDE DEF c
<1>8. stopped' \in BOOLEAN /\ latest' \in [RenderBuffers -> Int]
  BY <1>4, <1>5 DEF HostWritten, Mishap
<1>9. CASE Become(r, c) /\ memory' = Store(h, NextValue)
  <2>1. /\ memory' \in [VkBuffers -> Int] /\ memory'[h] # Destroyed
        /\ \A v \in VkBuffers : memory[v] # Destroyed => memory'[v] # Destroyed
    BY <1>4, <1>6, <1>9, Stored
  <2>2. \A v \in Handles(c) :
          v \in Handles(buffers[r]) \/ (memory[v] = Destroyed /\ memory'[v] # Destroyed)
    BY <1>2, <1>3, <1>6, <1>7, <2>1, HandleFacts DEF b
  <2>3. \E gone \in SUBSET VkBuffers : Changes(r, c, gone)
    BY <1>7, <1>9, <2>1, <2>2, Becomes
  <2>4. KeepsOrReplaces(b, c)
    BY <1>7 DEF KeepsOrReplaces, Awaits
  <2> QED
    BY <1>1, <1>7, <1>8, <2>3, <2>4, EditsExisting DEF b
<1>10. ASSUME NEW d \in DeviceFor(b, h),
              Become(r, [WithDevice(c, d) EXCEPT !.dirty = Slots]),
              memory' = StoreWith(h, NextValue, d)
       PROVE  \E new \in BufferObjects : Edits(r, new)
  <2> DEFINE e == WithDevice(c, d)
             new == [e EXCEPT !.dirty = Slots]
  <2>1. /\ d \in VkBuffers
        /\ \/ memory[d] = Destroyed /\ d # h
           \/ d = b.device[0] /\ ~FrameInUse(b.renderFrame)
    BY <1>2, DeviceChoice
  <2>2. /\ e \in BufferObjects /\ IsSound(e) /\ \A s \in Slots : e.device[s] = d
        /\ e.host = h /\ e.kind = b.kind
        /\ d = b.device[0] => e = c
    BY <1>1, <1>7, <2>1, DeviceFacts
  <2> HIDE DEF e
  <2>3. /\ new \in BufferObjects /\ new.device = e.device /\ new.host = h
        /\ new.kind = e.kind /\ new.bound = e.bound /\ new.set = e.set
        /\ new.renderFrame = e.renderFrame
    BY <2>2 DEF BufferObjects
  <2> HIDE DEF new
  <2>4. IsSound(new)
    BY <1>1, <1>6, <2>2, <2>3 DEF IsSound
  <2>5. /\ memory' \in [VkBuffers -> Int]
        /\ \A v \in VkBuffers : memory[v] # Destroyed => memory'[v] # Destroyed
        /\ memory'[h] # Destroyed /\ memory'[d] # Destroyed
    BY <1>4, <1>6, <1>10, <2>1, Stored
  <2>6. \A v \in Handles(new) :
          v \in Handles(buffers[r]) \/ (memory[v] = Destroyed /\ memory'[v] # Destroyed)
    <3> SUFFICES ASSUME NEW v \in Handles(new)
                 PROVE  v \in Handles(b) \/ (memory[v] = Destroyed /\ memory'[v] # Destroyed)
      BY DEF b
    <3>1. v = h \/ v = d
      BY <2>2, <2>3, HandleFacts, SlotFacts
    <3> QED
      BY <1>2, <1>3, <1>6, <2>1, <2>5, <3>1, HandleFacts
  <2>7. \E gone \in SUBSET VkBuffers : Changes(r, new, gone)
    BY <1>10, <2>3, <2>4, <2>5, <2>6, Becomes DEF new, e
  <2>8. KeepsOrReplaces(b, new)
    <3>1. new.device[0] = d
      BY <2>2, <2>3, SlotFacts
    <3>2. d = b.device[0] => new.renderFrame = b.renderFrame
      BY <1>7, <2>2, <2>3
    <3> QED
      BY <1>2, <1>7, <2>1, <2>3, <3>1, <3>2, Replaced
  <2> QED
    BY <1>1, <1>8, <2>2, <2>3, <2>7, <2>8, EditsExisting DEF b
<1> QED
  BY <1>5, <1>9, <1>10 DEF c

LEMMA EditBeginStaticEdits ==
  ASSUME FrameInv, NEW r \in RenderBuffers, EditBeginStatic(r)
  PROVE  \E new \in BufferObjects : Edits(r, new)
<1> DEFINE b == buffers[r]
<1>1. /\ Edit /\ Exists(r) /\ b.kind = "kStaticReadWrite" /\ b.view = "none"
      /\ UNCHANGED <<latest, stopped>>
  BY DEF EditBeginStatic, IsKind
<1>2. /\ b \in BufferObjects /\ IsSound(b)
      /\ \A v \in Handles(b) : v \in VkBuffers /\ memory[v] # Destroyed
  BY <1>1, Existing
<1>3. b.host \in VkBuffers /\ memory[b.host] # Destroyed /\ memory[b.host] \in Int
  BY <1>1, <1>2, HandleFacts DEF IsSound, FrameInv, FrameTypes
<1>4. PICK h \in HostFor(b) :
        /\ Become(r, [WithHost(b, h) EXCEPT !.view = "unmodified",
                                            !.wasDirty = b.dirty, !.dirty = {}])
        /\ memory' = Store(h, memory[b.host])
  BY DEF EditBeginStatic
<1> DEFINE c == WithHost(b, h)
           new == [c EXCEPT !.view = "unmodified", !.wasDirty = b.dirty, !.dirty = {}]
<1> HIDE DEF b
<1>5. h \in VkBuffers /\ (memory[h] = Destroyed \/ h = b.host)
  BY <1>2, <1>3, <1>4, HostChoice
<1>6. /\ c \in BufferObjects /\ IsSound(c) /\ c.host = h /\ c.device = b.device
      /\ c.kind = b.kind /\ c.renderFrame = b.renderFrame
      /\ c.view = b.view /\ c.dirty = b.dirty /\ c.wasDirty = b.wasDirty
  BY <1>1, <1>2, <1>5, HostFacts
<1>7. b.dirty \in SUBSET Slots
  BY <1>2, ObjectFields
<1> HIDE DEF c
<1>8. /\ new \in BufferObjects /\ new.device = c.device /\ new.host = h
      /\ new.kind = c.kind /\ new.bound = c.bound /\ new.set = c.set
      /\ new.renderFrame = c.renderFrame /\ new.dirty = {} /\ new.wasDirty = b.dirty
  BY <1>6, <1>7 DEF BufferObjects
<1> HIDE DEF new
<1>9. IsSound(new)
  BY <1>1, <1>5, <1>6, <1>8 DEF IsSound
<1>10. /\ memory' \in [VkBuffers -> Int] /\ memory'[h] # Destroyed
       /\ \A v \in VkBuffers : memory[v] # Destroyed => memory'[v] # Destroyed
  BY <1>3, <1>4, <1>5, Stored
<1>11. \A v \in Handles(new) :
         v \in Handles(buffers[r]) \/ (memory[v] = Destroyed /\ memory'[v] # Destroyed)
  BY <1>2, <1>3, <1>5, <1>6, <1>8, <1>10, HandleFacts DEF b
<1>12. \E gone \in SUBSET VkBuffers : Changes(r, new, gone)
  BY <1>4, <1>8, <1>9, <1>10, <1>11, Becomes DEF new, c
<1>13. KeepsOrReplaces(b, new)
  BY <1>6, <1>8 DEF KeepsOrReplaces, Awaits
<1>14. latest' \in [RenderBuffers -> Int] /\ stopped' \in BOOLEAN
  BY <1>1 DEF FrameInv, FrameTypes, BufferTypes
<1> QED
  BY <1>1, <1>6, <1>8, <1>12, <1>13, <1>14, EditsExisting DEF b

LEMMA ModifyStaticEdits ==
  ASSUME FrameInv, NEW r \in RenderBuffers, ModifyStatic(r)
  PROVE  \E new \in BufferObjects : Edits(r, new)
<1> DEFINE b == buffers[r]
           new == [b EXCEPT !.view = "modified"]
<1>1. /\ Write /\ Exists(r) /\ b.kind = "kStaticReadWrite" /\ b.view # "none"
      /\ latest' = latest /\ HostWritten(b.host)
      /\ Become(r, new) /\ memory' = Store(b.host, NextValue)
  BY DEF ModifyStatic, IsKind
<1>2. b \in BufferObjects /\ IsSound(b)
  BY <1>1, Existing
<1>3. b.host \in VkBuffers /\ NextValue \in Int /\ NextValue # Destroyed
  BY <1>1, <1>2, Values DEF IsSound
<1> HIDE DEF b
<1>4. /\ new \in BufferObjects /\ new.device = b.device /\ new.host = b.host
      /\ new.kind = b.kind /\ new.bound = b.bound /\ new.set = b.set
      /\ new.renderFrame = b.renderFrame /\ new.dirty = b.dirty /\ new.wasDirty = b.wasDirty
  BY <1>2 DEF BufferObjects
<1> HIDE DEF new
<1>5. IsSound(new)
  BY <1>2, <1>4 DEF IsSound
<1>6. /\ memory' \in [VkBuffers -> Int]
      /\ \A v \in VkBuffers : memory[v] # Destroyed => memory'[v] # Destroyed
  BY <1>1, <1>3, Stored
<1>7. \A v \in Handles(new) : v \in Handles(b)
  BY <1>2, <1>3, <1>4, HandleFacts
<1>8. \E gone \in SUBSET VkBuffers : Changes(r, new, gone)
  BY <1>1, <1>4, <1>5, <1>6, <1>7, Becomes DEF b
<1>9. KeepsOrReplaces(b, new)
  BY <1>1, <1>4 DEF KeepsOrReplaces, Awaits
<1>10. latest' \in [RenderBuffers -> Int] /\ stopped' \in BOOLEAN
  BY <1>1 DEF FrameInv, BufferTypes, HostWritten, Mishap
<1> QED
  BY <1>1, <1>4, <1>8, <1>9, <1>10, EditsExisting DEF b

LEMMA EditEndStaticEdits ==
  ASSUME FrameInv, NEW r \in RenderBuffers, EditEndStatic(r)
  PROVE  \E new \in BufferObjects : Edits(r, new)
<1> DEFINE old == buffers[r]
           b == [old EXCEPT !.view = "none"]
<1>1. Edit /\ Exists(r) /\ old.kind = "kStaticReadWrite"
  BY DEF EditEndStatic, IsKind
<1>2. /\ old \in BufferObjects /\ IsSound(old)
      /\ \A v \in Handles(old) : v \in VkBuffers /\ memory[v] # Destroyed
  BY <1>1, Existing
<1> HIDE DEF old
<1>3. /\ b \in BufferObjects /\ b.device = old.device /\ b.host = old.host
      /\ b.kind = old.kind /\ b.bound = old.bound /\ b.set = old.set /\ b.view = "none"
      /\ b.renderFrame = old.renderFrame /\ b.dirty = old.dirty /\ b.wasDirty = old.wasDirty
      /\ b.wasDirty \in SUBSET Slots
  BY <1>2 DEF BufferObjects
<1>4. \/ /\ old.view = "unmodified"
         /\ Become(r, [b EXCEPT !.dirty = b.wasDirty])
         /\ UNCHANGED <<memory, latest, stopped>>
      \/ /\ old.view = "modified"
         /\ \E d \in DeviceFor(b, b.host) :
              /\ Become(r, [WithDevice(b, d) EXCEPT !.dirty = Slots])
              /\ memory' = Store(d, Contents(d))
         /\ latest' = [latest EXCEPT ![r] = memory[b.host]]
         /\ UNCHANGED stopped
      \/ /\ old.view = "modified"
         /\ FrameInUse(b.renderFrame)
         /\ Become(r, b)
         /\ latest' = [latest EXCEPT ![r] = memory[b.host]]
         /\ Mishap("editLost", TRUE)
         /\ UNCHANGED memory
  BY DEF EditEndStatic, old
<1> HIDE DEF b
<1>5. IsSound(b)
  BY <1>2, <1>3 DEF IsSound
<1>6. b.host \in VkBuffers
  BY <1>1, <1>3, <1>5 DEF IsSound
<1>7. latest' \in [RenderBuffers -> Int] /\ stopped' \in BOOLEAN
  BY <1>4, <1>6 DEF FrameInv, FrameTypes, BufferTypes, Mishap
<1>8. memory \in [VkBuffers -> Int]
  BY DEF FrameInv, FrameTypes
<1>9. ASSUME NEW new \in BufferObjects, IsSound(new), new.device = b.device, new.host = b.host,
             new.renderFrame = b.renderFrame, new.kind = b.kind,
             new.view = "none", new.dirty # {} => Awaits(old),
             Become(r, new), memory' = memory
      PROVE  \E n \in BufferObjects : Edits(r, n)
  <2>1. \A v \in Handles(new) : v \in Handles(old)
    BY <1>2, <1>3, <1>6, <1>9, HandleFacts
  <2>2. \E gone \in SUBSET VkBuffers : Changes(r, new, gone)
    BY <1>8, <1>9, <2>1, Becomes DEF old
  <2>3. KeepsOrReplaces(old, new)
    BY <1>3, <1>9 DEF KeepsOrReplaces, Awaits
  <2> QED
    BY <1>1, <1>3, <1>7, <1>9, <2>2, <2>3, EditsExisting DEF old
<1>10. CASE /\ old.view = "unmodified"
            /\ Become(r, [b EXCEPT !.dirty = b.wasDirty])
            /\ UNCHANGED <<memory, latest, stopped>>
  <2> DEFINE new == [b EXCEPT !.dirty = b.wasDirty]
  <2>1. /\ new \in BufferObjects /\ new.device = b.device /\ new.host = b.host
        /\ new.kind = b.kind /\ new.bound = b.bound /\ new.set = b.set
        /\ new.renderFrame = b.renderFrame /\ new.dirty = b.wasDirty /\ new.view = "none"
    BY <1>3 DEF BufferObjects
  <2>2. Become(r, new) /\ memory' = memory
    BY <1>10
  <2> HIDE DEF new
  <2>3. IsSound(new)
    BY <1>1, <1>3, <1>5, <1>6, <2>1 DEF IsSound
  <2>4. new.dirty # {} => Awaits(old)
    BY <1>1, <1>3, <1>10, <2>1 DEF Awaits
  <2> QED
    BY <1>9, <2>1, <2>2, <2>3, <2>4
<1>11. CASE old.view = "modified" /\ Become(r, b) /\ UNCHANGED memory
  <2>1. b.dirty # {} => Awaits(old)
    BY <1>1, <1>3 DEF Awaits
  <2> QED
    BY <1>3, <1>5, <1>9, <1>11, <2>1
<1>12. ASSUME NEW d \in DeviceFor(b, b.host),
              Become(r, [WithDevice(b, d) EXCEPT !.dirty = Slots]),
              memory' = Store(d, Contents(d))
       PROVE  \E new \in BufferObjects : Edits(r, new)
  <2> DEFINE e == WithDevice(b, d)
             new == [e EXCEPT !.dirty = Slots]
  <2>1. /\ d \in VkBuffers
        /\ \/ memory[d] = Destroyed /\ d # b.host
           \/ d = b.device[0] /\ ~FrameInUse(b.renderFrame)
    BY <1>3, DeviceChoice
  <2>2. /\ e \in BufferObjects /\ IsSound(e) /\ \A s \in Slots : e.device[s] = d
        /\ e.host = b.host /\ e.kind = b.kind
        /\ d = b.device[0] => e = b
    BY <1>1, <1>3, <1>5, <2>1, DeviceFacts
  <2> HIDE DEF e
  <2>3. /\ new \in BufferObjects /\ new.device = e.device /\ new.host = b.host
        /\ new.kind = e.kind /\ new.bound = e.bound /\ new.set = e.set
        /\ new.renderFrame = e.renderFrame
    BY <2>2 DEF BufferObjects
  <2> HIDE DEF new
  <2>4. IsSound(new)
    BY <1>1, <1>3, <1>6, <2>2, <2>3 DEF IsSound
  <2>5. Contents(d) \in Int /\ Contents(d) # Destroyed
    BY <2>1, Values
  <2>6. /\ memory' \in [VkBuffers -> Int] /\ memory'[d] # Destroyed
        /\ \A v \in VkBuffers : memory[v] # Destroyed => memory'[v] # Destroyed
    BY <1>12, <2>1, <2>5, Stored
  <2>7. \A v \in Handles(new) :
          v \in Handles(buffers[r]) \/ (memory[v] = Destroyed /\ memory'[v] # Destroyed)
    <3> SUFFICES ASSUME NEW v \in Handles(new)
                 PROVE  v \in Handles(old) \/ (memory[v] = Destroyed /\ memory'[v] # Destroyed)
      BY DEF old
    <3>1. v = b.host \/ v = d
      BY <2>2, <2>3, HandleFacts, SlotFacts
    <3> QED
      BY <1>2, <1>3, <1>6, <2>1, <2>6, <3>1, HandleFacts
  <2>8. \E gone \in SUBSET VkBuffers : Changes(r, new, gone)
    BY <1>12, <2>3, <2>4, <2>6, <2>7, Becomes DEF new, e
  <2>9. KeepsOrReplaces(old, new)
    <3>1. new.device[0] = d
      BY <2>2, <2>3, SlotFacts
    <3>2. d = b.device[0] => new.renderFrame = b.renderFrame
      BY <2>2, <2>3
    <3> QED
      BY <1>2, <1>3, <2>1, <2>3, <3>1, <3>2, Replaced
  <2> QED
    BY <1>1, <1>3, <1>7, <2>2, <2>3, <2>8, <2>9, EditsExisting DEF old
<1> QED
  BY <1>4, <1>10, <1>11, <1>12

(* Of a per-frame buffer only local_buffer_ changes.                        *)
LEMMA PerFrameEdits ==
  ASSUME FrameInv, NEW r \in RenderBuffers,
         SetPerFrame(r) \/ EditBeginPerFrame(r) \/ ModifyPerFrame(r) \/ EditEndPerFrame(r)
  PROVE  \E new \in BufferObjects : Edits(r, new)
<1> DEFINE b == buffers[r]
<1>1. /\ Write \/ Edit
      /\ Exists(r) /\ b.kind = "kPerFrame" /\ UNCHANGED <<memory, stopped>>
  BY DEF SetPerFrame, EditBeginPerFrame, ModifyPerFrame, EditEndPerFrame, IsKind
<1>2. b \in BufferObjects /\ IsSound(b)
  BY <1>1, Existing
<1>3. b.local \in Nat /\ NextValue \in Nat /\ b.dirty \in SUBSET Slots
      /\ latest \in [RenderBuffers -> Int]
  BY <1>2, Values, ObjectFields DEF FrameInv, BufferTypes
<1>4. \E view \in {"none", "unmodified", "modified"}, local \in Nat, dirty \in SUBSET Slots :
        Become(r, [b EXCEPT !.view = view, !.local = local, !.dirty = dirty])
  <2>1. /\ [b EXCEPT !.local = NextValue, !.dirty = Slots]
             = [b EXCEPT !.view = b.view, !.local = NextValue, !.dirty = Slots]
        /\ \A view \in {"none", "unmodified", "modified"} :
             /\ [b EXCEPT !.view = view]
                  = [b EXCEPT !.view = view, !.local = b.local, !.dirty = b.dirty]
             /\ [b EXCEPT !.view = view, !.local = NextValue]
                  = [b EXCEPT !.view = view, !.local = NextValue, !.dirty = b.dirty]
             /\ [[b EXCEPT !.view = view] EXCEPT !.dirty = Slots]
                  = [b EXCEPT !.view = view, !.local = b.local, !.dirty = Slots]
    BY <1>2 DEF BufferObjects
  <2>2. b.view \in {"none", "unmodified", "modified"}
    BY <1>2, ObjectFields
  <2>3. CASE SetPerFrame(r)
    <3>1. Become(r, [b EXCEPT !.view = b.view, !.local = NextValue, !.dirty = Slots])
      BY <2>1, <2>3 DEF SetPerFrame
    <3> QED
      BY <1>3, <2>2, <3>1
  <2>4. CASE EditBeginPerFrame(r)
    <3>1. Become(r, [b EXCEPT !.view = "unmodified", !.local = b.local, !.dirty = b.dirty])
      BY <2>1, <2>4 DEF EditBeginPerFrame
    <3> QED
      BY <1>3, <3>1
  <2>5. CASE ModifyPerFrame(r)
    <3>1. Become(r, [b EXCEPT !.view = "modified", !.local = NextValue, !.dirty = b.dirty])
      BY <2>1, <2>5 DEF ModifyPerFrame
    <3> QED
      BY <1>3, <3>1
  <2>6. CASE EditEndPerFrame(r)
    <3>1. \/ Become(r, [b EXCEPT !.view = "none", !.local = b.local, !.dirty = b.dirty])
          \/ Become(r, [b EXCEPT !.view = "none", !.local = b.local, !.dirty = Slots])
      BY <2>1, <2>6 DEF EditEndPerFrame
    <3> QED
      BY <1>3, <3>1
  <2> QED
    BY <2>3, <2>4, <2>5, <2>6
<1>5. PICK view \in {"none", "unmodified", "modified"}, local \in Nat, dirty \in SUBSET Slots :
        Become(r, [b EXCEPT !.view = view, !.local = local, !.dirty = dirty])
  BY <1>4
<1>6. latest' \in [RenderBuffers -> Int] /\ stopped' \in BOOLEAN
  <2>1. stopped' \in BOOLEAN
    BY <1>1 DEF FrameInv, FrameTypes
  <2>2. latest' = latest \/ \E n \in Nat : latest' = [latest EXCEPT ![r] = n]
    <3>1. [b EXCEPT !.view = "none"].local = b.local
      BY <1>2 DEF BufferObjects
    <3> QED
      BY <1>3, <3>1 DEF SetPerFrame, EditBeginPerFrame, ModifyPerFrame, EditEndPerFrame
  <2> QED
    BY <1>3, <2>1, <2>2
<1> DEFINE new == [b EXCEPT !.view = view, !.local = local, !.dirty = dirty]
<1>7. Become(r, new)
  BY <1>5
<1> HIDE DEF b
<1>8. /\ new \in BufferObjects /\ new.device = b.device /\ new.host = b.host
      /\ new.kind = b.kind /\ new.bound = b.bound /\ new.set = b.set
  BY <1>2 DEF BufferObjects
<1> HIDE DEF new
<1>9. IsSound(new)
  BY <1>1, <1>2, <1>8 DEF IsSound
<1>10. Handles(new) = Handles(b)
  BY <1>2, <1>8, ConstantFacts DEF Handles
<1>11. \E gone \in SUBSET VkBuffers : Changes(r, new, gone)
  BY <1>1, <1>7, <1>8, <1>9, <1>10, Becomes DEF b, FrameInv, FrameTypes
<1> QED
  BY <1>1, <1>6, <1>8, <1>11, EditsExisting DEF b

LEMMA BufferEdits ==
  ASSUME FrameInv, BufferNext
  PROVE  \E r \in RenderBuffers, new \in BufferObjects \cup {NoBuffer} : Edits(r, new)
<1>1. PICK r \in RenderBuffers :
        \/ \E kind \in Kinds : Create(r, kind)
        \/ DeleteBuffer(r)
        \/ SetStaticWrite(r) \/ SetStaticReadWrite(r) \/ SetPerFrame(r)
        \/ EditBeginStatic(r) \/ ModifyStatic(r) \/ EditEndStatic(r)
        \/ EditBeginPerFrame(r) \/ ModifyPerFrame(r) \/ EditEndPerFrame(r)
  BY DEF BufferNext
<1> QED
  BY <1>1, CreateEdits, DeleteEdits, SetStaticWriteEdits, SetStaticReadWriteEdits,
     EditBeginStaticEdits, ModifyStaticEdits, EditEndStaticEdits, PerFrameEdits

-----------------------------------------------------------------------------
(***************************************************************************)
(* Owners                                                                  *)
(***************************************************************************)
LEMMA Ownership ==
  ASSUME FrameInv, NEW gone \in SUBSET VkBuffers,
         garbage' = [garbage EXCEPT ![gcIndex] = @ \cup gone],
         \A b \in VkBuffers : memory[b] # Destroyed => memory'[b] # Destroyed,
         \A r \in RenderBuffers : \A b \in Handles(buffers'[r]) :
           /\ b \in VkBuffers
           /\ \/ b \in Handles(buffers[r])
              \/ /\ memory[b] = Destroyed /\ memory'[b] # Destroyed
                 /\ \A q \in RenderBuffers : b \in Handles(buffers'[q]) => q = r,
         \A b \in gone :
           /\ memory'[b] # Destroyed
           /\ memory[b] = Destroyed \/ \E r \in RenderBuffers : b \in Handles(buffers[r])
           /\ \A q \in RenderBuffers : b \notin Handles(buffers'[q])
  PROVE  OwnedInv'
<1>1. /\ gcIndex \in Collectors /\ garbage \in [Collectors -> SUBSET VkBuffers]
      /\ \A r \in RenderBuffers : \A b \in Handles(buffers[r]) :
           memory[b] # Destroyed /\ \A c \in Collectors : b \notin garbage[c]
      /\ \A q, r \in RenderBuffers : \A b \in Handles(buffers[q]) :
           b \in Handles(buffers[r]) => q = r
      /\ \A c \in Collectors : \A b \in garbage[c] :
           memory[b] # Destroyed /\ \A d \in Collectors : b \in garbage[d] => c = d
  BY DEF FrameInv, FrameTypes, OwnedInv
<1>2. \A c \in Collectors : \A b \in VkBuffers :
        b \in garbage'[c] <=> b \in garbage[c] \/ (c = gcIndex /\ b \in gone)
  BY <1>1
<1>3. \A c \in Collectors : garbage'[c] \subseteq VkBuffers
  BY <1>1
<1>4. ASSUME NEW r \in RenderBuffers, NEW b \in Handles(buffers'[r])
      PROVE  memory'[b] # Destroyed /\ \A c \in Collectors : b \notin garbage'[c]
  <2>1. b \in VkBuffers /\ b \notin gone
    BY <1>4
  <2>2. CASE b \in Handles(buffers[r])
    BY <1>1, <1>2, <2>1, <2>2
  <2>3. CASE memory[b] = Destroyed /\ memory'[b] # Destroyed
    BY <1>1, <1>2, <2>1, <2>3
  <2> QED
    BY <1>4, <2>2, <2>3
<1>5. ASSUME NEW q \in RenderBuffers, NEW r \in RenderBuffers, NEW b \in Handles(buffers'[q]),
             b \in Handles(buffers'[r])
      PROVE  q = r
  BY <1>1, <1>5
<1>6. ASSUME NEW c \in Collectors, NEW b \in garbage'[c]
      PROVE  memory'[b] # Destroyed /\ \A d \in Collectors : b \in garbage'[d] => c = d
  <2>1. b \in VkBuffers
    BY <1>3, <1>6
  <2>2. CASE b \in gone
    <3>1. \A d \in Collectors : b \notin garbage[d]
      BY <1>1, <2>2
    <3> QED
      BY <1>2, <1>6, <2>1, <2>2, <3>1
  <2>3. CASE b \notin gone
    BY <1>1, <1>2, <1>6, <2>1, <2>3
  <2> QED
    BY <2>2, <2>3
<1> QED
  BY <1>4, <1>5, <1>6 DEF OwnedInv

(* What is collected is destroyed.                                          *)
LEMMA Collected ==
  ASSUME FrameInv, NEW C \in SUBSET Collectors, Collect(C), UNCHANGED buffers
  PROVE  /\ memory' \in [VkBuffers -> Int] /\ garbage' \in [Collectors -> SUBSET VkBuffers]
         /\ \A b \in VkBuffers : (\A c \in C : b \notin garbage[c]) => memory'[b] = memory[b]
         /\ \A c \in Collectors : garbage'[c] = IF c \in C THEN {} ELSE garbage[c]
         /\ OwnedInv'
<1>1. /\ garbage \in [Collectors -> SUBSET VkBuffers] /\ memory \in [VkBuffers -> Int]
      /\ \A r \in RenderBuffers : \A b \in Handles(buffers[r]) :
           memory[b] # Destroyed /\ \A c \in Collectors : b \notin garbage[c]
      /\ \A q, r \in RenderBuffers : \A b \in Handles(buffers[q]) :
           b \in Handles(buffers[r]) => q = r
      /\ \A c \in Collectors : \A b \in garbage[c] :
           memory[b] # Destroyed /\ \A d \in Collectors : b \in garbage[d] => c = d
  BY DEF FrameInv, FrameTypes, OwnedInv
<1>2. \A r \in RenderBuffers : Handles(buffers[r]) \subseteq VkBuffers
  <2>1. \A r \in RenderBuffers : buffers[r] = NoBuffer \/ buffers[r] \in BufferObjects
    BY DEF FrameInv, BufferTypes
  <2> QED
    BY <2>1, HandleFacts
<1>3. Destroyed \in Int
  BY DEF Destroyed
<1>4. /\ memory' = [b \in VkBuffers |-> IF \E c \in C : b \in garbage[c] THEN Destroyed ELSE memory[b]]
      /\ garbage' = [c \in Collectors |-> IF c \in C THEN {} ELSE garbage[c]]
  <2>1. \A b \in VkBuffers : b \in UNION {garbage[c] : c \in C} <=> \E c \in C : b \in garbage[c]
    OBVIOUS
  <2> QED
    BY <2>1 DEF Collect
<1>5. /\ memory' \in [VkBuffers -> Int] /\ garbage' \in [Collectors -> SUBSET VkBuffers]
      /\ \A b \in VkBuffers : (\A c \in C : b \notin garbage[c]) => memory'[b] = memory[b]
      /\ \A c \in Collectors : garbage'[c] = IF c \in C THEN {} ELSE garbage[c]
  BY <1>1, <1>3, <1>4
<1>6. \A r \in RenderBuffers : \A b \in Handles(buffers[r]) :
        memory'[b] # Destroyed /\ \A c \in Collectors : b \notin garbage'[c]
  BY <1>1, <1>2, <1>5
<1>7. \A c \in Collectors : \A b \in garbage'[c] :
        memory'[b] # Destroyed /\ \A d \in Collectors : b \in garbage'[d] => c = d
  <2> SUFFICES ASSUME NEW c \in Collectors, NEW b \in garbage'[c]
               PROVE  memory'[b] # Destroyed /\ \A d \in Collectors : b \in garbage'[d] => c = d
    OBVIOUS
  <2>1. c \notin C /\ b \in garbage[c] /\ b \in VkBuffers
    BY <1>1, <1>5
  <2> QED
    BY <1>1, <1>5, <2>1
<1> QED
  BY <1>1, <1>5, <1>6, <1>7 DEF OwnedInv

-----------------------------------------------------------------------------
(***************************************************************************)
(* What a frame makes of the buffers that are drawn                        *)
(***************************************************************************)
LEMMA RenderedFacts ==
  ASSUME FrameInv, NEW b \in BufferObjects, IsSound(b), NEW mapped \in BOOLEAN
  PROVE  LET a == Bound(Rendered(b, mapped)) IN
         /\ a \in BufferObjects /\ IsSound(a)
         /\ a.kind = b.kind /\ a.device = b.device /\ a.local = b.local
         /\ a.view = b.view /\ a.wasDirty = b.wasDirty
         /\ a.host = b.host \/ a.host = NoBuffer
         /\ b.kind = "kStaticWrite" => a.host = NoBuffer
         /\ b.kind # "kPerFrame" => a.renderFrame = frameCounter /\ a.dirty = {}
         /\ b.kind = "kPerFrame" => a.dirty = IF mapped THEN b.dirty \ {frameIndex} ELSE b.dirty
         /\ b.kind = "kStaticReadWrite" =>
              a.host = b.host
              /\ a.transferFrame = IF b.dirty # {} THEN frameCounter ELSE b.transferFrame
         /\ Drawn(a) = {b.device[frameIndex]}
<1> DEFINE c == Rendered(b, mapped)
<1>1. frameIndex \in Slots /\ frameCounter \in Int /\ b.kind \in Kinds /\ frameCounter \in Nat
  BY ObjectFields DEF FrameInv, FrameTypes
<1>2. /\ c \in BufferObjects /\ c.kind = b.kind /\ c.device = b.device /\ c.bound = b.bound
      /\ c.set = b.set /\ c.view = b.view /\ c.wasDirty = b.wasDirty /\ c.local = b.local
      /\ c.host = b.host \/ c.host = NoBuffer
      /\ b.kind = "kStaticWrite" => c.host = NoBuffer
      /\ b.kind # "kPerFrame" => c.renderFrame = frameCounter /\ c.dirty = {}
      /\ b.kind = "kPerFrame" => c.dirty = IF mapped THEN b.dirty \ {frameIndex} ELSE b.dirty
      /\ b.kind = "kStaticReadWrite" =>
           c.host = b.host
           /\ c.transferFrame = IF b.dirty # {} THEN frameCounter ELSE b.transferFrame
  <2>1. CASE b.kind = "kStaticWrite"
    <3>1. c = [b EXCEPT !.renderFrame = frameCounter, !.dirty = {}, !.host = NoBuffer]
      BY <2>1 DEF Rendered
    <3> QED
      BY <1>1, <2>1, <3>1 DEF BufferObjects
  <2>2. CASE b.kind = "kStaticReadWrite"
    <3>1. PICK n \in Int : n = IF b.dirty # {} THEN frameCounter ELSE b.transferFrame
      BY <1>1, ObjectFields
    <3>2. c = [b EXCEPT !.renderFrame = frameCounter, !.dirty = {}, !.transferFrame = n]
      BY <2>2, <3>1 DEF Rendered
    <3> QED
      BY <1>1, <2>2, <3>1, <3>2 DEF BufferObjects
  <2>3. CASE b.kind = "kPerFrame"
    <3>1. PICK S \in SUBSET Slots : S = IF mapped THEN b.dirty \ {frameIndex} ELSE b.dirty
      BY ObjectFields
    <3>2. c = [b EXCEPT !.dirty = S]
      BY <2>3, <3>1 DEF Rendered
    <3> QED
      BY <2>3, <3>1, <3>2 DEF BufferObjects
  <2> QED
    BY <1>1, <2>1, <2>2, <2>3 DEF Kinds
<1> HIDE DEF c
<1>3. PICK v \in VkBuffers : v = IF frameIndex \in c.bound THEN c.set[frameIndex]
                                                          ELSE c.device[frameIndex]
  BY <1>1, <1>2, ObjectFields
<1>4. v = b.device[frameIndex]
  BY <1>1, <1>2, <1>3 DEF IsSound
<1>5. PICK bound \in SUBSET Slots, set \in [Slots -> VkBuffers] :
        bound = c.bound \cup {frameIndex} /\ set = [c.set EXCEPT ![frameIndex] = v]
  BY <1>1, <1>2, ObjectFields
<1> DEFINE a == [c EXCEPT !.bound = bound, !.set = set]
<1>6. Bound(c) = a
  <2>1. [c EXCEPT !.bound = @ \cup {frameIndex}, !.set[frameIndex] = v] = a
    BY <1>2, <1>5 DEF BufferObjects
  <2> QED
    BY <1>3, <2>1 DEF Bound
<1>7. /\ a \in BufferObjects /\ a.kind = c.kind /\ a.device = c.device /\ a.bound = bound
      /\ a.set = set /\ a.view = c.view /\ a.wasDirty = c.wasDirty /\ a.local = c.local
      /\ a.host = c.host /\ a.renderFrame = c.renderFrame /\ a.dirty = c.dirty
      /\ a.transferFrame = c.transferFrame
  BY <1>2, <1>5 DEF BufferObjects
<1> HIDE DEF a
<1>8. \A s \in a.bound : a.set[s] = a.device[s]
  <2> SUFFICES ASSUME NEW s \in a.bound PROVE a.set[s] = a.device[s]
    OBVIOUS
  <2>1. s \in Slots /\ (s = frameIndex \/ s \in b.bound) /\ b.set \in [Slots -> VkBuffers]
    BY <1>2, <1>5, <1>7, ObjectFields
  <2> QED
    BY <1>2, <1>4, <1>5, <1>7, <2>1 DEF IsSound
<1>9. IsSound(a)
  <2>1. a.kind = "kStaticWrite" => a.dirty = {}
    BY <1>2, <1>7
  <2> QED
    BY <1>2, <1>7, <1>8, <2>1 DEF IsSound
<1>10. Drawn(a) = {b.device[frameIndex]}
  BY <1>1, <1>2, <1>4, <1>5, <1>7 DEF Drawn
<1> QED
  BY <1>2, <1>6, <1>7, <1>9, <1>10 DEF c


-----------------------------------------------------------------------------
(***************************************************************************)
(* The frames' invariant is kept                                           *)
(***************************************************************************)
LEMMA InitFrameInv == FramesInit => FrameInv
<1> SUFFICES ASSUME FramesInit PROVE FrameInv
  OBVIOUS
<1>1. /\ pc = "app" /\ frameIndex = 0 /\ frameCounter = 0 /\ gcIndex = 0
      /\ garbage = [c \in Collectors |-> {}] /\ drawn = {} /\ updates = {}
      /\ fence = [s \in Slots |-> TRUE] /\ queue = <<>>
      /\ commands = [s \in Slots |-> Idle] /\ memory = [b \in VkBuffers |-> Destroyed]
      /\ skips = 0 /\ stopped = FALSE
      /\ buffers = [r \in RenderBuffers |-> NoBuffer]
      /\ latest = [r \in RenderBuffers |-> Unwritten] /\ written = 0
  BY DEF FramesInit, BackendInit, BufferInit
<1>2. Idle \in Commands /\ Idle.stage = "idle"
  BY DEF Idle, Commands
<1>3. Destroyed \in Int /\ Unwritten \in Int
  BY DEF Destroyed, Unwritten
<1>4. FrameTypes
  <2>1. queue \in Seq(Slots)
    BY <1>1, EmptySeq
  <2> QED
    BY <1>1, <1>2, <1>3, <2>1, SlotFacts DEF FrameTypes
<1>5. BufferTypes
  BY <1>1, <1>3 DEF BufferTypes, Exists
<1>6. StageInv
  BY <1>1, <1>2 DEF StageInv
<1>7. FencesGuard
  BY <1>1, <1>2, FrameIndices DEF FencesGuard
<1>8. OwnedInv
  BY <1>1, HandleFacts DEF OwnedInv
<1> QED
  BY <1>4, <1>5, <1>6, <1>7, <1>8 DEF FrameInv

(* The frames' part of the state, and what it says of another state.       *)
framesPart == <<pc, frameIndex, frameCounter, fence, queue, commands>>

LEMMA FramesPartKept ==
  ASSUME FrameInv, UNCHANGED framesPart
  PROVE  /\ StageInv' /\ FencesGuard'
         /\ gcIndex' \in Collectors /\ garbage' \in [Collectors -> SUBSET VkBuffers]
            /\ drawn' \subseteq RenderBuffers /\ updates' \subseteq Copied
            /\ memory' \in [VkBuffers -> Int] /\ skips' \in {0, 1} /\ stopped' \in BOOLEAN
            => FrameTypes'
<1>1. StageInv'
  BY DEF FrameInv, StageInv, framesPart
<1>2. FencesGuard'
  BY DEF FrameInv, FencesGuard, framesPart
<1> QED
  BY <1>1, <1>2 DEF FrameInv, FrameTypes, framesPart

LEMMA BuffersKept ==
  ASSUME FrameInv, UNCHANGED bufferVars
  PROVE  BufferTypes'
BY DEF FrameInv, BufferTypes, bufferVars, Exists

LEMMA OwnersKept ==
  ASSUME FrameInv, UNCHANGED <<buffers, garbage>>,
         \A b \in VkBuffers : memory[b] # Destroyed => memory'[b] # Destroyed
  PROVE  OwnedInv'
<1>1. \A r \in RenderBuffers : Handles(buffers[r]) \subseteq VkBuffers
  <2>1. \A r \in RenderBuffers : buffers[r] = NoBuffer \/ buffers[r] \in BufferObjects
    BY DEF FrameInv, BufferTypes
  <2> QED
    BY <2>1, HandleFacts
<1>2. \A c \in Collectors : garbage[c] \subseteq VkBuffers
  BY DEF FrameInv, FrameTypes
<1> QED
  BY <1>1, <1>2 DEF FrameInv, OwnedInv

LEMMA EditsFrameInv ==
  ASSUME FrameInv, NEW r \in RenderBuffers, NEW new, Edits(r, new)
  PROVE  FrameInv'
<1>1. PICK gone \in SUBSET VkBuffers : Changes(r, new, gone)
  BY DEF Edits
<1>2. /\ new = NoBuffer \/ (new \in BufferObjects /\ IsSound(new))
      /\ buffers' = [buffers EXCEPT ![r] = new]
      /\ garbage' = [garbage EXCEPT ![gcIndex] = @ \cup gone]
      /\ memory' \in [VkBuffers -> Int]
      /\ \A b \in VkBuffers : memory[b] # Destroyed => memory'[b] # Destroyed
      /\ \A b \in Handles(new) :
           b \in Handles(buffers[r]) \/ (memory[b] = Destroyed /\ memory'[b] # Destroyed)
      /\ \A b \in gone :
           /\ b \notin Handles(new)
           /\ b \in Handles(buffers[r]) \/ (memory[b] = Destroyed /\ memory'[b] # Destroyed)
  BY <1>1 DEF Changes
<1>3. /\ UNCHANGED framesPart /\ UNCHANGED <<gcIndex, drawn, updates, skips>>
      /\ latest' \in [RenderBuffers -> Int] /\ written' \in Nat /\ stopped' \in BOOLEAN
  BY DEF Edits, framesPart
<1>4. /\ buffers \in [RenderBuffers -> BufferObjects \cup {NoBuffer}]
      /\ \A q \in RenderBuffers : buffers'[q] = IF q = r THEN new ELSE buffers[q]
  BY <1>2 DEF FrameInv, BufferTypes
<1>5. FrameTypes'
  <2>1. garbage' \in [Collectors -> SUBSET VkBuffers] /\ gcIndex' \in Collectors
    BY <1>2, <1>3 DEF FrameInv, FrameTypes
  <2> QED
    BY <1>2, <1>3, <2>1, FramesPartKept DEF FrameInv, FrameTypes
<1>6. BufferTypes'
  <2>1. buffers' \in [RenderBuffers -> BufferObjects \cup {NoBuffer}]
    BY <1>2, <1>4
  <2>2. \A q \in RenderBuffers : buffers'[q] # NoBuffer => IsSound(buffers'[q])
    BY <1>2, <1>4 DEF FrameInv, BufferTypes, Exists
  <2> QED
    BY <1>3, <2>1, <2>2 DEF BufferTypes, Exists
<1>7. OwnedInv'
  <2>1. /\ \A q \in RenderBuffers : \A b \in Handles(buffers[q]) : memory[b] # Destroyed
        /\ \A p, q \in RenderBuffers : \A b \in Handles(buffers[p]) :
             b \in Handles(buffers[q]) => p = q
    BY DEF FrameInv, OwnedInv
  <2>2. \A q \in RenderBuffers : Handles(buffers'[q]) \subseteq VkBuffers
    BY <1>2, <1>4, HandleFacts
  <2>3. ASSUME NEW q \in RenderBuffers, NEW b \in Handles(buffers'[q])
        PROVE  /\ b \in VkBuffers
               /\ \/ b \in Handles(buffers[q])
                  \/ /\ memory[b] = Destroyed /\ memory'[b] # Destroyed
                     /\ \A p \in RenderBuffers : b \in Handles(buffers'[p]) => p = q
    <3>1. b \in VkBuffers
      BY <2>2, <2>3
    <3>2. b \in Handles(buffers[q])
          \/ (q = r /\ memory[b] = Destroyed /\ memory'[b] # Destroyed)
      BY <1>2, <1>4, <2>3
    <3>3. \A p \in RenderBuffers :
            memory[b] = Destroyed /\ b \in Handles(buffers'[p]) => p = r
      BY <1>4, <2>1
    <3> QED
      BY <3>1, <3>2, <3>3
  <2>4. ASSUME NEW b \in gone
        PROVE  /\ memory'[b] # Destroyed
               /\ memory[b] = Destroyed \/ \E q \in RenderBuffers : b \in Handles(buffers[q])
               /\ \A q \in RenderBuffers : b \notin Handles(buffers'[q])
    <3>1. b \in VkBuffers /\ b \notin Handles(new)
          /\ (b \in Handles(buffers[r]) \/ (memory[b] = Destroyed /\ memory'[b] # Destroyed))
      BY <1>2, <2>4
    <3>2. memory'[b] # Destroyed
      BY <1>2, <2>1, <3>1
    <3>3. \A q \in RenderBuffers : b \notin Handles(buffers'[q])
      BY <1>4, <2>1, <3>1
    <3> QED
      BY <3>1, <3>2, <3>3
  <2> QED
    BY <1>2, <2>3, <2>4, Ownership
<1> QED
  BY <1>3, <1>5, <1>6, <1>7, FramesPartKept DEF FrameInv

LEMMA NextFrameInv ==
  ASSUME FrameInv, NextFrame, UNCHANGED bufferVars,
         pc' \in {"app", "frame", "recreate"}, skips' \in {0, 1}, stopped' \in BOOLEAN
  PROVE  FrameInv'
<1>1. /\ pc = "app" /\ fence[frameIndex]
      /\ gcIndex' = Next1(gcIndex) /\ Collect({gcIndex'})
      /\ UNCHANGED <<frameIndex, frameCounter, drawn, updates, fence, queue, commands, buffers>>
  BY DEF NextFrame, Next1, stateVars, gpuVars, bufferVars
<1>2. gcIndex' \in Collectors
  BY <1>1, SlotFacts DEF FrameInv, FrameTypes
<1>3. /\ memory' \in [VkBuffers -> Int] /\ garbage' \in [Collectors -> SUBSET VkBuffers]
      /\ OwnedInv'
  BY <1>1, <1>2, Collected
<1>4. FrameTypes'
  BY <1>1, <1>2, <1>3 DEF FrameInv, FrameTypes
<1>5. StageInv'
  BY <1>1 DEF FrameInv, StageInv
<1>6. FencesGuard'
  BY <1>1 DEF FrameInv, FencesGuard
<1> QED
  BY <1>3, <1>4, <1>5, <1>6, BuffersKept DEF FrameInv

LEMMA RecreateSwapInv ==
  ASSUME FrameInv, RecreateSwap, UNCHANGED bufferVars
  PROVE  FrameInv'
<1>1. /\ pc = "recreate" /\ pc' \in {"frame", "app"} /\ skips' = 0 /\ Collect(Collectors)
      /\ UNCHANGED <<frameIndex, frameCounter, gcIndex, drawn, updates, fence, queue,
                     commands, stopped, buffers>>
  BY DEF RecreateSwap, stateVars, gpuVars, bufferVars
<1>2. /\ memory' \in [VkBuffers -> Int] /\ garbage' \in [Collectors -> SUBSET VkBuffers]
      /\ OwnedInv'
  BY <1>1, Collected
<1>3. FrameTypes'
  BY <1>1, <1>2 DEF FrameInv, FrameTypes
<1>4. StageInv'
  BY <1>1 DEF FrameInv, StageInv
<1>5. FencesGuard'
  BY <1>1 DEF FrameInv, FencesGuard
<1> QED
  BY <1>2, <1>3, <1>4, <1>5, BuffersKept DEF FrameInv

(* What is submitted: a frame that is not in the queue.                     *)
LEMMA Submitted ==
  ASSUME FrameInv, Submit
  PROVE  /\ pc = "submit" /\ pc' = "app" /\ skips' = 0 /\ UNCHANGED <<gcIndex, garbage, memory>>
         /\ frameIndex \in Slots /\ commands[frameIndex].stage = "recorded"
         /\ queue \in Seq(Slots) /\ queue' \in Seq(Slots) /\ Len(queue) \in Nat
         /\ DOMAIN queue = 1 .. Len(queue) /\ DOMAIN queue' = 1 .. (Len(queue) + 1)
         /\ \A i \in DOMAIN queue : queue'[i] = queue[i] /\ queue[i] \in Slots
                                    /\ queue[i] # frameIndex
         /\ queue'[Len(queue) + 1] = frameIndex
         /\ fence' = [fence EXCEPT ![frameIndex] = FALSE]
         /\ commands' \in [Slots -> Commands]
         /\ commands'[frameIndex].stage = "queued"
         /\ commands'[frameIndex].copies = commands[frameIndex].copies
         /\ commands'[frameIndex].draws = commands[frameIndex].draws
         /\ \A s \in Slots : s # frameIndex => commands'[s] = commands[s]
<1>1. /\ pc = "submit" /\ pc' = "app" /\ skips' = 0 /\ UNCHANGED <<gcIndex, garbage, memory>>
      /\ fence' = [fence EXCEPT ![frameIndex] = FALSE]
      /\ queue' = Append(queue, frameIndex)
      /\ commands' = [commands EXCEPT ![frameIndex].stage = "queued"]
  BY DEF Submit, gcVars
<1>2. /\ frameIndex \in Slots /\ queue \in Seq(Slots) /\ commands \in [Slots -> Commands]
      /\ commands[frameIndex].stage = "recorded"
      /\ \A i \in DOMAIN queue : commands[queue[i]].stage \in {"queued", "drawing"}
  BY <1>1 DEF FrameInv, FrameTypes, StageInv
<1>3. /\ Len(queue) \in Nat /\ DOMAIN queue = 1 .. Len(queue)
      /\ \A i \in DOMAIN queue : queue[i] \in Slots /\ queue[i] # frameIndex
  BY <1>2
<1>4. /\ queue' \in Seq(Slots) /\ Len(queue') = Len(queue) + 1
      /\ \A i \in 1 .. Len(queue) : queue'[i] = queue[i]
      /\ queue'[Len(queue) + 1] = frameIndex
  BY <1>1, <1>2, AppendProperties
<1>5. DOMAIN queue' = 1 .. (Len(queue) + 1)
  BY <1>4
<1>6. commands[frameIndex] \in Commands
  BY <1>2
<1>7. [commands[frameIndex] EXCEPT !.stage = "queued"] \in Commands
  BY <1>6 DEF Commands
<1>8. /\ commands'[frameIndex] = [commands[frameIndex] EXCEPT !.stage = "queued"]
      /\ commands' \in [Slots -> Commands]
      /\ \A s \in Slots : s # frameIndex => commands'[s] = commands[s]
  BY <1>1, <1>2, <1>7
<1>9. /\ commands'[frameIndex].stage = "queued"
      /\ commands'[frameIndex].copies = commands[frameIndex].copies
      /\ commands'[frameIndex].draws = commands[frameIndex].draws
  BY <1>6, <1>8 DEF Commands
<1> QED
  BY <1>1, <1>2, <1>3, <1>4, <1>5, <1>8, <1>9

LEMMA SubmitInv ==
  ASSUME FrameInv, Submit, UNCHANGED bufferVars,
         \/ UNCHANGED <<frameIndex, frameCounter>>
         \/ /\ frameIndex' = (frameIndex + 1) % kMaxFramesInFlight
            /\ frameCounter' = frameCounter + 1,
         drawn' \in {{}, drawn}, updates' \in {{}, updates}, stopped' \in BOOLEAN
  PROVE  FrameInv'
<1>1. frameIndex \in Slots /\ frameIndex' \in Slots /\ frameCounter' \in Nat
      /\ frameIndex' = frameCounter' % kMaxFramesInFlight
  <2> DEFINE index(n) == n % kMaxFramesInFlight
  <2>1. /\ frameIndex \in Slots /\ frameCounter \in Nat /\ frameIndex = index(frameCounter)
    BY DEF FrameInv, FrameTypes, FencesGuard
  <2>2. \A n \in Nat : index(n + 1) = index(index(n) + 1)
    BY FrameIndices
  <2>3. \A s \in Slots : index(s + 1) \in Slots
    BY FrameIndices
  <2>4. \/ UNCHANGED <<frameIndex, frameCounter>>
        \/ frameIndex' = index(frameIndex + 1) /\ frameCounter' = frameCounter + 1
    OBVIOUS
  <2>5. frameIndex' = index(frameCounter') /\ frameIndex' \in Slots /\ frameCounter' \in Nat
    <3> HIDE DEF index
    <3> QED
      BY <2>1, <2>2, <2>3, <2>4
  <2> QED
    BY <2>1, <2>5
<1>2. FrameTypes'
  <2>1. fence' \in [Slots -> BOOLEAN]
    BY Submitted DEF FrameInv, FrameTypes
  <2> QED
    BY <1>1, <2>1, Submitted DEF FrameInv, FrameTypes
<1> DEFINE last == Len(queue) + 1
<1>3. /\ last \in Nat /\ DOMAIN queue' = DOMAIN queue \cup {last} /\ last \notin DOMAIN queue
  BY Submitted
<1>4. /\ queue'[last] = frameIndex
      /\ \A i \in DOMAIN queue : queue'[i] = queue[i] /\ queue[i] \in Slots
                                 /\ queue[i] # frameIndex
  BY Submitted
<1> HIDE DEF last
<1>5. /\ pc = "submit" /\ pc' = "app"
      /\ fence \in [Slots -> BOOLEAN] /\ fence' = [fence EXCEPT ![frameIndex] = FALSE]
      /\ commands'[frameIndex].stage = "queued"
      /\ \A s \in Slots : s # frameIndex => commands'[s] = commands[s]
  BY Submitted DEF FrameInv, FrameTypes
<1>6. /\ \A s \in Slots : commands[s].stage = "recorded" <=> s = frameIndex
      /\ \A i \in DOMAIN queue : commands[queue[i]].stage \in {"queued", "drawing"}
      /\ \A s \in Slots : fence[s] <=> commands[s].stage \in {"idle", "recorded"}
      /\ \A s \in Slots : ~fence[s] => \E i \in DOMAIN queue : queue[i] = s
      /\ \A i, j \in DOMAIN queue : queue[i] = queue[j] => i = j
  BY <1>5 DEF FrameInv, StageInv, FencesGuard
<1>7. StageInv'
  <2>1. \A s \in Slots : commands'[s].stage # "recorded"
    BY <1>5, <1>6
  <2>2. \A i \in DOMAIN queue' : commands'[queue'[i]].stage \in {"queued", "drawing"}
    BY <1>3, <1>4, <1>5, <1>6
  <2> QED
    BY <1>5, <2>1, <2>2 DEF StageInv
<1>8. FencesGuard'
  <2>1. \A s \in Slots : fence'[s] <=> commands'[s].stage \in {"idle", "recorded"}
    BY <1>1, <1>5, <1>6
  <2>2. \A s \in Slots : ~fence'[s] => \E i \in DOMAIN queue' : queue'[i] = s
    BY <1>1, <1>3, <1>4, <1>5, <1>6
  <2>3. \A i, j \in DOMAIN queue' : queue'[i] = queue'[j] => i = j
    BY <1>3, <1>4, <1>6
  <2> QED
    BY <1>1, <1>5, <2>1, <2>2, <2>3 DEF FencesGuard
<1>9. OwnedInv'
  BY Submitted, OwnersKept DEF bufferVars
<1> QED
  BY <1>2, <1>7, <1>8, <1>9, BuffersKept DEF FrameInv

(* The first of the queue leaves it.                                        *)
LEMMA Finished ==
  ASSUME FrameInv, GpuFinish
  PROVE  \E s \in Slots :
           /\ s = queue[1] /\ 1 \in DOMAIN queue /\ queue' \in Seq(Slots)
           /\ \A i \in DOMAIN queue' : i + 1 \in DOMAIN queue /\ queue'[i] = queue[i + 1]
           /\ \A i \in DOMAIN queue : i # 1 => \E j \in DOMAIN queue' : i = j + 1
           /\ \A i \in DOMAIN queue : i \in Nat
           /\ \A i \in DOMAIN queue' : i \in Nat /\ i >= 1
           /\ commands[s].stage = "drawing"
           /\ commands' = [commands EXCEPT ![s] = Idle] /\ fence' = [fence EXCEPT ![s] = TRUE]
           /\ UNCHANGED <<pc, frameIndex, frameCounter, gcIndex, garbage, drawn, updates,
                          memory, skips, stopped>>
<1> DEFINE s == Head(queue)
<1>1. /\ queue # <<>> /\ commands[s].stage = "drawing"
      /\ commands' = [commands EXCEPT ![s] = Idle] /\ fence' = [fence EXCEPT ![s] = TRUE]
      /\ queue' = Tail(queue)
      /\ UNCHANGED <<pc, frameIndex, frameCounter, gcIndex, garbage, drawn, updates,
                     memory, skips, stopped>>
  BY DEF GpuFinish, frameVars, gcVars, stateVars, logVars
<1>2. queue \in Seq(Slots)
  BY DEF FrameInv, FrameTypes
<1>3. /\ s \in Slots /\ queue' \in Seq(Slots) /\ Len(queue') = Len(queue) - 1
      /\ \A i \in 1 .. Len(queue') : queue'[i] = queue[i + 1]
  BY <1>1, <1>2, HeadTailProperties
<1>4. s = queue[1] /\ Len(queue) \in Nat /\ Len(queue) >= 1
      /\ DOMAIN queue = 1 .. Len(queue) /\ DOMAIN queue' = 1 .. Len(queue')
  BY <1>1, <1>2, <1>3, EmptySeq, LenProperties
<1>5. /\ \A i \in DOMAIN queue' : i + 1 \in DOMAIN queue /\ queue'[i] = queue[i + 1]
      /\ \A i \in DOMAIN queue : i # 1 => i - 1 \in DOMAIN queue' /\ i = (i - 1) + 1
      /\ \A i \in DOMAIN queue : i \in Nat
      /\ \A i \in DOMAIN queue' : i \in Nat /\ i >= 1
      /\ 1 \in DOMAIN queue
  <2> HIDE DEF s
  <2> QED
    BY <1>3, <1>4
<1> HIDE DEF s
<1> QED
  BY <1>1, <1>3, <1>4, <1>5

LEMMA GpuFinishInv ==
  ASSUME FrameInv, GpuFinish, UNCHANGED bufferVars
  PROVE  FrameInv'
<1>1. PICK s \in Slots :
        /\ s = queue[1] /\ 1 \in DOMAIN queue /\ queue' \in Seq(Slots)
        /\ \A i \in DOMAIN queue' : i + 1 \in DOMAIN queue /\ queue'[i] = queue[i + 1]
        /\ \A i \in DOMAIN queue : i # 1 => \E j \in DOMAIN queue' : i = j + 1
        /\ \A i \in DOMAIN queue' : i \in Nat /\ i >= 1
        /\ commands[s].stage = "drawing"
        /\ commands' = [commands EXCEPT ![s] = Idle] /\ fence' = [fence EXCEPT ![s] = TRUE]
        /\ UNCHANGED <<pc, frameIndex, frameCounter, gcIndex, garbage, drawn, updates,
                       memory, skips, stopped>>
  BY Finished
<1>2. /\ \A t \in Slots :
           commands[t].stage = "recorded" <=> pc = "submit" /\ t = frameIndex
      /\ \A i \in DOMAIN queue : commands[queue[i]].stage \in {"queued", "drawing"}
      /\ \A t \in Slots : fence[t] <=> commands[t].stage \in {"idle", "recorded"}
      /\ \A t \in Slots : ~fence[t] => \E i \in DOMAIN queue : queue[i] = t
      /\ \A i, j \in DOMAIN queue : queue[i] = queue[j] => i = j
      /\ pc \in {"recreate", "frame", "submit"} => fence[frameIndex]
      /\ commands \in [Slots -> Commands] /\ fence \in [Slots -> BOOLEAN]
      /\ frameIndex \in Slots /\ queue \in Seq(Slots)
  BY DEF FrameInv, FrameTypes, StageInv, FencesGuard
<1>3. Idle \in Commands /\ Idle.stage = "idle"
  BY DEF Idle, Commands
<1>4. \A t \in Slots : commands'[t] = (IF t = s THEN Idle ELSE commands[t])
                       /\ fence'[t] = (IF t = s THEN TRUE ELSE fence[t])
  BY <1>1, <1>2
<1>5. commands'[s].stage = "idle" /\ \A t \in Slots : t # s => commands'[t] = commands[t]
  BY <1>3, <1>4
<1>6. \A i \in DOMAIN queue' : queue'[i] # s /\ queue'[i] \in Slots
  <2> SUFFICES ASSUME NEW i \in DOMAIN queue' PROVE queue'[i] # s /\ queue'[i] \in Slots
    OBVIOUS
  <2>1. i + 1 \in DOMAIN queue /\ queue'[i] = queue[i + 1] /\ i + 1 # 1
    BY <1>1
  <2>2. queue[i + 1] \in Slots
    BY <1>2, <2>1, ElementOfSeq
  <2> QED
    BY <1>1, <1>2, <2>1, <2>2
<1>7. FrameTypes'
  <2>1. commands' \in [Slots -> Commands] /\ fence' \in [Slots -> BOOLEAN]
    BY <1>1, <1>2, <1>3
  <2> QED
    BY <1>1, <2>1 DEF FrameInv, FrameTypes
<1>8. StageInv'
  <2>1. \A t \in Slots : commands'[t].stage = "recorded" <=> pc' = "submit" /\ t = frameIndex'
    <3>1. pc' = pc /\ frameIndex' = frameIndex
      BY <1>1
    <3>2. commands[s].stage # "recorded"
      BY <1>1
    <3>3. \A t \in Slots : commands[t].stage = "recorded" <=> pc = "submit" /\ t = frameIndex
      BY <1>2
    <3> QED
      BY <1>5, <3>1, <3>2, <3>3
  <2>2. \A i \in DOMAIN queue' : commands'[queue'[i]].stage \in {"queued", "drawing"}
    BY <1>1, <1>2, <1>4, <1>6
  <2> QED
    BY <2>1, <2>2 DEF StageInv
<1>9. FencesGuard'
  <2>1. \A t \in Slots : fence'[t] <=> commands'[t].stage \in {"idle", "recorded"}
    <3>1. \A t \in Slots : fence[t] <=> commands[t].stage \in {"idle", "recorded"}
      BY <1>2
    <3> QED
      BY <1>4, <1>5, <3>1
  <2>2. ASSUME NEW t \in Slots, ~fence'[t] PROVE \E i \in DOMAIN queue' : queue'[i] = t
    <3>1. t # s /\ ~fence[t]
      BY <1>4, <2>2
    <3>2. PICK i \in DOMAIN queue : queue[i] = t
      BY <1>2, <3>1
    <3>3. PICK j \in DOMAIN queue' : i = j + 1
      BY <1>1, <3>1, <3>2
    <3> QED
      BY <1>1, <3>2, <3>3
  <2>3. ASSUME NEW i \in DOMAIN queue', NEW j \in DOMAIN queue', queue'[i] = queue'[j]
        PROVE  i = j
    <3>1. i + 1 = j + 1
      BY <1>1, <1>2, <2>3
    <3> QED
      BY <1>1, <3>1
  <2>4. pc' \in {"recreate", "frame", "submit"} => fence'[frameIndex']
    BY <1>1, <1>2, <1>4
  <2>5. frameIndex' = frameCounter' % kMaxFramesInFlight
    BY <1>1 DEF FrameInv, FencesGuard
  <2> QED
    BY <2>1, <2>2, <2>3, <2>4, <2>5 DEF FencesGuard
<1>10. OwnedInv'
  BY <1>1, OwnersKept DEF bufferVars
<1> QED
  BY <1>7, <1>8, <1>9, <1>10, BuffersKept DEF FrameInv

(* A frame's copies are made: no Vulkan buffer is made or destroyed.        *)
LEMMA CopiedFacts ==
  ASSUME FrameInv, NEW s \in Slots, GpuCopy(s)
  PROVE  /\ commands[s].stage = "queued" /\ commands' \in [Slots -> Commands]
         /\ commands'[s].stage = "drawing" /\ commands'[s].copies = commands[s].copies
         /\ commands'[s].draws = commands[s].draws
         /\ \A t \in Slots : t # s => commands'[t] = commands[t]
         /\ memory' \in [VkBuffers -> Int]
         /\ \A b \in VkBuffers : memory'[b] = Destroyed <=> memory[b] = Destroyed
         /\ UNCHANGED <<pc, frameIndex, frameCounter, gcIndex, garbage, drawn, updates,
                        fence, queue, skips, stopped>>
<1> DEFINE copies == commands[s].copies
           Made(b) == memory[b] # Destroyed /\ \E u \in copies : u[2] = b
           value(b) == Contents((CHOOSE u \in copies : u[2] = b)[1])
<1>1. /\ commands[s].stage = "queued"
      /\ commands' = [commands EXCEPT ![s].stage = "drawing"]
      /\ memory' = [b \in VkBuffers |-> IF Made(b) THEN value(b) ELSE memory[b]]
      /\ UNCHANGED <<pc, frameIndex, frameCounter, gcIndex, garbage, drawn, updates,
                     fence, queue, skips, stopped>>
  BY DEF GpuCopy, frameVars, gcVars, stateVars, logVars
<1>2. commands \in [Slots -> Commands] /\ commands[s] \in Commands /\ memory \in [VkBuffers -> Int]
  BY DEF FrameInv, FrameTypes
<1>3. ASSUME NEW b \in VkBuffers, Made(b)
      PROVE  value(b) \in Int /\ value(b) # Destroyed
  <2> DEFINE u == CHOOSE u \in copies : u[2] = b
  <2>1. u \in copies
    BY <1>3
  <2>2. u[1] \in VkBuffers
    BY <1>2, <2>1 DEF Commands, Copied
  <2> HIDE DEF u
  <2>3. Contents(u[1]) \in Int /\ Contents(u[1]) # Destroyed
    BY <2>2, Values
  <2> QED
    BY <2>3 DEF u
<1>4. [commands[s] EXCEPT !.stage = "drawing"] \in Commands
  BY <1>2 DEF Commands
<1>5. /\ commands'[s] = [commands[s] EXCEPT !.stage = "drawing"]
      /\ commands' \in [Slots -> Commands]
      /\ \A t \in Slots : t # s => commands'[t] = commands[t]
  BY <1>1, <1>2, <1>4
<1>6. /\ commands'[s].stage = "drawing" /\ commands'[s].copies = commands[s].copies
      /\ commands'[s].draws = commands[s].draws
  BY <1>2, <1>5 DEF Commands
<1> HIDE DEF value
<1>7. /\ memory' \in [VkBuffers -> Int]
      /\ \A b \in VkBuffers : memory'[b] = Destroyed <=> memory[b] = Destroyed
  <2>1. \A b \in VkBuffers : memory'[b] = IF Made(b) THEN value(b) ELSE memory[b]
    BY <1>1
  <2>2. \A b \in VkBuffers : Made(b) => memory[b] # Destroyed
    OBVIOUS
  <2> HIDE DEF Made
  <2> QED
    BY <1>1, <1>2, <1>3, <2>1, <2>2
<1> QED
  BY <1>1, <1>5, <1>6, <1>7

LEMMA GpuCopyInv ==
  ASSUME FrameInv, NEW s \in Slots, GpuCopy(s), UNCHANGED bufferVars
  PROVE  FrameInv'
<1>1. FrameTypes'
  BY CopiedFacts DEF FrameInv, FrameTypes
<1>2. /\ \A t \in Slots :
           commands[t].stage = "recorded" <=> pc = "submit" /\ t = frameIndex
      /\ \A i \in DOMAIN queue : commands[queue[i]].stage \in {"queued", "drawing"}
      /\ queue \in Seq(Slots)
  BY DEF FrameInv, FrameTypes, StageInv
<1>3. StageInv'
  <2>1. \A t \in Slots : commands'[t].stage = "recorded" <=> pc' = "submit" /\ t = frameIndex'
    BY <1>2, CopiedFacts
  <2>2. ASSUME NEW i \in DOMAIN queue' PROVE commands'[queue'[i]].stage \in {"queued", "drawing"}
    <3>1. queue' = queue /\ i \in DOMAIN queue
      BY <2>2, CopiedFacts
    <3>2. queue[i] \in Slots
      BY <1>2, <3>1, ElementOfSeq
    <3> QED
      BY <1>2, <3>1, <3>2, CopiedFacts
  <2> QED
    BY <2>1, <2>2 DEF StageInv
<1>4. FencesGuard'
  <2>1. \A t \in Slots : fence[t] <=> commands[t].stage \in {"idle", "recorded"}
    BY DEF FrameInv, FencesGuard
  <2>2. \A t \in Slots : fence'[t] <=> commands'[t].stage \in {"idle", "recorded"}
    BY <2>1, CopiedFacts
  <2>3. UNCHANGED <<pc, frameIndex, frameCounter, fence, queue>>
    BY CopiedFacts
  <2> QED
    BY <2>2, <2>3 DEF FrameInv, FencesGuard
<1>5. OwnedInv'
  BY CopiedFacts, OwnersKept DEF bufferVars
<1> QED
  BY <1>1, <1>3, <1>4, <1>5, BuffersKept DEF FrameInv

LEMMA BackendFrameInv ==
  ASSUME FrameInv, BackendNext, UNCHANGED bufferVars
  PROVE  FrameInv'
<1>1. pc \in {"app", "recreate", "frame", "submit"} /\ skips \in {0, 1} /\ stopped \in BOOLEAN
  BY DEF FrameInv, FrameTypes
<1>2. CASE ResizeWindow
  <2>1. UNCHANGED <<pc, frameIndex, frameCounter, gcIndex, garbage, drawn, updates,
                    fence, queue, commands, memory, skips, stopped>>
    BY <1>2 DEF ResizeWindow, gcVars, stateVars, gpuVars, logVars
  <2>2. FrameTypes'
    BY <2>1 DEF FrameInv, FrameTypes
  <2>3. StageInv' /\ FencesGuard'
    BY <2>1, FramesPartKept DEF framesPart
  <2>4. OwnedInv'
    BY <2>1, OwnersKept DEF bufferVars
  <2> QED
    BY <2>2, <2>3, <2>4, BuffersKept DEF FrameInv
<1>3. CASE BeginFrame
  BY <1>1, <1>3, NextFrameInv DEF BeginFrame, logVars
<1>4. CASE BeginFrameFails
  <2>1. NextFrame /\ pc' = pc /\ skips' = 1 /\ stopped' \in BOOLEAN /\ pc = "app"
    BY <1>4 DEF BeginFrameFails, Mishap, NextFrame
  <2> QED
    BY <2>1, NextFrameInv
<1>5. CASE BeginFrameRecreates
  BY <1>1, <1>5, NextFrameInv DEF BeginFrameRecreates, logVars
<1>6. CASE RecreateSwap
  BY <1>6, RecreateSwapInv
<1>7. CASE Present
  BY <1>1, <1>7, SubmitInv DEF Present
<1>8. CASE PresentFails
  <2>1. Submit /\ UNCHANGED <<frameIndex, frameCounter, drawn, updates>> /\ stopped' \in BOOLEAN
    BY <1>8 DEF PresentFails, Mishap, stateVars
  <2> QED
    BY <2>1, SubmitInv
<1>9. CASE GpuFinish
  BY <1>9, GpuFinishInv
<1>10. ASSUME NEW s \in Slots, GpuCopy(s) PROVE FrameInv'
  BY <1>10, GpuCopyInv
<1> QED
  BY <1>2, <1>3, <1>4, <1>5, <1>6, <1>7, <1>8, <1>9, <1>10 DEF BackendNext

-----------------------------------------------------------------------------
(***************************************************************************)
(* The end of a frame                                                      *)
(***************************************************************************)
RenderedNow == {r \in drawn : Exists(r)}

(* What the frame that ends is recorded with.                               *)
LEMMA RecordedFacts ==
  ASSUME FrameInv, NEW mapped \in BOOLEAN, EndFrame(mapped)
  PROVE  /\ pc = "frame" /\ pc' = "submit"
         /\ UNCHANGED <<frameIndex, frameCounter, gcIndex, drawn, fence, queue, skips, latest,
                        written>>
         /\ stopped' \in BOOLEAN
         /\ \A u : u \in updates' <=>
                     u \in updates \/ \E r \in RenderedNow : u \in Copies(buffers[r])
         /\ updates' \subseteq Copied
         /\ commands' \in [Slots -> Commands] /\ commands'[frameIndex].stage = "recorded"
         /\ commands'[frameIndex].copies = updates'
         /\ \A d \in commands'[frameIndex].draws :
              \E r \in RenderedNow : d[1] = buffers[r].device[frameIndex]
         /\ \A t \in Slots : t # frameIndex => commands'[t] = commands[t]
<1> DEFINE after == [r \in RenderBuffers |->
                       IF r \in RenderedNow THEN Bound(Rendered(buffers[r], mapped))
                                            ELSE buffers[r]]
           copies == UNION {Copies(buffers[r]) : r \in RenderedNow}
           drawnIn(r) == {<<b, IF buffers[r].view = "none" THEN latest[r] ELSE Unwritten>> :
                            b \in Drawn(after[r])}
           draws == UNION {drawnIn(r) : r \in RenderedNow}
<1>1. /\ Record(copies, draws) /\ UNCHANGED <<latest, written>> /\ stopped' \in BOOLEAN
  BY DEF EndFrame, RenderedNow
<1>2. /\ drawn \subseteq RenderBuffers /\ updates \subseteq Copied /\ frameIndex \in Slots
      /\ commands \in [Slots -> Commands] /\ latest \in [RenderBuffers -> Int]
  BY DEF FrameInv, FrameTypes, BufferTypes
<1>3. \A r \in RenderedNow :
        /\ r \in RenderBuffers /\ buffers[r] \in BufferObjects /\ IsSound(buffers[r])
        /\ \A s \in Slots : buffers[r].device[s] \in VkBuffers
        /\ Exists(r)
  BY <1>2, Existing DEF RenderedNow
<1>4. ASSUME NEW r \in RenderedNow PROVE Copies(buffers[r]) \subseteq Copied
  <2>1. buffers[r].kind # "kPerFrame" /\ buffers[r].dirty # {} => buffers[r].host \in VkBuffers
    BY <1>3, ObjectFields DEF IsSound, Kinds
  <2> QED
    BY <1>2, <1>3, <2>1 DEF Copies, Copied
<1>5. ASSUME NEW r \in RenderedNow
      PROVE  /\ drawnIn(r) \subseteq VkBuffers \X Int
             /\ \A d \in drawnIn(r) : d[1] = buffers[r].device[frameIndex]
  <2> DEFINE shown == IF buffers[r].view = "none" THEN latest[r] ELSE Unwritten
  <2>1. Drawn(after[r]) = {buffers[r].device[frameIndex]}
    BY <1>3, RenderedFacts
  <2>2. shown \in Int
    BY <1>2, <1>3 DEF Unwritten
  <2> HIDE DEF after, shown
  <2>3. \A d \in drawnIn(r) : d = <<buffers[r].device[frameIndex], shown>>
    BY <2>1 DEF shown
  <2> QED
    BY <1>2, <1>3, <2>2, <2>3
<1>6. copies \subseteq Copied /\ draws \subseteq VkBuffers \X Int
  BY <1>4, <1>5
<1>7. \A d \in draws : \E r \in RenderedNow : d[1] = buffers[r].device[frameIndex]
  BY <1>5
<1>8. \A u : u \in copies <=> \E r \in RenderedNow : u \in Copies(buffers[r])
  OBVIOUS
<1> HIDE DEF copies, draws
<1>9. /\ pc = "frame" /\ pc' = "submit" /\ updates' = updates \cup copies
      /\ commands' = [commands EXCEPT ![frameIndex] =
           [stage |-> "recorded", copies |-> updates', draws |-> draws]]
      /\ UNCHANGED <<frameIndex, frameCounter, gcIndex, drawn, fence, queue, skips>>
  BY <1>1 DEF Record
<1>10. updates' \subseteq Copied
  BY <1>2, <1>6, <1>9
<1>11. [stage |-> "recorded", copies |-> updates', draws |-> draws] \in Commands
  BY <1>6, <1>10 DEF Commands
<1>12. /\ commands' \in [Slots -> Commands]
       /\ commands'[frameIndex] = [stage |-> "recorded", copies |-> updates', draws |-> draws]
       /\ \A t \in Slots : t # frameIndex => commands'[t] = commands[t]
  BY <1>2, <1>9, <1>11
<1> QED
  BY <1>1, <1>7, <1>8, <1>9, <1>10, <1>12

(* What becomes of the render buffers, and of the Vulkan buffers' contents. *)
LEMMA EndedFacts ==
  ASSUME FrameInv, NEW mapped \in BOOLEAN, EndFrame(mapped)
  PROVE  /\ \A r \in RenderBuffers :
              buffers'[r] = IF r \in RenderedNow THEN Bound(Rendered(buffers[r], mapped))
                                                 ELSE buffers[r]
         /\ DOMAIN buffers' = RenderBuffers /\ buffers' = [r \in RenderBuffers |-> buffers'[r]]
         /\ \E gone \in SUBSET VkBuffers :
              /\ garbage' = [garbage EXCEPT ![gcIndex] = @ \cup gone]
              /\ \A b \in gone : \E r \in RenderedNow :
                   b \in Handles(buffers[r]) /\ b \notin Handles(buffers'[r])
         /\ memory' \in [VkBuffers -> Int]
         /\ \A b \in VkBuffers : memory'[b] = Destroyed <=> memory[b] = Destroyed
<1> DEFINE after == [r \in RenderBuffers |->
                       IF r \in RenderedNow THEN Bound(Rendered(buffers[r], mapped))
                                            ELSE buffers[r]]
           local(v) == CHOOSE r \in RenderedNow : v \in MappedTo(buffers[r], mapped)
           gone == UNION {Handles(buffers[r]) \ Handles(after[r]) : r \in RenderedNow}
<1>1. /\ buffers' = after
      /\ garbage' = [garbage EXCEPT ![gcIndex] = @ \cup gone]
      /\ memory' = [v \in VkBuffers |->
           IF \E r \in RenderedNow : v \in MappedTo(buffers[r], mapped)
           THEN buffers[local(v)].local
           ELSE memory[v]]
  BY DEF EndFrame, Dispose, RenderedNow
<1>2. memory \in [VkBuffers -> Int] /\ drawn \subseteq RenderBuffers /\ frameIndex \in Slots
  BY DEF FrameInv, FrameTypes
<1>3. \A r \in RenderedNow :
        /\ r \in RenderBuffers /\ buffers[r] \in BufferObjects
        /\ Handles(buffers[r]) \subseteq VkBuffers
        /\ \A s \in Slots : memory[buffers[r].device[s]] # Destroyed
        /\ buffers[r].local \in Nat
  <2>1. \A r \in RenderedNow : r \in RenderBuffers /\ Exists(r)
    BY <1>2 DEF RenderedNow
  <2> QED
    BY <2>1, Existing, ObjectFields
<1>4. gone \subseteq VkBuffers
      /\ \A b \in gone : \E r \in RenderedNow :
           b \in Handles(buffers[r]) /\ b \notin Handles(after[r])
  BY <1>3
<1>5. ASSUME NEW v \in VkBuffers, \E r \in RenderedNow : v \in MappedTo(buffers[r], mapped)
      PROVE  /\ buffers[local(v)].local \in Int /\ buffers[local(v)].local # Destroyed
             /\ memory[v] # Destroyed
  <2>1. local(v) \in RenderedNow /\ v \in MappedTo(buffers[local(v)], mapped)
    BY <1>5
  <2> HIDE DEF local
  <2>2. v = buffers[local(v)].device[frameIndex]
    BY <2>1 DEF MappedTo
  <2>3. \A n \in Nat : n # Destroyed /\ n \in Int
    BY DEF Destroyed
  <2> QED
    BY <1>2, <1>3, <2>1, <2>2, <2>3
<1>6. /\ memory' \in [VkBuffers -> Int]
      /\ \A b \in VkBuffers : memory'[b] = Destroyed <=> memory[b] = Destroyed
  <2> HIDE DEF local
  <2> QED
    BY <1>1, <1>2, <1>5
<1>7. DOMAIN after = RenderBuffers /\ after = [r \in RenderBuffers |-> after[r]]
  OBVIOUS
<1> HIDE DEF gone
<1> QED
  BY <1>1, <1>4, <1>6, <1>7

LEMMA EndFrameInv ==
  ASSUME FrameInv, NEW mapped \in BOOLEAN, EndFrame(mapped)
  PROVE  FrameInv'
<1>1. PICK gone \in SUBSET VkBuffers :
        /\ garbage' = [garbage EXCEPT ![gcIndex] = @ \cup gone]
        /\ \A b \in gone : \E r \in RenderedNow :
             b \in Handles(buffers[r]) /\ b \notin Handles(buffers'[r])
  BY EndedFacts
<1>2. /\ pc = "frame" /\ pc' = "submit" /\ frameIndex \in Slots
      /\ UNCHANGED <<frameIndex, frameCounter, gcIndex, drawn, fence, queue, skips, latest,
                     written>>
      /\ stopped' \in BOOLEAN
  BY RecordedFacts DEF FrameInv, FrameTypes
<1>3. FrameTypes'
  <2>1. garbage' \in [Collectors -> SUBSET VkBuffers]
    BY <1>1 DEF FrameInv, FrameTypes
  <2> QED
    BY <1>2, <2>1, RecordedFacts, EndedFacts DEF FrameInv, FrameTypes
<1>4. \A r \in RenderedNow : r \in RenderBuffers /\ buffers[r] \in BufferObjects
                             /\ IsSound(buffers[r])
  <2>1. \A r \in RenderedNow : r \in RenderBuffers /\ Exists(r)
    BY DEF RenderedNow, FrameInv, FrameTypes
  <2> QED
    BY <2>1, Existing
<1>5. \A r \in RenderedNow :
        /\ buffers'[r] \in BufferObjects /\ IsSound(buffers'[r])
        /\ buffers'[r].device = buffers[r].device
        /\ buffers'[r].host = buffers[r].host \/ buffers'[r].host = NoBuffer
  <2> SUFFICES ASSUME NEW r \in RenderedNow
               PROVE  /\ buffers'[r] \in BufferObjects /\ IsSound(buffers'[r])
                      /\ buffers'[r].device = buffers[r].device
                      /\ buffers'[r].host = buffers[r].host \/ buffers'[r].host = NoBuffer
    OBVIOUS
  <2> DEFINE b == buffers[r]
             a == Bound(Rendered(b, mapped))
  <2>1. buffers'[r] = a /\ b \in BufferObjects /\ IsSound(b)
    BY <1>4, EndedFacts
  <2> HIDE DEF b
  <2>2. /\ a \in BufferObjects /\ IsSound(a) /\ a.device = b.device
        /\ a.host = b.host \/ a.host = NoBuffer
    BY <2>1, RenderedFacts
  <2> HIDE DEF a
  <2> QED
    BY <2>1, <2>2 DEF b
<1>6. \A r \in RenderBuffers : r \notin RenderedNow => buffers'[r] = buffers[r]
  BY EndedFacts
<1>7. BufferTypes'
  <2>1. \A r \in RenderBuffers : buffers'[r] \in BufferObjects \cup {NoBuffer}
    BY <1>5, <1>6 DEF FrameInv, BufferTypes
  <2>2. \A r \in RenderBuffers : buffers'[r] # NoBuffer => IsSound(buffers'[r])
    BY <1>5, <1>6 DEF FrameInv, BufferTypes, Exists
  <2>3. buffers' \in [RenderBuffers -> BufferObjects \cup {NoBuffer}]
    BY <2>1, EndedFacts
  <2> QED
    BY <1>2, <2>2, <2>3 DEF FrameInv, BufferTypes, Exists
<1>8. \A r \in RenderBuffers : Handles(buffers'[r]) \subseteq Handles(buffers[r])
                               /\ Handles(buffers[r]) \subseteq VkBuffers
  <2>1. ASSUME NEW r \in RenderedNow PROVE Handles(buffers'[r]) \subseteq Handles(buffers[r])
    <3> SUFFICES ASSUME NEW v \in Handles(buffers'[r]) PROVE v \in Handles(buffers[r])
      OBVIOUS
    <3>1. v \in VkBuffers /\ (v = buffers'[r].host \/ \E s \in {0, 1} : v = buffers[r].device[s])
      BY <1>5, HandleFacts
    <3>2. v = buffers'[r].host => v = buffers[r].host
      BY <1>5, <3>1, ConstantFacts
    <3> QED
      BY <1>4, <3>1, <3>2, HandleFacts
  <2>2. \A r \in RenderBuffers : buffers[r] = NoBuffer \/ buffers[r] \in BufferObjects
    BY DEF FrameInv, BufferTypes
  <2> QED
    BY <1>6, <2>1, <2>2, HandleFacts
<1>9. OwnedInv'
  <2>1. \A b \in VkBuffers : memory[b] # Destroyed => memory'[b] # Destroyed
    BY EndedFacts
  <2>2. \A r \in RenderBuffers : \A b \in Handles(buffers'[r]) :
          b \in VkBuffers /\ b \in Handles(buffers[r])
    BY <1>8
  <2>3. ASSUME NEW b \in gone
        PROVE  /\ memory'[b] # Destroyed
               /\ memory[b] = Destroyed \/ \E r \in RenderBuffers : b \in Handles(buffers[r])
               /\ \A q \in RenderBuffers : b \notin Handles(buffers'[q])
    <3>1. PICK r \in RenderedNow : b \in Handles(buffers[r]) /\ b \notin Handles(buffers'[r])
      BY <1>1
    <3>2. /\ memory[b] # Destroyed
          /\ \A q \in RenderBuffers : b \in Handles(buffers[q]) => q = r
      BY <1>4, <3>1 DEF FrameInv, OwnedInv
    <3> QED
      BY <1>4, <2>1, <2>2, <3>1, <3>2
  <2> QED
    BY <1>1, <2>1, <2>2, <2>3, Ownership
<1>10. StageInv'
  <2>1. /\ \A s \in Slots : commands[s].stage # "recorded"
        /\ \A i \in DOMAIN queue : commands[queue[i]].stage \in {"queued", "drawing"}
        /\ commands[frameIndex].stage \in {"idle", "recorded"}
        /\ queue \in Seq(Slots)
    BY <1>2 DEF FrameInv, FrameTypes, StageInv, FencesGuard
  <2>2. \A s \in Slots : commands'[s].stage = "recorded" <=> s = frameIndex
    BY <1>2, <2>1, RecordedFacts
  <2>3. ASSUME NEW i \in DOMAIN queue PROVE commands'[queue[i]].stage \in {"queued", "drawing"}
    <3>1. queue[i] \in Slots
      BY <2>1, ElementOfSeq
    <3>2. queue[i] # frameIndex
      BY <2>1
    <3> QED
      BY <2>1, <3>1, <3>2, RecordedFacts
  <2> QED
    BY <1>2, <2>2, <2>3 DEF StageInv
<1>11. FencesGuard'
  <2>1. fence[frameIndex] /\ \A s \in Slots : fence[s] <=> commands[s].stage \in {"idle", "recorded"}
    BY <1>2 DEF FrameInv, FencesGuard
  <2>2. \A s \in Slots : fence'[s] <=> commands'[s].stage \in {"idle", "recorded"}
    BY <1>2, <2>1, RecordedFacts
  <2> QED
    BY <1>2, <2>1, <2>2 DEF FrameInv, FencesGuard
<1> QED
  BY <1>3, <1>7, <1>9, <1>10, <1>11 DEF FrameInv

LEMMA DrawInv ==
  ASSUME FrameInv, NEW r \in RenderBuffers, Draw(r)
  PROVE  FrameInv'
<1>1. /\ drawn' = drawn \cup {r} /\ UNCHANGED bufferVars
      /\ UNCHANGED <<pc, frameIndex, frameCounter, gcIndex, garbage, updates, fence, queue,
                     commands, memory, skips, stopped>>
  BY DEF Draw, frameVars, gcVars, gpuVars, logVars
<1>2. StageInv' /\ FencesGuard'
  BY <1>1, FramesPartKept DEF framesPart
<1>3. FrameTypes'
  BY <1>1 DEF FrameInv, FrameTypes
<1>4. OwnedInv'
  BY <1>1, OwnersKept DEF bufferVars
<1> QED
  BY <1>1, <1>2, <1>3, <1>4, BuffersKept DEF FrameInv

LEMMA NextFrameInvariant ==
  ASSUME FrameInv, [FramesNext]_allFrameVars
  PROVE  FrameInv'
<1>1. CASE BackendNext /\ UNCHANGED bufferVars
  BY <1>1, BackendFrameInv
<1>2. CASE BufferNext
  BY <1>2, BufferEdits, EditsFrameInv
<1>3. ASSUME NEW r \in RenderBuffers, Draw(r) PROVE FrameInv'
  BY <1>3, DrawInv
<1>4. ASSUME NEW mapped \in BOOLEAN, EndFrame(mapped) PROVE FrameInv'
  BY <1>4, EndFrameInv
<1>5. CASE UNCHANGED allFrameVars
  <2>1. /\ UNCHANGED bufferVars
        /\ UNCHANGED <<pc, frameIndex, frameCounter, gcIndex, garbage, drawn, updates, fence,
                       queue, commands, memory, skips, stopped>>
    BY <1>5 DEF allFrameVars, frameVars, gcVars, stateVars, gpuVars, logVars
  <2>2. StageInv' /\ FencesGuard'
    BY <2>1, FramesPartKept DEF framesPart
  <2>3. FrameTypes'
    BY <2>1 DEF FrameInv, FrameTypes
  <2>4. OwnedInv'
    BY <2>1, OwnersKept DEF bufferVars
  <2> QED
    BY <2>1, <2>2, <2>3, <2>4, BuffersKept DEF FrameInv
<1> QED
  BY <1>1, <1>2, <1>3, <1>4, <1>5 DEF FramesNext

(* The frames', fences' and owners' invariant holds.                        *)
THEOREM FramesInvariant == FramesSpec => []FrameInv
<1>1. FramesInit => FrameInv
  BY InitFrameInv
<1>2. FrameInv /\ [FramesNext]_allFrameVars => FrameInv'
  BY NextFrameInvariant
<1> QED
  BY <1>1, <1>2, PTL DEF FramesSpec

(* A frame's commands are not recorded again, nor its fence reset, before  *)
(* the GPU is done with it, and nobody waits for a fence in vain: the wait *)
(* of BeginFrame (vulkan_backend.cc) is enough, whatever fails.            *)
THEOREM Fences == FramesSpec => []FencesGuard
BY FramesInvariant, PTL DEF FrameInv

-----------------------------------------------------------------------------
(***************************************************************************)
(* What frames use is not collected                                        *)
(***************************************************************************)
LEMMA InitUseInv == FramesInit => UseInv
<1> SUFFICES ASSUME FramesInit PROVE UseInv
  OBVIOUS
<1>1. pc = "app" /\ drawn = {} /\ updates = {} /\ commands = [s \in Slots |-> Idle]
  BY DEF FramesInit, BackendInit
<1>2. \A s \in Slots : commands[s].stage = "idle"
  BY <1>1 DEF Idle
<1>3. \A s \in Slots, b \in VkBuffers : ~Uses(s, b)
  BY <1>2 DEF Uses, WritesOrDraws, Reads
<1> QED
  BY <1>1, <1>3 DEF UseInv, DrawnInv, GarbageInv, UsedInv

(* A step after which no frame uses more, or is to be done later.           *)
LEMMA UsesNoMore ==
  ASSUME FrameInv, UseInv, UNCHANGED <<pc, frameIndex, gcIndex, skips>>, stopped => stopped',
         pc \in {"app", "submit"} => \A c \in Collectors : c # gcIndex => garbage'[c] \subseteq garbage[c],
         pc = "submit" => garbage' = garbage,
         \A b \in VkBuffers : memory[b] # Destroyed => memory'[b] # Destroyed,
         \A s \in Slots, b \in VkBuffers :
           Uses(s, b)' => Uses(s, b) /\ (IsBefore(s) => IsBefore(s)')
  PROVE  GarbageInv' /\ UsedInv'
<1>1. gcIndex \in Collectors
  BY DEF FrameInv, FrameTypes
<1>2. UsedInv'
  BY DEF UseInv, UsedInv
<1>3. ASSUME ~stopped', pc' = "app", NEW s \in Slots, NEW b \in VkBuffers, s # frameIndex', Uses(s, b)'
      PROVE  \/ IsBefore(s)'
             \/ /\ b \notin garbage'[Next1(gcIndex)]
                /\ skips = 0 => b \notin garbage'[Next1(Next1(gcIndex))]
  <2>1. \/ IsBefore(s)
        \/ /\ b \notin garbage[Next1(gcIndex)]
           /\ skips = 0 => b \notin garbage[Next1(Next1(gcIndex))]
    BY <1>3 DEF UseInv, GarbageInv
  <2>2. /\ Next1(gcIndex) \in Collectors /\ Next1(gcIndex) # gcIndex
        /\ Next1(Next1(gcIndex)) \in Collectors /\ Next1(Next1(gcIndex)) # gcIndex
    BY <1>1, SlotFacts
  <2>3. pc = "app"
    BY <1>3
  <2> QED
    BY <1>3, <2>1, <2>2, <2>3
<1>4. ASSUME pc' = "submit", NEW b \in VkBuffers, Uses(frameIndex, b)',
             NEW c \in Collectors, b \in garbage'[c]
      PROVE  c = gcIndex'
  <2>1. pc = "submit" /\ garbage' = garbage /\ frameIndex' = frameIndex /\ frameIndex \in Slots
    BY <1>4 DEF FrameInv, FrameTypes
  <2>2. Uses(frameIndex, b)
    BY <1>4, <2>1
  <2> QED
    BY <1>4, <2>1, <2>2 DEF UseInv, GarbageInv
<1>5. Next1(gcIndex)' = Next1(gcIndex)
  BY DEF Next1
<1>6. GarbageInv'
  BY <1>3, <1>4 DEF GarbageInv, Next1
<1> QED
  BY <1>2, <1>6

LEMMA EditsUseInv ==
  ASSUME FrameInv, UseInv, ~stopped, NEW r \in RenderBuffers, NEW new, Edits(r, new)
  PROVE  UseInv'
<1>1. PICK gone \in SUBSET VkBuffers : Changes(r, new, gone)
  BY DEF Edits
<1>2. /\ pc \in {"app", "frame"} /\ (pc = "frame" /\ new = NoBuffer => r \notin drawn)
      /\ UNCHANGED <<pc, frameIndex, gcIndex, drawn, updates, queue, commands, skips>>
      /\ buffers' = [buffers EXCEPT ![r] = new]
      /\ garbage' = [garbage EXCEPT ![gcIndex] = @ \cup gone]
      /\ \A b \in VkBuffers : memory[b] # Destroyed => memory'[b] # Destroyed
  BY <1>1 DEF Changes, Edits
<1>3. DrawnInv'
  <2>1. /\ \A q \in drawn : q \in RenderBuffers /\ buffers[q] # NoBuffer
        /\ pc = "app" => drawn = {}
        /\ updates = {}
    BY <1>2 DEF UseInv, DrawnInv, Exists, FrameInv, FrameTypes
  <2>2. \A q \in RenderBuffers : buffers'[q] = IF q = r THEN new ELSE buffers[q]
    BY <1>2 DEF FrameInv, BufferTypes
  <2>3. \A q \in drawn : buffers'[q] # NoBuffer
    BY <1>2, <2>1, <2>2
  <2> QED
    BY <1>2, <2>1, <2>3 DEF DrawnInv, Exists
<1>4. \A c \in Collectors : c # gcIndex => garbage'[c] = garbage[c]
  BY <1>2 DEF FrameInv, FrameTypes
<1>5. \A s \in Slots, b \in VkBuffers :
        /\ Uses(s, b)' <=> Uses(s, b)
        /\ IsBefore(s) => IsBefore(s)'
  BY <1>2 DEF Uses, WritesOrDraws, Reads, IsBefore
<1> QED
  BY <1>2, <1>3, <1>4, <1>5, UsesNoMore DEF UseInv

(* The frame that BeginFrame waited for is done, and so are those before it.*)
LEMMA FenceSignaled ==
  ASSUME FrameInv, pc = "app", fence[frameIndex]
  PROVE  /\ \A b \in VkBuffers : ~Uses(frameIndex, b)
         /\ \A s \in Slots : ~IsBefore(s)
<1>1. commands[frameIndex].stage = "idle" /\ frameIndex \in Slots
  BY DEF FrameInv, FrameTypes, StageInv, FencesGuard
<1>2. \A i \in DOMAIN queue : queue[i] # frameIndex
  BY <1>1 DEF FrameInv, StageInv
<1> QED
  BY <1>1, <1>2 DEF Uses, WritesOrDraws, Reads, IsBefore

LEMMA NextFrameUseInv ==
  ASSUME FrameInv, UseInv, ~stopped, NextFrame, UNCHANGED bufferVars,
         \/ pc' \in {"frame", "recreate"}
         \/ pc' = "app" /\ skips' = 1 /\ (skips = 1 => stopped')
  PROVE  UseInv'
<1>1. /\ pc = "app" /\ fence[frameIndex]
      /\ gcIndex' = Next1(gcIndex) /\ Collect({gcIndex'})
      /\ UNCHANGED <<frameIndex, drawn, updates, fence, queue, commands, buffers>>
  BY DEF NextFrame, Next1, stateVars, gpuVars, bufferVars
<1>2. gcIndex \in Collectors /\ gcIndex' \in Collectors /\ skips \in {0, 1}
  BY <1>1, SlotFacts DEF FrameInv, FrameTypes
<1>3. /\ \A b \in VkBuffers : b \notin garbage[gcIndex'] => memory'[b] = memory[b]
      /\ \A c \in Collectors : garbage'[c] = IF c = gcIndex' THEN {} ELSE garbage[c]
  <2> DEFINE C == {gcIndex'}
  <2>1. C \in SUBSET Collectors /\ Collect(C) /\ UNCHANGED buffers
    BY <1>1, <1>2
  <2>2. \A c : c \in C <=> c = gcIndex'
    OBVIOUS
  <2> HIDE DEF C
  <2>3. /\ \A b \in VkBuffers : (\A c \in C : b \notin garbage[c]) => memory'[b] = memory[b]
        /\ \A c \in Collectors : garbage'[c] = IF c \in C THEN {} ELSE garbage[c]
    BY <2>1, Collected
  <2> QED
    BY <2>2, <2>3
<1>4. DrawnInv'
  <2>1. drawn = {} /\ updates = {}
    BY <1>1 DEF UseInv, DrawnInv
  <2> QED
    BY <1>1, <2>1 DEF DrawnInv
<1>5. \A s \in Slots, b \in VkBuffers : Uses(s, b)' <=> Uses(s, b)
  BY <1>1 DEF Uses, WritesOrDraws, Reads
<1>6. ASSUME NEW s \in Slots, NEW b \in VkBuffers, Uses(s, b)
      PROVE  /\ b \notin garbage[Next1(gcIndex)]
             /\ skips = 0 => b \notin garbage[Next1(Next1(gcIndex))]
  BY <1>1, <1>6, FenceSignaled DEF UseInv, GarbageInv
<1>7. UsedInv'
  BY <1>1, <1>3, <1>5, <1>6 DEF UseInv, UsedInv
<1>8. ASSUME ~stopped', pc' = "app", NEW s \in Slots, NEW b \in VkBuffers, Uses(s, b)'
      PROVE  skips' # 0 /\ b \notin garbage'[Next1(gcIndex')]
  <2>1. Next1(gcIndex') \in Collectors /\ gcIndex' = Next1(gcIndex)
    BY <1>1, <1>2, SlotFacts
  <2> QED
    BY <1>2, <1>3, <1>5, <1>6, <1>8, <2>1
<1>9. GarbageInv'
  <2>1. pc' # "submit"
    OBVIOUS
  <2>2. Next1(gcIndex)' = Next1(gcIndex')
    BY DEF Next1
  <2> QED
    BY <1>8, <2>1, <2>2 DEF GarbageInv
<1> QED
  BY <1>4, <1>7, <1>9 DEF UseInv

LEMMA RecreateSwapUseInv ==
  ASSUME FrameInv, UseInv, ~stopped, RecreateSwap, UNCHANGED bufferVars
  PROVE  UseInv'
<1>1. /\ pc = "recreate" /\ pc' \in {"frame", "app"} /\ queue = <<>>
      /\ UNCHANGED <<frameIndex, drawn, updates, fence, queue, commands, buffers>>
  BY DEF RecreateSwap, stateVars, gpuVars, bufferVars
<1>2. \A s \in Slots : commands[s].stage = "idle"
  BY <1>1 DEF FrameInv, FrameTypes, StageInv, FencesGuard
<1>3. \A s \in Slots, b \in VkBuffers : ~Uses(s, b)'
  BY <1>1, <1>2 DEF Uses, WritesOrDraws, Reads
<1>4. GarbageInv' /\ UsedInv'
  BY <1>1, <1>3 DEF GarbageInv, UsedInv
<1>5. drawn = {} /\ updates = {}
  BY <1>1 DEF UseInv, DrawnInv
<1>6. DrawnInv'
  BY <1>1, <1>5 DEF DrawnInv
<1> QED
  BY <1>4, <1>6 DEF UseInv

(* A frame that is submitted uses what it was recorded with.                *)
LEMMA SubmittedUses ==
  ASSUME FrameInv, Submit
  PROVE  /\ \A s \in Slots, b \in VkBuffers : Uses(s, b)' <=> Uses(s, b)
         /\ \A s \in Slots, b \in VkBuffers : WritesOrDraws(s, b)' <=> WritesOrDraws(s, b)
         /\ frameIndex' = frameIndex =>
              \A s \in Slots, b \in VkBuffers : s # frameIndex /\ Uses(s, b) => IsBefore(s)'
<1>1. /\ frameIndex \in Slots /\ commands[frameIndex].stage = "recorded"
      /\ commands'[frameIndex].stage = "queued"
      /\ commands'[frameIndex].copies = commands[frameIndex].copies
      /\ commands'[frameIndex].draws = commands[frameIndex].draws
      /\ \A s \in Slots : s # frameIndex => commands'[s] = commands[s]
  BY Submitted
<1>2. \A s \in Slots, b \in VkBuffers : Uses(s, b)' <=> Uses(s, b)
  BY <1>1 DEF Uses, WritesOrDraws, Reads
<1>3. \A s \in Slots, b \in VkBuffers : WritesOrDraws(s, b)' <=> WritesOrDraws(s, b)
  BY <1>1 DEF WritesOrDraws
<1>4. ASSUME frameIndex' = frameIndex, NEW s \in Slots, NEW b \in VkBuffers, s # frameIndex,
             Uses(s, b)
      PROVE  IsBefore(s)'
  <2>1. commands[s].stage \notin {"idle", "recorded"}
    <3>1. commands[s].stage # "idle"
      BY <1>4 DEF Uses, WritesOrDraws, Reads
    <3>2. commands[s].stage # "recorded"
      BY <1>4 DEF FrameInv, StageInv
    <3> QED
      BY <3>1, <3>2
  <2>2. PICK i \in DOMAIN queue : queue[i] = s
    BY <2>1 DEF FrameInv, FencesGuard
  <2> DEFINE last == Len(queue) + 1
  <2>3. /\ i \in DOMAIN queue' /\ last \in DOMAIN queue' /\ i < last
        /\ queue'[i] = s /\ queue'[last] = frameIndex
    BY <2>2, Submitted
  <2> HIDE DEF last
  <2> QED
    BY <1>4, <2>3 DEF IsBefore
<1> QED
  BY <1>2, <1>3, <1>4

LEMMA PresentUseInv ==
  ASSUME FrameInv, UseInv, ~stopped, Present, UNCHANGED bufferVars
  PROVE  UseInv'
<1>1. /\ Submit /\ drawn' = {} /\ updates' = {}
      /\ frameIndex' = (frameIndex + 1) % kMaxFramesInFlight /\ stopped' = stopped
  BY DEF Present
<1>2. frameIndex \in Slots /\ frameIndex' \in Slots /\ frameIndex' # frameIndex
      /\ gcIndex \in Collectors
  BY <1>1, FrameIndices DEF FrameInv, FrameTypes
<1>3. pc = "submit" /\ pc' = "app" /\ UNCHANGED <<gcIndex, garbage, memory>>
  BY <1>1, Submitted
<1>4. DrawnInv'
  BY <1>1 DEF DrawnInv
<1>5. UsedInv'
  BY <1>1, <1>3, SubmittedUses DEF UseInv, UsedInv
<1>6. ASSUME NEW s \in Slots, NEW b \in VkBuffers, s # frameIndex', Uses(s, b)'
      PROVE  b \notin garbage'[Next1(gcIndex)] /\ b \notin garbage'[Next1(Next1(gcIndex))]
  <2>1. s = frameIndex
    BY <1>2, <1>6, SlotFacts
  <2>2. Uses(frameIndex, b)
    BY <1>1, <1>6, <2>1, SubmittedUses
  <2>3. \A c \in Collectors : b \in garbage[c] => c = gcIndex
    BY <1>3, <2>2 DEF UseInv, GarbageInv
  <2> QED
    BY <1>2, <1>3, <2>3, SlotFacts
<1>7. GarbageInv'
  <2>1. Next1(gcIndex)' = Next1(gcIndex) /\ Next1(Next1(gcIndex))' = Next1(Next1(gcIndex))
    BY <1>3 DEF Next1
  <2> QED
    BY <1>3, <1>6, <2>1 DEF GarbageInv
<1> QED
  BY <1>4, <1>5, <1>7 DEF UseInv

LEMMA PresentFailsUseInv ==
  ASSUME NoFrameLost, FrameInv, UseInv, ~stopped, PresentFails, UNCHANGED bufferVars
  PROVE  UseInv'
<1>1. /\ Submit /\ UNCHANGED <<frameIndex, drawn, updates, buffers>>
      /\ ~stopped' => drawn = {}
  BY DEF PresentFails, Mishap, NoFrameLost, stateVars, bufferVars
<1>2. pc = "submit" /\ pc' = "app" /\ UNCHANGED <<gcIndex, garbage, memory>>
  BY <1>1, Submitted
<1>3. DrawnInv'
  <2>1. (\A r \in drawn : Exists(r)) /\ (drawn = {} => updates = {})
    BY DEF UseInv, DrawnInv
  <2> QED
    BY <1>1, <2>1 DEF DrawnInv, Exists
<1>4. UsedInv'
  BY <1>1, <1>2, SubmittedUses DEF UseInv, UsedInv
<1>5. \A s \in Slots, b \in VkBuffers : s # frameIndex' /\ Uses(s, b)' => IsBefore(s)'
  BY <1>1, SubmittedUses
<1>6. GarbageInv'
  BY <1>2, <1>5 DEF GarbageInv
<1> QED
  BY <1>3, <1>4, <1>6 DEF UseInv

LEMMA EndFrameUseInv ==
  ASSUME FrameInv, UseInv, ~stopped, NEW mapped \in BOOLEAN, EndFrame(mapped)
  PROVE  UseInv'
<1>1. PICK gone \in SUBSET VkBuffers :
        /\ garbage' = [garbage EXCEPT ![gcIndex] = @ \cup gone]
        /\ \A b \in gone : \E r \in RenderedNow :
             b \in Handles(buffers[r]) /\ b \notin Handles(buffers'[r])
  BY EndedFacts
<1>2. /\ pc = "frame" /\ pc' = "submit" /\ frameIndex \in Slots
      /\ UNCHANGED <<frameIndex, gcIndex, drawn>>
      /\ \A t \in Slots : t # frameIndex => commands'[t] = commands[t]
      /\ commands'[frameIndex].copies = updates'
  BY RecordedFacts DEF FrameInv, FrameTypes
<1>3. /\ updates = {}
      /\ \A r \in drawn : r \in RenderBuffers /\ Exists(r)
  BY <1>2 DEF UseInv, DrawnInv, FrameInv, FrameTypes
<1>4. \A u \in updates' : \E r \in RenderedNow : u \in Copies(buffers[r])
  BY <1>3, RecordedFacts
<1>5. \A r \in RenderedNow :
        /\ r \in RenderBuffers /\ buffers[r] \in BufferObjects /\ IsSound(buffers[r])
        /\ buffers'[r] \in BufferObjects
  <2> SUFFICES ASSUME NEW r \in RenderedNow
               PROVE  /\ r \in RenderBuffers /\ buffers[r] \in BufferObjects
                      /\ IsSound(buffers[r]) /\ buffers'[r] \in BufferObjects
    OBVIOUS
  <2> DEFINE b == buffers[r]
  <2>1. r \in RenderBuffers /\ Exists(r)
    BY <1>3 DEF RenderedNow
  <2>2. b \in BufferObjects /\ IsSound(b) /\ buffers'[r] = Bound(Rendered(b, mapped))
    BY <2>1, Existing, EndedFacts
  <2> HIDE DEF b
  <2>3. buffers'[r] \in BufferObjects
    BY <2>2, RenderedFacts
  <2> QED
    BY <2>1, <2>2, <2>3 DEF b
<1>6. DrawnInv'
  <2>1. \A r \in drawn : buffers'[r] # NoBuffer
    BY <1>3, <1>5, ConstantFacts DEF RenderedNow
  <2>2. drawn = {} => updates' = {}
    BY <1>4 DEF RenderedNow
  <2> QED
    BY <1>2, <2>1, <2>2 DEF DrawnInv, Exists
<1>7. ASSUME NEW u \in updates'
      PROVE  \E r \in RenderedNow : u[1] \in Handles(buffers[r]) /\ u[2] \in Handles(buffers[r])
  <2>1. PICK r \in RenderedNow : u \in Copies(buffers[r])
    BY <1>4, <1>7
  <2>2. /\ buffers[r].kind # "kPerFrame" /\ buffers[r].dirty # {}
        /\ u = <<buffers[r].host, buffers[r].device[frameIndex]>>
    BY <2>1 DEF Copies
  <2>3. buffers[r].host \in VkBuffers
    BY <1>5, <2>2, ObjectFields DEF IsSound, Kinds
  <2> QED
    BY <1>2, <1>5, <2>2, <2>3, HandleFacts
<1>8. \A d \in commands'[frameIndex].draws : \E r \in RenderedNow : d[1] \in Handles(buffers[r])
  BY <1>2, <1>5, RecordedFacts, HandleFacts
<1>9. ASSUME NEW b \in VkBuffers, Uses(frameIndex, b)'
      PROVE  \E r \in RenderedNow : b \in Handles(buffers[r])
  BY <1>2, <1>7, <1>8, <1>9 DEF Uses, WritesOrDraws, Reads
<1>10. UsedInv'
  <2> SUFFICES ASSUME NEW s \in Slots, NEW b \in VkBuffers, Uses(s, b)'
               PROVE  memory'[b] # Destroyed
    BY DEF UsedInv
  <2>1. memory[b] # Destroyed
    <3>1. CASE s = frameIndex
      <4>1. Uses(frameIndex, b)'
        BY <1>2, <3>1 DEF Uses, WritesOrDraws, Reads
      <4> QED
        BY <1>5, <1>9, <4>1 DEF FrameInv, OwnedInv
    <3>2. CASE s # frameIndex
      <4>1. Uses(s, b)
        BY <1>2, <3>2 DEF Uses, WritesOrDraws, Reads
      <4> QED
        BY <4>1 DEF UseInv, UsedInv
    <3> QED
      BY <3>1, <3>2
  <2> QED
    BY <2>1, EndedFacts
<1>11. GarbageInv'
  <2>1. ASSUME NEW b \in VkBuffers, Uses(frameIndex, b)', NEW c \in Collectors, b \in garbage'[c]
        PROVE  c = gcIndex
    <3>1. b \notin garbage[c]
      BY <1>5, <1>9, <2>1 DEF FrameInv, OwnedInv
    <3> QED
      BY <1>1, <2>1, <3>1 DEF FrameInv, FrameTypes
  <2> QED
    BY <1>2, <2>1 DEF GarbageInv
<1> QED
  BY <1>6, <1>10, <1>11 DEF UseInv

(* A frame that is to be done before another still is, or is done.          *)
LEMMA StillBefore ==
  ASSUME FrameInv, GpuFinish, NEW t \in Slots, t # queue[1], IsBefore(t)
  PROVE  IsBefore(t)'
<1>1. /\ 1 \in DOMAIN queue /\ frameIndex' = frameIndex
      /\ \A i \in DOMAIN queue' : queue'[i] = queue[i + 1] /\ i \in Nat /\ i >= 1
      /\ \A i \in DOMAIN queue : i \in Nat /\ (i # 1 => \E j \in DOMAIN queue' : i = j + 1)
  BY Finished
<1>2. PICK i, j \in DOMAIN queue : i < j /\ queue[i] = t /\ queue[j] = frameIndex
  BY DEF IsBefore
<1>3. i # 1
  BY <1>2
<1>4. PICK k \in DOMAIN queue' : i = k + 1
  BY <1>1, <1>3
<1>5. j # 1
  BY <1>1, <1>2, <1>4
<1>6. PICK l \in DOMAIN queue' : j = l + 1
  BY <1>1, <1>5
<1>7. k < l /\ queue'[k] = t /\ queue'[l] = frameIndex
  BY <1>1, <1>2, <1>4, <1>6
<1> QED
  BY <1>1, <1>7 DEF IsBefore

LEMMA GpuFinishUseInv ==
  ASSUME FrameInv, UseInv, ~stopped, GpuFinish, UNCHANGED bufferVars
  PROVE  UseInv'
<1>1. PICK s \in Slots :
        /\ s = queue[1] /\ commands' = [commands EXCEPT ![s] = Idle]
        /\ UNCHANGED <<pc, frameIndex, frameCounter, gcIndex, garbage, drawn, updates,
                       memory, skips, stopped>>
  BY Finished
<1>2. commands'[s].stage = "idle" /\ \A t \in Slots : t # s => commands'[t] = commands[t]
  BY <1>1 DEF FrameInv, FrameTypes, Idle
<1>3. ASSUME NEW t \in Slots, NEW b \in VkBuffers, Uses(t, b)'
      PROVE  Uses(t, b) /\ t # s
  <2>1. t # s
    BY <1>2, <1>3 DEF Uses, WritesOrDraws, Reads
  <2> QED
    BY <1>2, <1>3, <2>1 DEF Uses, WritesOrDraws, Reads
<1>4. \A t \in Slots : t # s /\ IsBefore(t) => IsBefore(t)'
  BY <1>1, StillBefore
<1>5. GarbageInv' /\ UsedInv'
  <2>1. \A t \in Slots, b \in VkBuffers :
          Uses(t, b)' => Uses(t, b) /\ (IsBefore(t) => IsBefore(t)')
    BY <1>3, <1>4
  <2>2. UNCHANGED <<pc, frameIndex, gcIndex, skips, garbage, memory, stopped>>
    BY <1>1
  <2> QED
    BY <2>1, <2>2, UsesNoMore
<1>6. DrawnInv'
  BY <1>1 DEF UseInv, DrawnInv, Exists, bufferVars
<1> QED
  BY <1>5, <1>6 DEF UseInv

LEMMA GpuCopyUseInv ==
  ASSUME FrameInv, UseInv, NEW s \in Slots, GpuCopy(s), UNCHANGED bufferVars
  PROVE  UseInv'
<1>1. /\ UNCHANGED <<pc, frameIndex, frameCounter, gcIndex, garbage, drawn, updates,
                     fence, queue, skips, stopped>>
      /\ \A b \in VkBuffers : memory[b] # Destroyed => memory'[b] # Destroyed
  BY CopiedFacts
<1>2. \A t \in Slots, b \in VkBuffers : Uses(t, b)' => Uses(t, b)
  <2> SUFFICES ASSUME NEW t \in Slots, NEW b \in VkBuffers, Uses(t, b)' PROVE Uses(t, b)
    OBVIOUS
  <2>1. CASE t = s
    BY <2>1, CopiedFacts DEF Uses, WritesOrDraws, Reads
  <2>2. CASE t # s
    BY <2>2, CopiedFacts DEF Uses, WritesOrDraws, Reads
  <2> QED
    BY <2>1, <2>2
<1>3. \A t \in Slots : IsBefore(t) => IsBefore(t)'
  BY <1>1 DEF IsBefore
<1>4. GarbageInv' /\ UsedInv'
  BY <1>1, <1>2, <1>3, UsesNoMore
<1>5. DrawnInv'
  BY <1>1 DEF UseInv, DrawnInv, Exists, bufferVars
<1> QED
  BY <1>4, <1>5 DEF UseInv

LEMMA NextUseInv ==
  ASSUME NoFrameLost, FrameInv, UseInv, [FramesNext]_allFrameVars
  PROVE  UseInv'
<1>1. ASSUME ~stopped, BackendNext, UNCHANGED bufferVars PROVE UseInv'
  <2>1. CASE ResizeWindow
    <3>1. /\ UNCHANGED <<pc, frameIndex, gcIndex, garbage, drawn, updates, queue, commands,
                         memory, skips, stopped, buffers>>
      BY <1>1, <2>1 DEF ResizeWindow, gcVars, stateVars, gpuVars, logVars, bufferVars
    <3>2. \A s \in Slots, b \in VkBuffers :
            /\ Uses(s, b)' <=> Uses(s, b)
            /\ IsBefore(s) => IsBefore(s)'
      BY <3>1 DEF Uses, WritesOrDraws, Reads, IsBefore
    <3>3. GarbageInv' /\ UsedInv'
      BY <3>1, <3>2, UsesNoMore
    <3> QED
      BY <3>1, <3>3 DEF UseInv, DrawnInv, Exists
  <2>2. CASE BeginFrame
    BY <1>1, <2>2, NextFrameUseInv DEF BeginFrame
  <2>3. CASE BeginFrameFails
    <3>1. NextFrame /\ pc' = "app" /\ skips' = 1 /\ (skips = 1 => stopped')
      BY <2>3 DEF BeginFrameFails, NextFrame, Mishap, NoFrameLost
    <3> QED
      BY <1>1, <3>1, NextFrameUseInv
  <2>4. CASE BeginFrameRecreates
    BY <1>1, <2>4, NextFrameUseInv DEF BeginFrameRecreates
  <2>5. CASE RecreateSwap
    BY <1>1, <2>5, RecreateSwapUseInv
  <2>6. CASE Present
    BY <1>1, <2>6, PresentUseInv
  <2>7. CASE PresentFails
    BY <1>1, <2>7, PresentFailsUseInv
  <2>8. CASE GpuFinish
    BY <1>1, <2>8, GpuFinishUseInv
  <2>9. ASSUME NEW s \in Slots, GpuCopy(s) PROVE UseInv'
    BY <1>1, <2>9, GpuCopyUseInv
  <2> QED
    BY <1>1, <2>1, <2>2, <2>3, <2>4, <2>5, <2>6, <2>7, <2>8, <2>9 DEF BackendNext
<1>2. ASSUME ~stopped, BufferNext PROVE UseInv'
  BY <1>2, BufferEdits, EditsUseInv
<1>3. ASSUME NEW r \in RenderBuffers, Draw(r), ~stopped PROVE UseInv'
  <2>1. /\ pc = "frame" /\ Exists(r) /\ drawn' = drawn \cup {r}
        /\ UNCHANGED <<pc, frameIndex, gcIndex, garbage, updates, queue, commands, memory,
                       skips, stopped, buffers>>
    BY <1>3 DEF Draw, frameVars, gcVars, gpuVars, logVars, bufferVars
  <2>2. \A s \in Slots, b \in VkBuffers :
          /\ Uses(s, b)' <=> Uses(s, b)
          /\ IsBefore(s) => IsBefore(s)'
    BY <2>1 DEF Uses, WritesOrDraws, Reads, IsBefore
  <2>3. GarbageInv' /\ UsedInv'
    BY <2>1, <2>2, UsesNoMore
  <2>4. DrawnInv'
    BY <1>3, <2>1 DEF UseInv, DrawnInv, Exists
  <2> QED
    BY <2>3, <2>4 DEF UseInv
<1>4. ASSUME NEW mapped \in BOOLEAN, EndFrame(mapped), ~stopped PROVE UseInv'
  BY <1>4, EndFrameUseInv
<1>5. CASE UNCHANGED allFrameVars
  <2>1. UNCHANGED <<pc, frameIndex, gcIndex, garbage, drawn, updates, queue, commands, memory,
                    skips, stopped, buffers>>
    BY <1>5 DEF allFrameVars, frameVars, gcVars, stateVars, gpuVars, logVars, bufferVars
  <2>2. \A s \in Slots, b \in VkBuffers :
          /\ Uses(s, b)' <=> Uses(s, b)
          /\ IsBefore(s) => IsBefore(s)'
    BY <2>1 DEF Uses, WritesOrDraws, Reads, IsBefore
  <2>3. GarbageInv' /\ UsedInv'
    BY <2>1, <2>2, UsesNoMore
  <2> QED
    BY <2>1, <2>3 DEF UseInv, DrawnInv, Exists
<1> QED
  BY <1>1, <1>2, <1>3, <1>4, <1>5 DEF FramesNext

LEMMA UseImpliesUsedExist ==
  ASSUME FrameInv, UseInv
  PROVE  UsedExist
<1>1. \A r \in drawn : Exists(r)
  BY DEF UseInv, DrawnInv
<1>2. ASSUME NEW s \in Slots, commands[s].stage # "idle"
      PROVE  /\ \A u \in commands[s].copies :
                  memory[u[2]] # Destroyed
                  /\ (commands[s].stage # "drawing" => memory[u[1]] # Destroyed)
             /\ \A d \in commands[s].draws : memory[d[1]] # Destroyed
  <2>1. /\ commands[s].stage \in {"idle", "recorded", "queued", "drawing"}
        /\ commands[s].copies \subseteq Copied
        /\ commands[s].draws \subseteq VkBuffers \X Int
    BY DEF FrameInv, FrameTypes, Commands
  <2>2. /\ \A u \in commands[s].copies : u[1] \in VkBuffers /\ u[2] \in VkBuffers
        /\ \A d \in commands[s].draws : d[1] \in VkBuffers
    BY <2>1 DEF Copied
  <2>3. \A b \in VkBuffers : WritesOrDraws(s, b) => memory[b] # Destroyed
    BY DEF UseInv, UsedInv, Uses
  <2>4. \A b \in VkBuffers : Reads(s, b) => memory[b] # Destroyed
    BY DEF UseInv, UsedInv, Uses
  <2> QED
    BY <1>2, <2>1, <2>2, <2>3, <2>4 DEF WritesOrDraws, Reads
<1> QED
  BY <1>1, <1>2 DEF UsedExist

(* If no two BeginFrames in a row fail, and every frame with something to   *)
(* draw is presented, the collectors (render_garbage_collector.cc) destroy *)
(* nothing that a frame in flight, or the one being recorded, still uses.  *)
THEOREM Used == NoFrameLost => (FramesSpec => []UsedExist)
<1> SUFFICES ASSUME NoFrameLost PROVE FramesSpec => []UsedExist
  OBVIOUS
<1>1. FramesInit => UseInv
  BY InitUseInv
<1>2. FrameInv /\ UseInv /\ [FramesNext]_allFrameVars => UseInv'
  BY NextUseInv
<1>3. FrameInv /\ UseInv => UsedExist
  BY UseImpliesUsedExist
<1> QED
  BY <1>1, <1>2, <1>3, FramesInvariant, PTL DEF FramesSpec

-----------------------------------------------------------------------------
(***************************************************************************)
(* What frames copy to is not in flight                                    *)
(***************************************************************************)
LEMMA InitCopyInv == FramesInit => CopyInv
<1> SUFFICES ASSUME FramesInit PROVE CopyInv
  OBVIOUS
<1>1. /\ pc = "app" /\ queue = <<>> /\ commands = [s \in Slots |-> Idle]
      /\ buffers = [r \in RenderBuffers |-> NoBuffer]
  BY DEF FramesInit, BackendInit, BufferInit
<1> QED
  BY <1>1 DEF CopyInv, RenderedInv, ApartInv, CopiesApart, IsStatic, Exists

(* A step after which no frame uses more, or is to be done later.           *)
LEMMA CopiesNoMore ==
  ASSUME FrameInv, CopyInv, UNCHANGED <<pc, frameIndex, frameCounter, buffers>>,
         stopped => stopped',
         commands'[frameIndex].copies = commands[frameIndex].copies \/ pc # "submit",
         \A s \in Slots, b \in VkBuffers :
           WritesOrDraws(s, b)' => WritesOrDraws(s, b) /\ (IsBefore(s) => IsBefore(s)')
  PROVE  RenderedInv' /\ ApartInv'
<1>1. \A r \in RenderBuffers : Exists(r) => buffers[r].device[0] \in VkBuffers
  BY Existing, SlotFacts
<1>2. ASSUME ~stopped', NEW r \in RenderBuffers, NEW s \in Slots, IsStatic(r)',
             WritesOrDraws(s, buffers[r].device[0])'
      PROVE  LastRendered(r, s)'
  <2>1. IsStatic(r) /\ ~stopped
    BY <1>2 DEF IsStatic, Exists
  <2>2. PICK b \in VkBuffers : b = buffers[r].device[0]
    BY <1>1, <2>1 DEF IsStatic
  <2>3. WritesOrDraws(s, b)'
    BY <1>2, <2>2
  <2>4. WritesOrDraws(s, b) /\ (IsBefore(s) => IsBefore(s)')
    BY <2>3
  <2>5. LastRendered(r, s)
    BY <2>1, <2>2, <2>4 DEF CopyInv, RenderedInv
  <2> QED
    BY <2>4, <2>5 DEF LastRendered
<1>3. RenderedInv'
  BY <1>2 DEF RenderedInv
<1>4. ApartInv'
  <2> SUFFICES ASSUME pc' = "submit", NEW u \in commands'[frameIndex].copies, NEW s \in Slots,
                      s # frameIndex
               PROVE  ~WritesOrDraws(s, u[2])'
    BY DEF ApartInv
  <2>1. u \in commands[frameIndex].copies /\ pc = "submit"
    OBVIOUS
  <2>2. u[2] \in VkBuffers
    BY <2>1 DEF FrameInv, FrameTypes, Commands, Copied
  <2>3. ~WritesOrDraws(s, u[2])
    BY <2>1 DEF CopyInv, ApartInv
  <2> QED
    BY <2>2, <2>3
<1> QED
  BY <1>3, <1>4

LEMMA EditsCopyInv ==
  ASSUME FrameInv, UseInv, CopyInv, ~stopped, NEW r \in RenderBuffers, NEW new, Edits(r, new)
  PROVE  CopyInv'
<1>1. PICK gone \in SUBSET VkBuffers : Changes(r, new, gone)
  BY DEF Edits
<1>2. /\ pc \in {"app", "frame"} /\ frameIndex \in Slots
      /\ UNCHANGED <<pc, frameIndex, frameCounter, queue, commands>>
      /\ buffers' = [buffers EXCEPT ![r] = new]
      /\ new = NoBuffer \/ new \in BufferObjects
  BY <1>1 DEF Changes, Edits, FrameInv, FrameTypes
<1>3. \A q \in RenderBuffers : buffers'[q] = IF q = r THEN new ELSE buffers[q]
  BY <1>2 DEF FrameInv, BufferTypes
<1>4. CopiesApart' /\ ApartInv'
  BY <1>2 DEF CopyInv, CopiesApart, ApartInv
<1>5. \A s \in Slots : IsBefore(s)' <=> IsBefore(s)
  BY <1>2 DEF IsBefore
<1>6. \A s \in Slots : \A b : WritesOrDraws(s, b)' <=> WritesOrDraws(s, b)
  BY <1>2 DEF WritesOrDraws
<1>7. ASSUME NEW q \in RenderBuffers, NEW s \in Slots, IsStatic(q)',
             WritesOrDraws(s, buffers[q].device[0])'
      PROVE  LastRendered(q, s)'
  <2>1. CASE q # r
    <3>1. buffers'[q] = buffers[q] /\ IsStatic(q)
      BY <1>3, <1>7, <2>1 DEF IsStatic, Exists
    <3>2. WritesOrDraws(s, buffers[q].device[0])
      BY <1>2, <1>7, <3>1 DEF WritesOrDraws
    <3>3. LastRendered(q, s)
      BY <3>1, <3>2 DEF CopyInv, RenderedInv
    <3> QED
      BY <1>2, <1>5, <3>1, <3>3 DEF LastRendered
  <2>2. CASE q = r
    <3>1. buffers'[q] = new /\ new # NoBuffer /\ new.kind # "kPerFrame" /\ new \in BufferObjects
      BY <1>2, <1>3, <1>7, <2>2 DEF IsStatic, Exists
    <3>2. PICK b \in VkBuffers : b = new.device[0]
      BY <3>1, ObjectFields, SlotFacts
    <3>3. WritesOrDraws(s, b)
      BY <1>2, <1>7, <3>1, <3>2 DEF WritesOrDraws
    <3>4. memory[b] # Destroyed
      BY <3>3 DEF UseInv, UsedInv, Uses
    <3>5. Exists(r) /\ buffers[r].kind = new.kind /\ KeepsOrReplaces(buffers[r], new)
      BY <3>1, <3>2, <3>4 DEF Edits
    <3>6. /\ new.device[0] = buffers[r].device[0] /\ new.renderFrame = buffers[r].renderFrame
          /\ Awaits(new) => Awaits(buffers[r]) \/ ~FrameInUse(buffers[r].renderFrame)
      BY <3>2, <3>4, <3>5 DEF KeepsOrReplaces
    <3>7. LastRendered(r, s)
      <4>1. IsStatic(r) /\ WritesOrDraws(s, buffers[r].device[0])
        BY <3>1, <3>2, <3>3, <3>5, <3>6 DEF IsStatic
      <4> QED
        BY <4>1 DEF CopyInv, RenderedInv
    <3>8. pc = "frame" => s # frameIndex /\ ~IsBefore(s)
      <4> SUFFICES ASSUME pc = "frame" PROVE s # frameIndex /\ ~IsBefore(s)
        OBVIOUS
      <4>1. commands[frameIndex].stage = "idle"
        BY <1>2 DEF FrameInv, FrameTypes, StageInv, FencesGuard
      <4>2. \A i \in DOMAIN queue : queue[i] # frameIndex
        BY <4>1 DEF FrameInv, StageInv
      <4> QED
        BY <3>3, <4>1, <4>2 DEF IsBefore, WritesOrDraws
    <3>9. ASSUME Awaits(new) PROVE pc = "app" /\ (s = frameIndex \/ IsBefore(s))
      <4>1. CASE Awaits(buffers[r])
        BY <1>2, <3>7, <3>8, <4>1 DEF LastRendered
      <4>2. CASE ~FrameInUse(buffers[r].renderFrame)
        <5>1. s # frameIndex => IsBefore(s)
          <6>1. buffers[r].renderFrame \in Int /\ frameCounter \in Nat
            BY <3>5, Existing, ObjectFields DEF FrameInv, FrameTypes
          <6> QED
            BY <3>7, <4>2, <6>1 DEF LastRendered, FrameInUse
        <5> QED
          BY <1>2, <3>8, <5>1
      <4> QED
        BY <3>6, <3>9, <4>1, <4>2
    <3>10. pc' # "submit"
      BY <1>2
    <3>11. s # frameIndex => IsBefore(s) \/ new.renderFrame >= frameCounter - 1
      BY <3>6, <3>7 DEF LastRendered
    <3>12. Awaits(buffers'[q]) => pc' \in {"app", "recreate"} /\ (s = frameIndex \/ IsBefore(s))
      BY <1>2, <3>1, <3>9
    <3> QED
      BY <1>2, <1>5, <2>2, <3>1, <3>10, <3>11, <3>12 DEF LastRendered
  <2> QED
    BY <2>1, <2>2
<1>8. RenderedInv'
  BY <1>7 DEF RenderedInv
<1> QED
  BY <1>4, <1>8 DEF CopyInv

(* A step that leaves the commands alone, after which what is to be copied  *)
(* to is not used.                                                         *)
LEMMA BeginCopyInv ==
  ASSUME FrameInv, CopyInv, ~stopped, UNCHANGED <<frameIndex, frameCounter, queue, commands, buffers>>,
         pc' # "submit",
         \A s \in Slots : commands[s].stage # "idle" => s # frameIndex /\ ~IsBefore(s)
  PROVE  CopyInv'
<1>1. CopiesApart' /\ ApartInv'
  BY DEF CopyInv, CopiesApart, ApartInv
<1>2. ASSUME NEW r \in RenderBuffers, NEW s \in Slots, IsStatic(r)',
             WritesOrDraws(s, buffers[r].device[0])'
      PROVE  LastRendered(r, s)'
  <2>1. IsStatic(r) /\ WritesOrDraws(s, buffers[r].device[0]) /\ commands[s].stage # "idle"
    BY <1>2 DEF IsStatic, Exists, WritesOrDraws
  <2>2. LastRendered(r, s) /\ s # frameIndex /\ ~IsBefore(s)
    BY <2>1 DEF CopyInv, RenderedInv
  <2>3. IsBefore(s)' <=> IsBefore(s)
    BY DEF IsBefore
  <2> QED
    BY <2>2, <2>3 DEF LastRendered
<1>3. RenderedInv'
  BY <1>2 DEF RenderedInv
<1> QED
  BY <1>1, <1>3 DEF CopyInv

LEMMA NextFrameCopyInv ==
  ASSUME FrameInv, CopyInv, ~stopped, NextFrame, UNCHANGED bufferVars, pc' # "submit"
  PROVE  CopyInv'
<1>1. /\ pc = "app" /\ fence[frameIndex]
      /\ UNCHANGED <<frameIndex, frameCounter, queue, commands, buffers>>
  BY DEF NextFrame, stateVars, gpuVars, bufferVars
<1>2. commands[frameIndex].stage = "idle"
  BY <1>1 DEF FrameInv, FrameTypes, StageInv, FencesGuard
<1>3. \A s \in Slots : ~IsBefore(s)
  BY <1>1, FenceSignaled
<1> QED
  BY <1>1, <1>2, <1>3, BeginCopyInv

LEMMA RecreateSwapCopyInv ==
  ASSUME FrameInv, CopyInv, ~stopped, RecreateSwap, UNCHANGED bufferVars
  PROVE  CopyInv'
<1>1. /\ pc = "recreate" /\ pc' \in {"frame", "app"} /\ queue = <<>>
      /\ UNCHANGED <<frameIndex, frameCounter, queue, commands, buffers>>
  BY DEF RecreateSwap, stateVars, gpuVars, bufferVars
<1>2. \A s \in Slots : commands[s].stage = "idle"
  BY <1>1 DEF FrameInv, FrameTypes, StageInv, FencesGuard
<1> QED
  BY <1>1, <1>2, BeginCopyInv

(* A frame that is submitted copies to nothing the frames before it use.    *)
LEMMA SubmittedApart ==
  ASSUME FrameInv, CopyInv, Submit
  PROVE  CopiesApart'
<1> SUFFICES ASSUME NEW i \in DOMAIN queue', NEW j \in DOMAIN queue', i < j,
                    NEW u \in commands'[queue'[j]].copies
             PROVE  /\ \A w \in commands'[queue'[i]].copies : u[2] # w[2]
                    /\ \A d \in commands'[queue'[i]].draws : u[2] # d[1]
  BY DEF CopiesApart
<1> DEFINE last == Len(queue) + 1
<1>1. /\ DOMAIN queue = 1 .. Len(queue) /\ DOMAIN queue' = 1 .. last /\ Len(queue) \in Nat
      /\ queue'[last] = frameIndex /\ frameIndex \in Slots
  BY Submitted
<1>2. i \in DOMAIN queue /\ (j \in DOMAIN queue \/ j = last)
  BY <1>1
<1> HIDE DEF last
<1>3. /\ \A k \in DOMAIN queue : queue'[k] = queue[k] /\ queue[k] \in Slots
                                 /\ queue[k] # frameIndex
      /\ commands'[frameIndex].copies = commands[frameIndex].copies
      /\ \A s \in Slots : s # frameIndex => commands'[s] = commands[s]
      /\ pc = "submit"
  BY Submitted
<1>4. CASE j \in DOMAIN queue
  BY <1>2, <1>3, <1>4 DEF CopyInv, CopiesApart
<1>5. CASE j = last
  <2>1. u \in commands[frameIndex].copies
    BY <1>1, <1>3, <1>5
  <2>2. queue[i] \in Slots /\ queue[i] # frameIndex /\ commands'[queue'[i]] = commands[queue[i]]
    BY <1>2, <1>3
  <2>3. ~WritesOrDraws(queue[i], u[2])
    BY <1>3, <2>1, <2>2 DEF CopyInv, ApartInv
  <2>4. commands[queue[i]].stage # "idle"
    BY <1>2 DEF FrameInv, StageInv
  <2> QED
    BY <2>2, <2>3, <2>4 DEF WritesOrDraws
<1> QED
  BY <1>2, <1>4, <1>5

LEMMA PresentCopyInv ==
  ASSUME FrameInv, CopyInv, ~stopped, Present, UNCHANGED bufferVars
  PROVE  CopyInv'
<1>1. /\ Submit /\ UNCHANGED buffers /\ frameCounter' = frameCounter + 1
      /\ frameIndex' = (frameIndex + 1) % kMaxFramesInFlight
  BY DEF Present, bufferVars
<1>2. frameIndex \in Slots /\ frameIndex' \in Slots /\ frameIndex' # frameIndex
  BY <1>1, FrameIndices DEF FrameInv, FrameTypes
<1>3. pc = "submit" /\ pc' = "app" /\ frameCounter \in Nat
  BY <1>1, Submitted DEF FrameInv, FrameTypes
<1>4. ApartInv'
  BY <1>3 DEF ApartInv
<1>5. ASSUME NEW r \in RenderBuffers, NEW s \in Slots, IsStatic(r)',
             WritesOrDraws(s, buffers[r].device[0])'
      PROVE  LastRendered(r, s)'
  <2>1. IsStatic(r)
    BY <1>1, <1>5 DEF IsStatic, Exists
  <2>2. PICK b \in VkBuffers : b = buffers[r].device[0]
    BY <2>1, Existing, SlotFacts DEF IsStatic
  <2>3. WritesOrDraws(s, b)'
    BY <1>1, <1>5, <2>2
  <2>4. WritesOrDraws(s, b)
    BY <1>1, <2>3, SubmittedUses
  <2>5. LastRendered(r, s)
    BY <2>1, <2>2, <2>4 DEF CopyInv, RenderedInv
  <2>6. ~Awaits(buffers[r]) /\ (s = frameIndex => buffers[r].renderFrame = frameCounter)
    BY <1>3, <2>5 DEF LastRendered
  <2>7. ~Awaits(buffers'[r])
    BY <1>1, <2>6
  <2>8. s # frameIndex' => buffers'[r].renderFrame >= frameCounter' - 1
    <3>1. s # frameIndex' => s = frameIndex
      BY <1>2, SlotFacts
    <3> QED
      BY <1>1, <1>3, <2>6, <3>1
  <2> QED
    BY <1>3, <2>7, <2>8 DEF LastRendered
<1>6. RenderedInv'
  BY <1>5 DEF RenderedInv
<1> QED
  BY <1>1, <1>4, <1>6, SubmittedApart DEF CopyInv

LEMMA PresentFailsCopyInv ==
  ASSUME FrameInv, CopyInv, ~stopped, PresentFails, UNCHANGED bufferVars
  PROVE  CopyInv'
<1>1. Submit /\ UNCHANGED <<frameIndex, frameCounter, buffers>>
  BY DEF PresentFails, bufferVars
<1>2. pc = "submit" /\ pc' = "app"
  BY <1>1, Submitted
<1>3. ApartInv'
  BY <1>2 DEF ApartInv
<1>4. ASSUME NEW r \in RenderBuffers, NEW s \in Slots, IsStatic(r)',
             WritesOrDraws(s, buffers[r].device[0])'
      PROVE  LastRendered(r, s)'
  <2>1. IsStatic(r)
    BY <1>1, <1>4 DEF IsStatic, Exists
  <2>2. PICK b \in VkBuffers : b = buffers[r].device[0]
    BY <2>1, Existing, SlotFacts DEF IsStatic
  <2>3. WritesOrDraws(s, b)'
    BY <1>1, <1>4, <2>2
  <2>4. WritesOrDraws(s, b)
    BY <1>1, <2>3, SubmittedUses
  <2>5. s # frameIndex => IsBefore(s)'
    BY <1>1, <2>4, SubmittedUses DEF Uses
  <2> QED
    BY <1>1, <1>2, <2>5 DEF LastRendered
<1>5. RenderedInv'
  BY <1>4 DEF RenderedInv
<1> QED
  BY <1>1, <1>3, <1>5, SubmittedApart DEF CopyInv

LEMMA EndFrameCopyInv ==
  ASSUME NoDrawInEdit, FrameInv, UseInv, CopyInv, ~stopped, NEW mapped \in BOOLEAN,
         EndFrame(mapped)
  PROVE  CopyInv'
<1>1. /\ pc = "frame" /\ pc' = "submit" /\ frameIndex \in Slots /\ frameCounter \in Nat
      /\ UNCHANGED <<frameIndex, frameCounter, queue>>
      /\ \A t \in Slots : t # frameIndex => commands'[t] = commands[t]
      /\ commands'[frameIndex].copies = updates'
  BY RecordedFacts DEF FrameInv, FrameTypes
<1>2. updates = {}
  BY <1>1 DEF UseInv, DrawnInv
<1>3. \A u \in updates' : \E r \in RenderedNow : u \in Copies(buffers[r])
  BY <1>2, RecordedFacts
<1>4. \A i \in DOMAIN queue : queue[i] \in Slots /\ queue[i] # frameIndex
  <2>1. commands[frameIndex].stage = "idle" /\ queue \in Seq(Slots)
    BY <1>1 DEF FrameInv, FrameTypes, StageInv, FencesGuard
  <2>2. \A i \in DOMAIN queue : commands[queue[i]].stage # "idle"
    BY DEF FrameInv, StageInv
  <2>3. \A i \in DOMAIN queue : queue[i] \in Slots
    BY <2>1, ElementOfSeq
  <2> QED
    BY <2>1, <2>2, <2>3
<1>5. \A r \in RenderedNow :
        r \in RenderBuffers /\ Exists(r) /\ buffers[r] \in BufferObjects /\ IsSound(buffers[r])
  <2>1. \A r \in RenderedNow : r \in RenderBuffers /\ Exists(r)
    BY DEF RenderedNow, FrameInv, FrameTypes
  <2> QED
    BY <2>1, Existing
<1>6. ASSUME NEW r \in RenderBuffers, NEW s \in Slots, s # frameIndex, IsStatic(r),
             WritesOrDraws(s, buffers[r].device[0])
      PROVE  /\ ~Awaits(buffers[r])
             /\ IsBefore(s) \/ buffers[r].renderFrame >= frameCounter - 1
  BY <1>1, <1>6 DEF CopyInv, RenderedInv, LastRendered
<1>7. ApartInv'
  <2> SUFFICES ASSUME NEW u \in commands'[frameIndex].copies, NEW s \in Slots, s # frameIndex
               PROVE  ~WritesOrDraws(s, u[2])'
    BY <1>1 DEF ApartInv
  <2>1. PICK r \in RenderedNow : u \in Copies(buffers[r])
    BY <1>1, <1>3
  <2>2. /\ buffers[r].kind # "kPerFrame" /\ buffers[r].dirty # {}
        /\ u[2] = buffers[r].device[frameIndex]
    BY <2>1 DEF Copies
  <2>3. u[2] = buffers[r].device[0]
    BY <1>1, <1>5, <2>2, SlotFacts DEF IsSound
  <2>4. Awaits(buffers[r]) /\ IsStatic(r) /\ r \in RenderBuffers
    BY <1>5, <2>2 DEF Awaits, IsStatic
  <2>5. ~WritesOrDraws(s, u[2])
    BY <1>6, <2>3, <2>4
  <2> QED
    BY <1>1, <2>5 DEF WritesOrDraws
<1>8. CopiesApart'
  <2>1. \A i \in DOMAIN queue : commands'[queue[i]] = commands[queue[i]]
    BY <1>1, <1>4
  <2> QED
    BY <1>1, <2>1 DEF CopyInv, CopiesApart
<1>9. \A r \in RenderedNow : ~stopped' => buffers[r].view = "none" \/ buffers[r].wasDirty = {}
  BY DEF EndFrame, NoDrawInEdit, RenderedNow
<1>10. ASSUME ~stopped', NEW r \in RenderBuffers, NEW s \in Slots, IsStatic(r)',
              WritesOrDraws(s, buffers[r].device[0])'
       PROVE  LastRendered(r, s)'
  <2>1. IsBefore(s)' <=> IsBefore(s)
    BY <1>1 DEF IsBefore
  <2>2. CASE r \in RenderedNow
    <3> DEFINE b == buffers[r]
               a == Bound(Rendered(b, mapped))
    <3>1. b \in BufferObjects /\ IsSound(b) /\ buffers'[r] = a
      BY <1>5, <2>2, EndedFacts
    <3>2. b.view = "none" \/ b.wasDirty = {}
      BY <1>9, <1>10, <2>2
    <3> HIDE DEF b
    <3>3. /\ a.kind = b.kind /\ a.view = b.view /\ a.wasDirty = b.wasDirty
          /\ b.kind # "kPerFrame" => a.renderFrame = frameCounter /\ a.dirty = {}
      BY <3>1, RenderedFacts
    <3> HIDE DEF a
    <3>4. a.kind # "kPerFrame"
      BY <1>10, <3>1 DEF IsStatic
    <3>5. ~Awaits(a)
      BY <3>2, <3>3, <3>4 DEF Awaits
    <3>6. a.renderFrame = frameCounter
      BY <3>3, <3>4
    <3> QED
      BY <1>1, <3>1, <3>5, <3>6 DEF LastRendered
  <2>3. CASE r \notin RenderedNow
    <3>1. buffers'[r] = buffers[r]
      BY <2>3, EndedFacts
    <3>2. IsStatic(r)
      BY <1>10, <3>1 DEF IsStatic, Exists
    <3>3. CASE s = frameIndex
      <4>1. buffers[r].device[0] \in Handles(buffers[r])
        BY <3>2, Existing, HandleFacts DEF IsStatic
      <4>2. \E q \in RenderedNow : buffers[r].device[0] = buffers[q].device[frameIndex]
        <5>1. \A u \in updates' : \E q \in RenderedNow : u[2] = buffers[q].device[frameIndex]
          <6> SUFFICES ASSUME NEW u \in updates'
                       PROVE  \E q \in RenderedNow : u[2] = buffers[q].device[frameIndex]
            OBVIOUS
          <6>1. PICK q \in RenderedNow : u \in Copies(buffers[q])
            BY <1>3
          <6> QED
            BY <6>1 DEF Copies
        <5>2. \A d \in commands'[frameIndex].draws :
                \E q \in RenderedNow : d[1] = buffers[q].device[frameIndex]
          BY RecordedFacts
        <5>3. WritesOrDraws(s, buffers[r].device[0])'
              <=> /\ commands'[s].stage # "idle"
                  /\ \/ \E u \in commands'[s].copies : u[2] = buffers'[r].device[0]
                     \/ \E d \in commands'[s].draws : d[1] = buffers'[r].device[0]
          BY DEF WritesOrDraws
        <5> QED
          BY <1>1, <1>10, <3>1, <3>3, <5>1, <5>2, <5>3
      <4>3. PICK q \in RenderedNow : buffers[r].device[0] \in Handles(buffers[q])
        BY <1>1, <1>5, <4>2, HandleFacts
      <4>4. q = r
        BY <1>5, <4>1, <4>3 DEF FrameInv, OwnedInv
      <4> QED
        BY <2>3, <4>4
    <3>4. CASE s # frameIndex
      <4>1. WritesOrDraws(s, buffers[r].device[0])
        BY <1>1, <1>10, <3>1, <3>4 DEF WritesOrDraws
      <4>2. /\ ~Awaits(buffers[r])
            /\ IsBefore(s) \/ buffers[r].renderFrame >= frameCounter - 1
        BY <1>6, <3>2, <3>4, <4>1
      <4> QED
        BY <1>1, <2>1, <3>1, <3>4, <4>2 DEF LastRendered
    <3> QED
      BY <3>3, <3>4
  <2> QED
    BY <2>2, <2>3
<1>11. RenderedInv'
  BY <1>10 DEF RenderedInv
<1> QED
  BY <1>7, <1>8, <1>11 DEF CopyInv

LEMMA GpuFinishCopyInv ==
  ASSUME FrameInv, CopyInv, ~stopped, GpuFinish, UNCHANGED bufferVars
  PROVE  CopyInv'
<1>1. PICK s \in Slots :
        /\ s = queue[1] /\ 1 \in DOMAIN queue /\ commands[s].stage = "drawing"
        /\ \A i \in DOMAIN queue' : i + 1 \in DOMAIN queue /\ queue'[i] = queue[i + 1]
        /\ \A i \in DOMAIN queue' : i \in Nat /\ i >= 1
        /\ commands' = [commands EXCEPT ![s] = Idle]
        /\ UNCHANGED <<pc, frameIndex, frameCounter, gcIndex, garbage, drawn, updates,
                       memory, skips, stopped>>
  BY Finished
<1>2. commands'[s].stage = "idle" /\ \A t \in Slots : t # s => commands'[t] = commands[t]
  BY <1>1 DEF FrameInv, FrameTypes, Idle
<1>3. ASSUME NEW t \in Slots, NEW b \in VkBuffers, WritesOrDraws(t, b)'
      PROVE  WritesOrDraws(t, b) /\ t # s
  <2>1. t # s
    BY <1>2, <1>3 DEF WritesOrDraws
  <2> QED
    BY <1>2, <1>3, <2>1 DEF WritesOrDraws
<1>4. \A t \in Slots : t # s /\ IsBefore(t) => IsBefore(t)'
  BY <1>1, StillBefore
<1>5. commands'[frameIndex].copies = commands[frameIndex].copies \/ pc # "submit"
  <2>1. pc = "submit" => commands[frameIndex].stage = "recorded" /\ frameIndex \in Slots
    BY DEF FrameInv, FrameTypes, StageInv
  <2> QED
    BY <1>1, <1>2, <2>1
<1>6. RenderedInv' /\ ApartInv'
  <2>1. \A t \in Slots, b \in VkBuffers :
          WritesOrDraws(t, b)' => WritesOrDraws(t, b) /\ (IsBefore(t) => IsBefore(t)')
    BY <1>3, <1>4
  <2>2. UNCHANGED <<pc, frameIndex, frameCounter, stopped, buffers>>
    BY <1>1 DEF bufferVars
  <2> QED
    BY <1>5, <2>1, <2>2, CopiesNoMore
<1>7. CopiesApart'
  <2> SUFFICES ASSUME NEW i \in DOMAIN queue', NEW j \in DOMAIN queue', i < j,
                      NEW u \in commands'[queue'[j]].copies
               PROVE  /\ \A w \in commands'[queue'[i]].copies : u[2] # w[2]
                      /\ \A d \in commands'[queue'[i]].draws : u[2] # d[1]
    BY DEF CopiesApart
  <2>1. \A k \in DOMAIN queue' : commands'[queue'[k]] = commands[queue[k + 1]]
    <3> SUFFICES ASSUME NEW k \in DOMAIN queue'
                 PROVE  commands'[queue'[k]] = commands[queue[k + 1]]
      OBVIOUS
    <3>1. k + 1 \in DOMAIN queue /\ queue'[k] = queue[k + 1] /\ k + 1 # 1
      BY <1>1
    <3>2. queue[k + 1] # s
      BY <1>1, <3>1 DEF FrameInv, FencesGuard
    <3>3. queue[k + 1] \in Slots
      BY <3>1, ElementOfSeq DEF FrameInv, FrameTypes
    <3> QED
      BY <1>2, <3>1, <3>2, <3>3
  <2>2. i + 1 \in DOMAIN queue /\ j + 1 \in DOMAIN queue /\ i + 1 < j + 1
    BY <1>1
  <2>3. u \in commands[queue[j + 1]].copies
    BY <2>1
  <2>4. /\ \A w \in commands[queue[i + 1]].copies : u[2] # w[2]
        /\ \A d \in commands[queue[i + 1]].draws : u[2] # d[1]
    BY <2>2, <2>3 DEF CopyInv, CopiesApart
  <2> QED
    BY <2>1, <2>4
<1> QED
  BY <1>6, <1>7 DEF CopyInv

LEMMA GpuCopyCopyInv ==
  ASSUME FrameInv, CopyInv, NEW s \in Slots, GpuCopy(s), UNCHANGED bufferVars
  PROVE  CopyInv'
<1>1. UNCHANGED <<pc, frameIndex, frameCounter, queue, stopped, buffers>>
  BY CopiedFacts DEF bufferVars
<1>2. \A t \in Slots :
        /\ commands[t].stage = "idle" => commands'[t].stage = "idle"
        /\ commands'[t].stage = "idle" => commands[t].stage = "idle"
        /\ commands'[t].copies = commands[t].copies /\ commands'[t].draws = commands[t].draws
  BY CopiedFacts
<1>3. \A t \in Slots, b \in VkBuffers : WritesOrDraws(t, b)' => WritesOrDraws(t, b)
  BY <1>2 DEF WritesOrDraws
<1>4. \A t \in Slots : IsBefore(t) => IsBefore(t)'
  BY <1>1 DEF IsBefore
<1>5. RenderedInv' /\ ApartInv'
  <2>1. commands'[frameIndex].copies = commands[frameIndex].copies
    BY <1>2 DEF FrameInv, FrameTypes
  <2> QED
    BY <1>1, <1>3, <1>4, <2>1, CopiesNoMore
<1>6. CopiesApart'
  <2>1. \A i \in DOMAIN queue : queue[i] \in Slots
    <3>1. queue \in Seq(Slots)
      BY DEF FrameInv, FrameTypes
    <3> QED
      BY <3>1, ElementOfSeq
  <2> QED
    BY <1>1, <1>2, <2>1 DEF CopyInv, CopiesApart
<1> QED
  BY <1>5, <1>6 DEF CopyInv

LEMMA NextCopyInv ==
  ASSUME NoDrawInEdit, FrameInv, UseInv, CopyInv, [FramesNext]_allFrameVars
  PROVE  CopyInv'
<1>1. ASSUME UNCHANGED <<pc, frameIndex, frameCounter, queue, commands, stopped, buffers>>
      PROVE  CopyInv'
  <2>1. \A s \in Slots, b \in VkBuffers :
          WritesOrDraws(s, b)' => WritesOrDraws(s, b) /\ (IsBefore(s) => IsBefore(s)')
    BY <1>1 DEF WritesOrDraws, IsBefore
  <2>2. RenderedInv' /\ ApartInv'
    BY <1>1, <2>1, CopiesNoMore
  <2> QED
    BY <1>1, <2>2 DEF CopyInv, CopiesApart
<1>2. ASSUME ~stopped, BackendNext, UNCHANGED bufferVars PROVE CopyInv'
  <2>1. CASE ResizeWindow
    BY <1>1, <1>2, <2>1 DEF ResizeWindow, gpuVars, logVars, bufferVars
  <2>2. CASE BeginFrame
    BY <1>2, <2>2, NextFrameCopyInv DEF BeginFrame
  <2>3. CASE BeginFrameFails
    BY <1>2, <2>3, NextFrameCopyInv DEF BeginFrameFails, NextFrame
  <2>4. CASE BeginFrameRecreates
    BY <1>2, <2>4, NextFrameCopyInv DEF BeginFrameRecreates
  <2>5. CASE RecreateSwap
    BY <1>2, <2>5, RecreateSwapCopyInv
  <2>6. CASE Present
    BY <1>2, <2>6, PresentCopyInv
  <2>7. CASE PresentFails
    BY <1>2, <2>7, PresentFailsCopyInv
  <2>8. CASE GpuFinish
    BY <1>2, <2>8, GpuFinishCopyInv
  <2>9. ASSUME NEW s \in Slots, GpuCopy(s) PROVE CopyInv'
    BY <1>2, <2>9, GpuCopyCopyInv
  <2> QED
    BY <1>2, <2>1, <2>2, <2>3, <2>4, <2>5, <2>6, <2>7, <2>8, <2>9 DEF BackendNext
<1>3. ASSUME ~stopped, BufferNext PROVE CopyInv'
  BY <1>3, BufferEdits, EditsCopyInv
<1>4. ASSUME NEW r \in RenderBuffers, Draw(r) PROVE CopyInv'
  BY <1>1, <1>4 DEF Draw, frameVars, gpuVars, logVars, bufferVars
<1>5. ASSUME NEW mapped \in BOOLEAN, EndFrame(mapped), ~stopped PROVE CopyInv'
  BY <1>5, EndFrameCopyInv
<1>6. CASE UNCHANGED allFrameVars
  BY <1>1, <1>6 DEF allFrameVars, frameVars, gpuVars, logVars, bufferVars
<1> QED
  BY <1>2, <1>3, <1>4, <1>5, <1>6 DEF FramesNext

(* If, besides, nothing is drawn that is being edited and was to be copied  *)
(* already, no frame copies to a device buffer that a frame before it may  *)
(* still copy to or draw: the test of renderFrame is enough                *)
(* (vulkan_render_buffer.cc).                                              *)
THEOREM Apart == NoDrawInEdit => (FramesSpec => []CopiesApart)
<1> SUFFICES ASSUME NoDrawInEdit PROVE FramesSpec => []CopiesApart
  OBVIOUS
<1>1. FramesInit => UseInv /\ CopyInv
  BY InitUseInv, InitCopyInv
<1>2. FrameInv /\ UseInv /\ [FramesNext]_allFrameVars => UseInv'
  BY NextUseInv DEF NoDrawInEdit
<1>3. FrameInv /\ UseInv /\ CopyInv /\ [FramesNext]_allFrameVars => CopyInv'
  BY NextCopyInv
<1>4. CopyInv => CopiesApart
  BY DEF CopyInv
<1> QED
  BY <1>1, <1>2, <1>3, <1>4, FramesInvariant, PTL DEF FramesSpec

-----------------------------------------------------------------------------
NoMishap ==
  NoDrawInEdit /\ Followed \cap {"writtenInFlight", "editLost", "unmapped"} = {}

(* The Vulkan buffers of a render buffer are different; what an edit would  *)
(* have copied is in wasDirty.                                             *)
IsApart(b) ==
  /\ \A s \in Slots : b.host # b.device[s]
  /\ b.kind = "kPerFrame" => b.device[0] # b.device[1]
  /\ b.kind = "kStaticWrite" => b.view = "none"
  /\ b.kind = "kStaticReadWrite" /\ b.view # "none" => b.dirty = {}

(* What a frame may use a render buffer's Vulkan buffers for: the host      *)
(* buffer to copy from, if it is kept, the device buffers to copy to and to *)
(* draw, and of a kPerFrame buffer each frame only its own.                *)
HasRoles(b) ==
  /\ IsApart(b)
  /\ \A s \in Slots :
       /\ ~WritesOrDraws(s, b.host)
       /\ Reads(s, b.host) => b.kind = "kStaticReadWrite"
       /\ \A t \in Slots :
            /\ ~Reads(s, b.device[t])
            /\ b.kind = "kPerFrame" /\ WritesOrDraws(s, b.device[t]) => s = t

RolesInv ==
  /\ \A r \in RenderBuffers : Exists(r) => HasRoles(buffers[r])
  /\ \A s, t \in Slots, b \in VkBuffers : Reads(s, b) => ~WritesOrDraws(t, b)

(* Copies are made in the order of the frames.                              *)
OrderInv ==
  \A i, j \in DOMAIN queue :
    i < j /\ commands[queue[j]].stage = "drawing" => commands[queue[i]].stage = "drawing"

(* What a Vulkan buffer contains once every frame has made its copies.      *)
ToCopy(s, b) ==
  IF commands[s].stage \in {"recorded", "queued"}
  THEN {u \in commands[s].copies : u[2] = b} ELSE {}
WillBe(b, x) ==
  /\ \A s \in Slots : \A u \in ToCopy(s, b) : memory[u[1]] = x
  /\ (\A s \in Slots : ToCopy(s, b) = {}) => memory[b] = x

DrawsInv ==
  ~stopped => \A s \in Slots : commands[s].stage # "idle" =>
    \A d \in commands[s].draws : d[2] # Unwritten => WillBe(d[1], d[2])

(* The last value written is on its way to the device, or is still to be    *)
(* copied or mapped.                                                       *)
Keeps(b, x) ==
  /\ b.kind # "kPerFrame" =>
       /\ ~Awaits(b) => WillBe(b.device[0], x)
       /\ Awaits(b) /\ b.view # "modified" => memory[b.host] = x
  /\ b.kind = "kPerFrame" /\ b.view # "modified" =>
       \A s \in Slots : IF s \in b.dirty THEN b.local = x ELSE WillBe(b.device[s], x)

LatestInv ==
  ~stopped => \A r \in RenderBuffers : Exists(r) => Keeps(buffers[r], latest[r])

ValueInv == RolesInv /\ OrderInv /\ DrawsInv /\ LatestInv /\ DrawsLatest

(* What a frame uses are Vulkan buffers, and what it still copies it reads. *)
LEMMA UsedBuffers ==
  ASSUME FrameInv, NEW s \in Slots
  PROVE  /\ commands[s].copies \subseteq Copied /\ commands[s].draws \subseteq VkBuffers \X Int
         /\ commands[s].stage \in {"idle", "recorded", "queued", "drawing"}
         /\ \A b : Uses(s, b) => b \in VkBuffers
         /\ \A b : \A u \in ToCopy(s, b) :
              /\ u \in commands[s].copies /\ u[2] = b /\ u[1] \in VkBuffers
              /\ WritesOrDraws(s, b) /\ Reads(s, u[1])
<1>1. commands[s] \in Commands
  BY DEF FrameInv, FrameTypes
<1>2. /\ commands[s].copies \subseteq Copied /\ commands[s].draws \subseteq VkBuffers \X Int
      /\ commands[s].stage \in {"idle", "recorded", "queued", "drawing"}
  BY <1>1 DEF Commands
<1>3. \A u \in commands[s].copies : u[1] \in VkBuffers /\ u[2] \in VkBuffers
  BY <1>2 DEF Copied
<1>4. \A d \in commands[s].draws : d[1] \in VkBuffers
  BY <1>2
<1>5. \A b : Uses(s, b) => b \in VkBuffers
  BY <1>3, <1>4 DEF Uses, WritesOrDraws, Reads
<1>6. ASSUME NEW b, NEW u \in ToCopy(s, b)
      PROVE  /\ u \in commands[s].copies /\ u[2] = b /\ u[1] \in VkBuffers
             /\ WritesOrDraws(s, b) /\ Reads(s, u[1])
  <2>1. /\ commands[s].stage \in {"recorded", "queued"}
        /\ u \in commands[s].copies /\ u[2] = b
    BY <1>6 DEF ToCopy
  <2> QED
    BY <1>3, <2>1 DEF WritesOrDraws, Reads
<1> QED
  BY <1>2, <1>5, <1>6

UsesBuffers == \A s \in Slots : \A b : Uses(s, b) => b \in VkBuffers
LEMMA OnlyBuffers == FrameInv => UsesBuffers
BY UsedBuffers DEF UsesBuffers

LEMMA WillStay ==
  ASSUME NEW b, NEW x, WillBe(b, x), memory'[b] = memory[b],
         \A s \in Slots : ToCopy(s, b)' = ToCopy(s, b),
         \A s \in Slots : \A u \in ToCopy(s, b) : memory'[u[1]] = memory[u[1]]
  PROVE  WillBe(b, x)'
<1>1. /\ \A s \in Slots : \A u \in ToCopy(s, b) : memory[u[1]] = x
      /\ (\A s \in Slots : ToCopy(s, b) = {}) => memory[b] = x
  BY DEF WillBe
<1>2. /\ \A s \in Slots : \A u \in ToCopy(s, b)' : memory'[u[1]] = x
      /\ (\A s \in Slots : ToCopy(s, b)' = {}) => memory'[b] = x
  BY <1>1
<1> QED
  BY <1>2 DEF WillBe

(* A drawing frame finds what its draws need: who was to copy to it before  *)
(* has, and who comes after copies elsewhere.                              *)
LEMMA DrawsFound ==
  ASSUME FrameInv, CopyInv, OrderInv, DrawsInv, ~stopped
  PROVE  DrawsLatest
<1> SUFFICES ASSUME NEW s \in Slots, commands[s].stage = "drawing",
                    NEW d \in commands[s].draws, d[2] # Unwritten
             PROVE  memory[d[1]] = d[2]
  BY DEF DrawsLatest
<1>1. WillBe(d[1], d[2])
  BY DEF DrawsInv
<1>2. WritesOrDraws(s, d[1])
  BY DEF WritesOrDraws
<1>3. ASSUME NEW t \in Slots, NEW u \in ToCopy(t, d[1])
      PROVE  FALSE
  <2>1. /\ commands[t].stage \in {"recorded", "queued"}
        /\ u \in commands[t].copies /\ u[2] = d[1]
    BY <1>3 DEF ToCopy
  <2>2. CASE commands[t].stage = "recorded"
    <3>1. pc = "submit" /\ t = frameIndex /\ s # frameIndex
      BY <2>2 DEF FrameInv, StageInv
    <3> QED
      BY <1>2, <2>1, <3>1 DEF CopyInv, ApartInv
  <2>3. CASE commands[t].stage = "queued"
    <3>1. ~fence[s] /\ ~fence[t]
      BY <2>3 DEF FrameInv, FencesGuard
    <3>2. PICK i \in DOMAIN queue, j \in DOMAIN queue : queue[i] = s /\ queue[j] = t
      BY <3>1 DEF FrameInv, FencesGuard
    <3>3. i \in Nat /\ j \in Nat /\ i # j
      <4>1. queue \in Seq(Slots)
        BY DEF FrameInv, FrameTypes
      <4>2. DOMAIN queue = 1 .. Len(queue) /\ Len(queue) \in Nat
        BY <4>1
      <4> QED
        BY <2>3, <3>2, <4>2
    <3>4. CASE i < j
      BY <2>1, <3>2, <3>4 DEF CopyInv, CopiesApart
    <3>5. CASE j < i
      BY <2>3, <3>2, <3>5 DEF OrderInv
    <3> QED
      BY <3>3, <3>4, <3>5
  <2> QED
    BY <2>1, <2>2, <2>3
<1>4. \A t \in Slots : ToCopy(t, d[1]) = {}
  BY <1>3
<1> QED
  BY <1>1, <1>4 DEF WillBe

-----------------------------------------------------------------------------
LEMMA InitValueInv == FramesInit => ValueInv
<1> SUFFICES ASSUME FramesInit PROVE ValueInv
  OBVIOUS
<1>1. /\ queue = <<>> /\ \A s \in Slots : commands[s] = Idle
      /\ \A r \in RenderBuffers : ~Exists(r)
  BY DEF FramesInit, BackendInit, BufferInit, Exists
<1>2. \A s \in Slots : commands[s].stage = "idle"
  BY <1>1 DEF Idle
<1>3. RolesInv
  BY <1>1, <1>2 DEF RolesInv, Reads
<1>4. OrderInv
  BY <1>1 DEF OrderInv
<1>5. DrawsInv /\ DrawsLatest
  BY <1>2 DEF DrawsInv, DrawsLatest
<1>6. LatestInv
  BY <1>1 DEF LatestInv
<1> QED
  BY <1>3, <1>4, <1>5, <1>6 DEF ValueInv

(* Nothing is used that was not, and the buffers are what they were.        *)
LEMMA RolesKept ==
  ASSUME FrameInv, RolesInv, UNCHANGED buffers,
         \A s \in Slots, b \in VkBuffers :
           (WritesOrDraws(s, b)' => WritesOrDraws(s, b)) /\ (Reads(s, b)' => Reads(s, b)),
         FrameInv'
  PROVE  RolesInv'
<1>1. \A s \in Slots : \A b : (WritesOrDraws(s, b)' => WritesOrDraws(s, b)) /\ (Reads(s, b)' => Reads(s, b))
  <2> SUFFICES ASSUME NEW s \in Slots, NEW b
               PROVE  (WritesOrDraws(s, b)' => WritesOrDraws(s, b)) /\ (Reads(s, b)' => Reads(s, b))
    OBVIOUS
  <2>1. UsesBuffers'
    BY OnlyBuffers, PTL
  <2>2. (WritesOrDraws(s, b)' => b \in VkBuffers) /\ (Reads(s, b)' => b \in VkBuffers)
    <3>1. Uses(s, b)' => b \in VkBuffers
      BY <2>1 DEF UsesBuffers
    <3> QED
      BY <3>1 DEF Uses
  <2> QED
    BY <2>2
<1>2. ASSUME NEW r \in RenderBuffers, Exists(r)'
      PROVE  HasRoles(buffers[r])'
  <2>1. HasRoles(buffers[r]) /\ buffers'[r] = buffers[r]
    BY <1>2 DEF RolesInv, Exists
  <2> QED
    BY <1>1, <2>1 DEF HasRoles, IsApart
<1>3. \A s, t \in Slots, b \in VkBuffers : Reads(s, b)' => ~WritesOrDraws(t, b)'
  BY <1>1 DEF RolesInv
<1> QED
  BY <1>2, <1>3 DEF RolesInv

(* A collector destroys what nobody uses, or nothing happens to the memory: *)
(* each frame and each render buffer finds what it did.                    *)
LEMMA ValuesKept ==
  ASSUME FrameInv, RolesInv, DrawsInv, LatestInv, FrameInv', UsedInv', UNCHANGED <<buffers, latest>>,
         stopped => stopped',
         \A s \in Slots :
           /\ commands'[s].stage # "idle" => commands[s].stage # "idle"
           /\ commands'[s].stage # "idle" => commands'[s].draws = commands[s].draws
           /\ \A b \in VkBuffers : ToCopy(s, b)' = ToCopy(s, b),
         \A b \in VkBuffers : memory'[b] # Destroyed => memory'[b] = memory[b]
  PROVE  DrawsInv' /\ LatestInv'
<1>1. ASSUME NEW b \in VkBuffers, NEW x, WillBe(b, x), memory'[b] # Destroyed
      PROVE  WillBe(b, x)'
  <2>1. ASSUME NEW s \in Slots, NEW u \in ToCopy(s, b)
        PROVE  memory'[u[1]] = memory[u[1]]
    <3>1. u[1] \in VkBuffers
      BY <2>1, UsedBuffers
    <3>2. Reads(s, u[1])'
      <4>1. u \in ToCopy(s, b)'
        BY <2>1
      <4> QED
        BY <4>1 DEF ToCopy, Reads
    <3>3. memory'[u[1]] # Destroyed
      BY <3>1, <3>2 DEF UsedInv, Uses
    <3> QED
      BY <3>1, <3>3
  <2>2. memory'[b] = memory[b]
    BY <1>1
  <2> QED
    BY <1>1, <2>1, <2>2, WillStay
<1>2. ASSUME ~stopped', NEW s \in Slots, commands'[s].stage # "idle",
             NEW d \in commands'[s].draws, d[2] # Unwritten
      PROVE  WillBe(d[1], d[2])'
  <2>1. /\ commands[s].stage # "idle" /\ d \in commands[s].draws
    BY <1>2
  <2>2. d[1] \in VkBuffers
    BY <2>1, UsedBuffers
  <2>3. WillBe(d[1], d[2])
    BY <1>2, <2>1 DEF DrawsInv
  <2>4. WritesOrDraws(s, d[1])'
    BY <1>2 DEF WritesOrDraws
  <2>5. memory'[d[1]] # Destroyed
    BY <2>2, <2>4 DEF UsedInv, Uses
  <2> QED
    BY <1>1, <2>2, <2>3, <2>5
<1>3. DrawsInv'
  BY <1>2 DEF DrawsInv
<1>4. ASSUME ~stopped', NEW r \in RenderBuffers, Exists(r)'
      PROVE  Keeps(buffers[r], latest[r])'
  <2>1. Exists(r) /\ buffers'[r] = buffers[r] /\ latest'[r] = latest[r]
    BY <1>4 DEF Exists
  <2>2. Keeps(buffers[r], latest[r])
    BY <1>4, <2>1 DEF LatestInv
  <2>3. /\ buffers[r] \in BufferObjects
        /\ \A b \in Handles(buffers[r]) : b \in VkBuffers
        /\ \A s \in Slots : buffers[r].device[s] \in Handles(buffers[r])
        /\ buffers[r].host \in VkBuffers => buffers[r].host \in Handles(buffers[r])
    BY <2>1, Existing, HandleFacts
  <2>4. \A b \in Handles(buffers[r]) : memory'[b] # Destroyed
    BY <1>4, <2>1 DEF FrameInv, OwnedInv
  <2>5. /\ 0 \in Slots
        /\ \A s \in Slots : \A x : WillBe(buffers[r].device[s], x) => WillBe(buffers[r].device[s], x)'
    BY <1>1, <2>3, <2>4, SlotFacts
  <2>6. Awaits(buffers[r]) /\ buffers[r].view # "modified" => buffers[r].host \in VkBuffers
    <3>1. IsSound(buffers[r]) /\ buffers[r].kind \in Kinds
      BY <2>1, Existing, ObjectFields
    <3>2. HasRoles(buffers[r])
      BY <2>1 DEF RolesInv
    <3> QED
      BY <3>1, <3>2 DEF IsSound, Awaits, Kinds, HasRoles, IsApart
  <2>7. Awaits(buffers[r]) /\ buffers[r].view # "modified" =>
          memory'[buffers[r].host] = memory[buffers[r].host]
    BY <2>3, <2>4, <2>6
  <2> QED
    BY <2>1, <2>2, <2>5, <2>7 DEF Keeps, Awaits
<1>5. LatestInv'
  BY <1>4 DEF LatestInv
<1> QED
  BY <1>3, <1>5

(* The copies of a frame put into each Vulkan buffer what it was to contain.*)
LEMMA CopyMemory ==
  ASSUME FrameInv, NEW s \in Slots, GpuCopy(s), NEW b \in VkBuffers
  PROVE  /\ (\A u \in commands[s].copies : u[2] # b) => memory'[b] = memory[b]
         /\ memory[b] # Destroyed /\ (\E u \in commands[s].copies : u[2] = b) =>
              \E u \in commands[s].copies : u[2] = b /\ memory'[b] = Contents(u[1])
<1> DEFINE copies == commands[s].copies
           picked == CHOOSE u \in copies : u[2] = b
<1>1. memory'[b] = IF memory[b] # Destroyed /\ \E u \in copies : u[2] = b
                   THEN Contents(picked[1]) ELSE memory[b]
  BY DEF GpuCopy
<1>2. (\E u \in copies : u[2] = b) => picked \in copies /\ picked[2] = b
  OBVIOUS
<1> QED
  BY <1>1, <1>2

LEMMA GpuCopyValues ==
  ASSUME FrameInv, UseInv, RolesInv, DrawsInv, LatestInv, NEW s \in Slots, GpuCopy(s),
         UNCHANGED bufferVars
  PROVE  DrawsInv' /\ LatestInv'
<1>1. /\ commands[s].stage = "queued" /\ commands'[s].stage = "drawing"
      /\ commands'[s].copies = commands[s].copies /\ commands'[s].draws = commands[s].draws
      /\ \A t \in Slots : t # s => commands'[t] = commands[t]
      /\ stopped' = stopped
  BY CopiedFacts
<1>2. \A b : ToCopy(s, b)' = {}
  BY <1>1 DEF ToCopy
<1>3. \A t \in Slots : \A b : t # s => ToCopy(t, b)' = ToCopy(t, b)
  BY <1>1 DEF ToCopy
<1>4. \A b \in VkBuffers : memory'[b] = memory[b] \/ WritesOrDraws(s, b)
  <2> SUFFICES ASSUME NEW b \in VkBuffers, ~WritesOrDraws(s, b)
               PROVE  memory'[b] = memory[b]
    OBVIOUS
  <2>1. \A u \in commands[s].copies : u[2] # b
    BY <1>1 DEF WritesOrDraws
  <2> QED
    BY <2>1, CopyMemory
<1>5. ASSUME NEW b \in VkBuffers, NEW x, WillBe(b, x), memory[b] # Destroyed
      PROVE  WillBe(b, x)'
  <2>1. /\ \A t \in Slots : \A u \in ToCopy(t, b) : memory[u[1]] = x
        /\ (\A t \in Slots : ToCopy(t, b) = {}) => memory[b] = x
    BY <1>5 DEF WillBe
  <2>2. ASSUME NEW t \in Slots, NEW u \in ToCopy(t, b)'
        PROVE  memory'[u[1]] = x
    <3>1. t # s /\ u \in ToCopy(t, b)
      BY <1>2, <1>3, <2>2
    <3>2. Reads(t, u[1]) /\ u[1] \in VkBuffers
      BY <3>1, UsedBuffers
    <3>3. ~WritesOrDraws(s, u[1])
      BY <3>2 DEF RolesInv
    <3> QED
      BY <1>4, <2>1, <3>1, <3>2, <3>3
  <2>3. ASSUME \A t \in Slots : ToCopy(t, b)' = {}
        PROVE  memory'[b] = x
    <3>1. \A t \in Slots : t # s => ToCopy(t, b) = {}
      BY <1>3, <2>3
    <3>2. CASE \A u \in commands[s].copies : u[2] # b
      <4>1. ToCopy(s, b) = {}
        BY <3>2 DEF ToCopy
      <4> QED
        BY <2>1, <3>1, <3>2, <4>1, CopyMemory
    <3>3. CASE \E u \in commands[s].copies : u[2] = b
      <4>1. PICK u \in commands[s].copies : u[2] = b /\ memory'[b] = Contents(u[1])
        BY <1>5, <3>3, CopyMemory
      <4>2. u \in ToCopy(s, b)
        BY <1>1, <4>1 DEF ToCopy
      <4>3. memory[u[1]] = x /\ Reads(s, u[1]) /\ u[1] \in VkBuffers
        BY <2>1, <4>2, UsedBuffers
      <4>4. memory[u[1]] # Destroyed
        BY <4>3 DEF UseInv, UsedInv, Uses
      <4> QED
        BY <4>1, <4>3, <4>4 DEF Contents
    <3> QED
      BY <3>2, <3>3
  <2> QED
    BY <2>2, <2>3 DEF WillBe
<1>6. ASSUME ~stopped', NEW t \in Slots, commands'[t].stage # "idle",
             NEW d \in commands'[t].draws, d[2] # Unwritten
      PROVE  WillBe(d[1], d[2])'
  <2>1. /\ commands[t].stage # "idle" /\ d \in commands[t].draws
    BY <1>1, <1>6
  <2>2. d[1] \in VkBuffers
    BY <2>1, UsedBuffers
  <2>3. WillBe(d[1], d[2])
    BY <1>1, <1>6, <2>1 DEF DrawsInv
  <2>4. WritesOrDraws(t, d[1])
    BY <2>1 DEF WritesOrDraws
  <2>5. memory[d[1]] # Destroyed
    BY <2>2, <2>4 DEF UseInv, UsedInv, Uses
  <2> QED
    BY <1>5, <2>2, <2>3, <2>5
<1>7. DrawsInv'
  BY <1>6 DEF DrawsInv
<1>8. ASSUME ~stopped', NEW r \in RenderBuffers, Exists(r)'
      PROVE  Keeps(buffers[r], latest[r])'
  <2>1. Exists(r) /\ buffers'[r] = buffers[r] /\ latest'[r] = latest[r]
    BY <1>8 DEF Exists, bufferVars
  <2>2. Keeps(buffers[r], latest[r]) /\ HasRoles(buffers[r])
    BY <1>1, <1>8, <2>1 DEF LatestInv, RolesInv
  <2>3. /\ 0 \in Slots
        /\ \A t \in Slots : \A x : WillBe(buffers[r].device[t], x) => WillBe(buffers[r].device[t], x)'
    BY <1>5, <2>1, Existing, SlotFacts
  <2>4. Awaits(buffers[r]) /\ buffers[r].view # "modified" => buffers[r].host \in VkBuffers
    <3>1. IsSound(buffers[r]) /\ buffers[r].kind \in Kinds
      BY <2>1, Existing, ObjectFields
    <3> QED
      BY <2>2, <3>1 DEF IsSound, Awaits, Kinds, HasRoles, IsApart
  <2>5. Awaits(buffers[r]) /\ buffers[r].view # "modified" =>
          memory'[buffers[r].host] = memory[buffers[r].host]
    BY <1>4, <2>2, <2>4 DEF HasRoles
  <2> QED
    BY <2>1, <2>2, <2>3, <2>5 DEF Keeps, Awaits
<1>9. LatestInv'
  BY <1>8 DEF LatestInv
<1> QED
  BY <1>7, <1>9

(* The order of the copies.                                                 *)
LEMMA SubmitOrder ==
  ASSUME FrameInv, OrderInv, Submit
  PROVE  OrderInv'
<1>1. /\ frameIndex \in Slots /\ Len(queue) \in Nat
      /\ DOMAIN queue = 1 .. Len(queue) /\ DOMAIN queue' = 1 .. (Len(queue) + 1)
      /\ \A i \in DOMAIN queue : queue'[i] = queue[i] /\ queue[i] \in Slots
                                 /\ queue[i] # frameIndex
      /\ queue'[Len(queue) + 1] = frameIndex
      /\ commands'[frameIndex].stage = "queued"
      /\ \A s \in Slots : s # frameIndex => commands'[s] = commands[s]
  BY Submitted
<1> SUFFICES ASSUME NEW i \in DOMAIN queue', NEW j \in DOMAIN queue', i < j,
                    commands'[queue'[j]].stage = "drawing"
             PROVE  commands'[queue'[i]].stage = "drawing"
  BY DEF OrderInv
<1>2. j # Len(queue) + 1
  BY <1>1
<1>3. i \in DOMAIN queue /\ j \in DOMAIN queue
  BY <1>1, <1>2
<1> QED
  BY <1>1, <1>3 DEF OrderInv

LEMMA FinishOrder ==
  ASSUME FrameInv, OrderInv, GpuFinish
  PROVE  OrderInv'
<1>1. PICK s \in Slots :
        /\ s = queue[1] /\ 1 \in DOMAIN queue
        /\ \A i \in DOMAIN queue' : i + 1 \in DOMAIN queue /\ queue'[i] = queue[i + 1]
        /\ \A i \in DOMAIN queue' : i \in Nat /\ i >= 1
        /\ commands' = [commands EXCEPT ![s] = Idle]
  BY Finished
<1>2. \A k \in DOMAIN queue' : commands'[queue'[k]] = commands[queue[k + 1]]
  <2> SUFFICES ASSUME NEW k \in DOMAIN queue'
               PROVE  commands'[queue'[k]] = commands[queue[k + 1]]
    OBVIOUS
  <2>1. k + 1 \in DOMAIN queue /\ queue'[k] = queue[k + 1] /\ k + 1 # 1
    BY <1>1
  <2>2. queue[k + 1] # s
    BY <1>1, <2>1 DEF FrameInv, FencesGuard
  <2>3. queue[k + 1] \in Slots
    BY <2>1, ElementOfSeq DEF FrameInv, FrameTypes
  <2> QED
    BY <1>1, <2>1, <2>2, <2>3 DEF FrameInv, FrameTypes
<1> SUFFICES ASSUME NEW i \in DOMAIN queue', NEW j \in DOMAIN queue', i < j,
                    commands'[queue'[j]].stage = "drawing"
             PROVE  commands'[queue'[i]].stage = "drawing"
  BY DEF OrderInv
<1>3. i + 1 \in DOMAIN queue /\ j + 1 \in DOMAIN queue /\ i + 1 < j + 1
  BY <1>1
<1> QED
  BY <1>2, <1>3 DEF OrderInv

(* A frame makes its copies when it is the first, or the first has; of two  *)
(* slots, it is then the second.                                           *)
LEMMA CopyOrder ==
  ASSUME FrameInv, OrderInv, NEW s \in Slots, GpuCopy(s)
  PROVE  OrderInv'
<1>1. /\ commands[s].stage = "queued" /\ commands'[s].stage = "drawing"
      /\ \A t \in Slots : t # s => commands'[t] = commands[t]
      /\ UNCHANGED queue
  BY CopiedFacts
<1>2. s = queue[1] \/ commands[queue[1]].stage = "drawing"
  BY DEF GpuCopy
<1>3. queue \in Seq(Slots) /\ DOMAIN queue = 1 .. Len(queue) /\ Len(queue) \in Nat
  BY DEF FrameInv, FrameTypes
<1>4. \A k \in DOMAIN queue : queue[k] \in Slots
  BY <1>3, ElementOfSeq
<1> SUFFICES ASSUME NEW i \in DOMAIN queue', NEW j \in DOMAIN queue', i < j,
                    commands'[queue'[j]].stage = "drawing"
             PROVE  commands'[queue'[i]].stage = "drawing"
  BY DEF OrderInv
<1>5. i \in DOMAIN queue /\ j \in DOMAIN queue /\ 1 \in DOMAIN queue /\ j # 1 /\ queue[i] # queue[j]
  BY <1>1, <1>3 DEF FrameInv, FencesGuard
<1>6. CASE queue[j] # s
  <2>1. commands[queue[j]].stage = "drawing"
    BY <1>1, <1>4, <1>5, <1>6
  <2>2. commands[queue[i]].stage = "drawing"
    BY <1>5, <2>1 DEF OrderInv
  <2> QED
    BY <1>1, <1>4, <1>5, <2>2
<1>7. CASE queue[j] = s
  <2>1. queue[1] # s
    BY <1>5, <1>7 DEF FrameInv, FencesGuard
  <2>2. queue[i] = queue[1]
    BY <1>4, <1>5, <1>7, <2>1, SlotFacts
  <2> QED
    BY <1>1, <1>2, <1>4, <1>5, <2>1, <2>2
<1> QED
  BY <1>6, <1>7

-----------------------------------------------------------------------------
(* What the GPU draws it still finds, whatever was forgotten.               *)
LEMMA DrawsStay ==
  ASSUME FrameInv, DrawsLatest, UsedInv',
         \A s \in Slots : commands'[s].stage = "drawing" =>
           commands[s].stage = "drawing" /\ commands'[s].draws = commands[s].draws,
         \A s \in Slots, b \in VkBuffers :
           commands[s].stage = "drawing" /\ WritesOrDraws(s, b) /\ memory'[b] # Destroyed
             => memory'[b] = memory[b]
  PROVE  DrawsLatest'
<1> SUFFICES ASSUME NEW s \in Slots, commands'[s].stage = "drawing",
                    NEW d \in commands'[s].draws, d[2] # Unwritten
             PROVE  memory'[d[1]] = d[2]
  BY DEF DrawsLatest
<1>1. /\ commands[s].stage = "drawing" /\ d \in commands[s].draws /\ memory[d[1]] = d[2]
  BY DEF DrawsLatest
<1>2. d[1] \in VkBuffers /\ WritesOrDraws(s, d[1])
  BY <1>1, UsedBuffers DEF WritesOrDraws
<1>3. WritesOrDraws(s, d[1])'
  BY DEF WritesOrDraws
<1>4. memory'[d[1]] # Destroyed
  BY <1>2, <1>3 DEF UsedInv, Uses
<1> QED
  BY <1>1, <1>2, <1>4

(* A step of the backend that makes no copies.                              *)
LEMMA BackendValues ==
  ASSUME FrameInv, ValueInv, FrameInv', UseInv', UNCHANGED <<buffers, latest>>,
         stopped => stopped', OrderInv',
         \A s \in Slots :
           /\ commands'[s].stage # "idle" =>
                /\ commands[s].stage # "idle"
                /\ commands'[s].copies = commands[s].copies
                /\ commands'[s].draws = commands[s].draws
           /\ commands'[s].stage = "drawing" => commands[s].stage = "drawing"
           /\ commands'[s].stage \in {"recorded", "queued"}
                <=> commands[s].stage \in {"recorded", "queued"},
         \A b \in VkBuffers : memory'[b] # Destroyed => memory'[b] = memory[b]
  PROVE  ValueInv'
<1>1. \A s \in Slots : \A b : ToCopy(s, b)' = ToCopy(s, b)
  <2> SUFFICES ASSUME NEW s \in Slots, NEW b PROVE ToCopy(s, b)' = ToCopy(s, b)
    OBVIOUS
  <2>1. CASE commands[s].stage \in {"recorded", "queued"}
    <3>1. /\ commands'[s].stage \in {"recorded", "queued"}
          /\ commands'[s].copies = commands[s].copies
      BY <2>1
    <3> QED
      BY <2>1, <3>1 DEF ToCopy
  <2>2. CASE commands[s].stage \notin {"recorded", "queued"}
    <3>1. commands'[s].stage \notin {"recorded", "queued"}
      BY <2>2
    <3> QED
      BY <2>2, <3>1 DEF ToCopy
  <2> QED
    BY <2>1, <2>2
<1>2. DrawsInv' /\ LatestInv'
  <2>1. \A s \in Slots :
          /\ commands'[s].stage # "idle" => commands[s].stage # "idle"
          /\ commands'[s].stage # "idle" => commands'[s].draws = commands[s].draws
          /\ \A b \in VkBuffers : ToCopy(s, b)' = ToCopy(s, b)
    BY <1>1
  <2> QED
    BY <2>1, ValuesKept DEF ValueInv, UseInv
<1>3. RolesInv'
  <2>1. ASSUME NEW s \in Slots, NEW b \in VkBuffers
        PROVE  (WritesOrDraws(s, b)' => WritesOrDraws(s, b)) /\ (Reads(s, b)' => Reads(s, b))
    <3>1. WritesOrDraws(s, b)' => WritesOrDraws(s, b)
      BY DEF WritesOrDraws
    <3>2. ASSUME Reads(s, b)' PROVE Reads(s, b)
      <4>1. commands'[s].stage \in {"recorded", "queued"} /\ \E u \in commands'[s].copies : u[1] = b
        BY <3>2 DEF Reads
      <4>2. commands[s].stage \in {"recorded", "queued"}
        BY <4>1
      <4> QED
        BY <4>1, <4>2 DEF Reads
    <3> QED
      BY <3>1, <3>2
  <2> QED
    BY <2>1, RolesKept DEF ValueInv
<1>4. DrawsLatest'
  <2>1. \A s \in Slots : commands'[s].stage = "drawing" =>
          commands[s].stage = "drawing" /\ commands'[s].draws = commands[s].draws
    OBVIOUS
  <2> QED
    BY <2>1, DrawsStay DEF ValueInv, UseInv
<1> QED
  BY <1>2, <1>3, <1>4 DEF ValueInv

LEMMA BackendValueInv ==
  ASSUME FrameInv, UseInv, ValueInv, FrameInv', UseInv', CopyInv', ~stopped,
         BackendNext, UNCHANGED bufferVars
  PROVE  ValueInv'
<1>1. UNCHANGED <<buffers, latest>> /\ memory \in [VkBuffers -> Int] /\ gcIndex \in Collectors
  BY DEF bufferVars, FrameInv, FrameTypes
<1>2. ASSUME UNCHANGED <<queue, commands>>,
             \A b \in VkBuffers : memory'[b] # Destroyed => memory'[b] = memory[b]
      PROVE  ValueInv'
  <2>1. OrderInv'
    BY <1>2 DEF ValueInv, OrderInv
  <2> QED
    BY <1>1, <1>2, <2>1, BackendValues
<1>3. ASSUME NEW C, Collect(C), UNCHANGED <<queue, commands>>
      PROVE  ValueInv'
  <2>1. \A b \in VkBuffers : memory'[b] # Destroyed => memory'[b] = memory[b]
    BY <1>3 DEF Collect
  <2> QED
    BY <1>2, <1>3, <2>1
<1>4. CASE ResizeWindow
  BY <1>2, <1>4 DEF ResizeWindow, gpuVars
<1>5. CASE NextFrame
  BY <1>3, <1>5 DEF NextFrame, gpuVars
<1>6. CASE RecreateSwap
  BY <1>3, <1>6 DEF RecreateSwap, gpuVars
<1>7. CASE Submit
  <2>1. /\ frameIndex \in Slots /\ commands[frameIndex].stage = "recorded"
        /\ UNCHANGED memory /\ commands'[frameIndex].stage = "queued"
        /\ commands'[frameIndex].copies = commands[frameIndex].copies
        /\ commands'[frameIndex].draws = commands[frameIndex].draws
        /\ \A s \in Slots : s # frameIndex => commands'[s] = commands[s]
    BY <1>7, Submitted
  <2>2. OrderInv'
    BY <1>7, SubmitOrder DEF ValueInv
  <2>3. \A s \in Slots :
          /\ commands'[s].stage # "idle" =>
               /\ commands[s].stage # "idle"
               /\ commands'[s].copies = commands[s].copies
               /\ commands'[s].draws = commands[s].draws
          /\ commands'[s].stage = "drawing" => commands[s].stage = "drawing"
          /\ commands'[s].stage \in {"recorded", "queued"}
               <=> commands[s].stage \in {"recorded", "queued"}
    BY <2>1
  <2> QED
    BY <1>1, <2>1, <2>2, <2>3, BackendValues
<1>8. CASE GpuFinish
  <2>1. PICK s \in Slots :
          /\ commands[s].stage = "drawing" /\ commands' = [commands EXCEPT ![s] = Idle]
          /\ UNCHANGED <<memory, stopped>>
    BY <1>8, Finished
  <2>2. /\ commands'[s].stage = "idle" /\ \A t \in Slots : t # s => commands'[t] = commands[t]
    BY <2>1 DEF FrameInv, FrameTypes, Idle
  <2>3. OrderInv'
    BY <1>8, FinishOrder DEF ValueInv
  <2>4. \A t \in Slots :
          /\ commands'[t].stage # "idle" =>
               /\ commands[t].stage # "idle"
               /\ commands'[t].copies = commands[t].copies
               /\ commands'[t].draws = commands[t].draws
          /\ commands'[t].stage = "drawing" => commands[t].stage = "drawing"
          /\ commands'[t].stage \in {"recorded", "queued"}
               <=> commands[t].stage \in {"recorded", "queued"}
    BY <2>1, <2>2
  <2> QED
    BY <1>1, <2>1, <2>3, <2>4, BackendValues
<1>9. ASSUME NEW s \in Slots, GpuCopy(s) PROVE ValueInv'
  <2>1. DrawsInv' /\ LatestInv'
    BY <1>9, GpuCopyValues DEF ValueInv
  <2>2. OrderInv'
    BY <1>9, CopyOrder DEF ValueInv
  <2>3. RolesInv'
    <3>1. \A t \in Slots :
            /\ commands'[t].stage # "idle" => commands[t].stage # "idle"
            /\ commands'[t].stage \in {"recorded", "queued"} =>
                 commands[t].stage \in {"recorded", "queued"}
            /\ commands'[t].copies = commands[t].copies
            /\ commands'[t].draws = commands[t].draws
      BY <1>9, CopiedFacts
    <3>2. \A t \in Slots, b \in VkBuffers :
            (WritesOrDraws(t, b)' => WritesOrDraws(t, b)) /\ (Reads(t, b)' => Reads(t, b))
      BY <3>1 DEF WritesOrDraws, Reads
    <3> QED
      BY <1>1, <3>2, RolesKept DEF ValueInv
  <2>4. DrawsLatest'
    <3>1. ~stopped'
      BY <1>9, CopiedFacts
    <3> QED
      BY <2>1, <2>2, <3>1, DrawsFound, PTL
  <2> QED
    BY <2>1, <2>2, <2>3, <2>4 DEF ValueInv
<1> QED
  BY <1>4, <1>5, <1>6, <1>7, <1>8, <1>9
     DEF BackendNext, BeginFrame, BeginFrameFails, BeginFrameRecreates, Present, PresentFails

-----------------------------------------------------------------------------
MayWrite(r, b) == Exists(r) /\ buffers[r].host = b

(* A Vulkan buffer that is to contain x keeps it, or is made with it.       *)
Settles(r, b, x) ==
  \/ memory[b] # Destroyed /\ ~MayWrite(r, b) /\ WillBe(b, x)
  \/ memory[b] = Destroyed /\ memory'[b] = x

Fits(r, new, x) ==
  /\ new.kind # "kPerFrame" =>
       /\ ~Awaits(new) => Settles(r, new.device[0], x)
       /\ Awaits(new) /\ new.view # "modified" => memory'[new.host] = x
  /\ new.kind = "kPerFrame" /\ new.view # "modified" =>
       \A s \in Slots : IF s \in new.dirty THEN new.local = x ELSE Settles(r, new.device[s], x)

(* A step of the application writes no memory but that of the render        *)
(* buffer's host buffer, and of new ones.                                  *)
WritesHost(r) ==
  /\ UNCHANGED <<queue, commands>>
  /\ \A b \in VkBuffers : memory[b] # Destroyed /\ ~MayWrite(r, b) => memory'[b] = memory[b]
  /\ ~stopped' => \A s \in Slots, b \in VkBuffers : Reads(s, b) => memory'[b] = memory[b]
  /\ \A q \in RenderBuffers : q # r => latest'[q] = latest[q]

Writes(r, new) ==
  /\ buffers' = [buffers EXCEPT ![r] = new]
  /\ WritesHost(r)
  /\ new # NoBuffer =>
       /\ IsApart(new)
       /\ Exists(r) => new.kind = buffers[r].kind
       /\ new.host = NoBuffer \/ MayWrite(r, new.host) \/ memory[new.host] = Destroyed
       /\ \A s \in Slots : \/ Exists(r) /\ new.device[s] = buffers[r].device[s]
                           \/ memory[new.device[s]] = Destroyed
       /\ ~stopped' => Fits(r, new, latest'[r])

LEMMA Settled ==
  ASSUME FrameInv, UseInv, NEW r \in RenderBuffers, WritesHost(r), ~stopped',
         NEW b \in VkBuffers, NEW x, Settles(r, b, x)
  PROVE  WillBe(b, x)'
<1>1. \A s \in Slots : ToCopy(s, b)' = ToCopy(s, b)
  BY DEF WritesHost, ToCopy
<1>2. \A s \in Slots : \A u \in ToCopy(s, b) : memory'[u[1]] = memory[u[1]]
  BY UsedBuffers DEF WritesHost
<1>3. CASE memory[b] # Destroyed /\ ~MayWrite(r, b) /\ WillBe(b, x)
  <2>1. memory'[b] = memory[b]
    BY <1>3 DEF WritesHost
  <2> QED
    BY <1>1, <1>2, <1>3, <2>1, WillStay
<1>4. CASE memory[b] = Destroyed /\ memory'[b] = x
  <2>1. ASSUME NEW s \in Slots, NEW u \in ToCopy(s, b) PROVE FALSE
    <3>1. Uses(s, b)
      BY <2>1, UsedBuffers DEF Uses
    <3> QED
      BY <1>4, <3>1 DEF UseInv, UsedInv
  <2>2. \A s \in Slots : ToCopy(s, b)' = {}
    BY <1>1, <2>1
  <2> QED
    BY <1>4, <2>2 DEF WillBe
<1> QED
  BY <1>3, <1>4 DEF Settles

LEMMA WritesRoles ==
  ASSUME FrameInv, UseInv, RolesInv, FrameInv', NEW r \in RenderBuffers, NEW new, Writes(r, new)
  PROVE  RolesInv'
<1>1. /\ \A s \in Slots : \A b : WritesOrDraws(s, b)' <=> WritesOrDraws(s, b)
      /\ \A s \in Slots : \A b : Reads(s, b)' <=> Reads(s, b)
  BY DEF Writes, WritesHost, WritesOrDraws, Reads
<1>2. /\ buffers'[r] = new /\ \A q \in RenderBuffers : q # r => buffers'[q] = buffers[q]
  BY DEF Writes, FrameInv, BufferTypes
<1>3. \A s, t \in Slots, b \in VkBuffers : Reads(s, b)' => ~WritesOrDraws(t, b)'
  BY <1>1 DEF RolesInv
<1>4. \A s \in Slots : \A b : Uses(s, b) => b \in VkBuffers /\ memory[b] # Destroyed
  BY UsedBuffers DEF UseInv, UsedInv
<1>5. ASSUME NEW q \in RenderBuffers, Exists(q)', q # r
      PROVE  HasRoles(buffers[q])'
  <2>1. buffers'[q] = buffers[q] /\ HasRoles(buffers[q])
    BY <1>2, <1>5 DEF RolesInv, Exists
  <2> QED
    BY <1>1, <2>1 DEF HasRoles, IsApart
<1>6. ASSUME new # NoBuffer
      PROVE  HasRoles(buffers[r])'
  <2>1. /\ IsApart(new) /\ (Exists(r) => new.kind = buffers[r].kind)
        /\ new.host = NoBuffer \/ MayWrite(r, new.host) \/ memory[new.host] = Destroyed
        /\ \A s \in Slots : \/ Exists(r) /\ new.device[s] = buffers[r].device[s]
                            \/ memory[new.device[s]] = Destroyed
    BY <1>6 DEF Writes
  <2>2. Exists(r) => HasRoles(buffers[r])
    BY DEF RolesInv
  <2>3. ASSUME NEW s \in Slots
        PROVE  ~WritesOrDraws(s, new.host) /\ (Reads(s, new.host) => new.kind = "kStaticReadWrite")
    <3>1. CASE MayWrite(r, new.host)
      BY <2>1, <2>2, <3>1 DEF MayWrite, HasRoles
    <3>2. CASE ~MayWrite(r, new.host)
      <4>1. ~Uses(s, new.host)
        BY <1>4, <2>1, <3>2, ConstantFacts
      <4> QED
        BY <4>1 DEF Uses
    <3> QED
      BY <3>1, <3>2
  <2>4. ASSUME NEW s \in Slots, NEW t \in Slots
        PROVE  /\ ~Reads(s, new.device[t])
               /\ new.kind = "kPerFrame" /\ WritesOrDraws(s, new.device[t]) => s = t
    <3>1. CASE Exists(r) /\ new.device[t] = buffers[r].device[t]
      BY <2>1, <2>2, <3>1 DEF HasRoles
    <3>2. CASE memory[new.device[t]] = Destroyed
      <4>1. ~Uses(s, new.device[t])
        BY <1>4, <3>2
      <4> QED
        BY <4>1 DEF Uses
    <3> QED
      BY <2>1, <3>1, <3>2
  <2>5. IsApart(buffers[r])'
    BY <1>2, <2>1 DEF IsApart
  <2> QED
    BY <1>1, <1>2, <2>3, <2>4, <2>5 DEF HasRoles
<1>7. \A q \in RenderBuffers : Exists(q)' => HasRoles(buffers[q])'
  BY <1>2, <1>5, <1>6 DEF Exists
<1> QED
  BY <1>3, <1>7 DEF RolesInv

LEMMA WritesValueInv ==
  ASSUME FrameInv, UseInv, ValueInv, FrameInv', UseInv', ~stopped, NEW r \in RenderBuffers,
         NEW new, Writes(r, new)
  PROVE  ValueInv'
<1>1. /\ UNCHANGED <<queue, commands>> /\ WritesHost(r)
      /\ \A b \in VkBuffers : memory[b] # Destroyed /\ ~MayWrite(r, b) => memory'[b] = memory[b]
      /\ \A q \in RenderBuffers : q # r => latest'[q] = latest[q]
  BY DEF Writes, WritesHost
<1>2. /\ buffers'[r] = new /\ \A q \in RenderBuffers : q # r => buffers'[q] = buffers[q]
  BY DEF Writes, FrameInv, BufferTypes
<1>3. RolesInv'
  BY WritesRoles DEF ValueInv
<1>4. OrderInv'
  BY <1>1 DEF ValueInv, OrderInv
<1>5. \A s \in Slots, b \in VkBuffers : WritesOrDraws(s, b) =>
        memory[b] # Destroyed /\ ~MayWrite(r, b)
  <2>1. \A s \in Slots, b \in VkBuffers : WritesOrDraws(s, b) => memory[b] # Destroyed
    BY DEF UseInv, UsedInv, Uses
  <2>2. \A s \in Slots, b \in VkBuffers : WritesOrDraws(s, b) => ~MayWrite(r, b)
    BY DEF ValueInv, RolesInv, HasRoles, MayWrite
  <2> QED
    BY <2>1, <2>2
<1>6. DrawsLatest'
  <2>1. \A s \in Slots, b \in VkBuffers :
          commands[s].stage = "drawing" /\ WritesOrDraws(s, b) /\ memory'[b] # Destroyed
            => memory'[b] = memory[b]
    BY <1>1, <1>5
  <2>2. \A s \in Slots : commands'[s].stage = "drawing" =>
          commands[s].stage = "drawing" /\ commands'[s].draws = commands[s].draws
    BY <1>1
  <2> QED
    BY <2>1, <2>2, DrawsStay DEF ValueInv, UseInv
<1>7. DrawsInv'
  <2> SUFFICES ASSUME ~stopped', NEW s \in Slots, commands'[s].stage # "idle",
                      NEW d \in commands'[s].draws, d[2] # Unwritten
               PROVE  WillBe(d[1], d[2])'
    BY DEF DrawsInv
  <2>1. commands[s].stage # "idle" /\ d \in commands[s].draws
    BY <1>1
  <2>2. d[1] \in VkBuffers /\ WritesOrDraws(s, d[1]) /\ WillBe(d[1], d[2])
    BY <2>1, UsedBuffers DEF WritesOrDraws, ValueInv, DrawsInv
  <2>3. Settles(r, d[1], d[2])
    BY <1>5, <2>2 DEF Settles
  <2> QED
    BY <1>1, <2>2, <2>3, Settled
<1>8. ASSUME ~stopped', NEW q \in RenderBuffers, Exists(q)', q # r
      PROVE  Keeps(buffers[q], latest[q])'
  <2>1. buffers'[q] = buffers[q] /\ latest'[q] = latest[q] /\ Exists(q)
    BY <1>1, <1>2, <1>8 DEF Exists
  <2>2. Keeps(buffers[q], latest[q]) /\ HasRoles(buffers[q])
    BY <2>1 DEF ValueInv, LatestInv, RolesInv
  <2>3. /\ buffers[q] \in BufferObjects
        /\ \A b \in Handles(buffers[q]) : b \in VkBuffers /\ memory[b] # Destroyed
        /\ \A s \in Slots : buffers[q].device[s] \in Handles(buffers[q])
        /\ buffers[q].host \in VkBuffers => buffers[q].host \in Handles(buffers[q])
    BY <2>1, Existing, HandleFacts
  <2>4. \A b \in Handles(buffers[q]) : ~MayWrite(r, b)
    <3> SUFFICES ASSUME NEW b \in Handles(buffers[q]), MayWrite(r, b) PROVE FALSE
      OBVIOUS
    <3>1. Exists(r) /\ buffers[r].host = b /\ b \in VkBuffers
      BY <2>3 DEF MayWrite
    <3>2. b \in Handles(buffers[r])
      BY <3>1, Existing, HandleFacts
    <3> QED
      BY <1>8, <3>2 DEF FrameInv, OwnedInv
  <2>5. /\ 0 \in Slots
        /\ \A s \in Slots : \A x : WillBe(buffers[q].device[s], x) => WillBe(buffers[q].device[s], x)'
    <3> SUFFICES ASSUME NEW s \in Slots, NEW x, WillBe(buffers[q].device[s], x)
                 PROVE  WillBe(buffers[q].device[s], x)'
      BY SlotFacts
    <3>1. PICK b \in VkBuffers : b = buffers[q].device[s]
      BY <2>3
    <3>2. Settles(r, b, x)
      BY <2>3, <2>4, <3>1 DEF Settles
    <3>3. WillBe(b, x)'
      BY <1>1, <1>8, <3>2, Settled
    <3> QED
      BY <2>1, <3>1, <3>3 DEF WillBe, ToCopy
  <2>6. Awaits(buffers[q]) /\ buffers[q].view # "modified" => buffers[q].host \in VkBuffers
    <3>1. IsSound(buffers[q]) /\ buffers[q].kind \in Kinds
      BY <2>1, Existing, ObjectFields
    <3> QED
      BY <2>2, <3>1 DEF IsSound, Awaits, Kinds, HasRoles, IsApart
  <2>7. Awaits(buffers[q]) /\ buffers[q].view # "modified" =>
          memory'[buffers[q].host] = memory[buffers[q].host]
    BY <1>1, <2>3, <2>4, <2>6
  <2> QED
    BY <2>1, <2>2, <2>5, <2>7 DEF Keeps, Awaits
<1>9. ASSUME ~stopped', new # NoBuffer
      PROVE  Keeps(buffers[r], latest[r])'
  <2>1. Fits(r, new, latest'[r])
    BY <1>9 DEF Writes
  <2>2. \A s \in Slots : new.device[s] \in VkBuffers
    <3>1. buffers'[r] \in BufferObjects
      BY <1>2, <1>9 DEF FrameInv, BufferTypes
    <3> QED
      BY <1>2, <3>1, ObjectFields
  <2>3. /\ 0 \in Slots
        /\ \A s \in Slots : \A x : Settles(r, new.device[s], x) => WillBe(new.device[s], x)'
    BY <1>1, <1>9, <2>2, Settled, SlotFacts
  <2> QED
    BY <1>2, <2>1, <2>3 DEF Fits, Keeps, Awaits
<1>10. LatestInv'
  <2>1. \A q \in RenderBuffers : ~stopped' /\ Exists(q)' => Keeps(buffers[q], latest[q])'
    BY <1>2, <1>8, <1>9 DEF Exists
  <2> QED
    BY <2>1 DEF LatestInv
<1> QED
  BY <1>3, <1>4, <1>6, <1>7, <1>10 DEF ValueInv

(* What the application writes is in the host buffer, and nobody copies     *)
(* from it, or in a Vulkan buffer that is new.                             *)
LEMMA HostWrites ==
  ASSUME FrameInv, UseInv, NEW r \in RenderBuffers, Write \/ Edit,
         latest' = latest \/ \E x : latest' = [latest EXCEPT ![r] = x],
         \A b \in VkBuffers : memory[b] # Destroyed /\ memory'[b] # memory[b] =>
           MayWrite(r, b) /\ (~stopped' => \A s \in Slots : ~Reads(s, b))
  PROVE  WritesHost(r)
<1>1. UNCHANGED <<queue, commands>>
  BY WriteFacts
<1>2. \A s \in Slots, b \in VkBuffers : Reads(s, b) => memory[b] # Destroyed
  BY DEF UseInv, UsedInv, Uses
<1>3. \A q \in RenderBuffers : q # r => latest'[q] = latest[q]
  BY DEF FrameInv, BufferTypes
<1> QED
  BY <1>1, <1>2, <1>3 DEF WritesHost

(* The mishap of a host buffer that is written in flight.                   *)
LEMMA HostUnread ==
  ASSUME NoMishap, FrameInv, pc \in {"app", "frame"}, NEW h, HostWritten(h), ~stopped'
  PROVE  \A s \in Slots : ~Reads(s, h)
<1>1. ~\E s \in Slots : \E u \in commands[s].copies : commands[s].stage = "queued" /\ u[1] = h
  BY DEF HostWritten, Mishap, NoMishap
<1>2. \A s \in Slots : commands[s].stage # "recorded"
  BY DEF FrameInv, StageInv
<1> QED
  BY <1>1, <1>2 DEF Reads

LEMMA StoredValues ==
  ASSUME FrameInv, NEW b \in VkBuffers, NEW v
  PROVE  /\ Store(b, v)[b] = v /\ \A c \in VkBuffers : c # b => Store(b, v)[c] = memory[c]
         /\ \A c \in VkBuffers : memory[c] # Destroyed => Store(b, Contents(b))[c] = memory[c]
<1>1. memory \in [VkBuffers -> Int]
  BY DEF FrameInv, FrameTypes
<1>2. \A c \in VkBuffers : memory[c] # Destroyed => Contents(c) = memory[c]
  BY DEF Contents
<1> QED
  BY <1>1, <1>2 DEF Store

LEMMA StoredWithValues ==
  ASSUME FrameInv, NEW b \in VkBuffers, NEW v, NEW d \in VkBuffers, d # b,
         memory' = StoreWith(b, v, d)
  PROVE  /\ memory'[b] = v
         /\ \A c \in VkBuffers : c # b /\ memory[c] # Destroyed => memory'[c] = memory[c]
<1>1. memory \in [VkBuffers -> Int]
  BY DEF FrameInv, FrameTypes
<1>2. \A c \in VkBuffers : memory[c] # Destroyed => Contents(c) = memory[c]
  BY DEF Contents
<1> QED
  BY <1>1, <1>2 DEF StoreWith

(* A static buffer that a step changes.                                     *)
LEMMA WritesStatic ==
  ASSUME FrameInv, RolesInv, NEW r \in RenderBuffers, Exists(r), NEW new \in BufferObjects,
         buffers[r].kind # "kPerFrame", new.kind = buffers[r].kind,
         buffers' = [buffers EXCEPT ![r] = new], WritesHost(r),
         IsSound(new), IsApart(new),
         new.host = NoBuffer \/ new.host = buffers[r].host \/ memory[new.host] = Destroyed,
         new.device[0] = buffers[r].device[0] \/ memory[new.device[0]] = Destroyed,
         ~stopped' =>
           /\ ~Awaits(new) => new.device[0] = buffers[r].device[0]
                              /\ WillBe(new.device[0], latest'[r])
           /\ Awaits(new) /\ new.view # "modified" => memory'[new.host] = latest'[r]
  PROVE  Writes(r, new)
<1>1. /\ IsSound(buffers[r]) /\ 0 \in Slots
      /\ memory[buffers[r].device[0]] # Destroyed
      /\ buffers[r].host # buffers[r].device[0]
  BY Existing, SlotFacts DEF RolesInv, HasRoles, IsApart
<1>2. /\ \A s \in Slots : new.device[s] = new.device[0]
      /\ \A s \in Slots : buffers[r].device[s] = buffers[r].device[0]
  BY <1>1 DEF IsSound
<1>3. ~stopped' => Fits(r, new, latest'[r])
  BY <1>1 DEF Fits, Settles, MayWrite
<1> QED
  BY <1>2, <1>3 DEF Writes, MayWrite

(* An existing buffer, and what it keeps.                                   *)
LEMMA ExistingValues ==
  ASSUME FrameInv, ValueInv, ~stopped, NEW r \in RenderBuffers, Exists(r)
  PROVE  /\ buffers[r] \in BufferObjects /\ IsSound(buffers[r])
         /\ HasRoles(buffers[r]) /\ Keeps(buffers[r], latest[r])
         /\ buffers[r].device[0] \in VkBuffers /\ memory[buffers[r].device[0]] # Destroyed
         /\ buffers[r].host \in VkBuffers => memory[buffers[r].host] # Destroyed
         /\ \A s \in Slots : buffers[r].host # buffers[r].device[s]
<1>1. /\ buffers[r] \in BufferObjects /\ IsSound(buffers[r])
      /\ \A b \in Handles(buffers[r]) : b \in VkBuffers /\ memory[b] # Destroyed
  BY Existing
<1>2. HasRoles(buffers[r]) /\ Keeps(buffers[r], latest[r])
  BY DEF ValueInv, RolesInv, LatestInv
<1> QED
  BY <1>1, <1>2, HandleFacts DEF HasRoles, IsApart

LEMMA CreateWrites ==
  ASSUME FrameInv, UseInv, NEW r \in RenderBuffers, NEW kind \in Kinds, Create(r, kind)
  PROVE  \E new : Writes(r, new)
<1>1. PICK d0 \in Unused \cup {NoBuffer}, d1 \in Unused \cup {NoBuffer}, h \in Unused \cup {NoBuffer} :
        /\ NoBuffer \notin {d0, d1}
        /\ (kind = "kPerFrame") = (d0 # d1)
        /\ (kind = "kStaticReadWrite") = (h # NoBuffer)
        /\ h \notin {d0, d1}
        /\ Become(r, NewBuffer(kind, h, [s \in Slots |-> IF s = 0 THEN d0 ELSE d1]))
        /\ memory' = [b \in VkBuffers |-> IF b \in {d0, d1, h} THEN Unwritten ELSE memory[b]]
  BY DEF Create
<1> DEFINE device == [s \in Slots |-> IF s = 0 THEN d0 ELSE d1]
           new == NewBuffer(kind, h, device)
<1>2. /\ d0 \in VkBuffers /\ d1 \in VkBuffers
      /\ memory[d0] = Destroyed /\ memory[d1] = Destroyed
      /\ h = NoBuffer \/ memory[h] = Destroyed
  BY <1>1, ConstantFacts DEF Unused
<1>3. /\ device[0] = d0 /\ device[1] = d1 /\ \A s \in Slots : device[s] \in {d0, d1}
  BY <1>2, SlotFacts
<1> HIDE DEF device
<1>4. /\ new.kind = kind /\ new.host = h /\ new.device = device /\ new.dirty = {}
      /\ new.view = "none"
  BY DEF NewBuffer
<1>5. buffers' = [buffers EXCEPT ![r] = new]
  BY <1>1 DEF Become, new, device
<1> HIDE DEF new
<1>6. /\ \A b \in VkBuffers : memory[b] # Destroyed => memory'[b] = memory[b]
      /\ \A s \in Slots : memory'[device[s]] = Unwritten /\ memory[device[s]] = Destroyed
  <2>1. \A b \in VkBuffers : memory'[b] = IF b \in {d0, d1, h} THEN Unwritten ELSE memory[b]
    BY <1>1
  <2>2. \A b \in VkBuffers : memory[b] # Destroyed => b \notin {d0, d1, h}
    BY <1>2, ConstantFacts
  <2>3. memory'[d0] = Unwritten /\ memory'[d1] = Unwritten
    BY <1>2, <2>1
  <2> QED
    BY <1>2, <1>3, <2>1, <2>2, <2>3
<1>7. latest' = [latest EXCEPT ![r] = Unwritten] /\ ~Exists(r) /\ Edit
  BY DEF Create
<1>8. WritesHost(r)
  BY <1>6, <1>7, HostWrites
<1>9. IsApart(new)
  BY <1>1, <1>3, <1>4 DEF IsApart
<1>10. latest'[r] = Unwritten
  BY <1>7 DEF FrameInv, BufferTypes
<1>11. Fits(r, new, latest'[r])
  BY <1>4, <1>6, <1>10, SlotFacts DEF Fits, Settles, Awaits
<1> QED
  BY <1>2, <1>4, <1>5, <1>6, <1>7, <1>8, <1>9, <1>11 DEF Writes

LEMMA DeleteWrites ==
  ASSUME FrameInv, UseInv, NEW r \in RenderBuffers, DeleteBuffer(r)
  PROVE  \E new : Writes(r, new)
<1>1. buffers' = [buffers EXCEPT ![r] = NoBuffer] /\ UNCHANGED <<memory, latest>> /\ Edit
  BY DEF DeleteBuffer, Become
<1>2. WritesHost(r)
  BY <1>1, HostWrites
<1>3. Writes(r, NoBuffer)
  BY <1>1, <1>2 DEF Writes
<1> QED
  BY <1>3

LEMMA SetStaticWriteWrites ==
  ASSUME FrameInv, UseInv, ValueInv, ~stopped, NEW r \in RenderBuffers, SetStaticWrite(r)
  PROVE  \E new : Writes(r, new)
<1> DEFINE b == buffers[r]
<1>1. /\ Write /\ Exists(r) /\ b.kind = "kStaticWrite" /\ UNCHANGED stopped
  BY DEF SetStaticWrite, IsKind
<1>2. /\ b \in BufferObjects /\ IsSound(b) /\ HasRoles(b) /\ Keeps(b, latest[r])
      /\ b.device[0] \in VkBuffers /\ memory[b.device[0]] # Destroyed
      /\ b.host \in VkBuffers => memory[b.host] # Destroyed
      /\ \A s \in Slots : b.host # b.device[s]
  BY <1>1, ExistingValues
<1>3. /\ b.view = "none" /\ IsApart(b) /\ \A s \in Slots : ~Reads(s, b.host)
  BY <1>1, <1>2 DEF HasRoles, IsApart
<1>4. latest \in [RenderBuffers -> Int] /\ buffers \in [RenderBuffers -> BufferObjects \cup {NoBuffer}]
  BY DEF FrameInv, BufferTypes
<1>5. RolesInv /\ 0 \in Slots /\ Slots # {}
  BY SlotFacts DEF ValueInv
<1>6. ASSUME b.dirty # {}, memory' = Store(b.host, NextValue),
             latest' = [latest EXCEPT ![r] = NextValue], UNCHANGED buffers
      PROVE  Writes(r, b)
  <2>1. b.host \in VkBuffers
    BY <1>1, <1>2, <1>6 DEF IsSound
  <2>2. memory'[b.host] = NextValue /\ \A c \in VkBuffers : c # b.host => memory'[c] = memory[c]
    BY <1>6, <2>1, StoredValues
  <2>3. WritesHost(r)
    BY <1>1, <1>3, <1>6, <2>2, HostWrites DEF MayWrite
  <2>4. buffers' = [buffers EXCEPT ![r] = b] /\ latest'[r] = NextValue
    BY <1>4, <1>6
  <2>5. Awaits(b)
    BY <1>1, <1>6 DEF Awaits
  <2> QED
    BY <1>1, <1>2, <1>3, <1>5, <2>2, <2>3, <2>4, <2>5, WritesStatic
<1>7. ASSUME b.dirty = {}, NEW h \in Unused, NEW d \in DeviceFor(b, h),
             Become(r, [WithDevice(b, d) EXCEPT !.host = h, !.dirty = Slots]),
             memory' = StoreWith(h, NextValue, d), latest' = [latest EXCEPT ![r] = NextValue]
      PROVE  \E new : Writes(r, new)
  <2> DEFINE e == WithDevice(b, d)
             new == [e EXCEPT !.host = h, !.dirty = Slots]
  <2>1. h \in VkBuffers /\ memory[h] = Destroyed
    BY DEF Unused
  <2>2. /\ d \in VkBuffers /\ d # h /\ (memory[d] = Destroyed \/ d = b.device[0])
    BY <1>2, <2>1, DeviceChoice
  <2>3. /\ e \in BufferObjects /\ IsSound(e) /\ \A s \in Slots : e.device[s] = d
        /\ e.kind = b.kind /\ e.view = b.view
    BY <1>1, <1>2, <2>2, DeviceFacts
  <2>4. buffers' = [buffers EXCEPT ![r] = new]
    BY <1>7 DEF Become
  <2> HIDE DEF e
  <2>5. /\ new \in BufferObjects /\ new.host = h /\ new.device = e.device
        /\ new.kind = e.kind /\ new.view = e.view /\ new.dirty = Slots
        /\ new.bound = e.bound /\ new.set = e.set
    BY <2>1, <2>3 DEF BufferObjects
  <2> HIDE DEF new
  <2>6. IsSound(new) /\ IsApart(new)
    BY <1>1, <1>3, <2>1, <2>2, <2>3, <2>5 DEF IsSound, IsApart
  <2>7. /\ memory'[h] = NextValue
        /\ \A c \in VkBuffers : c # h /\ memory[c] # Destroyed => memory'[c] = memory[c]
    BY <1>7, <2>1, <2>2, StoredWithValues
  <2>8. WritesHost(r)
    BY <1>1, <1>7, <2>1, <2>7, HostWrites
  <2>9. Awaits(new) /\ latest'[r] = NextValue
    BY <1>1, <1>4, <1>5, <1>7, <2>3, <2>5 DEF Awaits
  <2>10. Writes(r, new)
    BY <1>1, <1>2, <1>5, <2>1, <2>2, <2>3, <2>4, <2>5, <2>6, <2>7, <2>8, <2>9, WritesStatic, ZenonT(60)
  <2> QED
    BY <2>10
<1>8. ASSUME b.dirty = {}, NEW h \in Unused, memory' = Store(h, Unwritten),
             UNCHANGED <<buffers, latest>>
      PROVE  Writes(r, b)
  <2>1. h \in VkBuffers /\ memory[h] = Destroyed
    BY DEF Unused
  <2>2. \A c \in VkBuffers : memory[c] # Destroyed => memory'[c] = memory[c]
    BY <1>8, <2>1, StoredValues
  <2>3. WritesHost(r)
    BY <1>1, <1>8, <2>2, HostWrites
  <2>4. buffers' = [buffers EXCEPT ![r] = b]
    BY <1>4, <1>8
  <2>5. ~Awaits(b)
    BY <1>3, <1>8 DEF Awaits
  <2>6. WillBe(b.device[0], latest'[r])
    BY <1>1, <1>2, <1>8, <2>5 DEF Keeps
  <2> QED
    BY <1>1, <1>2, <1>3, <1>5, <2>3, <2>4, <2>5, <2>6, WritesStatic
<1> QED
  BY <1>6, <1>7, <1>8 DEF SetStaticWrite

LEMMA SetStaticReadWriteWrites ==
  ASSUME NoMishap, FrameInv, UseInv, ValueInv, ~stopped, NEW r \in RenderBuffers,
         SetStaticReadWrite(r)
  PROVE  \E new : Writes(r, new)
<1> DEFINE b == buffers[r]
<1>1. /\ Write /\ Exists(r) /\ b.kind = "kStaticReadWrite" /\ b.view = "none"
  BY DEF SetStaticReadWrite, IsKind
<1>2. /\ b \in BufferObjects /\ IsSound(b) /\ HasRoles(b) /\ Keeps(b, latest[r])
      /\ b.device[0] \in VkBuffers /\ memory[b.device[0]] # Destroyed
      /\ b.host \in VkBuffers => memory[b.host] # Destroyed
      /\ \A s \in Slots : b.host # b.device[s]
  BY <1>1, ExistingValues
<1>3. b.host \in VkBuffers /\ IsApart(b) /\ pc \in {"app", "frame"}
  BY <1>1, <1>2, WriteFacts DEF IsSound, HasRoles
<1>4. latest \in [RenderBuffers -> Int] /\ RolesInv /\ 0 \in Slots /\ Slots # {}
  BY SlotFacts DEF ValueInv, FrameInv, BufferTypes
<1>5. PICK h \in HostFor(b) :
        LET c == WithHost(b, h) IN
        /\ HostWritten(h)
        /\ \/ /\ b.dirty # {}
              /\ Become(r, c)
              /\ memory' = Store(h, NextValue)
              /\ latest' = [latest EXCEPT ![r] = NextValue]
           \/ /\ b.dirty = {}
              /\ \E d \in DeviceFor(b, h) :
                   /\ Become(r, [WithDevice(c, d) EXCEPT !.dirty = Slots])
                   /\ memory' = StoreWith(h, NextValue, d)
              /\ latest' = [latest EXCEPT ![r] = NextValue]
           \/ /\ b.dirty = {}
              /\ FrameInUse(b.renderFrame)
              /\ Become(r, c)
              /\ memory' = Store(h, NextValue)
              /\ UNCHANGED latest
  BY DEF SetStaticReadWrite
<1> DEFINE c == WithHost(b, h)
<1>6. h \in VkBuffers /\ (memory[h] = Destroyed \/ h = b.host)
  BY <1>2, <1>3, HostChoice
<1>7. ~stopped' => \A s \in Slots : ~Reads(s, h)
  BY <1>3, <1>5, HostUnread
<1>8. /\ c \in BufferObjects /\ IsSound(c) /\ c.host = h /\ c.device = b.device
      /\ c.kind = b.kind /\ c.view = b.view /\ c.dirty = b.dirty
  BY <1>1, <1>2, <1>6, HostFacts
<1> HIDE DEF c
<1>9. IsApart(c)
  <2>1. \A s \in Slots : b.device[s] = b.device[0]
    BY <1>1, <1>2, <1>4 DEF IsSound
  <2>2. h # b.device[0]
    BY <1>2, <1>4, <1>6
  <2> QED
    BY <1>1, <1>8, <2>1, <2>2 DEF IsApart
<1>10. ASSUME Become(r, c), memory' = Store(h, NextValue),
              \/ b.dirty # {} /\ latest' = [latest EXCEPT ![r] = NextValue]
              \/ b.dirty = {} /\ UNCHANGED latest
       PROVE  Writes(r, c)
  <2>1. memory'[h] = NextValue /\ \A v \in VkBuffers : v # h => memory'[v] = memory[v]
    BY <1>6, <1>10, StoredValues
  <2>2. WritesHost(r)
    BY <1>1, <1>6, <1>7, <1>10, <2>1, HostWrites DEF MayWrite
  <2>3. buffers' = [buffers EXCEPT ![r] = c]
    BY <1>10 DEF Become
  <2>4. ~Awaits(c) => c.device[0] = b.device[0] /\ WillBe(c.device[0], latest'[r])
    <3>1. ASSUME ~Awaits(c) PROVE ~Awaits(b) /\ UNCHANGED latest
      BY <1>1, <1>8, <1>10, <3>1 DEF Awaits
    <3> QED
      BY <1>1, <1>2, <1>8, <3>1 DEF Keeps
  <2>5. Awaits(c) => memory'[c.host] = latest'[r]
    <3>1. ASSUME Awaits(c) PROVE latest'[r] = NextValue
      BY <1>1, <1>4, <1>8, <1>10, <3>1 DEF Awaits
    <3> QED
      BY <1>8, <2>1, <3>1
  <2> QED
    BY <1>1, <1>4, <1>6, <1>8, <1>9, <2>2, <2>3, <2>4, <2>5, WritesStatic
<1>11. ASSUME NEW d \in DeviceFor(b, h), Become(r, [WithDevice(c, d) EXCEPT !.dirty = Slots]),
              memory' = StoreWith(h, NextValue, d), latest' = [latest EXCEPT ![r] = NextValue]
       PROVE  \E new : Writes(r, new)
  <2> DEFINE e == WithDevice(c, d)
             new == [e EXCEPT !.dirty = Slots]
  <2>1. /\ d \in VkBuffers /\ d # h /\ (memory[d] = Destroyed \/ d = b.device[0])
    <3>1. d \in VkBuffers /\ ((memory[d] = Destroyed /\ d # h) \/ d = b.device[0])
      BY <1>2, DeviceChoice
    <3>2. h # b.device[0]
      BY <1>2, <1>4, <1>6
    <3> QED
      BY <3>1, <3>2
  <2>2. /\ e \in BufferObjects /\ IsSound(e) /\ \A s \in Slots : e.device[s] = d
        /\ e.kind = b.kind /\ e.view = b.view /\ e.host = h
    BY <1>1, <1>8, <2>1, DeviceFacts
  <2>3. buffers' = [buffers EXCEPT ![r] = new]
    BY <1>11 DEF Become
  <2> HIDE DEF e
  <2>4. /\ new \in BufferObjects /\ new.host = h /\ new.device = e.device
        /\ new.kind = e.kind /\ new.view = e.view /\ new.dirty = Slots
        /\ new.bound = e.bound /\ new.set = e.set
    BY <2>2 DEF BufferObjects
  <2> HIDE DEF new
  <2>5. IsSound(new) /\ IsApart(new)
    BY <1>1, <1>6, <2>1, <2>2, <2>4 DEF IsSound, IsApart
  <2>6. /\ memory'[h] = NextValue
        /\ \A v \in VkBuffers : v # h /\ memory[v] # Destroyed => memory'[v] = memory[v]
    BY <1>6, <1>11, <2>1, StoredWithValues
  <2>7. WritesHost(r)
    BY <1>1, <1>6, <1>7, <1>11, <2>6, HostWrites DEF MayWrite
  <2>8. Awaits(new) /\ latest'[r] = NextValue
    BY <1>1, <1>4, <1>11, <2>2, <2>4 DEF Awaits
  <2>9. Writes(r, new)
    BY <1>1, <1>4, <1>6, <2>1, <2>2, <2>3, <2>4, <2>5, <2>6, <2>7, <2>8, WritesStatic
  <2> QED
    BY <2>9
<1> QED
  BY <1>5, <1>10, <1>11 DEF c

LEMMA EditBeginStaticWrites ==
  ASSUME FrameInv, UseInv, ValueInv, ~stopped, NEW r \in RenderBuffers, EditBeginStatic(r)
  PROVE  \E new : Writes(r, new)
<1> DEFINE b == buffers[r]
<1>1. /\ Edit /\ Exists(r) /\ b.kind = "kStaticReadWrite" /\ b.view = "none"
      /\ UNCHANGED latest
  BY DEF EditBeginStatic, IsKind
<1>2. /\ b \in BufferObjects /\ IsSound(b) /\ HasRoles(b) /\ Keeps(b, latest[r])
      /\ b.device[0] \in VkBuffers /\ memory[b.device[0]] # Destroyed
      /\ b.host \in VkBuffers => memory[b.host] # Destroyed
      /\ \A s \in Slots : b.host # b.device[s]
  BY <1>1, ExistingValues
<1>3. b.host \in VkBuffers /\ IsApart(b) /\ RolesInv /\ 0 \in Slots
  BY <1>1, <1>2, SlotFacts DEF IsSound, HasRoles, ValueInv
<1>4. PICK h \in HostFor(b) :
        /\ Become(r, [WithHost(b, h) EXCEPT !.view = "unmodified",
                                            !.wasDirty = b.dirty, !.dirty = {}])
        /\ memory' = Store(h, memory[b.host])
  BY DEF EditBeginStatic
<1> DEFINE c == WithHost(b, h)
           new == [c EXCEPT !.view = "unmodified", !.wasDirty = b.dirty, !.dirty = {}]
<1>5. h \in VkBuffers /\ (memory[h] = Destroyed \/ h = b.host)
  BY <1>2, <1>3, <1>4, HostChoice
<1>6. /\ c \in BufferObjects /\ IsSound(c) /\ c.host = h /\ c.device = b.device
      /\ c.kind = b.kind
  BY <1>1, <1>2, <1>5, HostFacts
<1>7. b.dirty \in SUBSET Slots /\ buffers' = [buffers EXCEPT ![r] = new]
  BY <1>2, <1>4, ObjectFields DEF Become
<1> HIDE DEF c
<1>8. /\ new \in BufferObjects /\ new.device = c.device /\ new.host = h
      /\ new.kind = c.kind /\ new.bound = c.bound /\ new.set = c.set
      /\ new.dirty = {} /\ new.wasDirty = b.dirty /\ new.view = "unmodified"
  BY <1>6, <1>7 DEF BufferObjects
<1> HIDE DEF new
<1>9. IsSound(new) /\ IsApart(new)
  <2>1. \A s \in Slots : b.device[s] = b.device[0]
    BY <1>1, <1>2, <1>3 DEF IsSound
  <2>2. h # b.device[0]
    BY <1>2, <1>3, <1>5
  <2> QED
    BY <1>1, <1>5, <1>6, <1>8, <2>1, <2>2 DEF IsSound, IsApart
<1>10. /\ memory'[h] = memory[b.host] /\ \A v \in VkBuffers : v # h => memory'[v] = memory[v]
  BY <1>4, <1>5, StoredValues
<1>11. \A v \in VkBuffers : memory[v] # Destroyed => memory'[v] = memory[v]
  BY <1>5, <1>10
<1>12. WritesHost(r)
  BY <1>1, <1>11, HostWrites
<1>13. Awaits(new) <=> Awaits(b)
  BY <1>1, <1>6, <1>8 DEF Awaits
<1>14. /\ ~Awaits(new) => new.device[0] = b.device[0] /\ WillBe(new.device[0], latest'[r])
       /\ Awaits(new) => memory'[new.host] = latest'[r]
  BY <1>1, <1>2, <1>6, <1>8, <1>10, <1>13 DEF Keeps
<1>15. Writes(r, new)
  BY <1>1, <1>3, <1>5, <1>6, <1>7, <1>8, <1>9, <1>12, <1>14, WritesStatic
<1> QED
  BY <1>15

LEMMA ModifyStaticWrites ==
  ASSUME NoMishap, FrameInv, UseInv, ValueInv, ~stopped, NEW r \in RenderBuffers, ModifyStatic(r)
  PROVE  \E new : Writes(r, new)
<1> DEFINE b == buffers[r]
           new == [b EXCEPT !.view = "modified"]
<1>1. /\ Write /\ Exists(r) /\ b.kind = "kStaticReadWrite" /\ b.view # "none"
      /\ UNCHANGED latest /\ memory' = Store(b.host, NextValue) /\ HostWritten(b.host)
      /\ buffers' = [buffers EXCEPT ![r] = new]
  BY DEF ModifyStatic, IsKind, Become
<1>2. /\ b \in BufferObjects /\ IsSound(b) /\ HasRoles(b) /\ Keeps(b, latest[r])
  BY <1>1, ExistingValues
<1>3. /\ b.host \in VkBuffers /\ IsApart(b) /\ RolesInv /\ pc \in {"app", "frame"}
  BY <1>1, <1>2, WriteFacts DEF IsSound, HasRoles, ValueInv
<1>4. /\ new \in BufferObjects /\ new.device = b.device /\ new.host = b.host
      /\ new.kind = b.kind /\ new.bound = b.bound /\ new.set = b.set
      /\ new.dirty = b.dirty /\ new.wasDirty = b.wasDirty /\ new.view = "modified"
  BY <1>2 DEF BufferObjects
<1>5. ~stopped' => \A s \in Slots : ~Reads(s, b.host)
  BY <1>1, <1>3, HostUnread
<1> HIDE DEF new
<1>6. IsSound(new) /\ IsApart(new)
  BY <1>1, <1>2, <1>3, <1>4 DEF IsSound, IsApart
<1>7. \A v \in VkBuffers : v # b.host => memory'[v] = memory[v]
  BY <1>1, <1>3, StoredValues
<1>8. WritesHost(r)
  BY <1>1, <1>5, <1>7, HostWrites DEF MayWrite
<1>9. Awaits(new) <=> Awaits(b)
  BY <1>1, <1>4 DEF Awaits
<1>10. ~Awaits(new) => WillBe(new.device[0], latest'[r])
  BY <1>1, <1>2, <1>4, <1>9 DEF Keeps
<1>11. Writes(r, new)
  BY <1>1, <1>3, <1>4, <1>6, <1>8, <1>10, WritesStatic
<1> QED
  BY <1>11

LEMMA EditEndStaticWrites ==
  ASSUME NoMishap, FrameInv, UseInv, ValueInv, ~stopped, NEW r \in RenderBuffers, EditEndStatic(r)
  PROVE  \E new : Writes(r, new)
<1> DEFINE old == buffers[r]
           b == [old EXCEPT !.view = "none"]
<1>1. /\ Edit /\ Exists(r) /\ old.kind = "kStaticReadWrite"
  BY DEF EditEndStatic, IsKind
<1>2. /\ old \in BufferObjects /\ IsSound(old) /\ HasRoles(old) /\ Keeps(old, latest[r])
      /\ old.device[0] \in VkBuffers /\ memory[old.device[0]] # Destroyed
      /\ old.host \in VkBuffers => memory[old.host] # Destroyed
      /\ \A s \in Slots : old.host # old.device[s]
  BY <1>1, ExistingValues
<1>3. /\ old.host \in VkBuffers /\ IsApart(old) /\ RolesInv /\ 0 \in Slots /\ Slots # {}
      /\ latest \in [RenderBuffers -> Int] /\ old.wasDirty \in SUBSET Slots
  BY <1>1, <1>2, SlotFacts, ObjectFields DEF IsSound, HasRoles, ValueInv, FrameInv, BufferTypes
<1>4. /\ b \in BufferObjects /\ b.device = old.device /\ b.host = old.host
      /\ b.kind = old.kind /\ b.bound = old.bound /\ b.set = old.set
      /\ b.dirty = old.dirty /\ b.wasDirty = old.wasDirty /\ b.view = "none"
  BY <1>2 DEF BufferObjects
<1>5. \/ /\ old.view = "unmodified"
         /\ Become(r, [b EXCEPT !.dirty = b.wasDirty])
         /\ UNCHANGED <<memory, latest, stopped>>
      \/ /\ old.view = "modified"
         /\ \E d \in DeviceFor(b, b.host) :
              /\ Become(r, [WithDevice(b, d) EXCEPT !.dirty = Slots])
              /\ memory' = Store(d, Contents(d))
         /\ latest' = [latest EXCEPT ![r] = memory[b.host]]
      \/ /\ old.view = "modified"
         /\ Become(r, b)
         /\ latest' = [latest EXCEPT ![r] = memory[b.host]]
         /\ Mishap("editLost", TRUE)
         /\ UNCHANGED memory
  BY DEF EditEndStatic
<1> HIDE DEF b
<1>6. IsSound(b) /\ IsApart(b)
  BY <1>1, <1>2, <1>3, <1>4 DEF IsSound, IsApart
<1>7. ASSUME old.view = "unmodified", Become(r, [b EXCEPT !.dirty = b.wasDirty]),
             UNCHANGED <<memory, latest, stopped>>
      PROVE  \E new : Writes(r, new)
  <2> DEFINE new == [b EXCEPT !.dirty = b.wasDirty]
  <2>1. /\ new \in BufferObjects /\ new.device = b.device /\ new.host = b.host
        /\ new.kind = b.kind /\ new.bound = b.bound /\ new.set = b.set
        /\ new.dirty = old.wasDirty /\ new.view = "none"
    BY <1>3, <1>4 DEF BufferObjects
  <2>2. buffers' = [buffers EXCEPT ![r] = new]
    BY <1>7 DEF Become
  <2> HIDE DEF new
  <2>3. IsSound(new) /\ IsApart(new)
    BY <1>1, <1>3, <1>4, <1>6, <2>1 DEF IsSound, IsApart
  <2>4. WritesHost(r)
    BY <1>1, <1>7, HostWrites
  <2>5. Awaits(new) <=> Awaits(old)
    <3>1. old.dirty = {}
      BY <1>1, <1>3, <1>7 DEF IsApart
    <3> QED
      BY <1>1, <1>4, <1>7, <2>1, <3>1 DEF Awaits
  <2>6. /\ ~Awaits(new) => new.device[0] = old.device[0] /\ WillBe(new.device[0], latest'[r])
        /\ Awaits(new) => memory'[new.host] = latest'[r]
    BY <1>1, <1>2, <1>4, <1>7, <2>1, <2>5 DEF Keeps
  <2>7. Writes(r, new)
    BY <1>1, <1>3, <1>4, <2>1, <2>2, <2>3, <2>4, <2>6, WritesStatic
  <2> QED
    BY <2>7
<1>8. ASSUME NEW d \in DeviceFor(b, b.host), Become(r, [WithDevice(b, d) EXCEPT !.dirty = Slots]),
             memory' = Store(d, Contents(d)), latest' = [latest EXCEPT ![r] = memory[b.host]]
      PROVE  \E new : Writes(r, new)
  <2> DEFINE e == WithDevice(b, d)
             new == [e EXCEPT !.dirty = Slots]
  <2>1. /\ d \in VkBuffers /\ d # b.host /\ (memory[d] = Destroyed \/ d = old.device[0])
    <3>1. d \in VkBuffers /\ ((memory[d] = Destroyed /\ d # b.host) \/ d = b.device[0])
      BY <1>4, DeviceChoice
    <3> QED
      BY <1>2, <1>3, <1>4, <3>1
  <2>2. /\ e \in BufferObjects /\ IsSound(e) /\ \A s \in Slots : e.device[s] = d
        /\ e.kind = b.kind /\ e.view = b.view /\ e.host = b.host
    BY <1>1, <1>4, <1>6, <2>1, DeviceFacts
  <2>3. buffers' = [buffers EXCEPT ![r] = new]
    BY <1>8 DEF Become
  <2> HIDE DEF e
  <2>4. /\ new \in BufferObjects /\ new.host = old.host /\ new.device = e.device
        /\ new.kind = old.kind /\ new.view = "none" /\ new.dirty = Slots
        /\ new.bound = e.bound /\ new.set = e.set
    BY <1>4, <2>2 DEF BufferObjects
  <2> HIDE DEF new
  <2>5. IsSound(new) /\ IsApart(new)
    BY <1>1, <1>3, <1>4, <2>1, <2>2, <2>4 DEF IsSound, IsApart
  <2>6. \A v \in VkBuffers : memory[v] # Destroyed => memory'[v] = memory[v]
    BY <1>8, <2>1, StoredValues
  <2>7. WritesHost(r)
    BY <1>1, <1>8, <2>6, HostWrites
  <2>8. /\ Awaits(new) /\ latest'[r] = memory[old.host] /\ memory'[new.host] = memory[old.host]
    BY <1>1, <1>2, <1>3, <1>4, <1>8, <2>4, <2>6 DEF Awaits
  <2>9. Writes(r, new)
    BY <1>1, <1>3, <2>1, <2>2, <2>3, <2>4, <2>5, <2>7, <2>8, WritesStatic
  <2> QED
    BY <2>9
<1>9. ASSUME Become(r, b), latest' = [latest EXCEPT ![r] = memory[b.host]],
             Mishap("editLost", TRUE), UNCHANGED memory
      PROVE  Writes(r, b)
  <2>1. stopped'
    BY <1>9 DEF Mishap, NoMishap
  <2>2. WritesHost(r)
    BY <1>1, <1>9, HostWrites
  <2>3. buffers' = [buffers EXCEPT ![r] = b]
    BY <1>9 DEF Become
  <2> QED
    BY <1>1, <1>3, <1>4, <1>6, <2>1, <2>2, <2>3, WritesStatic
<1> QED
  BY <1>5, <1>7, <1>8, <1>9

(* The values of a kPerFrame buffer are in local_buffer_ until they are     *)
(* mapped.                                                                 *)
LEMMA PerFrameWrites ==
  ASSUME FrameInv, UseInv, ValueInv, ~stopped, NEW r \in RenderBuffers,
         SetPerFrame(r) \/ EditBeginPerFrame(r) \/ ModifyPerFrame(r) \/ EditEndPerFrame(r)
  PROVE  \E new : Writes(r, new)
<1> DEFINE b == buffers[r]
<1>1. /\ Write \/ Edit
      /\ Exists(r) /\ b.kind = "kPerFrame" /\ UNCHANGED <<memory, stopped>>
  BY DEF SetPerFrame, EditBeginPerFrame, ModifyPerFrame, EditEndPerFrame, IsKind
<1>2. /\ b \in BufferObjects /\ IsSound(b) /\ HasRoles(b) /\ Keeps(b, latest[r])
      /\ \A s \in Slots : b.host # b.device[s]
  BY <1>1, ExistingValues
<1>3. /\ IsApart(b) /\ \A s \in Slots : memory[b.device[s]] # Destroyed
      /\ latest \in [RenderBuffers -> Int]
  BY <1>1, <1>2, Existing DEF HasRoles, FrameInv, BufferTypes
<1>4. ASSUME NEW new, buffers' = [buffers EXCEPT ![r] = new], new # NoBuffer,
             new.kind = b.kind, new.host = b.host, new.device = b.device,
             latest' = latest \/ \E x : latest' = [latest EXCEPT ![r] = x],
             new.view # "modified" =>
               \A s \in Slots : IF s \in new.dirty THEN new.local = latest'[r]
                                                   ELSE WillBe(b.device[s], latest'[r])
      PROVE  \E n : Writes(r, n)
  <2>1. WritesHost(r)
    BY <1>1, <1>4, HostWrites
  <2>2. IsApart(new)
    BY <1>1, <1>3, <1>4 DEF IsApart
  <2>3. Fits(r, new, latest'[r])
    <3>1. ASSUME NEW s \in Slots, NEW x, WillBe(b.device[s], x)
          PROVE  Settles(r, new.device[s], x)
      BY <1>2, <1>3, <1>4, <3>1 DEF Settles, MayWrite
    <3> QED
      BY <1>1, <1>4, <3>1 DEF Fits
  <2>4. Writes(r, new)
    BY <1>1, <1>4, <2>1, <2>2, <2>3 DEF Writes, MayWrite
  <2> QED
    BY <2>4
<1>5. b.view # "modified" =>
        \A s \in Slots : IF s \in b.dirty THEN b.local = latest[r]
                                          ELSE WillBe(b.device[s], latest[r])
  BY <1>1, <1>2 DEF Keeps
<1>6. NextValue \in Nat
  BY Values
<1>7. CASE SetPerFrame(r)
  <2> DEFINE new == [b EXCEPT !.local = NextValue, !.dirty = Slots]
  <2>1. /\ buffers' = [buffers EXCEPT ![r] = new]
        /\ latest' = [latest EXCEPT ![r] = NextValue]
    BY <1>7 DEF SetPerFrame, Become
  <2>2. new \in BufferObjects /\ new.kind = b.kind /\ new.host = b.host /\ new.device = b.device
        /\ new.dirty = Slots /\ new.local = NextValue
    <3> DEFINE value == NextValue
    <3>1. value \in Nat
      BY <1>6
    <3> HIDE DEF value
    <3> QED
      BY <1>2, <3>1 DEF BufferObjects, value
  <2>3. latest'[r] = NextValue /\ new # NoBuffer
    BY <1>3, <2>1, <2>2, ConstantFacts
  <2> HIDE DEF new
  <2> QED
    BY <1>4, <2>1, <2>2, <2>3
<1>8. CASE EditBeginPerFrame(r)
  <2> DEFINE new == [b EXCEPT !.view = "unmodified"]
  <2>1. /\ buffers' = [buffers EXCEPT ![r] = new] /\ UNCHANGED latest /\ b.view = "none"
    BY <1>8 DEF EditBeginPerFrame, Become
  <2>2. new \in BufferObjects /\ new.kind = b.kind /\ new.host = b.host /\ new.device = b.device
        /\ new.dirty = b.dirty /\ new.local = b.local /\ new # NoBuffer
    BY <1>2, ConstantFacts DEF BufferObjects
  <2> HIDE DEF new
  <2> QED
    BY <1>4, <1>5, <2>1, <2>2
<1>9. CASE ModifyPerFrame(r)
  <2> DEFINE new == [b EXCEPT !.view = "modified", !.local = NextValue]
  <2>1. /\ buffers' = [buffers EXCEPT ![r] = new] /\ UNCHANGED latest
    BY <1>9 DEF ModifyPerFrame, Become
  <2>2. new \in BufferObjects /\ new.kind = b.kind /\ new.host = b.host /\ new.device = b.device
        /\ new.view = "modified"
    <3> DEFINE value == NextValue
    <3>1. value \in Nat
      BY <1>6
    <3> HIDE DEF value
    <3> QED
      BY <1>2, <3>1 DEF BufferObjects, value
  <2>3. new # NoBuffer
    BY <2>2, ConstantFacts
  <2> HIDE DEF new
  <2> QED
    BY <1>4, <2>1, <2>2, <2>3
<1>10. CASE EditEndPerFrame(r)
  <2> DEFINE c == [b EXCEPT !.view = "none"]
             new == [c EXCEPT !.dirty = Slots]
  <2>1. \/ /\ b.view = "unmodified" /\ buffers' = [buffers EXCEPT ![r] = c] /\ UNCHANGED latest
        \/ /\ buffers' = [buffers EXCEPT ![r] = new]
           /\ latest' = [latest EXCEPT ![r] = c.local]
    BY <1>10 DEF EditEndPerFrame, Become
  <2>2. c \in BufferObjects /\ c.kind = b.kind /\ c.host = b.host /\ c.device = b.device
        /\ c.dirty = b.dirty /\ c.local = b.local /\ c # NoBuffer
    BY <1>2, ConstantFacts DEF BufferObjects
  <2>3. new \in BufferObjects /\ new.kind = b.kind /\ new.host = b.host /\ new.device = b.device
        /\ new.dirty = Slots /\ new.local = b.local /\ new # NoBuffer
    BY <1>2, ConstantFacts DEF BufferObjects
  <2> HIDE DEF c, new
  <2>4. CASE b.view = "unmodified" /\ buffers' = [buffers EXCEPT ![r] = c] /\ UNCHANGED latest
    BY <1>4, <1>5, <2>2, <2>4
  <2>5. CASE /\ buffers' = [buffers EXCEPT ![r] = new]
             /\ latest' = [latest EXCEPT ![r] = c.local]
    <3>1. latest'[r] = new.local
      BY <1>3, <2>2, <2>3, <2>5
    <3> QED
      BY <1>4, <2>3, <2>5, <3>1
  <2> QED
    BY <2>1, <2>4, <2>5
<1> QED
  BY <1>7, <1>8, <1>9, <1>10

LEMMA BufferWrites ==
  ASSUME NoMishap, FrameInv, UseInv, ValueInv, ~stopped, BufferNext
  PROVE  \E r \in RenderBuffers : \E new : Writes(r, new)
<1>1. PICK r \in RenderBuffers :
        \/ \E kind \in Kinds : Create(r, kind)
        \/ DeleteBuffer(r)
        \/ SetStaticWrite(r) \/ SetStaticReadWrite(r) \/ SetPerFrame(r)
        \/ EditBeginStatic(r) \/ ModifyStatic(r) \/ EditEndStatic(r)
        \/ EditBeginPerFrame(r) \/ ModifyPerFrame(r) \/ EditEndPerFrame(r)
  BY DEF BufferNext
<1> QED
  BY <1>1, CreateWrites, DeleteWrites, SetStaticWriteWrites, SetStaticReadWriteWrites,
     EditBeginStaticWrites, ModifyStaticWrites, EditEndStaticWrites, PerFrameWrites

-----------------------------------------------------------------------------
(* The end of a frame: what is mapped, and what is recorded to be drawn.    *)
LEMMA MappedMemory ==
  ASSUME FrameInv, NEW mapped \in BOOLEAN, EndFrame(mapped), NEW v \in VkBuffers
  PROVE  /\ (\A r \in RenderedNow : v \notin MappedTo(buffers[r], mapped)) => memory'[v] = memory[v]
         /\ \A r \in RenderedNow : v \in MappedTo(buffers[r], mapped) => memory'[v] = buffers[r].local
<1> DEFINE local == CHOOSE r \in RenderedNow : v \in MappedTo(buffers[r], mapped)
<1>1. memory'[v] = IF \E r \in RenderedNow : v \in MappedTo(buffers[r], mapped)
                   THEN buffers[local].local ELSE memory[v]
  BY DEF EndFrame, RenderedNow
<1>2. (\E r \in RenderedNow : v \in MappedTo(buffers[r], mapped)) =>
        local \in RenderedNow /\ v \in MappedTo(buffers[local], mapped)
  OBVIOUS
<1> HIDE DEF local
<1>3. \A r \in RenderedNow : r \in RenderBuffers /\ Exists(r)
  BY DEF RenderedNow, FrameInv, FrameTypes
<1>4. ASSUME NEW r \in RenderedNow, v \in MappedTo(buffers[r], mapped)
      PROVE  v \in Handles(buffers[r])
  <2>1. frameIndex \in Slots /\ v = buffers[r].device[frameIndex]
    BY <1>4 DEF MappedTo, FrameInv, FrameTypes
  <2> QED
    BY <1>3, <2>1, Existing, HandleFacts
<1>5. ASSUME NEW r \in RenderedNow, v \in MappedTo(buffers[r], mapped)
      PROVE  memory'[v] = buffers[r].local
  <2>1. local \in RenderedNow /\ v \in Handles(buffers[local]) /\ v \in Handles(buffers[r])
    BY <1>2, <1>4, <1>5
  <2>2. local = r
    BY <1>3, <2>1 DEF FrameInv, OwnedInv
  <2> QED
    BY <1>1, <1>5, <2>2
<1> QED
  BY <1>1, <1>5

LEMMA RecordedDraws ==
  ASSUME FrameInv, NEW mapped \in BOOLEAN, EndFrame(mapped),
         NEW d \in commands'[frameIndex].draws
  PROVE  \E r \in RenderedNow :
           /\ d[1] = buffers[r].device[frameIndex]
           /\ d[2] # Unwritten => buffers[r].view = "none" /\ d[2] = latest[r]
<1> DEFINE after == [r \in RenderBuffers |->
                       IF r \in RenderedNow THEN Bound(Rendered(buffers[r], mapped))
                                            ELSE buffers[r]]
           drawnBy(r) == {<<b, IF buffers[r].view = "none" THEN latest[r] ELSE Unwritten>> :
                          b \in Drawn(after[r])}
<1>1. \E copies : Record(copies, UNION {drawnBy(r) : r \in RenderedNow})
  BY DEF EndFrame, RenderedNow
<1>2. d \in UNION {drawnBy(r) : r \in RenderedNow}
  <2>1. frameIndex \in Slots /\ DOMAIN commands = Slots
    BY DEF FrameInv, FrameTypes
  <2> HIDE DEF drawnBy
  <2> QED
    BY <1>1, <2>1 DEF Record
<1>3. PICK r \in RenderedNow : d \in drawnBy(r)
  BY <1>2
<1>4. PICK b \in Drawn(after[r]) :
        d = <<b, IF buffers[r].view = "none" THEN latest[r] ELSE Unwritten>>
  BY <1>3
<1>5. r \in RenderBuffers /\ Exists(r)
  BY DEF RenderedNow, FrameInv, FrameTypes
<1>6. Drawn(after[r]) = {buffers[r].device[frameIndex]}
  <2>1. buffers[r] \in BufferObjects /\ IsSound(buffers[r])
    BY <1>5, Existing
  <2>2. Drawn(Bound(Rendered(buffers[r], mapped))) = {buffers[r].device[frameIndex]}
    BY <2>1, RenderedFacts
  <2> QED
    BY <1>5, <2>2
<1> QED
  BY <1>4, <1>6

(* What EndFrame leaves alone: a Vulkan buffer it neither maps nor copies   *)
(* to.                                                                     *)
LEMMA EndKeeps ==
  ASSUME FrameInv, RolesInv, NEW mapped \in BOOLEAN, EndFrame(mapped), NEW b \in VkBuffers,
         NEW x, WillBe(b, x), ToCopy(frameIndex, b)' = {},
         \A r \in RenderedNow : b \notin MappedTo(buffers[r], mapped)
  PROVE  WillBe(b, x)'
<1>1. /\ pc = "frame" /\ UNCHANGED frameIndex /\ frameIndex \in Slots
      /\ \A t \in Slots : t # frameIndex => commands'[t] = commands[t]
  BY RecordedFacts DEF FrameInv, FrameTypes
<1>2. commands[frameIndex].stage = "idle"
  BY <1>1 DEF FrameInv, StageInv, FencesGuard
<1>3. \A s \in Slots : ToCopy(s, b)' = ToCopy(s, b)
  <2>1. ToCopy(frameIndex, b) = {}
    BY <1>2 DEF ToCopy
  <2>2. \A s \in Slots : s = frameIndex => ToCopy(s, b)' = {}
    BY <1>1 DEF ToCopy
  <2>3. \A s \in Slots : s # frameIndex => ToCopy(s, b)' = ToCopy(s, b)
    BY <1>1 DEF ToCopy
  <2> QED
    BY <2>1, <2>2, <2>3
<1>4. ASSUME NEW s \in Slots, NEW u \in ToCopy(s, b)
      PROVE  memory'[u[1]] = memory[u[1]]
  <2>1. u[1] \in VkBuffers /\ Reads(s, u[1])
    BY <1>4, UsedBuffers
  <2>2. ASSUME NEW r \in RenderedNow, u[1] \in MappedTo(buffers[r], mapped) PROVE FALSE
    <3>1. r \in RenderBuffers /\ Exists(r) /\ u[1] = buffers[r].device[frameIndex]
      BY <2>2 DEF MappedTo, RenderedNow, FrameInv, FrameTypes
    <3> QED
      BY <1>1, <2>1, <3>1 DEF RolesInv, HasRoles
  <2> QED
    BY <2>1, <2>2, MappedMemory
<1>5. memory'[b] = memory[b]
  BY MappedMemory
<1> QED
  BY <1>3, <1>4, <1>5, WillStay

(* What the frame that ends uses.                                           *)
LEMMA EndUses ==
  ASSUME FrameInv, UseInv, ~stopped, NEW mapped \in BOOLEAN, EndFrame(mapped)
  PROVE  /\ frameIndex \in Slots /\ frameIndex' = frameIndex
         /\ \A r \in RenderedNow :
              /\ r \in RenderBuffers /\ Exists(r) /\ buffers[r] \in BufferObjects
              /\ IsSound(buffers[r])
         /\ \A b : WritesOrDraws(frameIndex, b)' =>
              \E r \in RenderedNow : b = buffers[r].device[frameIndex]
         /\ \A b : \A u \in ToCopy(frameIndex, b)' :
              \E r \in RenderedNow : u \in Copies(buffers[r]) /\ u[2] = b
         /\ \A b : Reads(frameIndex, b)' =>
              \E r \in RenderedNow : b = buffers[r].host /\ buffers[r].kind # "kPerFrame"
         /\ \A t \in Slots : \A b : t # frameIndex =>
              /\ (WritesOrDraws(t, b)' <=> WritesOrDraws(t, b)) /\ (Reads(t, b)' <=> Reads(t, b))
              /\ ToCopy(t, b)' = ToCopy(t, b)
<1>1. /\ pc = "frame" /\ UNCHANGED frameIndex
      /\ \A t \in Slots : t # frameIndex => commands'[t] = commands[t]
      /\ commands'[frameIndex].copies = updates' /\ frameIndex \in Slots
  BY RecordedFacts DEF FrameInv, FrameTypes
<1>2. updates = {}
  BY <1>1 DEF UseInv, DrawnInv
<1>3. \A u \in commands'[frameIndex].copies : \E r \in RenderedNow : u \in Copies(buffers[r])
  BY <1>1, <1>2, RecordedFacts
<1>4. \A r \in RenderedNow :
        r \in RenderBuffers /\ Exists(r) /\ buffers[r] \in BufferObjects /\ IsSound(buffers[r])
  <2>1. \A r \in RenderedNow : r \in RenderBuffers /\ Exists(r)
    BY DEF RenderedNow, FrameInv, FrameTypes
  <2> QED
    BY <2>1, Existing
<1>5. \A d \in commands'[frameIndex].draws :
        \E r \in RenderedNow : d[1] = buffers[r].device[frameIndex]
  BY RecordedFacts
<1>6. \A r : \A u \in Copies(buffers[r]) :
        /\ u[1] = buffers[r].host /\ u[2] = buffers[r].device[frameIndex]
        /\ buffers[r].kind # "kPerFrame"
  BY DEF Copies
<1>7. \A b : WritesOrDraws(frameIndex, b)' =>
        \E r \in RenderedNow : b = buffers[r].device[frameIndex]
  <2> SUFFICES ASSUME NEW b, WritesOrDraws(frameIndex, b)'
               PROVE  \E r \in RenderedNow : b = buffers[r].device[frameIndex]
    OBVIOUS
  <2>1. \/ \E u \in commands'[frameIndex].copies : u[2] = b
        \/ \E d \in commands'[frameIndex].draws : d[1] = b
    BY <1>1 DEF WritesOrDraws
  <2>2. ASSUME NEW u \in commands'[frameIndex].copies, u[2] = b
        PROVE  \E r \in RenderedNow : b = buffers[r].device[frameIndex]
    BY <1>3, <1>6, <2>2
  <2> QED
    BY <1>5, <2>1, <2>2
<1>8. \A b : \A u \in ToCopy(frameIndex, b)' :
        \E r \in RenderedNow : u \in Copies(buffers[r]) /\ u[2] = b
  BY <1>1, <1>3 DEF ToCopy
<1>9. \A b : Reads(frameIndex, b)' =>
        \E r \in RenderedNow : b = buffers[r].host /\ buffers[r].kind # "kPerFrame"
  <2> SUFFICES ASSUME NEW b, Reads(frameIndex, b)'
               PROVE  \E r \in RenderedNow : b = buffers[r].host /\ buffers[r].kind # "kPerFrame"
    OBVIOUS
  <2>1. PICK u \in commands'[frameIndex].copies : u[1] = b
    BY <1>1 DEF Reads
  <2> QED
    BY <1>3, <1>6, <2>1
<1>10. \A t \in Slots : \A b : t # frameIndex =>
         /\ (WritesOrDraws(t, b)' <=> WritesOrDraws(t, b)) /\ (Reads(t, b)' <=> Reads(t, b))
         /\ ToCopy(t, b)' = ToCopy(t, b)
  BY <1>1 DEF WritesOrDraws, Reads, ToCopy
<1> QED
  BY <1>1, <1>4, <1>7, <1>8, <1>9, <1>10

(* Two render buffers share no Vulkan buffer.                               *)
LEMMA EndOwners ==
  ASSUME FrameInv, NEW q \in RenderBuffers, NEW r \in RenderBuffers, Exists(q), Exists(r)
  PROVE  /\ \A s, t \in Slots : buffers[q].device[s] = buffers[r].device[t] => q = r
         /\ \A t \in Slots : buffers[q].host = buffers[r].device[t] => q = r
         /\ buffers[q].host = buffers[r].host /\ buffers[q].host \in VkBuffers => q = r
<1>1. /\ buffers[q] \in BufferObjects /\ buffers[r] \in BufferObjects
      /\ \A s \in Slots : buffers[q].device[s] \in VkBuffers /\ buffers[r].device[s] \in VkBuffers
  BY Existing
<1>2. /\ \A s \in Slots : buffers[q].device[s] \in Handles(buffers[q])
      /\ \A s \in Slots : buffers[r].device[s] \in Handles(buffers[r])
      /\ buffers[q].host \in VkBuffers => buffers[q].host \in Handles(buffers[q])
      /\ buffers[r].host \in VkBuffers => buffers[r].host \in Handles(buffers[r])
  BY <1>1, HandleFacts
<1>3. \A b : b \in Handles(buffers[q]) /\ b \in Handles(buffers[r]) => q = r
  BY DEF FrameInv, OwnedInv
<1> QED
  BY <1>1, <1>2, <1>3

LEMMA EndRoles ==
  ASSUME FrameInv, UseInv, RolesInv, FrameInv', ~stopped, NEW mapped \in BOOLEAN,
         EndFrame(mapped)
  PROVE  RolesInv'
<1>1. /\ frameIndex \in Slots /\ frameIndex' = frameIndex
      /\ \A r \in RenderedNow :
           /\ r \in RenderBuffers /\ Exists(r) /\ buffers[r] \in BufferObjects
           /\ IsSound(buffers[r])
      /\ \A b : WritesOrDraws(frameIndex, b)' =>
           \E r \in RenderedNow : b = buffers[r].device[frameIndex]
      /\ \A b : Reads(frameIndex, b)' =>
           \E r \in RenderedNow : b = buffers[r].host /\ buffers[r].kind # "kPerFrame"
      /\ \A t \in Slots : \A b : t # frameIndex =>
           (WritesOrDraws(t, b)' <=> WritesOrDraws(t, b)) /\ (Reads(t, b)' <=> Reads(t, b))
  BY EndUses
<1>2. UsesBuffers'
  BY OnlyBuffers, PTL
<1>3. \A r \in RenderBuffers : Exists(r) => HasRoles(buffers[r])
  BY DEF RolesInv
<1>4. ASSUME NEW r \in RenderBuffers, Exists(r)'
      PROVE  /\ Exists(r) /\ buffers'[r].kind = buffers[r].kind
             /\ buffers'[r].device = buffers[r].device /\ buffers'[r].view = buffers[r].view
             /\ buffers'[r].host = buffers[r].host \/ buffers'[r].host = NoBuffer
             /\ r \in RenderedNow /\ buffers[r].kind = "kStaticWrite" => buffers'[r].host = NoBuffer
             /\ buffers'[r].dirty = buffers[r].dirty \/ buffers'[r].dirty = {}
                \/ buffers[r].kind = "kPerFrame"
  <2>1. CASE r \notin RenderedNow
    BY <1>4, <2>1, EndedFacts DEF Exists
  <2>2. CASE r \in RenderedNow
    <3> DEFINE b == buffers[r]
               a == Bound(Rendered(b, mapped))
    <3>1. b \in BufferObjects /\ IsSound(b) /\ buffers'[r] = a /\ Exists(r)
      BY <1>1, <2>2, EndedFacts
    <3> HIDE DEF b
    <3>3. /\ a.kind = b.kind /\ a.device = b.device /\ a.view = b.view
          /\ a.host = b.host \/ a.host = NoBuffer
          /\ b.kind = "kStaticWrite" => a.host = NoBuffer
          /\ b.kind # "kPerFrame" => a.dirty = {}
      BY <3>1, RenderedFacts
    <3> HIDE DEF a
    <3> QED
      BY <3>1, <3>3 DEF b
  <2> QED
    BY <2>1, <2>2
<1>5. ASSUME NEW r \in RenderBuffers, Exists(r)'
      PROVE  HasRoles(buffers[r])'
  <2>1. /\ Exists(r) /\ HasRoles(buffers[r])
        /\ \A s \in Slots : buffers[r].device[s] \in VkBuffers
    BY <1>3, <1>4, <1>5, Existing
  <2>2. IsApart(buffers[r])'
    <3>1. IsApart(buffers[r])
      BY <2>1 DEF HasRoles
    <3>2. \A s \in Slots : buffers'[r].host # buffers'[r].device[s]
      BY <1>4, <1>5, <2>1, <3>1, ConstantFacts DEF IsApart
    <3> QED
      BY <1>4, <1>5, <3>1, <3>2 DEF IsApart
  <2>3. ASSUME NEW s \in Slots, WritesOrDraws(s, buffers[r].host)'
        PROVE  FALSE
    <3>1. buffers'[r].host \in VkBuffers
      <4>1. Uses(s, buffers[r].host)'
        BY <2>3 DEF Uses
      <4> QED
        BY <1>2, <4>1 DEF UsesBuffers
    <3>2. buffers'[r].host = buffers[r].host
      BY <1>4, <1>5, <3>1, ConstantFacts
    <3>3. WritesOrDraws(s, buffers[r].host) \/ s = frameIndex
      <4>1. CASE s # frameIndex
        <5>1. PICK b : b = buffers'[r].host
          OBVIOUS
        <5>2. WritesOrDraws(s, b)'
          BY <2>3, <5>1 DEF WritesOrDraws
        <5>3. WritesOrDraws(s, b)
          BY <1>1, <4>1, <5>2
        <5> QED
          BY <3>2, <5>1, <5>3
      <4> QED
        BY <4>1
    <3>4. s = frameIndex
      BY <2>1, <3>3 DEF HasRoles
    <3>5. PICK b : b = buffers'[r].host
      OBVIOUS
    <3>6. WritesOrDraws(frameIndex, b)'
      BY <1>1, <2>3, <3>4, <3>5 DEF WritesOrDraws
    <3>7. PICK q \in RenderedNow : b = buffers[q].device[frameIndex]
      BY <1>1, <3>6
    <3>8. r = q
      <4>1. q \in RenderBuffers /\ Exists(q) /\ buffers[r].host = buffers[q].device[frameIndex]
        BY <1>1, <3>2, <3>5, <3>7
      <4> QED
        BY <1>1, <2>1, <4>1, EndOwners
    <3> QED
      BY <1>1, <2>1, <3>2, <3>5, <3>7, <3>8 DEF HasRoles, IsApart
  <2>4. ASSUME NEW s \in Slots, Reads(s, buffers[r].host)'
        PROVE  buffers[r].kind = "kStaticReadWrite"
    <3>1. PICK b : b = buffers'[r].host
      OBVIOUS
    <3>2. Reads(s, b)'
      BY <2>4, <3>1 DEF Reads
    <3>3. b \in VkBuffers
      <4>1. Uses(s, b)'
        BY <3>2 DEF Uses
      <4> QED
        BY <1>2, <4>1 DEF UsesBuffers
    <3>4. b = buffers[r].host /\ buffers'[r].host # NoBuffer
      BY <1>4, <1>5, <3>1, <3>3, ConstantFacts
    <3>5. CASE s # frameIndex
      BY <1>1, <2>1, <3>2, <3>4, <3>5 DEF HasRoles
    <3>6. CASE s = frameIndex
      <4>1. PICK q \in RenderedNow : b = buffers[q].host /\ buffers[q].kind # "kPerFrame"
        BY <1>1, <3>2, <3>6
      <4>2. q = r
        <5>1. /\ q \in RenderBuffers /\ Exists(q)
              /\ buffers[q].host = buffers[r].host /\ buffers[q].host \in VkBuffers
          BY <1>1, <3>3, <3>4, <4>1
        <5> QED
          BY <2>1, <5>1, EndOwners
      <4>3. buffers[r].kind \in Kinds /\ buffers[r].kind # "kStaticWrite"
        BY <1>1, <1>4, <1>5, <3>4, <4>1, <4>2, ObjectFields
      <4> QED
        BY <4>1, <4>2, <4>3 DEF Kinds
    <3> QED
      BY <3>5, <3>6
  <2>5. ASSUME NEW s \in Slots, NEW t \in Slots, Reads(s, buffers[r].device[t])'
        PROVE  FALSE
    <3>1. PICK b \in VkBuffers : b = buffers[r].device[t]
      BY <2>1
    <3>2. Reads(s, b)'
      BY <1>4, <1>5, <2>5, <3>1 DEF Reads
    <3>3. s = frameIndex
      BY <1>1, <2>1, <3>1, <3>2 DEF HasRoles
    <3>4. PICK q \in RenderedNow : b = buffers[q].host
      BY <1>1, <3>2, <3>3
    <3>5. q = r
      <4>1. q \in RenderBuffers /\ Exists(q) /\ buffers[q].host = buffers[r].device[t]
        BY <1>1, <3>1, <3>4
      <4> QED
        BY <2>1, <4>1, EndOwners
    <3> QED
      BY <2>1, <3>1, <3>4, <3>5 DEF HasRoles, IsApart
  <2>6. ASSUME NEW s \in Slots, NEW t \in Slots, buffers[r].kind = "kPerFrame",
               WritesOrDraws(s, buffers[r].device[t])'
        PROVE  s = t
    <3>1. PICK b \in VkBuffers : b = buffers[r].device[t]
      BY <2>1
    <3>2. WritesOrDraws(s, b)'
      BY <1>4, <1>5, <2>6, <3>1 DEF WritesOrDraws
    <3>3. CASE s # frameIndex
      BY <1>1, <2>1, <2>6, <3>1, <3>2, <3>3 DEF HasRoles
    <3>4. CASE s = frameIndex
      <4>1. PICK q \in RenderedNow : b = buffers[q].device[frameIndex]
        BY <1>1, <3>2, <3>4
      <4>2. q = r
        <5>1. /\ q \in RenderBuffers /\ Exists(q)
              /\ buffers[q].device[frameIndex] = buffers[r].device[t]
          BY <1>1, <3>1, <4>1
        <5> QED
          BY <1>1, <2>1, <5>1, EndOwners
      <4>3. buffers[r].device[t] = buffers[r].device[frameIndex]
            /\ buffers[r].device[0] # buffers[r].device[1]
        BY <2>1, <2>6, <3>1, <4>1, <4>2 DEF HasRoles, IsApart
      <4> QED
        BY <1>1, <3>4, <4>3, SlotFacts
    <3> QED
      BY <3>3, <3>4
  <2> QED
    BY <1>4, <1>5, <2>2, <2>3, <2>4, <2>5, <2>6 DEF HasRoles
<1>6. ASSUME NEW s \in Slots, NEW t \in Slots, NEW b \in VkBuffers, Reads(s, b)', WritesOrDraws(t, b)'
      PROVE  FALSE
  <2>1. s # frameIndex => Reads(s, b)
    BY <1>1, <1>6
  <2>2. t # frameIndex => WritesOrDraws(t, b)
    BY <1>1, <1>6
  <2>3. s = frameIndex => \E r \in RenderedNow : b = buffers[r].host
    BY <1>1, <1>6
  <2>4. t = frameIndex => \E r \in RenderedNow : b = buffers[r].device[frameIndex]
    BY <1>1, <1>6
  <2>5. CASE s # frameIndex /\ t # frameIndex
    BY <2>1, <2>2, <2>5 DEF RolesInv
  <2>6. CASE s = frameIndex /\ t # frameIndex
    BY <1>1, <1>3, <2>2, <2>3, <2>6 DEF HasRoles
  <2>7. CASE s # frameIndex /\ t = frameIndex
    BY <1>1, <1>3, <2>1, <2>4, <2>7 DEF HasRoles
  <2>8. CASE s = frameIndex /\ t = frameIndex
    <3>1. PICK q \in RenderedNow : b = buffers[q].host
      BY <2>3, <2>8
    <3>2. PICK r \in RenderedNow : b = buffers[r].device[frameIndex]
      BY <2>4, <2>8
    <3>3. q = r
      <4>1. /\ q \in RenderBuffers /\ Exists(q) /\ r \in RenderBuffers /\ Exists(r)
            /\ buffers[q].host = buffers[r].device[frameIndex]
        BY <1>1, <3>1, <3>2
      <4> QED
        BY <1>1, <4>1, EndOwners
    <3> QED
      BY <1>1, <1>3, <3>1, <3>2, <3>3, ZenonT(60) DEF HasRoles, IsApart
  <2> QED
    BY <2>5, <2>6, <2>7, <2>8
<1> QED
  BY <1>5, <1>6 DEF RolesInv

(* What becomes of a render buffer when nothing goes wrong.                 *)
LEMMA EndShapes ==
  ASSUME NoMishap, FrameInv, FrameInv', NEW mapped \in BOOLEAN, EndFrame(mapped), ~stopped',
         NEW r \in RenderBuffers
  PROVE  /\ mapped /\ (Exists(r)' <=> Exists(r)) /\ latest'[r] = latest[r]
         /\ r \in RenderedNow => buffers[r].view = "none" \/ buffers[r].wasDirty = {}
         /\ r \notin RenderedNow => buffers'[r] = buffers[r]
         /\ Exists(r) =>
              /\ buffers[r] \in BufferObjects /\ IsSound(buffers[r])
              /\ buffers'[r].kind = buffers[r].kind /\ buffers'[r].device = buffers[r].device
              /\ buffers'[r].local = buffers[r].local /\ buffers'[r].view = buffers[r].view
              /\ buffers'[r].wasDirty = buffers[r].wasDirty
              /\ buffers[r].kind = "kStaticReadWrite" => buffers'[r].host = buffers[r].host
              /\ r \in RenderedNow /\ buffers[r].kind # "kPerFrame" => buffers'[r].dirty = {}
              /\ r \in RenderedNow /\ buffers[r].kind = "kPerFrame" =>
                   buffers'[r].dirty = buffers[r].dirty \ {frameIndex}
<1>1. /\ stopped' = \/ ~mapped /\ "unmapped" \notin Followed
                    \/ /\ "drawnInEdit" \notin Followed
                       /\ \E q \in RenderedNow :
                            buffers[q].view # "none" /\ buffers[q].wasDirty # {}
      /\ UNCHANGED latest
  BY DEF EndFrame, RenderedNow
<1>2. "unmapped" \notin Followed /\ "drawnInEdit" \notin Followed
  BY DEF NoMishap, NoDrawInEdit
<1>3. mapped /\ \A q \in RenderedNow : buffers[q].view = "none" \/ buffers[q].wasDirty = {}
  BY <1>1, <1>2
<1>4. CASE r \notin RenderedNow
  <2>1. buffers'[r] = buffers[r]
    BY <1>4, EndedFacts
  <2> QED
    BY <1>1, <1>3, <1>4, <2>1, Existing DEF Exists
<1>5. CASE r \in RenderedNow
  <2> DEFINE b == buffers[r]
             a == Bound(Rendered(b, mapped))
  <2>1. b \in BufferObjects /\ IsSound(b) /\ buffers'[r] = a /\ Exists(r)
    <3>1. Exists(r)
      BY <1>5 DEF RenderedNow
    <3> QED
      BY <1>5, <3>1, Existing, EndedFacts
  <2>2. /\ a \in BufferObjects
        /\ a.kind = b.kind /\ a.device = b.device /\ a.local = b.local
        /\ a.view = b.view /\ a.wasDirty = b.wasDirty
        /\ b.kind # "kPerFrame" => a.dirty = {}
        /\ b.kind = "kPerFrame" => a.dirty = IF mapped THEN b.dirty \ {frameIndex} ELSE b.dirty
        /\ b.kind = "kStaticReadWrite" => a.host = b.host
    <3> HIDE DEF b
    <3> QED
      BY <2>1, RenderedFacts
  <2>3. Exists(r)'
    BY <2>1, <2>2, ConstantFacts DEF Exists
  <2> HIDE DEF a
  <2> QED
    BY <1>1, <1>3, <1>5, <2>1, <2>2, <2>3
<1> QED
  BY <1>4, <1>5

(* Whom a device buffer is copied to or mapped for: its own render buffer.  *)
LEMMA EndTouches ==
  ASSUME FrameInv, UseInv, ~stopped, NEW mapped \in BOOLEAN, EndFrame(mapped),
         NEW r \in RenderBuffers, Exists(r), NEW t \in Slots,
         NEW v \in VkBuffers, v = buffers[r].device[t]
  PROVE  /\ \A u \in ToCopy(frameIndex, v)' : r \in RenderedNow /\ u \in Copies(buffers[r])
         /\ \A q \in RenderedNow : v \in MappedTo(buffers[q], mapped) =>
              /\ q = r /\ buffers[r].kind = "kPerFrame" /\ frameIndex \in buffers[r].dirty
              /\ v = buffers[r].device[frameIndex]
         /\ \A q \in RenderedNow : buffers[r].host \in MappedTo(buffers[q], mapped) =>
              q = r /\ buffers[r].host = buffers[r].device[frameIndex]
<1>1. /\ frameIndex \in Slots
      /\ \A q \in RenderedNow : q \in RenderBuffers /\ Exists(q)
      /\ \A b : \A u \in ToCopy(frameIndex, b)' :
           \E q \in RenderedNow : u \in Copies(buffers[q]) /\ u[2] = b
  BY EndUses
<1>2. ASSUME NEW u \in ToCopy(frameIndex, v)'
      PROVE  r \in RenderedNow /\ u \in Copies(buffers[r])
  <2>1. PICK q \in RenderedNow : u \in Copies(buffers[q]) /\ u[2] = v
    BY <1>1, <1>2
  <2>2. /\ q \in RenderBuffers /\ Exists(q)
        /\ buffers[r].device[t] = buffers[q].device[frameIndex]
    BY <1>1, <2>1 DEF Copies
  <2>3. q = r
    BY <1>1, <2>2, EndOwners
  <2> QED
    BY <2>1, <2>3
<1>3. ASSUME NEW q \in RenderedNow, v \in MappedTo(buffers[q], mapped)
      PROVE  /\ q = r /\ buffers[r].kind = "kPerFrame" /\ frameIndex \in buffers[r].dirty
             /\ v = buffers[r].device[frameIndex]
  <2>1. /\ buffers[q].kind = "kPerFrame" /\ frameIndex \in buffers[q].dirty
        /\ v = buffers[q].device[frameIndex]
    BY <1>3 DEF MappedTo
  <2>2. /\ q \in RenderBuffers /\ Exists(q)
        /\ buffers[r].device[t] = buffers[q].device[frameIndex]
    BY <1>1, <2>1
  <2>3. q = r
    BY <1>1, <2>2, EndOwners
  <2> QED
    BY <2>1, <2>3
<1>4. ASSUME NEW q \in RenderedNow, buffers[r].host \in MappedTo(buffers[q], mapped)
      PROVE  q = r /\ buffers[r].host = buffers[r].device[frameIndex]
  <2>1. /\ q \in RenderBuffers /\ Exists(q)
        /\ buffers[r].host = buffers[q].device[frameIndex]
    BY <1>1, <1>4 DEF MappedTo
  <2>2. q = r
    BY <1>1, <2>1, EndOwners
  <2> QED
    BY <2>1, <2>2
<1> QED
  BY <1>2, <1>3, <1>4

(* A render buffer that was not rendered dirty keeps what it was to contain.*)
LEMMA EndStays ==
  ASSUME FrameInv, UseInv, RolesInv, ~stopped, NEW mapped \in BOOLEAN, EndFrame(mapped),
         NEW r \in RenderBuffers, Exists(r), NEW t \in Slots, NEW x,
         NEW v \in VkBuffers, v = buffers[r].device[t], WillBe(v, x),
         \/ r \notin RenderedNow
         \/ buffers[r].kind # "kPerFrame" /\ buffers[r].dirty = {}
         \/ buffers[r].kind = "kPerFrame" /\ (t # frameIndex \/ t \notin buffers[r].dirty)
  PROVE  WillBe(v, x)'
<1>1. ToCopy(frameIndex, v)' = {}
  <2>1. ASSUME NEW u \in ToCopy(frameIndex, v)' PROVE FALSE
    <3>1. r \in RenderedNow /\ u \in Copies(buffers[r])
      BY <2>1, EndTouches
    <3> QED
      BY <3>1 DEF Copies
  <2> QED
    BY <2>1
<1>2. ASSUME NEW q \in RenderedNow, v \in MappedTo(buffers[q], mapped) PROVE FALSE
  <2>1. /\ r \in RenderedNow /\ buffers[r].kind = "kPerFrame" /\ frameIndex \in buffers[r].dirty
        /\ buffers[r].device[t] = buffers[r].device[frameIndex]
    BY <1>2, EndTouches
  <2>2. buffers[r].device[0] # buffers[r].device[1]
    BY <2>1 DEF RolesInv, HasRoles, IsApart
  <2>3. frameIndex \in Slots
    BY DEF FrameInv, FrameTypes
  <2>4. t = frameIndex
    BY <2>1, <2>2, <2>3, SlotFacts
  <2> QED
    BY <2>1, <2>4
<1> QED
  BY <1>1, <1>2, EndKeeps

LEMMA KeepsThen ==
  ASSUME NEW r, NEW a, NEW x, a = buffers'[r], x = latest'[r], Keeps(a, x)'
  PROVE  Keeps(buffers[r], latest[r])'
BY DEF Keeps, Awaits, WillBe, ToCopy

(* A static buffer: what was last written is, or is to be, copied.          *)
LEMMA EndStatic ==
  ASSUME NoMishap, FrameInv, UseInv, RolesInv, LatestInv, FrameInv', CopyInv', ~stopped,
         NEW mapped \in BOOLEAN, EndFrame(mapped), ~stopped',
         NEW r \in RenderBuffers, Exists(r), buffers[r].kind # "kPerFrame"
  PROVE  Keeps(buffers[r], latest[r])'
<1>. PICK a, b, x : a = buffers'[r] /\ b = buffers[r] /\ x = latest[r]
  OBVIOUS
<1>1. /\ latest'[r] = x
      /\ r \notin RenderedNow => a = b
      /\ r \in RenderedNow => b.view = "none" \/ b.wasDirty = {}
      /\ b \in BufferObjects /\ IsSound(b)
      /\ a.kind = b.kind /\ a.device = b.device /\ a.view = b.view /\ a.wasDirty = b.wasDirty
      /\ r \in RenderedNow => a.dirty = {}
  BY EndShapes
<1>2. PICK v \in VkBuffers : v = b.device[0] /\ 0 \in Slots
  BY Existing, SlotFacts
<1>3. /\ ~Awaits(b) => WillBe(v, x)
      /\ Awaits(b) /\ b.view # "modified" => memory[b.host] = x
  BY <1>2 DEF LatestInv, Keeps
<1>4. Awaits(b) /\ b.view # "modified" => b.host \in VkBuffers
  <2>1. b.kind \in Kinds /\ IsApart(b)
    BY <1>1, ObjectFields DEF RolesInv, HasRoles
  <2> QED
    BY <1>1, <2>1 DEF IsSound, Awaits, Kinds, IsApart
<1>5. Awaits(b) /\ b.view # "modified" => memory'[b.host] = x
  <2> SUFFICES ASSUME Awaits(b), b.view # "modified" PROVE memory'[b.host] = x
    OBVIOUS
  <2>1. ASSUME NEW q \in RenderedNow, b.host \in MappedTo(buffers[q], mapped) PROVE FALSE
    <3>1. b.host = b.device[frameIndex] /\ frameIndex \in Slots
      BY <1>2, <2>1, EndTouches, ZenonT(60) DEF FrameInv, FrameTypes
    <3> QED
      BY <3>1 DEF RolesInv, HasRoles, IsApart
  <2> QED
    BY <1>3, <1>4, <2>1, MappedMemory
<1>6. CASE r \notin RenderedNow \/ b.dirty = {}
  <2>1. Awaits(a) <=> Awaits(b)
    BY <1>1, <1>6 DEF Awaits
  <2>2. ~Awaits(b) => WillBe(v, x)'
    BY <1>2, <1>3, <1>6, EndStays
  <2>3. Awaits(b) => a = b
    BY <1>1, <1>6 DEF Awaits
  <2>4. /\ ~Awaits(a) => WillBe(v, x)'
        /\ Awaits(a) /\ a.view # "modified" => memory'[a.host] = x
        /\ a.device[0] = v /\ a.kind # "kPerFrame"
    BY <1>1, <1>2, <1>5, <2>1, <2>2, <2>3
  <2>5. Keeps(a, x)'
    BY <2>4 DEF Keeps, Awaits
  <2> QED
    BY <1>1, <2>5, KeepsThen
<1>7. CASE r \in RenderedNow /\ b.dirty # {}
  <2>1. b.view = "none"
    <3>1. b.kind \in Kinds /\ IsApart(b)
      BY <1>1, ObjectFields DEF RolesInv, HasRoles
    <3> QED
      BY <1>7, <3>1 DEF IsApart, Kinds
  <2>2. memory'[b.host] = x
    BY <1>5, <1>7, <2>1 DEF Awaits
  <2>3. Copies(b) = {<<b.host, v>>}
    <3>1. b.device[frameIndex] = v
      BY <1>1, <1>2 DEF FrameInv, FrameTypes, IsSound
    <3> QED
      BY <1>7, <3>1 DEF Copies
  <2>4. /\ frameIndex' = frameIndex /\ frameIndex \in Slots /\ pc' = "submit"
        /\ commands'[frameIndex].stage = "recorded"
        /\ <<b.host, v>> \in commands'[frameIndex].copies
    BY <1>7, <2>3, RecordedFacts DEF FrameInv, FrameTypes
  <2>5. <<b.host, v>> \in ToCopy(frameIndex, v)'
    BY <2>4 DEF ToCopy
  <2>6. ASSUME NEW s \in Slots, NEW u \in ToCopy(s, v)'
        PROVE  memory'[u[1]] = x
    <3>1. CASE s = frameIndex
      <4>1. u \in ToCopy(frameIndex, v)'
        BY <2>4, <2>6, <3>1 DEF ToCopy
      <4>2. u \in Copies(b)
        BY <1>2, <4>1, EndTouches
      <4> QED
        BY <2>2, <2>3, <4>2
    <3>2. CASE s # frameIndex
      <4>1. ~WritesOrDraws(s, v)'
        <5>1. \A w \in commands'[frameIndex].copies : ~WritesOrDraws(s, w[2])'
          BY <2>4, <3>2 DEF CopyInv, ApartInv
        <5>2. PICK w \in commands'[frameIndex].copies : w = <<b.host, v>>
          BY <2>4
        <5> QED
          BY <5>1, <5>2 DEF WritesOrDraws
      <4> QED
        BY <2>6, <4>1 DEF ToCopy, WritesOrDraws
    <3> QED
      BY <3>1, <3>2
  <2>7. WillBe(v, x)'
    BY <2>4, <2>5, <2>6 DEF WillBe
  <2>8. ~Awaits(a) /\ a.device[0] = v /\ a.kind # "kPerFrame"
    BY <1>1, <1>2, <1>7, <2>1 DEF Awaits
  <2>9. Keeps(a, x)'
    BY <2>7, <2>8 DEF Keeps, Awaits
  <2> QED
    BY <1>1, <2>9, KeepsThen
<1> QED
  BY <1>6, <1>7

(* A kPerFrame buffer: each frame has it, or is still to map it.            *)
LEMMA EndPerFrame ==
  ASSUME NoMishap, FrameInv, UseInv, RolesInv, LatestInv, FrameInv', ~stopped,
         NEW mapped \in BOOLEAN, EndFrame(mapped), ~stopped',
         NEW r \in RenderBuffers, Exists(r), buffers[r].kind = "kPerFrame"
  PROVE  Keeps(buffers[r], latest[r])'
<1>. PICK a, b, x : a = buffers'[r] /\ b = buffers[r] /\ x = latest[r]
  OBVIOUS
<1>1. /\ mapped /\ latest'[r] = x
      /\ r \notin RenderedNow => a = b
      /\ b \in BufferObjects /\ IsSound(b)
      /\ a.kind = b.kind /\ a.device = b.device /\ a.view = b.view /\ a.local = b.local
      /\ r \in RenderedNow => a.dirty = b.dirty \ {frameIndex}
  BY EndShapes
<1>2. \A s \in Slots : b.device[s] \in VkBuffers
  BY Existing
<1>3. ASSUME b.view # "modified", NEW s \in Slots
      PROVE  IF s \in b.dirty THEN b.local = x ELSE WillBe(b.device[s], x)
  BY <1>3 DEF LatestInv, Keeps
<1>4. ASSUME b.view # "modified", NEW s \in Slots, s \notin a.dirty
      PROVE  WillBe(a.device[s], x)'
  <2>1. PICK v \in VkBuffers : v = b.device[s]
    BY <1>2
  <2>2. CASE s \notin b.dirty
    <3>1. WillBe(v, x)
      BY <1>3, <1>4, <2>1, <2>2
    <3>2. WillBe(v, x)'
      BY <2>1, <2>2, <3>1, EndStays
    <3> QED
      BY <1>1, <2>1, <3>2
  <2>3. CASE s \in b.dirty
    <3>1. r \in RenderedNow /\ s = frameIndex /\ b.local = x
      BY <1>1, <1>3, <1>4, <2>3
    <3>2. v \in MappedTo(b, mapped)
      BY <1>1, <2>1, <2>3, <3>1 DEF MappedTo
    <3>3. memory'[v] = x
      BY <3>1, <3>2, MappedMemory
    <3>4. ASSUME NEW t \in Slots, NEW u \in ToCopy(t, v)' PROVE FALSE
      <4>1. CASE t = frameIndex
        <5>1. u \in ToCopy(frameIndex, v)'
          BY <3>4, <4>1, RecordedFacts DEF ToCopy
        <5>2. u \in Copies(b)
          BY <2>1, <5>1, EndTouches
        <5> QED
          BY <5>2 DEF Copies
      <4>2. CASE t # frameIndex
        <5>1. u \in ToCopy(t, v)
          BY <3>4, <4>2, EndUses
        <5>2. WritesOrDraws(t, v)
          BY <5>1 DEF ToCopy, WritesOrDraws
        <5> QED
          BY <2>1, <3>1, <4>2, <5>2 DEF RolesInv, HasRoles
      <4> QED
        BY <4>1, <4>2
    <3>5. WillBe(v, x)'
      BY <3>3, <3>4 DEF WillBe
    <3> QED
      BY <1>1, <2>1, <3>5
  <2> QED
    BY <2>2, <2>3
<1>5. ASSUME b.view # "modified", NEW s \in Slots, s \in a.dirty
      PROVE  a.local = x
  <2>1. s \in b.dirty
    BY <1>1, <1>5
  <2> QED
    BY <1>1, <1>3, <1>5, <2>1
<1>6. a.kind = "kPerFrame" /\ a.view = b.view
  BY <1>1
<1>7. Keeps(a, x)'
  BY <1>4, <1>5, <1>6 DEF Keeps
<1> QED
  BY <1>1, <1>7, KeepsThen

LEMMA EndLatest ==
  ASSUME NoMishap, FrameInv, UseInv, RolesInv, LatestInv, FrameInv', CopyInv', ~stopped,
         NEW mapped \in BOOLEAN, EndFrame(mapped)
  PROVE  LatestInv'
<1> SUFFICES ASSUME ~stopped', NEW r \in RenderBuffers, Exists(r)'
             PROVE  Keeps(buffers[r], latest[r])'
  BY DEF LatestInv
<1>1. Exists(r)
  BY EndShapes
<1> QED
  BY <1>1, EndStatic, EndPerFrame

(* A frame's draws find what they need when they are made: what the frame   *)
(* draws is up to date, and what another one draws it does not touch.      *)
LEMMA EndDraws ==
  ASSUME NoMishap, FrameInv, UseInv, RolesInv, DrawsInv, FrameInv', CopyInv', LatestInv',
         ~stopped, NEW mapped \in BOOLEAN, EndFrame(mapped)
  PROVE  DrawsInv'
<1> SUFFICES ASSUME ~stopped', NEW s \in Slots, commands'[s].stage # "idle",
                    NEW d \in commands'[s].draws, d[2] # Unwritten
             PROVE  WillBe(d[1], d[2])'
  BY DEF DrawsInv
<1>1. /\ frameIndex \in Slots /\ frameIndex' = frameIndex /\ pc' = "submit"
      /\ \A t \in Slots : t # frameIndex => commands'[t] = commands[t]
      /\ \A q \in RenderedNow : q \in RenderBuffers /\ Exists(q)
  BY RecordedFacts, EndUses
<1>2. CASE s = frameIndex
  <2>1. PICK r \in RenderedNow :
          /\ d[1] = buffers[r].device[frameIndex]
          /\ buffers[r].view = "none" /\ d[2] = latest[r]
    <3>1. d \in commands'[frameIndex].draws
      BY <1>2
    <3> QED
      BY <3>1, RecordedDraws
  <2>2. r \in RenderBuffers /\ Exists(r)
    BY <1>1
  <2>. PICK a, b, x : a = buffers'[r] /\ b = buffers[r] /\ x = latest[r]
    OBVIOUS
  <2>3. /\ Exists(r)' /\ latest'[r] = x /\ IsSound(b)
        /\ a.kind = b.kind /\ a.device = b.device /\ a.view = "none"
        /\ b.kind # "kPerFrame" => a.dirty = {}
        /\ b.kind = "kPerFrame" => a.dirty = b.dirty \ {frameIndex}
    BY <2>1, <2>2, EndShapes
  <2>4. Keeps(a, x)'
    <3>1. Keeps(buffers[r], latest[r])'
      BY <2>2, <2>3 DEF LatestInv
    <3> QED
      BY <2>3, <3>1 DEF Keeps, Awaits, WillBe, ToCopy
  <2>5. PICK v : v = d[1]
    OBVIOUS
  <2>6. v = a.device[frameIndex] /\ (a.kind # "kPerFrame" => v = a.device[0])
    BY <1>1, <2>1, <2>3, <2>5, SlotFacts DEF IsSound
  <2>7. a.kind # "kPerFrame" => WillBe(v, x)'
    BY <2>3, <2>4, <2>6 DEF Keeps, Awaits
  <2>8. a.kind = "kPerFrame" => WillBe(v, x)'
    <3>1. PICK t \in Slots : t = frameIndex
      BY <1>1
    <3>2. a.kind = "kPerFrame" => WillBe(a.device[t], x)'
      BY <2>3, <2>4, <3>1 DEF Keeps
    <3> QED
      BY <2>6, <3>1, <3>2
  <2> QED
    BY <2>1, <2>5, <2>7, <2>8
<1>3. CASE s # frameIndex
  <2>1. /\ commands[s].stage # "idle" /\ d \in commands[s].draws
    BY <1>1, <1>3
  <2>2. /\ d[1] \in VkBuffers /\ WritesOrDraws(s, d[1]) /\ WillBe(d[1], d[2])
    BY <2>1, UsedBuffers DEF WritesOrDraws, DrawsInv
  <2>3. WritesOrDraws(s, d[1])'
    BY DEF WritesOrDraws
  <2>4. ToCopy(frameIndex, d[1])' = {}
    <3>1. ASSUME NEW u \in ToCopy(frameIndex, d[1])' PROVE FALSE
      <4>1. u \in commands'[frameIndex].copies /\ u[2] = d[1]
        BY <1>1, <3>1 DEF ToCopy
      <4>2. ~WritesOrDraws(s, u[2])'
        BY <1>1, <1>3, <4>1 DEF CopyInv, ApartInv
      <4> QED
        BY <2>3, <4>1, <4>2 DEF WritesOrDraws
    <3> QED
      BY <3>1
  <2>5. ASSUME NEW q \in RenderedNow, d[1] \in MappedTo(buffers[q], mapped) PROVE FALSE
    <3>1. /\ q \in RenderBuffers /\ Exists(q)
          /\ d[1] = buffers[q].device[frameIndex] /\ buffers[q].kind = "kPerFrame"
      BY <1>1, <2>5 DEF MappedTo
    <3> QED
      BY <1>1, <1>3, <2>2, <3>1 DEF RolesInv, HasRoles
  <2> QED
    BY <2>2, <2>4, <2>5, EndKeeps
<1> QED
  BY <1>2, <1>3

LEMMA EndFrameValueInv ==
  ASSUME NoMishap, FrameInv, UseInv, ValueInv, FrameInv', UseInv', CopyInv', ~stopped,
         NEW mapped \in BOOLEAN, EndFrame(mapped)
  PROVE  ValueInv'
<1>1. /\ frameIndex \in Slots /\ pc = "frame" /\ UNCHANGED <<frameIndex, queue>>
      /\ commands'[frameIndex].stage = "recorded"
      /\ \A t \in Slots : t # frameIndex => commands'[t] = commands[t]
      /\ \A q \in RenderedNow : q \in RenderBuffers /\ Exists(q)
  BY RecordedFacts, EndUses
<1>2. RolesInv'
  BY EndRoles DEF ValueInv
<1>3. LatestInv'
  BY EndLatest DEF ValueInv
<1>4. DrawsInv'
  BY <1>3, EndDraws DEF ValueInv
<1>5. OrderInv'
  <2>1. \A i \in DOMAIN queue : queue[i] \in Slots
    BY DEF FrameInv, FrameTypes
  <2>2. commands[frameIndex].stage \in {"idle", "recorded"}
    BY <1>1 DEF FrameInv, FencesGuard
  <2>3. \A i \in DOMAIN queue : queue[i] # frameIndex
    BY <2>2 DEF FrameInv, StageInv
  <2>4. \A i \in DOMAIN queue : commands'[queue[i]] = commands[queue[i]]
    BY <1>1, <2>1, <2>3
  <2> QED
    BY <1>1, <2>4 DEF OrderInv, ValueInv
<1>6. DrawsLatest'
  <2>1. \A s \in Slots : commands'[s].stage = "drawing" =>
          commands[s].stage = "drawing" /\ commands'[s].draws = commands[s].draws
    BY <1>1
  <2>2. ASSUME NEW s \in Slots, NEW b \in VkBuffers, commands[s].stage = "drawing",
               WritesOrDraws(s, b)
        PROVE  memory'[b] = memory[b]
    <3>1. s # frameIndex
      BY <1>1, <2>2 DEF FrameInv, FencesGuard
    <3>2. ASSUME NEW q \in RenderedNow, b \in MappedTo(buffers[q], mapped) PROVE FALSE
      <4>1. /\ q \in RenderBuffers /\ Exists(q)
            /\ b = buffers[q].device[frameIndex] /\ buffers[q].kind = "kPerFrame"
        BY <1>1, <3>2 DEF MappedTo
      <4> QED
        BY <1>1, <2>2, <3>1, <4>1 DEF ValueInv, RolesInv, HasRoles
    <3> QED
      BY <3>2, MappedMemory
  <2> QED
    BY <2>1, <2>2, DrawsStay DEF ValueInv, UseInv
<1> QED
  BY <1>2, <1>3, <1>4, <1>5, <1>6 DEF ValueInv

LEMMA NextValueInv ==
  ASSUME NoMishap, FrameInv, UseInv, CopyInv, ValueInv, FrameInv', UseInv', CopyInv',
         [FramesNext]_allFrameVars
  PROVE  ValueInv'
<1>1. ASSUME UNCHANGED <<queue, commands, memory, buffers, latest, stopped>>
      PROVE  ValueInv'
  <2>1. OrderInv'
    BY <1>1 DEF ValueInv, OrderInv
  <2> QED
    BY <1>1, <2>1, BackendValues
<1>2. ASSUME ~stopped, BackendNext, UNCHANGED bufferVars PROVE ValueInv'
  BY <1>2, BackendValueInv
<1>3. ASSUME ~stopped, BufferNext PROVE ValueInv'
  BY <1>3, BufferWrites, WritesValueInv
<1>4. ASSUME NEW r \in RenderBuffers, Draw(r) PROVE ValueInv'
  BY <1>1, <1>4 DEF Draw, frameVars, gpuVars, logVars, bufferVars
<1>5. ASSUME NEW mapped \in BOOLEAN, EndFrame(mapped), ~stopped PROVE ValueInv'
  BY <1>5, EndFrameValueInv
<1>6. CASE UNCHANGED allFrameVars
  BY <1>1, <1>6 DEF allFrameVars, frameVars, gpuVars, logVars, bufferVars
<1> QED
  BY <1>2, <1>3, <1>4, <1>5, <1>6 DEF FramesNext

(* If, besides, no host buffer is written that a frame is still to copy, no *)
(* edit is lost and every kPerFrame buffer can be mapped, the GPU finds in  *)
(* each buffer that a frame draws what the application had last written to *)
(* it when the frame ended, whatever is set and edited in the meantime: the *)
(* choice between writing a Vulkan buffer and replacing it                 *)
(* (vulkan_render_buffer.cc) is right.                                     *)
THEOREM Latest == NoMishap => (FramesSpec => []DrawsLatest)
<1> SUFFICES ASSUME NoMishap PROVE FramesSpec => []DrawsLatest
  OBVIOUS
<1>1. FramesInit => UseInv /\ CopyInv /\ ValueInv
  BY InitUseInv, InitCopyInv, InitValueInv
<1>2. FrameInv /\ UseInv /\ [FramesNext]_allFrameVars => UseInv'
  BY NextUseInv DEF NoMishap, NoDrawInEdit
<1>3. FrameInv /\ UseInv /\ CopyInv /\ [FramesNext]_allFrameVars => CopyInv'
  BY NextCopyInv DEF NoMishap
<1>4. FrameInv /\ UseInv /\ CopyInv /\ ValueInv /\ FrameInv' /\ UseInv' /\ CopyInv'
        /\ [FramesNext]_allFrameVars => ValueInv'
  BY NextValueInv
<1>5. ValueInv => DrawsLatest
  BY DEF ValueInv
<1> QED
  BY <1>1, <1>2, <1>3, <1>4, <1>5, FramesInvariant, PTL DEF FramesSpec
=============================================================================
