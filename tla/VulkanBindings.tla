---------------------------- MODULE VulkanBindings ----------------------------
(***************************************************************************)
(* gb/render/vulkan/vulkan_binding_data*, vulkan_descriptor_pool: binding  *)
(* data that threads make, set, draw and delete, of one factory, while the *)
(* GPU still reads the descriptor sets of up to two frames.                *)
(*                                                                         *)
(* The bindings are a texture and constants, or one of them, or none.      *)
(* What happens to the host and device copies of a buffer, and to images,  *)
(* is in VulkanFrames and VulkanTextures: here they have a version.        *)
(***************************************************************************)
EXTENDS Integers, Sequences, FiniteSets

CONSTANTS
  Datas,               (* Binding data, which are numbered.                *)
  Pointers,            (* Addresses of textures.                           *)
  Null,
  Layouts,             (* The bindings, the volatility of the constants,   *)
                       (* whether new data is given default values, and    *)
                       (* the bounds: how much data is made, how many      *)
                       (* frames there are.                                *)
  BufferSlots,         (* buffer_slots_                                    *)
  ClearedSlots,        (* How many of them a buffer's Resize clears: it    *)
                       (* counts values without their alignment.           *)
  MaxBufferSlots,      (* max_buffer_slots                                 *)
  Followed,            (* The mishaps after which a behaviour goes on.     *)
  MaxImages, MaxValues (* Bounds                                           *)

VARIABLES
  layout,              (* One of Layouts.                                  *)
  groups,              (* binding_groups_: the buffer_free of each.        *)
  freeIndex,
  pool,
  data,
  textures,
  buffers,             (* Of each group: version, last frame and values.   *)
  contents,            (* What each descriptor set refers to.              *)
  frame, rendering, drawn,
  queue,               (* What the frames that the GPU has not finished    *)
                       (* use of which sets.                               *)
  made, images, values,(* How many there were.                             *)
  stopped

vars == <<layout, groups, freeIndex, pool, data, textures, buffers, contents, frame, rendering,
          drawn, queue, made, images, values, stopped>>
frameVars == <<frame, rendering, drawn, queue>>

FrameSlots   == {0, 1}
Unbound      == -1
Nothing      == 0
NoBuffer     == <<0, 0>>
Junk         == -2
kNeverUsedFrame == -1000
NoData       == [state |-> "none"]

HasBindings  == layout.texture \/ layout.constants
Exists(d)    == data[d].state = "ready"
Index(d)     == (data[d].group - 1) * BufferSlots + data[d].offset
Mishap(m, happens) == happens /\ m \notin Followed

-----------------------------------------------------------------------------
(* The factory.  buffer_free has, for each slot that is free, the next one *)
(* among the slots of all groups.                                          *)

(* Mutant: the chain ends too early.                                       *)
ChainEndsEarly(n) ==
  [i \in 0 .. BufferSlots - 1 |-> IF i < BufferSlots - 2 THEN n * BufferSlots + i + 1 ELSE -1]
NewChain(n) ==
  [i \in 0 .. BufferSlots - 1 |-> IF i < BufferSlots - 1 THEN n * BufferSlots + i + 1 ELSE -1]

(* What constants are before they are set.                                 *)
NewValues ==
  [i \in 0 .. BufferSlots - 1 |->
     IF layout.volatility = "kPerFrame" \/ i < ClearedSlots THEN 0 ELSE Junk]
NewBuffer == [version |-> 1, rendered |-> kNeverUsedFrame, values |-> NewValues]

AddBindingGroup ==
  [groups |-> Append(groups, IF layout.constants THEN NewChain(Len(groups)) ELSE <<>>),
   free   |-> Len(groups) * IF layout.constants THEN BufferSlots ELSE 0,
   buffers |-> IF layout.constants THEN Append(buffers, NewBuffer) ELSE buffers]

(* NewSet: sets that were disposed of are not used again, as a frame that  *)
(* is over is never later than the next one.                               *)
Reusable(p) == p.available # <<>> /\ p.available[1].frame > frame + 1
NewSet(p) ==
  IF Reusable(p)
  THEN [p EXCEPT !.available = Tail(@), !.new = p.available[1].set]
  ELSE LET more == IF p.unallocated = 0
                   THEN [p EXCEPT !.unallocated = p.size, !.size = 2 * @, !.space = p.size]
                   ELSE p
       IN [more EXCEPT !.unallocated = @ - 1, !.space = @ - 1, !.sets = @ + 1, !.new = p.sets + 1]

(* VulkanBindingDataFactory::Create                                        *)
Init ==
  /\ layout \in Layouts
  /\ groups = <<IF layout.constants THEN NewChain(0) ELSE <<>> >>
  /\ freeIndex = 0
  /\ pool = [size |-> 2 * MaxBufferSlots, unallocated |-> MaxBufferSlots, space |-> MaxBufferSlots,
             available |-> <<>>, sets |-> 0, new |-> 0]
  /\ data = [d \in Datas |-> NoData]
  /\ textures = [p \in Pointers |-> [alive |-> FALSE, made |-> 0, image |-> 0, version |-> 0]]
  /\ buffers = IF layout.constants THEN <<NewBuffer>> ELSE <<>>
  /\ contents = <<>>
  /\ frame = 0 /\ rendering = FALSE /\ drawn = {} /\ queue = <<>>
  /\ made = 0 /\ images = 0 /\ values = 0
  /\ stopped = FALSE

(* The next data there is none of yet.                                     *)
IsNext(d) ==
  /\ \A e \in Datas : data[e].state = "none" => d <= e
  /\ data[d].state = "none" /\ made < layout.new

(* NewBindingData up to where it unlocks the mutex.                        *)
NewBindingData(d) ==
  LET adds  == freeIndex = -1
      g     == IF adds THEN AddBindingGroup
                       ELSE [groups |-> groups, free |-> freeIndex, buffers |-> buffers]
      group  == IF layout.constants THEN (g.free \div BufferSlots) + 1 ELSE 1
      offset == IF layout.constants THEN g.free % BufferSlots ELSE 0
      one    == NewSet(pool)
      two    == NewSet(one)
  IN
  /\ IsNext(d)
  /\ made' = made + 1
  /\ IF HasBindings
     THEN /\ pool' = two
          /\ contents' = contents \o [s \in 1 .. two.sets - pool.sets |-> [image |-> Nothing, buffer |-> NoBuffer]]
          /\ data' = [[e \in Datas |-> IF adds /\ data[e].state = "making"
                                       THEN [data[e] EXCEPT !.moved = TRUE] ELSE data[e]]
                      EXCEPT ![d] = [state |-> "making", group |-> group, offset |-> offset,
                                     sets |-> [s \in FrameSlots |-> IF s = 0 THEN one.new ELSE two.new],
                                     moved |-> FALSE]]
     ELSE /\ data' = [data EXCEPT ![d] = [state |-> "making", group |-> 1, offset |-> 0,
                                          sets |-> [s \in FrameSlots |-> 0], moved |-> FALSE]]
          /\ UNCHANGED <<pool, contents>>
  /\ IF layout.constants
     THEN /\ groups' = [g.groups EXCEPT ![group][offset] = -1]
          /\ freeIndex' = g.groups[group][offset]
     ELSE groups' = g.groups /\ freeIndex' = g.free
  /\ buffers' = g.buffers
  /\ UNCHANGED <<layout, textures, frameVars, images, values, stopped>>

(* The second descriptor set cannot be allocated: the first is lost.       *)
NewFails(d) ==
  LET adds == freeIndex = -1
      one  == NewSet(pool)
  IN
  /\ IsNext(d) /\ HasBindings
  /\ made' = made + 1
  /\ pool' = one
  /\ contents' = contents \o [s \in 1 .. one.sets - pool.sets |-> [image |-> Nothing, buffer |-> NoBuffer]]
  /\ IF adds
     THEN groups' = AddBindingGroup.groups /\ freeIndex' = AddBindingGroup.free /\ buffers' = AddBindingGroup.buffers
     ELSE UNCHANGED <<groups, freeIndex, buffers>>
  /\ data' = [e \in Datas |-> IF adds /\ data[e].state = "making"
                              THEN [data[e] EXCEPT !.moved = TRUE] ELSE data[e]]
  /\ UNCHANGED <<layout, textures, frameVars, images, values, stopped>>

-----------------------------------------------------------------------------
(* Values                                                                  *)

FrameInUse(f) == f > frame - 2

(* Mutant: the constants of a slot are in the first group.                 *)
SetsFirstGroup(all, d, value) ==
  [all EXCEPT ![1].values[data[d].offset] = value]

(* VulkanRenderBuffer::SetValue, which nothing comes of if the volatility  *)
(* is kStaticWrite.                                                        *)
SetValue(all, d, value) ==
  LET b == all[data[d].group]
      written == [b EXCEPT !.values[data[d].offset] = value]
  IN [all EXCEPT ![data[d].group] =
        IF layout.volatility = "kStaticWrite" THEN b
        ELSE IF layout.volatility = "kStaticReadWrite" /\ FrameInUse(b.rendered)
             THEN [written EXCEPT !.version = @ + 1, !.rendered = kNeverUsedFrame]
             ELSE written]

(* The rest of NewBindingData, whose reference to the group is no longer   *)
(* good if the vector has grown, and the caller's CopyTo.                  *)
Construct(d) ==
  /\ data[d].state = "making"
  /\ \E junk \in {Unbound, 1} :
       /\ data[d].moved \/ junk = Unbound
       /\ data' = [data EXCEPT ![d] =
            [state |-> "ready", group |-> @.group, offset |-> @.offset, sets |-> @.sets,
             texture |-> Null, made |-> 0, asked |-> 0,
             image |-> [s \in FrameSlots |-> IF data[d].moved THEN junk ELSE 0],
             buffer |-> [s \in FrameSlots |-> junk]]]
  /\ buffers' = IF layout.constants /\ layout.defaults THEN SetValue(buffers, d, 0) ELSE buffers
  /\ stopped' = \/ Mishap("moved", data[d].moved)
                \/ Mishap("unset", /\ layout.constants
                                   /\ buffers'[data[d].group].values[data[d].offset] # 0)
  /\ UNCHANGED <<layout, groups, freeIndex, pool, textures, contents, frameVars, made, images, values>>

SetConstants(d) ==
  /\ Exists(d) /\ layout.constants
  /\ values < MaxValues
  /\ values' = values + 1
  /\ buffers' = SetValue(buffers, d, values')
  /\ data' = [data EXCEPT ![d].asked = values']
  /\ stopped' = Mishap("ignored", layout.volatility = "kStaticWrite")
  /\ UNCHANGED <<layout, groups, freeIndex, pool, textures, contents, frameVars, made, images>>

(* Mutant: only the set of the current frame is bound again.               *)
RebindsOne(bound) == [s \in FrameSlots |-> IF s = frame % 2 THEN Unbound ELSE bound[s]]
Rebind(bound) == [s \in FrameSlots |-> Unbound]

SetTexture(d, p) ==
  /\ Exists(d) /\ layout.texture
  /\ textures[p].alive
  /\ data' = [data EXCEPT ![d].texture = p, ![d].made = textures[p].made,
                          ![d].image = IF p # data[d].texture THEN Rebind(@) ELSE @]
  /\ stopped' = Mishap("sameAddress", p = data[d].texture /\ data[d].made # textures[p].made)
  /\ UNCHANGED <<layout, groups, freeIndex, pool, textures, buffers, contents, frameVars, made, images, values>>

(* Textures come and go, and get other images as they are written.         *)
CreateTexture(p) ==
  /\ layout.texture /\ ~textures[p].alive /\ images < MaxImages
  /\ images' = images + 1
  /\ textures' = [textures EXCEPT ![p] = [alive |-> TRUE, made |-> @.made + 1, image |-> images', version |-> 1]]
  /\ UNCHANGED <<layout, groups, freeIndex, pool, data, buffers, contents, frameVars, made, values, stopped>>

SetImageHandle(p) ==
  /\ textures[p].alive /\ images < MaxImages
  /\ images' = images + 1
  /\ textures' = [textures EXCEPT ![p].image = images', ![p].version = @ + 1]
  /\ UNCHANGED <<layout, groups, freeIndex, pool, data, buffers, contents, frameVars, made, values, stopped>>

DeleteTexture(p) ==
  /\ textures[p].alive
  /\ \A d \in drawn : data[d].texture # p
  /\ textures' = [textures EXCEPT ![p].alive = FALSE]
  /\ UNCHANGED <<layout, groups, freeIndex, pool, data, buffers, contents, frameVars, made, images, values, stopped>>

(* Mutant: the group of the slot is forgotten.                             *)
FreesOffset(d) == data[d].offset
FreedIndex(d)  == Index(d)

(* The destructor, and DisposeBindingData.                                 *)
Delete(d) ==
  /\ Exists(d) /\ d \notin drawn
  /\ data' = [data EXCEPT ![d] = NoData]
  /\ IF layout.constants
     THEN /\ groups' = [groups EXCEPT ![data[d].group][data[d].offset] = freeIndex]
          /\ freeIndex' = FreedIndex(d)
     ELSE UNCHANGED <<groups, freeIndex>>
  /\ pool' = IF HasBindings
             THEN [pool EXCEPT !.available = @ \o <<[frame |-> frame, set |-> data[d].sets[0]],
                                                    [frame |-> frame, set |-> data[d].sets[1]]>>]
             ELSE pool
  /\ UNCHANGED <<layout, textures, buffers, contents, frameVars, made, images, values, stopped>>

-----------------------------------------------------------------------------
(* Frames                                                                  *)

(* The frame before the last has been waited for.                          *)
BeginFrame ==
  /\ ~rendering /\ Len(queue) < 2 /\ frame < layout.frames
  /\ rendering' = TRUE
  /\ UNCHANGED <<layout, groups, freeIndex, pool, data, textures, buffers, contents, frame, drawn, queue,
                 made, images, values, stopped>>

Draw(d) ==
  /\ rendering /\ Exists(d)
  /\ layout.texture => /\ data[d].texture # Null
                       /\ textures[data[d].texture].alive
                       /\ textures[data[d].texture].made = data[d].made
  /\ drawn' = drawn \cup {d}
  /\ UNCHANGED <<layout, groups, freeIndex, pool, data, textures, buffers, contents, frame, rendering, queue,
                 made, images, values, stopped>>

(* What the GPU is to find in the set of d.                                *)
Current(d) ==
  [image  |-> IF layout.texture THEN textures[data[d].texture].image ELSE Nothing,
   buffer |-> IF layout.constants THEN <<data[d].group, buffers[data[d].group].version>> ELSE NoBuffer]

ImageVersion(d)  == IF layout.texture THEN textures[data[d].texture].version ELSE data[d].image[frame % 2]
BufferVersion(d) == IF layout.constants THEN buffers[data[d].group].version ELSE data[d].buffer[frame % 2]

(* Mutant: a set is taken to be bound once the other one is.               *)
BindsBoth(bound, version) == [s \in FrameSlots |-> version]
Bind(bound, version) == [bound EXCEPT ![frame % 2] = version]

(* OnRender, and EndFrameUpdateDescriptorSets.                             *)
OnRender(d) ==
  [data[d] EXCEPT !.image = Bind(@, ImageVersion(d)), !.buffer = Bind(@, BufferVersion(d))]

Updated(s) ==
  IF \E d \in drawn : data[d].sets[frame % 2] = s
  THEN LET d == CHOOSE d \in drawn : data[d].sets[frame % 2] = s
       IN [image  |-> IF data[d].image[frame % 2] # ImageVersion(d) THEN Current(d).image
                      ELSE contents[s].image,
           buffer |-> IF data[d].buffer[frame % 2] # BufferVersion(d) THEN Current(d).buffer
                      ELSE contents[s].buffer]
  ELSE contents[s]

EndFrame ==
  /\ rendering
  /\ rendering' = FALSE
  /\ contents' = [s \in DOMAIN contents |-> Updated(s)]
  /\ data' = [d \in Datas |-> IF d \in drawn THEN OnRender(d) ELSE data[d]]
  /\ buffers' = [g \in DOMAIN buffers |->
       IF \E d \in drawn : data[d].group = g THEN [buffers[g] EXCEPT !.rendered = frame] ELSE buffers[g]]
  /\ queue' = Append(queue, IF HasBindings
                            THEN {[set |-> data[d].sets[frame % 2], refers |-> Current(d)] : d \in drawn}
                            ELSE {})
  /\ frame' = frame + 1
  /\ drawn' = {}
  /\ UNCHANGED <<layout, groups, freeIndex, pool, textures, made, images, values, stopped>>

(* The GPU                                                                 *)
Finish ==
  /\ queue # <<>>
  /\ queue' = Tail(queue)
  /\ UNCHANGED <<layout, groups, freeIndex, pool, data, textures, buffers, contents, frame, rendering, drawn,
                 made, images, values, stopped>>

Next ==
  /\ ~stopped
  /\ \/ \E d \in Datas : \/ NewBindingData(d) \/ NewFails(d) \/ Construct(d)
                         \/ SetConstants(d) \/ Delete(d) \/ Draw(d)
                         \/ \E p \in Pointers : SetTexture(d, p)
     \/ \E p \in Pointers : CreateTexture(p) \/ SetImageHandle(p) \/ DeleteTexture(p)
     \/ BeginFrame \/ EndFrame \/ Finish

Spec == Init /\ [][Next]_vars

-----------------------------------------------------------------------------
(* Properties                                                              *)
Slots == IF layout.constants THEN 0 .. Len(groups) * BufferSlots - 1 ELSE {}
NextFree(i) == groups[(i \div BufferSlots) + 1][i % BufferSlots]

(* The free slots, as far as the list goes.                                *)
FreeAfter[n \in Nat, i \in Int] ==
  IF n = 0 \/ i \notin Slots THEN {} ELSE {i} \cup FreeAfter[n - 1, NextFree(i)]
Free == FreeAfter[Cardinality(Slots), freeIndex]
Used == {Index(d) : d \in {d \in Datas : data[d].state # "none"}}

(* A slot is on the free list once, or some data has it, and no other.     *)
SlotsAreOwned ==
  layout.constants =>
    /\ Free \cup Used = Slots /\ Free \cap Used = {}
    /\ \A i, j \in Free : NextFree(i) = NextFree(j) => i = j
    /\ \A i \in Free : NextFree(i) # freeIndex
    /\ \A d, e \in Datas :
         data[d].state # "none" /\ data[e].state # "none" /\ d # e => Index(d) # Index(e)

(* No two data have a descriptor set between them, nor one that was given  *)
(* back; and there is space in the pool where one is expected.             *)
SetsAreOwned ==
  HasBindings =>
    /\ \A d, e \in Datas : \A s, t \in FrameSlots :
         /\ data[d].state # "none" /\ data[e].state # "none"
         /\ data[d].sets[s] = data[e].sets[t]
         => d = e /\ s = t
    /\ \A d \in Datas, i \in DOMAIN pool.available :
         data[d].state # "none" => pool.available[i].set \notin {data[d].sets[s] : s \in FrameSlots}
    /\ pool.unallocated = pool.space

(* What the GPU finds in the sets of its frames is what was current as     *)
(* they were recorded, until it is done with them.                         *)
DescriptorsAgree ==
  \A i \in DOMAIN queue : \A use \in queue[i] : contents[use.set] = use.refers

(* Constants are what was set last, through this data.                     *)
ConstantsAreOwn ==
  \A d \in Datas :
    Exists(d) /\ layout.constants /\ ~stopped =>
      buffers[data[d].group].values[data[d].offset] = data[d].asked

BindingsAgree == SlotsAreOwned /\ SetsAreOwned /\ DescriptorsAgree /\ ConstantsAreOwn
=============================================================================
