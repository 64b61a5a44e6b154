--------------------------- MODULE VulkanTextures ---------------------------
(***************************************************************************)
(* gb/render/texture*, vulkan_texture*: a texture, or an array of them,    *)
(* that the application writes, edits and draws while the GPU still copies *)
(* to its images, and draws, for up to two frames.                         *)
(*                                                                         *)
(* What the GPU no longer uses is destroyed later (see VulkanBackend):     *)
(* here an image or a host buffer is there while anything refers to it.    *)
(* A pixel is known by the call that wrote it and its place in the call's  *)
(* data; Junk are the pixels that nobody wrote.  The other mip levels are  *)
(* known by the pixels they were made of.                                  *)
(***************************************************************************)
EXTENDS Integers, Sequences, FiniteSets

CONSTANTS
  Width, Height,
  Layers,          (* The textures of an array.                            *)
  Regions,         (* The regions the application writes, clipped or not.  *)
  Keeps,           (* Whether an image keeps its contents when a barrier   *)
                   (* has the old layout eUndefined, which lets drivers    *)
                   (* discard them.                                        *)
  Followed,        (* The mishaps after which a behaviour goes on.         *)
  MaxCalls,        (* Bound: writes.                                       *)
  MaxFrames        (* Bound: frames.                                       *)

VARIABLES
  kind, mipmap,
  hosts, images, mips,  (* The contents of host buffers and images.        *)
  texture,
  frame,           (* VulkanBackend::GetFrame                              *)
  rendering,       (* Between BeginFrame and EndFrame.                     *)
  queue,           (* The frames the GPU has not finished, in order.       *)
  calls,
  wanted,          (* The pixels the application has written.              *)
  stopped

vars == <<kind, mipmap, hosts, images, mips, texture, frame, rendering, queue, calls, wanted, stopped>>

Slots == {0, 1}

(* A kPerFrame texture has a host buffer and an image for every frame that *)
(* may be in flight, the others use the first ones.                        *)
Slot == IF kind = "kPerFrame" THEN frame % 2 ELSE 0
kNeverUsedFrame == -1000
None  == 0
Ids   == 1 .. 5

IsArray == kind \in {"writeArray", "readWriteArray"}
Cells == IF IsArray THEN 0 .. Layers - 1 ELSE 0 .. Width * Height - 1
Junk  == [c \in Cells |-> <<0, 0>>]
Whole == [x |-> 0, y |-> 0, w |-> Width, h |-> Height]

(* A mishap is an order of calls whose consequences the code does not deal *)
(* with.  Unless it is Followed a behaviour ends there.                    *)
Mishap(m, happens) == happens /\ m \notin Followed

-----------------------------------------------------------------------------
(* Regions                                                                 *)

CellsOf(r) == {Width * y + x : x \in r.x .. r.x + r.w - 1, y \in r.y .. r.y + r.h - 1}

(* Mutant: the pixels of the rows above are not skipped.                   *)
ClipKeepsPixels(r) ==
  LET w == IF r.x + r.w > Width THEN Width - r.x ELSE r.w
      h == IF r.y + r.h > Height THEN Height - r.y ELSE r.h
      left == IF r.x < 0 THEN -r.x ELSE 0
      top  == IF r.y < 0 THEN -r.y ELSE 0
  IN IF \/ r.x >= Width \/ r.y >= Height \/ r.w <= 0 \/ r.h <= 0
        \/ r.x + r.w <= 0 \/ r.y + r.h <= 0
     THEN {}
     ELSE {[x |-> r.x + left, y |-> r.y + top, w |-> w - left, h |-> h - top, pixels |-> left]}

(* Texture::Clip: nothing, or what is left of a region and where its first *)
(* pixel is in the data.                                                   *)
Clip(r) ==
  LET w == IF r.x + r.w > Width THEN Width - r.x ELSE r.w
      h == IF r.y + r.h > Height THEN Height - r.y ELSE r.h
      left == IF r.x < 0 THEN -r.x ELSE 0
      top  == IF r.y < 0 THEN -r.y ELSE 0
  IN IF \/ r.x >= Width \/ r.y >= Height \/ r.w <= 0 \/ r.h <= 0
        \/ r.x + r.w <= 0 \/ r.y + r.h <= 0
     THEN {}
     ELSE {[x |-> r.x + left, y |-> r.y + top, w |-> w - left, h |-> h - top,
            pixels |-> left + top * r.w]}

Contains(r, s) ==
  s.x >= r.x /\ s.y >= r.y /\ s.x + s.w <= r.x + r.w /\ s.y + s.h <= r.y + r.h

UnionDirtyRegion(r, s) ==
  LET least(a, b) == IF a < b THEN a ELSE b
      most(a, b)  == IF a > b THEN a ELSE b
      x == least(r.x, s.x)
      y == least(r.y, s.y)
  IN [x |-> x, y |-> y, w |-> most(r.x + r.w, s.x + s.w) - x, h |-> most(r.y + r.h, s.y + s.h) - y]

(* Of a kStaticWrite texture, whose host buffer has nothing but what was   *)
(* written, the regions are kept apart.  Those above the new one go too if *)
(* they end within it (the comparison of their first rows is the wrong way *)
(* round).                                                                 *)
Replaces(s, r) == /\ s.x >= r.x /\ s.y <= r.y
                  /\ s.x + s.w <= r.x + r.w /\ s.y + s.h <= r.y + r.h
AddDirtyRegion(regions, r) ==
  IF \E s \in regions : Contains(s, r) THEN regions
  ELSE {s \in regions : ~Replaces(s, r)} \cup {r}

(* Of the others one region is kept.                                       *)
MarkDirty(regions, r) ==
  IF regions = {} THEN {r} ELSE {UnionDirtyRegion(s, r) : s \in regions}

(* The contents with the new pixels of some cells.                         *)
Over(new, contents) == [c \in Cells |-> IF c \in DOMAIN new THEN new[c] ELSE contents[c]]

(* ClearRegion and CopyRegion: the new pixels.  Data as wide as the region *)
(* is copied as one piece, even if the texture is wider.                   *)
ClearRegion(r) == [c \in CellsOf(r) |-> <<calls + 1, 0>>]

CopyRegion(r, data, stride) ==
  LET first == r.y * Width + r.x
      source(c) == ((c - first) \div Width) * stride + ((c - first) % Width)
  IN IF stride = r.w
     THEN [c \in Cells \cap (first .. first + r.w * r.h - 1) |-> data[c - first]]
     ELSE [c \in CellsOf(r) |-> data[source(c)]]

-----------------------------------------------------------------------------
(* Host buffers and images                                                 *)

HostsOf(t, q)  == {t.host[s] : s \in Slots} \cup UNION {{u.host : u \in q[i].updates} : i \in DOMAIN q}
ImagesOf(t, q) == {t.image[s] : s \in Slots} \cup UNION {{u.image : u \in q[i].updates} : i \in DOMAIN q}
                  \cup {q[i].image : i \in DOMAIN q}
Fresh(used) == CHOOSE i \in Ids \ used : \A j \in Ids \ used : i <= j
FreshHost   == Fresh(HostsOf(texture, queue))
FreshImage  == Fresh(ImagesOf(texture, queue))
Keep(contents, used) == [i \in Ids |-> IF i \in used THEN contents[i] ELSE Junk]

(* FrameInUse, and its mutant: only the current frame is in use.           *)
FrameInUseOnlyLast(f) == f > frame - 1
FrameInUse(f) == f > frame - 2

Both(id) == [s \in Slots |-> id]

(* VulkanTexture::Create and VulkanTextureArray::Create, which succeed.    *)
Init ==
  /\ kind \in {"kStaticWrite", "kStaticReadWrite", "kPerFrame", "writeArray", "readWriteArray"}
  /\ mipmap \in BOOLEAN
  /\ LET each == IF kind = "kPerFrame" THEN [s \in Slots |-> s + 1] ELSE Both(1)
     IN texture = [host |-> IF kind = "kStaticWrite" THEN Both(None) ELSE each, image |-> each,
                   local |-> Junk, dirty |-> Both({}), was |-> {}, view |-> "none",
                   renderFrame |-> kNeverUsedFrame, transferFrame |-> kNeverUsedFrame,
                   replaced |-> FALSE]
  /\ hosts = [i \in Ids |-> Junk] /\ images = [i \in Ids |-> Junk] /\ mips = [i \in Ids |-> Junk]
  /\ frame = 0 /\ rendering = FALSE /\ queue = <<>> /\ calls = 0
  /\ wanted = Junk /\ stopped = FALSE

(* The texture becomes t; the host buffer h gets other contents.           *)
Become(t, h, contents) ==
  /\ texture' = t
  /\ hosts' = Keep(IF h = None THEN hosts ELSE [hosts EXCEPT ![h] = contents], HostsOf(t, queue))
  /\ images' = Keep(images, ImagesOf(t, queue))
  /\ mips' = Keep(mips, ImagesOf(t, queue))
  /\ UNCHANGED <<kind, mipmap, frame, rendering, queue>>

(* A write to a host buffer that the GPU still reads.                      *)
Races(h, cells) ==
  \E i \in DOMAIN queue : \E u \in queue[i].updates : u.host = h /\ u.cells \cap cells # {}

WithImage(t, image) == [t EXCEPT !.image = Both(image), !.renderFrame = kNeverUsedFrame, !.replaced = TRUE]

-----------------------------------------------------------------------------
(* Writes: DoSet and DoClear of region r, with new pixels.  The            *)
(* application wants `asked`.  What a write that fails leaves there is not *)
(* known.                                                                  *)
Call == calls < MaxCalls /\ calls' = calls + 1 /\ frame < MaxFrames
Wants(asked)  == wanted' = asked
Fails(r)      == wanted' = [c \in Cells |-> IF c \in CellsOf(r) THEN Junk[c] ELSE wanted[c]]

StaticWrite(r, new, asked, mishap) ==
  LET t == texture
      h == t.host[0]
      dirty == [t.dirty EXCEPT ![0] = AddDirtyRegion(@, r)]
      inUse == FrameInUse(t.renderFrame)
      lost  == \E s \in t.dirty[0] : s \notin dirty[0] /\ ~(CellsOf(s) \subseteq CellsOf(r))
  IN
  /\ kind = "kStaticWrite"
  /\ \/ /\ h # None
        /\ Become([t EXCEPT !.dirty = dirty], h, Over(new, hosts[h]))
        /\ Wants(asked)
        /\ stopped' = (mishap \/ Mishap("contained", lost))
     \/ /\ h = None /\ (inUse => r = Whole)
        /\ LET kept == IF inUse THEN WithImage(t, FreshImage) ELSE t
           IN Become([kept EXCEPT !.host = Both(FreshHost), !.dirty = dirty], FreshHost, Over(new, Junk))
        /\ Wants(asked)
        /\ stopped' = mishap
     \/ /\ h = None      (* Refused, or without a host buffer or an image. *)
        /\ Become(t, None, Junk)
        /\ UNCHANGED <<wanted, stopped>>

(* EnsureHostBufferIsWritable                                              *)
NeedsHost == FrameInUse(texture.transferFrame)
WritableHost == IF NeedsHost THEN FreshHost ELSE texture.host[0]
WithHost(t, h) ==
  IF h = t.host[0] THEN t ELSE [t EXCEPT !.host = Both(h), !.transferFrame = kNeverUsedFrame]

(* Mutant: the image is written though a frame may draw it.                *)
EnsureNever(t) == {t}

(* EnsureImageIsWritable: the texture after it, unless it fails.           *)
EnsureImageIsWritable(t) ==
  IF FrameInUse(t.renderFrame) THEN {WithImage(t, FreshImage)} ELSE {t}

StaticReadWrite(r, new, asked, mishap) ==
  LET t == texture
      h == WritableHost
      old == IF NeedsHost /\ r = Whole THEN Junk ELSE hosts[t.host[0]]
      with == WithHost(t, h)
  IN
  /\ kind = "kStaticReadWrite"
  /\ \/ /\ NeedsHost           (* No host buffer.                          *)
        /\ Become(t, None, Junk)
        /\ UNCHANGED wanted
     \/ /\ t.dirty[0] # {}
        /\ Become([with EXCEPT !.dirty[0] = MarkDirty(@, r)], h, Over(new, old))
        /\ Wants(asked)
     \/ /\ t.dirty[0] = {}
        /\ \E ready \in EnsureImageIsWritable(with) :
             Become([ready EXCEPT !.dirty[0] = {r}], h, Over(new, old))
        /\ Wants(asked)
     \/ /\ t.dirty[0] = {} /\ FrameInUse(t.renderFrame)       (* No image. *)
        /\ Become(with, h, Over(new, old))
        /\ Fails(r)
  /\ stopped' = (mishap \/ Mishap("writtenInFlight", Races(h, CellsOf(r))))

PerFrame(r, new, asked, mishap) ==
  /\ kind = "kPerFrame"
  /\ Become([texture EXCEPT !.local = Over(new, @),
                            !.dirty = [s \in Slots |-> MarkDirty(@[s], r)]], None, Junk)
  /\ Wants(asked)
  /\ stopped' = mishap

Write(r, new, asked, mishap) ==
  /\ Call
  /\ \/ StaticWrite(r, new, asked, mishap)
     \/ StaticReadWrite(r, new, asked, mishap)
     \/ PerFrame(r, new, asked, mishap)

(* Clear and ClearRegion, Set and SetRegion: not while a view is active.   *)
(* Nothing happens if nothing of the region is left.                       *)
Clear(region) ==
  /\ ~IsArray /\ texture.view = "none"
  /\ \E r \in Clip(region) :
       LET place == [x |-> r.x, y |-> r.y, w |-> r.w, h |-> r.h]
           new == ClearRegion(place)
       IN Write(place, new, Over(new, wanted), FALSE)

Set(region) ==
  /\ ~IsArray /\ texture.view = "none"
  /\ \E r \in Clip(region) :
       LET place == [x |-> r.x, y |-> r.y, w |-> r.w, h |-> r.h]
           asked == [c \in Cells |->
             IF c \in CellsOf(place)
             THEN <<calls + 1, ((c \div Width) - region.y) * region.w + ((c % Width) - region.x)>>
             ELSE wanted[c]]
           data == [i \in Nat |-> <<calls + 1, r.pixels + i>>]
       IN Write(place, CopyRegion(place, data, region.w), asked,
                Mishap("rows", region.w = r.w /\ r.w < Width /\ r.h > 1))

-----------------------------------------------------------------------------
(* Edit: a view of the host buffer, or of the local one, that the          *)
(* application may write to.                                               *)
EditBegin ==
  LET dirty == texture.dirty[0] IN
  /\ kind \in {"kStaticReadWrite", "kPerFrame"} /\ texture.view = "none" /\ frame < MaxFrames
  /\ IF kind = "kPerFrame" THEN Become([texture EXCEPT !.view = "unmodified"], None, Junk)
     ELSE Become([WithHost(texture, WritableHost) EXCEPT
                    !.view = "unmodified", !.was = dirty, !.dirty = Both({})],
                 WritableHost, hosts[texture.host[0]])
  /\ UNCHANGED <<calls, wanted, stopped>>

(* ImageView::Region::SetAll: as much of a region as there is data for.    *)
SetAll(contents, r, size) ==
  LET source(c) == ((c \div Width) - r.y) * r.w + ((c % Width) - r.x)
  IN [c \in Cells |-> IF c \in CellsOf(r) /\ source(c) < size THEN <<calls + 1, source(c)>>
                      ELSE contents[c]]

(* What a region of the view may become, by SetAll or by Clear.            *)
Modified(contents, r) ==
  {SetAll(contents, r, size) : size \in {r.w * r.h - 1, r.w * r.h} \ {0}}
  \cup {Over(ClearRegion(r), contents)}

Modify(r) ==
  LET h == texture.host[0]
      old == IF kind = "kPerFrame" THEN texture.local ELSE hosts[h]
  IN
  /\ texture.view # "none" /\ Contains(Whole, r)
  /\ Call
  /\ \E pixels \in Modified(old, r) :
       IF kind = "kPerFrame"
       THEN Become([texture EXCEPT !.view = "modified", !.local = pixels], None, Junk)
       ELSE Become([texture EXCEPT !.view = "modified"], h, pixels)
  /\ stopped' = Mishap("writtenInFlight", kind # "kPerFrame" /\ Races(h, CellsOf(r)))
  /\ UNCHANGED wanted

(* Mutant: what was to be copied before the edit is forgotten.             *)
UnmodifiedForgets(t) == [t EXCEPT !.view = "none", !.was = {}]

(* OnEditEnd of a view that was not modified.                              *)
Unmodified(t) ==
  [t EXCEPT !.view = "none", !.was = {},
            !.dirty = IF kind = "kPerFrame" THEN @ ELSE [@ EXCEPT ![0] = t.was]]

EditEnd ==
  LET done  == [texture EXCEPT !.view = "none", !.was = {}]
      local == IF kind = "kPerFrame" THEN texture.local ELSE hosts[texture.host[0]]
  IN
  /\ texture.view # "none"
  /\ \/ /\ texture.view = "unmodified"
        /\ Become(Unmodified(texture), None, Junk)
        /\ UNCHANGED <<wanted, stopped>>
     \/ /\ texture.view = "modified" /\ kind = "kPerFrame"
        /\ Become([done EXCEPT !.dirty = Both({Whole})], None, Junk)
        /\ Wants(local) /\ UNCHANGED stopped
     \/ /\ texture.view = "modified" /\ kind = "kStaticReadWrite"
        /\ \E t \in EnsureImageIsWritable(done) :
             Become([t EXCEPT !.dirty[0] = {Whole}], None, Junk)
        /\ Wants(local) /\ UNCHANGED stopped
     \/ /\ texture.view = "modified" /\ kind = "kStaticReadWrite"
        /\ FrameInUse(texture.renderFrame)                    (* No image. *)
        /\ Become(done, None, Junk)
        /\ Wants(local) /\ stopped' = Mishap("editLost", TRUE)
  /\ UNCHANGED calls

-----------------------------------------------------------------------------
(* Texture arrays: DoSet and DoClear of a layer.  ModifyHostData makes a   *)
(* host buffer if there is none, an image if the one there is in use.      *)
SetLayer(layer) ==
  LET t == texture
      h == IF t.host[0] = None THEN FreshHost ELSE t.host[0]
      old == IF t.host[0] = None THEN Junk ELSE hosts[h]
      inUse == FrameInUse(t.renderFrame)
      ready == [(IF inUse THEN WithImage(t, FreshImage) ELSE t) EXCEPT !.host = Both(h)]
  IN
  /\ IsArray /\ Call
  /\ \/ /\ Become([ready EXCEPT !.dirty[0] = @ \cup {layer}], h, [old EXCEPT ![layer] = <<calls + 1, 0>>])
        /\ wanted' = [wanted EXCEPT ![layer] = <<calls + 1, 0>>]
        /\ stopped' = Mishap("writtenInFlight", Races(h, {layer}))
     \/ /\ t.host[0] = None \/ inUse       (* No host buffer, or no image. *)
        /\ \/ t.host[0] = None /\ Become(t, None, Junk)
           \/ inUse /\ Become([t EXCEPT !.host = Both(h)], h, old)
        /\ UNCHANGED <<wanted, stopped>>

(* DoGet of a layer: all that the host buffer has of it is copied, which   *)
(* with mip levels is more than the pixels the caller has room for.        *)
GetLayer ==
  /\ kind = "readWriteArray"
  /\ stopped' = Mishap("overrun", mipmap)
  /\ UNCHANGED <<kind, mipmap, hosts, images, mips, texture, frame, rendering, queue, calls, wanted>>

-----------------------------------------------------------------------------
(* Frames.  BeginFrame waits until the frame before the last is finished.  *)
BeginFrame ==
  /\ ~rendering /\ frame < MaxFrames /\ Len(queue) < 2
  /\ rendering' = TRUE
  /\ UNCHANGED <<kind, mipmap, hosts, images, mips, texture, frame, queue, calls, wanted, stopped>>

(* UpdateImage: a copy of cells, and of the mip levels made of the host    *)
(* buffer at this time.                                                    *)
Update(s, cells, mipCells, contents) ==
  [host |-> texture.host[s], image |-> texture.image[s], cells |-> cells,
   mips |-> IF mipmap THEN [c \in mipCells |-> contents[c]] ELSE <<>>]

(* Mutant: the frames after it find the texture of a frame up to date.     *)
CleanAll(dirty, s) == Both({})

(* What is dirty after the texture is rendered in a slot.                  *)
Clean(dirty, s) == IF kind = "kPerFrame" THEN [dirty EXCEPT ![s] = {}] ELSE Both({})

(* OnRender, DoRender: all dirty regions are copied, the mip levels once.  *)
(* The host buffer of a kStaticWrite texture or array is disposed.         *)
Rendered ==
  LET t == texture
      s == Slot
      used == [t EXCEPT !.renderFrame = IF kind = "kPerFrame" THEN @ ELSE frame, !.replaced = FALSE]
  IN IF t.dirty[s] = {} THEN used
     ELSE [used EXCEPT
             !.dirty = Clean(@, s),
             !.transferFrame = IF kind = "kStaticReadWrite" THEN frame ELSE @,
             !.host = IF kind \in {"kStaticWrite", "writeArray"} THEN Both(None) ELSE @]

Updates(host) ==
  LET s == Slot
      dirty == texture.dirty[s]
  IN CASE dirty = {} -> {}
       [] IsArray -> {Update(s, {layer}, {layer}, host) : layer \in dirty}
       [] OTHER -> {Update(s, UNION {CellsOf(r) : r \in dirty}, Cells, host)}

(* DoRender of a kPerFrame texture copies its region to the host buffer.   *)
HostAfter ==
  LET s == Slot
      h == texture.host[s]
      region == CHOOSE r \in texture.dirty[s] : TRUE
      data == [i \in Nat |-> texture.local[region.y * Width + region.x + i]]
  IN IF h = None THEN Junk
     ELSE IF kind = "kPerFrame" /\ texture.dirty[s] # {}
          THEN Over(CopyRegion(region, data, Width), hosts[h])
          ELSE hosts[h]

Skipped == [image |-> None, updates |-> {}, wanted |-> Junk]

EndFrame(drawn) ==
  LET s == Slot
      h == texture.host[s]
      next == IF drawn THEN Rendered ELSE texture
      commands == IF drawn THEN [image |-> texture.image[s], updates |-> Updates(HostAfter),
                                 wanted |-> wanted]
                  ELSE Skipped
      q == Append(queue, commands)
      covered == UNION {CellsOf(r) : r \in texture.dirty[s]}
      inEdit  == /\ texture.view # "none"
                 /\ texture.was # {} \/ (kind = "kPerFrame" /\ texture.dirty[s] # {})
  IN
  /\ rendering
  /\ rendering' = FALSE /\ frame' = frame + 1
  /\ queue' = q
  /\ texture' = next
  /\ hosts' = Keep(IF drawn /\ h # None THEN [hosts EXCEPT ![h] = HostAfter] ELSE hosts, HostsOf(next, q))
  /\ images' = Keep(images, ImagesOf(next, q)) /\ mips' = Keep(mips, ImagesOf(next, q))
  /\ stopped' = \/ Mishap("drawnInEdit", drawn /\ inEdit)
                \/ Mishap("partial", drawn /\ texture.replaced
                     /\ IF IsArray THEN texture.dirty[s] # Cells ELSE texture.dirty[s] # {Whole})
                \/ Mishap("mips", drawn /\ kind = "kStaticWrite" /\ mipmap /\ h # None /\ covered # Cells)
  /\ UNCHANGED <<kind, mipmap, calls, wanted>>

(* The GPU performs a frame: its copies, then its draws.                   *)
After(f, contents, level) ==
  [i \in Ids |->
     LET mine == {u \in f.updates : u.image = i}
         cells(u) == IF level = "mips" THEN DOMAIN u.mips ELSE u.cells
         old == IF mine # {} /\ ~Keeps THEN Junk ELSE contents[i]
     IN [c \in Cells |->
           IF \E u \in mine : c \in cells(u)
           THEN LET u == CHOOSE u \in mine : c \in cells(u)
                IN IF level = "mips" THEN u.mips[c] ELSE hosts[u.host][c]
           ELSE old[c]]]

Finish ==
  /\ queue # <<>>
  /\ queue' = Tail(queue)
  /\ images' = Keep(After(Head(queue), images, "pixels"), ImagesOf(texture, queue'))
  /\ mips' = Keep(After(Head(queue), mips, "mips"), ImagesOf(texture, queue'))
  /\ hosts' = Keep(hosts, HostsOf(texture, queue'))
  /\ UNCHANGED <<kind, mipmap, texture, frame, rendering, calls, wanted, stopped>>

Next ==
  /\ ~stopped
  /\ \/ \E r \in Regions : Clear(r) \/ Set(r)
     \/ EditBegin \/ EditEnd
     \/ \E r \in Regions : Modify(r)
     \/ \E layer \in Cells : SetLayer(layer)
     \/ GetLayer
     \/ BeginFrame
     \/ \E drawn \in BOOLEAN : EndFrame(drawn)
     \/ Finish

Spec == Init /\ [][Next]_vars

-----------------------------------------------------------------------------
(* Properties                                                              *)

Agrees(contents, asked) == \A c \in Cells : asked[c] # <<0, 0>> => contents[c] = asked[c]

(* The GPU draws the pixels, and mip levels of the pixels, that the        *)
(* application had written when the frame ended, whatever it has written   *)
(* since.                                                                  *)
DrawsWhatWasWritten ==
  ~stopped /\ queue # <<>> =>
    LET f == Head(queue) IN
    f.image # None =>
      /\ Agrees(After(f, images, "pixels")[f.image], f.wanted)
      /\ mipmap => Agrees(After(f, mips, "mips")[f.image], f.wanted)

(* What is written can be read: it is what a view of a texture shows, and  *)
(* what Get of an array copies to its caller (who may have to follow the   *)
(* mishap "overrun").                                                      *)
ReadsWhatWasWritten ==
  ~stopped /\ texture.view = "none" =>
    /\ kind = "kPerFrame" => Agrees(texture.local, wanted)
    /\ kind \in {"kStaticReadWrite", "readWriteArray"} => Agrees(hosts[texture.host[0]], wanted)

(* No frame copies to an image that the frame before it may still draw.    *)
TextureCopiesApart ==
  ~stopped => \A i, j \in DOMAIN queue : i < j =>
    \A u \in queue[j].updates : u.image # queue[i].image

TexturesAgree == DrawsWhatWasWritten /\ ReadsWhatWasWritten /\ TextureCopiesApart
=============================================================================
