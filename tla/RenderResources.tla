--------------------------- MODULE RenderResources ---------------------------
(***************************************************************************)
(* gb/render/render_system, mesh*, render_buffer*, draw_list and the part  *)
(* of the Vulkan backend that draws: meshes and textures are created,      *)
(* written, edited, saved and loaded, draw lists recorded, both drawn in a *)
(* frame, and EndFrame turns what was drawn into commands for the GPU.     *)
(*                                                                         *)
(* Buffers, pipelines and binding data are numbers, 0 is the null pointer. *)
(* A triangle is one value, not three.  How contents reach the buffers of  *)
(* the GPU is in VulkanFrames and VulkanTextures: here a buffer has        *)
(* what the CPU sees and what was last handed over for drawing.            *)
(***************************************************************************)
EXTENDS Integers, Sequences, FiniteSets, SequencesExt

CONSTANTS
  Meshes,          (* Places for a mesh of the application.                *)
  TypeOf,          (* The vertex type of each pipeline.                    *)
  Registered,      (* The registered vertex types and their sizes.         *)
  Materials,       (* The type (its pipeline) and data of each material.   *)
  Datas,           (* Binding data: the pipelines whose layout it fits, and *)
                   (* whether it has a descriptor set (one with no binding *)
                   (* has none), of a scene, a material or an instance.    *)
  Scenes,          (* The order of each scene.                             *)
  SceneData,       (* Its binding data.                                    *)
  Mipmapped,       (* The sampler options with mip levels.                 *)
  kMaxVertices, kMaxTextureSize, kMaxTextureArrayCount, kMaxTextureArrayPixels,
  Made,            (* The meshes there are at first.                       *)
  Calls,           (* The calls the application makes, with their data.    *)
  Followed,        (* The mishaps after which a behaviour goes on.         *)
  MaxCalls         (* Bound: calls.                                        *)

VARIABLES
  edit,            (* RenderSystem::edit_                                  *)
  meshes,
  file,            (* The last mesh saved.                                 *)
  texture, chunk, loaded,  (* A texture, what was saved of it, and loaded. *)
  list,            (* A DrawList.                                          *)
  rendering,       (* RenderSystem::is_rendering_                          *)
  draws,           (* VulkanBackend::render_state_                         *)
  drawn,           (* What the GPU drew in the last frame.                 *)
  contents,        (* What the application made of each mesh.              *)
  wanted,          (* What the application asked the frame to draw.        *)
  used,            (* The number of buffers there were.                    *)
  calls

fileVars == <<file, texture, chunk, loaded>>
drawVars == <<list, rendering, draws, drawn, wanted>>
vars == <<edit, meshes, fileVars, drawVars, contents, used, calls>>

Null == 0
Junk == -1
Parts == {"vertices", "triangles"}
Volatilities == {"kStaticWrite", "kStaticReadWrite", "kPerFrame"}

(* A mishap is an order of calls whose consequences the code does not deal *)
(* with.  Unless it is Followed a behaviour ends there.                    *)
Mishap(m, happens) == happens /\ m \notin Followed

Makes(c, name) == c.do = name /\ calls < MaxCalls /\ calls' = calls + 1

-----------------------------------------------------------------------------
(* Render buffers                                                          *)

NoView == [open |-> FALSE, size |-> 0, modified |-> FALSE]
NewBuffer(id, n) ==
  [id |-> id, capacity |-> n, size |-> 0, view |-> NoView,
   data |-> [i \in 1 .. n |-> Junk], gpu |-> [i \in 1 .. n |-> Junk]]

Overlay(data, index, items) ==
  [i \in DOMAIN data |-> IF i - index \in DOMAIN items THEN items[i - index] ELSE data[i]]

(* RenderBuffer::Set: all the data it had is replaced.                     *)
BufferSet(b, items) ==
  LET data == Overlay(b.data, 0, items)
  IN [b EXCEPT !.data = data, !.gpu = data, !.size = Len(items)]

(* RenderBuffer::Resize(0).                                                *)
BufferEmpty(b) == [b EXCEPT !.size = 0]

(* Mutant: the size the view was given is forgotten with the view.         *)
EditEndKeepsSize(b) ==
  [b EXCEPT !.view = NoView, !.gpu = IF b.view.modified THEN b.data ELSE @]

(* RenderBuffer::Edit and the end of the view.                             *)
BufferEdit(b) == [b EXCEPT !.view = [open |-> TRUE, size |-> b.size, modified |-> FALSE]]
BufferEditEnd(b) ==
  [b EXCEPT !.size = b.view.size, !.view = NoView,
            !.gpu  = IF b.view.modified THEN b.data ELSE @]

ViewResize(b, size) ==
  [b EXCEPT !.view.size = size, !.view.modified = @ \/ size > b.view.size]
Modify(b, data) == [b EXCEPT !.data = data, !.view.modified = TRUE]

(* MeshView::DoSetVertices and DoSetIndices: as many as there is room for. *)
ViewSet(b, index, items) ==
  LET count == IF index + Len(items) > b.capacity THEN b.capacity - index ELSE Len(items)
      sized == IF index + count > b.view.size THEN ViewResize(b, index + count) ELSE b
  IN IF count = 0 THEN b
     ELSE Modify(sized, Overlay(b.data, index, SubSeq(items, 1, count)))

(* The copy is a memcpy within one buffer, and with more behind than goes  *)
(* its two ends overlap: it may then go backwards.                         *)
Overlaps(b, index, count) ==
  index + count <= b.view.size /\ b.view.size - (index + count) > count
Backwards(tail, n) == [i \in DOMAIN tail |-> tail[i + n * ((Len(tail) - i) \div n)]]

(* Mutant: the vertices behind stay where they are.                        *)
CutsTheTail(b, index, count, backwards) ==
  LET n == IF index + count > b.view.size THEN b.view.size - index ELSE count
  IN ViewResize(b, b.view.size - n)

(* RemoveVertices and RemoveTriangles: those behind are copied down.       *)
ViewRemove(b, index, count, backwards) ==
  LET n    == IF index + count > b.view.size THEN b.view.size - index ELSE count
      tail == SubSeq(b.data, index + n + 1, b.view.size)
      copy == IF backwards THEN Backwards(tail, n) ELSE tail
  IN IF n = 0 THEN b
     ELSE ViewResize(IF tail = <<>> THEN b ELSE Modify(b, Overlay(b.data, index, copy)),
                     index + Len(tail))

-----------------------------------------------------------------------------
(* Meshes                                                                  *)

NoMesh == [type |-> Null, volatility |-> "none", vertices |-> NewBuffer(Null, 0),
           triangles |-> NewBuffer(Null, 0)]
NoContents == [vertices |-> <<>>, triangles |-> <<>>]
IsEditing(m) == meshes[m].vertices.view.open \/ meshes[m].triangles.view.open

Greatest(a, b) == IF a > b THEN a ELSE b

(* A resource that is queued for rendering is not modified until EndFrame, *)
(* and a draw list is not used once a mesh in it was (render_system.h,     *)
(* draw_list.h).                                                           *)
Modifies(m) ==
  /\ \A s \in DOMAIN Scenes : m \notin draws[s].meshes
  /\ list' = [list EXCEPT !.valid = @ /\ m \notin list.meshes]
  /\ UNCHANGED <<rendering, draws, drawn, wanted>>

(* RenderSystem::CreateMesh                                                *)
CreateMesh(c) ==
  /\ Makes(c, "CreateMesh")
  /\ meshes[c.mesh] = NoMesh
  /\ c.type \in DOMAIN Registered
  /\ c.vertices \in 3 .. kMaxVertices /\ c.triangles >= 1
  /\ meshes' = [meshes EXCEPT ![c.mesh] =
                  [type |-> c.type, volatility |-> c.volatility,
                   vertices  |-> NewBuffer(used + 1, c.vertices),
                   triangles |-> NewBuffer(used + 2, c.triangles)]]
  /\ used' = used + 2
  /\ UNCHANGED <<edit, fileVars, drawVars, contents>>

(* Mutant: the new vertices are in place before there are new triangles.   *)
InPlaceAtOnce(mesh, vertices, triangles, fails) ==
  LET v == IF mesh.vertices.capacity < Greatest(Len(vertices), 3)
           THEN NewBuffer(used + 1, Greatest(Len(vertices), 3)) ELSE mesh.vertices
      t == IF mesh.triangles.capacity < Greatest(Len(triangles), 1)
           THEN NewBuffer(used + 2, Greatest(Len(triangles), 1)) ELSE mesh.triangles
  IN CASE fails = "create" -> [mesh EXCEPT !.vertices = v]
       [] fails = "set"    -> [mesh EXCEPT !.vertices = BufferEmpty(BufferSet(v, vertices)),
                                           !.triangles = BufferEmpty(t)]
       [] OTHER            -> [mesh EXCEPT !.vertices = BufferSet(v, vertices),
                                           !.triangles = BufferSet(t, triangles)]

(* Mesh::Set and DoSet, when all goes well, when the new indices cannot be *)
(* allocated, and when they cannot be written.                             *)
DoSet(mesh, vertices, triangles, fails) ==
  LET v == IF mesh.vertices.capacity < Greatest(Len(vertices), 3)
           THEN NewBuffer(used + 1, Greatest(Len(vertices), 3)) ELSE mesh.vertices
      t == IF mesh.triangles.capacity < Greatest(Len(triangles), 1)
           THEN NewBuffer(used + 2, Greatest(Len(triangles), 1)) ELSE mesh.triangles
  IN CASE fails = "create" -> mesh
       [] fails = "set"    -> [mesh EXCEPT !.vertices = BufferEmpty(BufferSet(v, vertices)),
                                           !.triangles = BufferEmpty(t)]
       [] OTHER            -> [mesh EXCEPT !.vertices = BufferSet(v, vertices),
                                           !.triangles = BufferSet(t, triangles)]

SetMesh(c) ==
  /\ Makes(c, "Set")
  /\ meshes[c.mesh] # NoMesh /\ ~IsEditing(c.mesh)
  /\ Modifies(c.mesh)
  /\ \E fails \in {"nothing", "create", "set"} :
       /\ fails = "create" => meshes[c.mesh].triangles.capacity < Greatest(Len(c.triangles), 1)
       /\ meshes' = [meshes EXCEPT ![c.mesh] = DoSet(@, c.vertices, c.triangles, fails)]
       /\ contents' = [contents EXCEPT ![c.mesh] =
            CASE fails = "create" -> @
              [] fails = "set"    -> NoContents
              [] OTHER            -> [vertices |-> c.vertices, triangles |-> c.triangles]]
  /\ used' = used + 2
  /\ UNCHANGED <<edit, fileVars>>

(* Mesh::Edit: the buffers are edited together, or neither is.             *)
EditMesh(c) ==
  /\ Makes(c, "Edit")
  /\ meshes[c.mesh] # NoMesh /\ ~IsEditing(c.mesh)
  /\ meshes[c.mesh].volatility # "kStaticWrite"
  /\ meshes' = [meshes EXCEPT ![c.mesh].vertices = BufferEdit(@),
                              ![c.mesh].triangles = BufferEdit(@)]
  /\ UNCHANGED <<edit, fileVars, drawVars, contents, used>>

(* The end of a MeshView.                                                  *)
EndEdit(c) ==
  /\ Makes(c, "EndEdit")
  /\ IsEditing(c.mesh)
  /\ meshes' = [meshes EXCEPT ![c.mesh].vertices = BufferEditEnd(@),
                              ![c.mesh].triangles = BufferEditEnd(@)]
  /\ UNCHANGED <<edit, fileVars, drawVars, contents, used>>

(* What the calls of a view are to do to what it shows.                    *)
Behind == -1
Truncated(s, n)        == SubSeq(s, 1, IF Len(s) < n THEN Len(s) ELSE n)
Spliced(s, index, items, n) ==
  Truncated(SubSeq(s, 1, index) \o items \o SubSeq(s, index + Len(items) + 1, Len(s)), n)
Cut(s, index, count)   == SubSeq(s, 1, index) \o SubSeq(s, index + count + 1, Len(s))

(* MeshView::SetVertices and SetTriangles, and AddVertices and             *)
(* AddTriangles behind what there is.                                      *)
SetItems(c) ==
  LET b     == meshes[c.mesh][c.part]
      index == IF c.index = Behind THEN b.view.size ELSE c.index
  IN /\ Makes(c, "SetItems")
     /\ IsEditing(c.mesh) /\ index <= b.view.size
     /\ Modifies(c.mesh)
     /\ meshes' = [meshes EXCEPT ![c.mesh][c.part] = ViewSet(@, index, c.items)]
     /\ contents' = [contents EXCEPT ![c.mesh][c.part] = Spliced(@, index, c.items, b.capacity)]
     /\ UNCHANGED <<edit, fileVars, used>>

(* MeshView::ModifyVertex and ModifyTriangle.                              *)
ModifyItem(c) ==
  /\ Makes(c, "ModifyItem")
  /\ IsEditing(c.mesh) /\ c.index < meshes[c.mesh][c.part].view.size
  /\ Modifies(c.mesh)
  /\ meshes' = [meshes EXCEPT ![c.mesh][c.part] = Modify(@, [@.data EXCEPT ![c.index + 1] = c.item])]
  /\ contents' = [contents EXCEPT ![c.mesh][c.part][c.index + 1] = c.item]
  /\ UNCHANGED <<edit, fileVars, used>>

RemoveItems(c) ==
  LET b == meshes[c.mesh][c.part]
  IN /\ Makes(c, "RemoveItems")
     /\ IsEditing(c.mesh) /\ c.index <= b.view.size
     /\ ~Mishap("overlap", Overlaps(b, c.index, c.count))
     /\ Modifies(c.mesh)
     /\ \E backwards \in {FALSE, Overlaps(b, c.index, c.count)} :
          meshes' = [meshes EXCEPT ![c.mesh][c.part] = ViewRemove(@, c.index, c.count, backwards)]
     /\ contents' = [contents EXCEPT ![c.mesh][c.part] = Cut(@, c.index, c.count)]
     /\ UNCHANGED <<edit, fileVars, used>>

-----------------------------------------------------------------------------
(* Meshes in files                                                         *)

NoFile == [type |-> Null, size |-> 0, volatility |-> "none", vertices |-> <<>>,
           triangles |-> <<>>, wanted |-> NoContents]

Loaded(volatility) ==
  IF edit /\ volatility = "kStaticWrite" THEN "kStaticReadWrite" ELSE volatility

(* RenderSystem::SaveMesh: what a view of it shows.                        *)
SaveMesh(c) ==
  LET mesh == meshes[c.mesh]
      v    == BufferEdit(mesh.vertices)
      t    == BufferEdit(mesh.triangles)
  IN /\ Makes(c, "SaveMesh")
     /\ mesh # NoMesh /\ mesh.volatility # "kStaticWrite" /\ ~IsEditing(c.mesh)
     /\ file' = [type |-> mesh.type, size |-> Registered[mesh.type],
                 volatility |-> c.volatility,
                 vertices   |-> SubSeq(v.data, 1, v.view.size),
                 triangles  |-> SubSeq(t.data, 1, t.view.size),
                 wanted     |-> contents[c.mesh]]
     /\ meshes' = [meshes EXCEPT ![c.mesh].vertices = BufferEditEnd(v),
                                 ![c.mesh].triangles = BufferEditEnd(t)]
     /\ UNCHANGED <<edit, texture, chunk, loaded, drawVars, contents, used>>

(* RenderSystem::LoadMeshChunk.  There is no buffer of no size.            *)
LoadMesh(c) ==
  /\ Makes(c, "LoadMesh")
  /\ meshes[c.mesh] = NoMesh /\ file # NoFile
  /\ file.type \in DOMAIN Registered /\ file.size = Registered[file.type]
  /\ file.vertices # <<>> /\ file.triangles # <<>>
  /\ meshes' = [meshes EXCEPT ![c.mesh] =
       [type |-> file.type, volatility |-> Loaded(file.volatility),
        vertices  |-> BufferSet(NewBuffer(used + 1, Len(file.vertices)), file.vertices),
        triangles |-> BufferSet(NewBuffer(used + 2, Len(file.triangles)), file.triangles)]]
  /\ contents' = [contents EXCEPT ![c.mesh] = file.wanted]
  /\ used' = used + 2
  /\ UNCHANGED <<edit, fileVars, drawVars>>

-----------------------------------------------------------------------------
(* Textures and arrays of them.  The pixels of each of an array are those  *)
(* of one texture.                                                         *)

NoTexture == [kind |-> "none", count |-> 0, width |-> 0, height |-> 0, volatility |-> "none",
              options |-> 0, pixels |-> <<>>]
NullTexture == [NoTexture EXCEPT !.kind = "null"]
Painted(count, n) == [l \in 1 .. count |-> [i \in 1 .. n |-> <<l, i>>]]

(* RenderSystem::DoCreateTexture and DoCreateTextureArray, and what the    *)
(* application then writes to it.                                          *)
DoCreateTexture(c) ==
  c.count = 1 /\ c.width \in 1 .. kMaxTextureSize /\ c.height \in 1 .. kMaxTextureSize
DoCreateTextureArray(c) ==
  /\ c.count \in 1 .. kMaxTextureArrayCount
  /\ c.width \in 1 .. kMaxTextureSize /\ c.height \in 1 .. kMaxTextureSize
  /\ c.count * c.width * c.height <= kMaxTextureArrayPixels

CreateTexture(c) ==
  /\ Makes(c, "CreateTexture")
  /\ texture = NoTexture
  /\ IF c.kind = "array" THEN DoCreateTextureArray(c) ELSE DoCreateTexture(c)
  /\ texture' = [kind |-> c.kind, count |-> c.count, width |-> c.width, height |-> c.height,
                 volatility |-> c.volatility, options |-> c.options,
                 pixels |-> Painted(c.count, c.width * c.height)]
  /\ UNCHANGED <<edit, meshes, file, chunk, loaded, drawVars, contents, used>>

(* What a view of a texture shows, and the textures of an array one after  *)
(* the other.                                                              *)
SaveTextureChunk(volatility) ==
  [texture EXCEPT !.volatility = volatility, !.pixels = @[1]]
SaveTextureArrayChunk(volatility) ==
  LET n == texture.width * texture.height
  IN [texture EXCEPT !.volatility = volatility,
                     !.pixels = [i \in 1 .. texture.count * n |-> @[((i - 1) \div n) + 1][((i - 1) % n) + 1]]]

(* Get of an array copies the mip levels behind the pixels, those of the   *)
(* last texture to where no pixels were asked for.                         *)
HasLevels(t) == t.options \in Mipmapped /\ t.width > 1 /\ t.height > 1

SaveTexture(c) ==
  /\ Makes(c, "SaveTexture")
  /\ texture # NoTexture /\ texture.volatility # "kStaticWrite"
  /\ ~Mishap("overrun", texture.kind = "array" /\ HasLevels(texture))
  /\ chunk' = IF texture.kind = "array" THEN SaveTextureArrayChunk(c.volatility)
              ELSE SaveTextureChunk(c.volatility)
  /\ UNCHANGED <<edit, meshes, file, texture, loaded, drawVars, contents, used>>

(* Mutant: every texture of an array is read from the first pixels.        *)
FirstPixels(f, l) == SubSeq(f.pixels, 1, f.width * f.height)

PixelsOf(f, l) == SubSeq(f.pixels, (l - 1) * f.width * f.height + 1, l * f.width * f.height)

(* Sampler options of the caller (0 for none) go before those of a file.   *)
Chosen(options, f) == IF options # 0 THEN options ELSE f.options
Refused(f) == f.width >= kMaxTextureSize \/ f.height >= kMaxTextureSize

(* An image, and a texture of a resource file.                             *)
LoadTextureFile(f, options) ==
  [f EXCEPT !.volatility = Loaded("kStaticWrite"), !.options = options, !.pixels = <<@>>]
LoadTextureChunk(f, options) ==
  IF Refused(f) THEN NullTexture
  ELSE [f EXCEPT !.volatility = Loaded(@), !.options = Chosen(options, f), !.pixels = <<@>>]
LoadTextureArrayChunk(f, options) ==
  IF Refused(f) THEN NullTexture
  ELSE [f EXCEPT !.volatility = Loaded(@), !.options = Chosen(options, f),
                 !.pixels = [l \in 1 .. f.count |-> PixelsOf(f, l)]]

(* LoadTexture tells a resource file from an image by how it begins.       *)
LoadTexture(c) ==
  /\ Makes(c, "LoadTexture")
  /\ chunk # NoTexture
  /\ ~Mishap("limit", chunk.kind # "image" /\ Refused(chunk))
  /\ loaded' = CASE chunk.kind = "image"   -> LoadTextureFile(chunk, c.options)
                 [] chunk.kind = "texture" -> LoadTextureChunk(chunk, c.options)
                 [] OTHER                  -> LoadTextureArrayChunk(chunk, c.options)
  /\ UNCHANGED <<edit, meshes, file, texture, chunk, drawVars, contents, used>>

-----------------------------------------------------------------------------
(* Draw lists                                                              *)

Bindings == {"kSceneData", "kMaterialData", "kInstanceData"}
Sets == Bindings \cup {"kPipeline", "kVertices", "kIndices"}
Nothing == [k \in Sets |-> Null]
FullScreen == 0

NewList ==
  [commands |-> <<>>, type |-> Null, instance |-> Null, mesh |-> Null,
   meshes |-> {}, valid |-> TRUE,
   now |-> Nothing, scissor |-> FullScreen, asked |-> <<>>]

Push(l, type, value) == [l EXCEPT !.commands = Append(@, [type |-> type, value |-> value])]

(* Binding data without bindings has no descriptor set.                    *)
HasSet(d) == Datas[d].bound
Needs(p, k) == \E d \in DOMAIN Datas : Datas[d].kind = k /\ p \in Datas[d].fits /\ HasSet(d)

(* Mutant: the pipeline is set by the first material only.                 *)
PipelineOnce(l, m) ==
  LET type == Materials[m].type
      typed == IF type # l.type
               THEN [(IF l.type = Null THEN Push(l, "kPipeline", type) ELSE l)
                       EXCEPT !.type = type, !.now["kPipeline"] = type]
               ELSE l
  IN typed

(* DrawList::SetMaterial, up to the data.                                  *)
WithPipeline(l, m) ==
  LET type == Materials[m].type
  IN IF type # l.type
     THEN [Push(l, "kPipeline", type) EXCEPT !.type = type, !.now["kPipeline"] = type]
     ELSE l

WithMaterial(l, m, d) ==
  LET data == IF d = Null THEN Materials[m].data ELSE d
  IN [Push(WithPipeline(l, m), "kMaterialData", data) EXCEPT !.now["kMaterialData"] = data]
WithInstance(l, d) ==
  [Push(l, "kInstanceData", d) EXCEPT !.instance = d, !.now["kInstanceData"] = d]

(* What its assertions ask of SetMaterial.                                 *)
MaterialFits(l, m) ==
  LET type == Materials[m].type
  IN type # l.type =>
       /\ l.mesh # Null => TypeOf[type] = meshes[l.mesh].type
       /\ l.instance # Null => type \in Datas[l.instance].fits

Recording ==
  /\ list.valid
  /\ UNCHANGED <<edit, meshes, fileVars, contents, used, rendering, draws, drawn, wanted>>

ListSetMaterial(c) ==
  /\ Makes(c, "SetMaterial")
  /\ Recording
  /\ MaterialFits(list, c.material)
  /\ list' = WithMaterial(list, c.material, c.data)

ListSetMaterialData(c) ==
  /\ Makes(c, "SetMaterialData")
  /\ Recording
  /\ list.type # Null /\ list.type \in Datas[c.data].fits
  /\ list' = [Push(list, "kMaterialData", c.data) EXCEPT !.now["kMaterialData"] = c.data]

ListSetInstanceData(c) ==
  /\ Makes(c, "SetInstanceData")
  /\ Recording
  /\ list.type # Null /\ list.type \in Datas[c.data].fits
  /\ list' = WithInstance(list, c.data)

(* DrawList::SetMesh, with a material or instance data or without.         *)
ListSetMesh(c) ==
  LET mesh   == meshes[c.mesh]
      first  == [list EXCEPT !.mesh = Null, !.instance = IF c.data # Null THEN Null ELSE @]
      second == IF c.material # Null THEN WithMaterial(first, c.material, Null) ELSE first
      third  == IF c.data # Null THEN WithInstance(second, c.data) ELSE second
  IN /\ Makes(c, "SetMesh")
     /\ Recording
     /\ mesh # NoMesh
     /\ IF c.material # Null THEN MaterialFits(first, c.material) ELSE list.type # Null
     /\ c.data # Null => second.type \in Datas[c.data].fits
     /\ TypeOf[third.type] = mesh.type
     /\ list' = [Push(Push(third, "kVertices", mesh.vertices.id), "kIndices", mesh.triangles.id)
                   EXCEPT !.mesh = c.mesh, !.meshes = @ \cup {c.mesh},
                          !.now["kVertices"] = mesh.vertices.id,
                          !.now["kIndices"]  = mesh.triangles.id]

ListSetScissor(c) ==
  /\ Makes(c, "SetScissor")
  /\ Recording
  /\ list' = [Push(list, "kScissor", c.rect) EXCEPT !.scissor = c.rect]

(* What is in effect for a draw: a pipeline without bindings uses none.    *)
Effective(sets, scissor, scene, draw) ==
  [sets    |-> [k \in Sets |-> IF k \in Bindings /\ ~Needs(sets["kPipeline"], k)
                               THEN Null ELSE sets[k]],
   scissor |-> scissor, scene |-> scene, draw |-> draw]

(* DrawList::Draw, of all the triangles there are, and DrawPartial.        *)
ListDraw(c) ==
  LET draw == IF c.count = Null THEN <<0, meshes[list.mesh].triangles.size>>
              ELSE <<c.first, c.count>>
  IN /\ Makes(c, "Draw")
     /\ Recording
     /\ list.mesh # Null /\ list.instance # Null
     /\ list' = [Push(list, "kDraw", draw) EXCEPT
                   !.asked = Append(@, [sets |-> list.now, scissor |-> list.scissor, draw |-> draw])]

ListReset(c) ==
  /\ Makes(c, "Reset")
  /\ Recording
  /\ list' = [Push(list, "kReset", Null) EXCEPT
                !.type = Null, !.instance = Null, !.mesh = Null,
                !.now = Nothing, !.scissor = FullScreen]

ListClearBindings(c) ==
  /\ Makes(c, "ClearBindings")
  /\ Recording
  /\ list' = [list EXCEPT !.type = Null, !.instance = Null, !.mesh = Null, !.now = Nothing]

(* Another list.                                                           *)
ListNew(c) ==
  /\ Makes(c, "NewList")
  /\ list' = NewList
  /\ UNCHANGED <<edit, meshes, fileVars, contents, used, rendering, draws, drawn, wanted>>

-----------------------------------------------------------------------------
(* Frames.  The scenes of the application are drawn in their order, what a *)
(* scene draws with a pipeline before the lists that start with it.        *)

Pipelines == DOMAIN TypeOf
NoDraws == [s \in DOMAIN Scenes |->
              [direct |-> <<>>, commands |-> [p \in Pipelines |-> <<>>], meshes |-> {}]]

(* RenderSystem::BeginFrame, when the backend can.                         *)
BeginFrame ==
  /\ ~rendering
  /\ rendering' = TRUE
  /\ UNCHANGED <<edit, meshes, fileVars, contents, used, list, draws, drawn, wanted, calls>>

(* Draw of a mesh: its command waits with those of its pipeline.           *)
DrawMesh(c) ==
  LET type == Materials[c.material].type
      mesh == meshes[c.mesh]
      sets == [k \in Sets |->
                 CASE k = "kPipeline"     -> type
                   [] k = "kSceneData"    -> SceneData[c.scene]
                   [] k = "kMaterialData" -> Materials[c.material].data
                   [] k = "kInstanceData" -> c.data
                   [] k = "kVertices"     -> mesh.vertices.id
                   [] OTHER               -> mesh.triangles.id]
  IN /\ Makes(c, "DrawMesh")
     /\ rendering /\ mesh # NoMesh
     /\ TypeOf[type] = mesh.type /\ type \in Datas[c.data].fits
     /\ type \in Datas[SceneData[c.scene]].fits
     /\ draws' = [draws EXCEPT ![c.scene].direct = Append(@, sets),
                               ![c.scene].meshes = @ \cup {c.mesh}]
     /\ wanted' = Append(wanted, <<Effective(sets, FullScreen, c.scene, <<0, mesh.triangles.size>>)>>)
     /\ UNCHANGED <<edit, meshes, fileVars, contents, used, list, rendering, drawn>>

(* Mutant: the state of a list is there for the next one.                  *)
NothingAppended(commands, l) == commands \o l.commands

(* The commands of a list, after those of the lists that start like it.    *)
ThenReset(commands, l) == commands \o l.commands \o <<[type |-> "kReset", value |-> Null]>>

FirstPipeline(l) ==
  LET at == SelectInSeq(l.commands, LAMBDA c : c.type = "kPipeline")
  IN IF at = 0 THEN Null ELSE l.commands[at].value

-----------------------------------------------------------------------------
(* EndFrame: the commands for the GPU.  "last" is what the interpreter of  *)
(* commands bound for the last draw, "next" what it binds for the next.    *)

(* A bind of data that the current pipeline's layout has no place for is a *)
(* clash.                                                                  *)
Bound(st, k) ==
  LET data == st.next[k]
      is   == k \in {"kMaterialData", "kInstanceData"}
  IN [st EXCEPT !.gpu[k] = data, !.last[k] = data,
                !.clash = @ \/ (is /\ st.pipeline \notin Datas[data].fits)]

(* Mutant: the data of a material is bound with its pipeline only.         *)
MaterialWithPipeline(st) ==
  FoldLeft(LAMBDA s, k : IF IF k = "kMaterialData" THEN st.next["kPipeline"] # st.last["kPipeline"]
                            ELSE s.next[k] # s.last[k]
                         THEN Bound(s, k) ELSE s, st,
           <<"kPipeline", "kMaterialData", "kInstanceData", "kVertices", "kIndices">>)

BindAll(st) ==
  FoldLeft(LAMBDA s, k : IF s.next[k] # s.last[k] THEN Bound(s, k) ELSE s, st,
           <<"kPipeline", "kMaterialData", "kInstanceData", "kVertices", "kIndices">>)

Drawn(st, scene, draw) ==
  [st EXCEPT !.drawn = Append(@, Effective(st.gpu, st.scissor, scene, draw))]

(* What is set is bound for the next draw, unless it was for the last.     *)
SetNext(st, k, value) ==
  LET skipped == k \in {"kMaterialData", "kInstanceData"} /\ ~HasSet(value)
      typed   == IF k = "kPipeline" THEN [st EXCEPT !.pipeline = value] ELSE st
  IN IF value = st.last[k] \/ skipped
     THEN [typed EXCEPT !.setBack = @ \/ (value = st.last[k] /\ st.next[k] # value)]
     ELSE [typed EXCEPT !.next[k] = value]

(* Mutant: the scissor stays.                                              *)
KeepsScissor(st) == [st EXCEPT !.last = Nothing]

ResetLast(st) == [st EXCEPT !.scissor = FullScreen, !.last = Nothing]

Interpret(st, c, scene) ==
  CASE c.type = "kScissor" -> [st EXCEPT !.scissor = c.value]
    [] c.type = "kDraw"    -> Drawn(BindAll(st), scene, c.value)
    [] c.type = "kReset"   -> ResetLast(st)
    [] OTHER               -> SetNext(st, c.type, c.value)

(* The draws of meshes, grouped by material, vertices and indices (in hash *)
(* maps, for whose order that of their numbers stands here): all of        *)
(* it is bound for each group, and the instance data for each draw.        *)
SizeOf(id) == CHOOSE n \in 0 .. kMaxVertices : \E m \in Meshes :
                meshes[m].triangles.id = id /\ meshes[m].triangles.size = n
Before(a, b) ==
  \/ a["kMaterialData"] < b["kMaterialData"]
  \/ a["kMaterialData"] = b["kMaterialData"] /\ a["kVertices"] < b["kVertices"]
  \/ /\ a["kMaterialData"] = b["kMaterialData"] /\ a["kVertices"] = b["kVertices"]
     /\ a["kIndices"] < b["kIndices"]

DirectDraw(st, sets, scene) ==
  Drawn([st EXCEPT !.gpu = [k \in Sets |->
                              IF k = "kSceneData" \/ (k \in Bindings /\ ~HasSet(sets[k]))
                              THEN @[k] ELSE sets[k]]],
        scene, <<0, SizeOf(sets["kIndices"])>>)

Draws(all, p, scene) ==
  \/ all[scene].commands[p] # <<>>
  \/ \E i \in DOMAIN all[scene].direct : all[scene].direct[i]["kPipeline"] = p

(* All of a pipeline in a scene.                                           *)
DrawPipeline(st, all, p, scene) ==
  LET direct == SortSeq(SelectSeq(all[scene].direct, LAMBDA d : d["kPipeline"] = p), Before)
      begun  == [st EXCEPT !.gpu["kPipeline"] = p, !.pipeline = p]
      after  == FoldLeft(LAMBDA s, d : DirectDraw(s, d, scene), begun, direct)
      listed == [after EXCEPT !.last = [Nothing EXCEPT !["kPipeline"] = p],
                              !.next = [Nothing EXCEPT !["kPipeline"] = p]]
  IN FoldLeft(LAMBDA s, c : Interpret(s, c, scene), listed, all[scene].commands[p])

NothingYet == [pipeline |-> Null, last |-> Nothing, next |-> Nothing, gpu |-> Nothing,
               scissor |-> FullScreen, drawn |-> <<>>, clash |-> FALSE, setBack |-> FALSE]

(* Mutant: scenes are drawn as they come.                                  *)
SomeOrder(scenes) == SetToSeq(scenes)

SceneOrder(scenes) == SetToSortSeq(scenes, LAMBDA s, t : Scenes[s] < Scenes[t])

(* Mutant: the data of a scene is bound once in a frame.                   *)
BindsSceneOnce(st, s, pipelines) ==
  IF st.gpu["kSceneData"] # Null THEN st ELSE [st EXCEPT !.gpu["kSceneData"] = SceneData[s]]

(* The data of a scene is bound before all that it draws, with the layout  *)
(* of the first pipeline.                                                  *)
BindScene(st, s, pipelines) ==
  IF pipelines = <<>> \/ ~HasSet(SceneData[s]) THEN st
  ELSE [st EXCEPT !.gpu["kSceneData"] = SceneData[s],
                  !.clash = @ \/ Head(pipelines) \notin Datas[SceneData[s]].fits]

(* EndFrameRenderPass; the pipelines of a scene are in a hash map.         *)
RenderPass(all, pipelines) ==
  LET Used(s)   == SelectSeq(pipelines, LAMBDA p : Draws(all, p, s))
      Scene(st, s) == FoldLeft(LAMBDA t, p : DrawPipeline(t, all, p, s),
                               BindScene(st, s, Used(s)), Used(s))
  IN FoldLeft(Scene, NothingYet, SceneOrder(DOMAIN Scenes))

(* Draw of a list.  A list that returns to what was drawn with, after it   *)
(* set another that was not drawn with, is drawn with the other.  And what *)
(* was last set in a list is bound in the next one if that sets nothing.   *)
DrawList(c) ==
  LET p     == FirstPipeline(list)
      after == [draws EXCEPT ![c.scene].commands[p] = ThenReset(@, list),
                             ![c.scene].meshes = @ \cup list.meshes]
      pass  == RenderPass(after, SetToSeq(Pipelines))
  IN /\ Makes(c, "DrawList")
     /\ rendering /\ list.valid
     /\ IF p = Null THEN UNCHANGED <<draws, wanted>>
        ELSE LET AskedIn(a) == Effective([a.sets EXCEPT !["kSceneData"] = SceneData[c.scene]],
                                         a.scissor, c.scene, a.draw)
             IN
             /\ ~Mishap("setBack", pass.setBack)
             /\ ~Mishap("clash", pass.clash)
             /\ draws'  = after
             /\ wanted' = Append(wanted, [i \in DOMAIN list.asked |-> AskedIn(list.asked[i])])
     /\ UNCHANGED <<edit, meshes, fileVars, contents, used, list, rendering, drawn>>

EndFrame ==
  /\ rendering
  /\ \E pipelines \in SetToSeqs(Pipelines) :
       LET pass == RenderPass(draws, pipelines)
       IN drawn' = [drawn |-> pass.drawn, clash |-> pass.clash, wanted |-> wanted]
  /\ rendering' = FALSE
  /\ draws' = NoDraws /\ wanted' = <<>>
  /\ UNCHANGED <<edit, meshes, fileVars, contents, used, list, calls>>

-----------------------------------------------------------------------------
Init ==
  /\ edit \in BOOLEAN
  /\ meshes = [m \in Meshes |->
       IF m \in Made
       THEN [type |-> 1, volatility |-> "kPerFrame",
             vertices  |-> BufferSet(NewBuffer(2 * m - 1, 3), <<m, m, m>>),
             triangles |-> BufferSet(NewBuffer(2 * m, 1), <<m>>)]
       ELSE NoMesh]
  /\ file = NoFile
  /\ texture = NoTexture /\ loaded = NoTexture
  /\ chunk \in {NoTexture, [kind |-> "image", count |-> 1, width |-> 1, height |-> 2,
                            volatility |-> "none", options |-> 0, pixels |-> <<<<1, 1>>, <<1, 2>>>>]}
  /\ list = NewList
  /\ rendering = FALSE
  /\ draws = NoDraws /\ wanted = <<>>
  /\ drawn = [drawn |-> <<>>, clash |-> FALSE, wanted |-> <<>>]
  /\ contents = [m \in Meshes |->
       IF m \in Made THEN [vertices |-> <<m, m, m>>, triangles |-> <<m>>] ELSE NoContents]
  /\ used = 2 * Cardinality(Made)
  /\ calls = 0

MeshStep(c) ==
  \/ CreateMesh(c) \/ SetMesh(c) \/ EditMesh(c) \/ EndEdit(c)
  \/ SetItems(c) \/ ModifyItem(c) \/ RemoveItems(c) \/ SaveMesh(c) \/ LoadMesh(c)
TextureStep(c) == CreateTexture(c) \/ SaveTexture(c) \/ LoadTexture(c)
ListStep(c) ==
  \/ ListSetMaterial(c) \/ ListSetMaterialData(c) \/ ListSetInstanceData(c) \/ ListSetMesh(c)
  \/ ListSetScissor(c) \/ ListDraw(c) \/ ListReset(c) \/ ListClearBindings(c) \/ ListNew(c)

Next ==
  \/ \E c \in Calls : MeshStep(c) \/ TextureStep(c) \/ ListStep(c) \/ DrawMesh(c) \/ DrawList(c)
  \/ BeginFrame \/ EndFrame

Spec == Init /\ [][Next]_vars

-----------------------------------------------------------------------------
(* Properties                                                              *)

Count(s, x) == Cardinality({i \in DOMAIN s : s[i] = x})

(* A mesh has what the calls made of it, whichever of them failed and      *)
(* whatever was allocated anew, and once no view is open that is what it   *)
(* is drawn with.                                                          *)
MeshesAgree ==
  \A m \in Meshes, part \in Parts :
    LET b == meshes[m][part]
    IN /\ SubSeq(b.data, 1, IF b.view.open THEN b.view.size ELSE b.size) = contents[m][part]
       /\ ~b.view.open => SubSeq(b.gpu, 1, b.size) = contents[m][part]
       /\ b.size <= b.capacity

(* What was saved of a texture, or of an array, is what is loaded, but for *)
(* the volatility and options asked for.                                   *)
TexturesLoad ==
  loaded # NoTexture =>
    /\ loaded # NullTexture
    /\ loaded.pixels = Painted(loaded.count, loaded.width * loaded.height)
    /\ edit => loaded.volatility # "kStaticWrite"

(* A frame draws all that was asked for and nothing else, each draw with   *)
(* what was in effect when it was asked for, whatever was drawn between;   *)
(* the draws of a list one after the other; scenes in their order; and     *)
(* nothing is bound that the layout it is bound with has no place for.     *)
FramesAgree ==
  LET asked == FlattenSeq(drawn.wanted)
      is    == drawn.drawn
  IN /\ ~drawn.clash
     /\ \A i \in DOMAIN is : Count(is, is[i]) = Count(asked, is[i])
     /\ Len(is) = Len(asked)
     /\ \A i \in DOMAIN drawn.wanted : \E j \in 0 .. Len(is) :
          SubSeq(is, j + 1, j + Len(drawn.wanted[i])) = drawn.wanted[i]
     /\ \A i, j \in DOMAIN is : i < j => Scenes[is[i].scene] <= Scenes[is[j].scene]

ResourcesAgree == MeshesAgree /\ TexturesLoad /\ FramesAgree
=============================================================================
