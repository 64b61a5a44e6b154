---------------------------- MODULE MCRenderSystem ----------------------------
(* What resources are made of, for TLC: the files that hold them, the file *)
(* system and chunk files, and the render system's materials, meshes,      *)
(* textures, bindings and draw lists.                                      *)
(* A behaviour is one of one component, `component`; the others are empty  *)
(* or have not been made.                                                  *)
EXTENDS Integers, Sequences, TLC

CONSTANTS Absent, Pending

VARIABLES
  component,
  (* ResourceFiles *)
  files, object, idOf, nameOf, set, stack, unused,
  (* FileSystem and ChunkFiles *)
  protocols, protocolMap, defaultName, trees, openFile, chunks, chunkFile,
  (* VulkanTextures *)
  kind, mipmap, hosts, images, mips, texture, textureFrame, textureRendering, textureQueue,
  textureCalls, textureWanted, textureStopped,
  (* RenderMaterials *)
  constantsTypes, vertexTypes, sceneTypes, vertexShader, fragmentShader, materialType, material,
  instance, typeFile, materialFile, sets, session, materialStopped,
  (* VulkanBindings *)
  layout, groups, freeIndex, pool, data, textures, bindingBuffers, bindingContents, bindingFrame,
  bindingRendering, bindingDrawn, bindingQueue, made, bindingImages, values, bindingStopped,
  (* RenderResources *)
  edit, meshes, file, savedTexture, chunk, loaded, list, rendering, draws, resourceDrawn,
  contents, wanted, used, calls

NotMade == 0

-----------------------------------------------------------------------------

(* Two files: m is of resource a alone, or loads n first, or has a part;   *)
(* n is of resource b, or needs m, or cannot be read.                      *)
MCInitialFiles ==
  {("m" :> f) @@ ("n" :> g) :
     f \in {<<<<"main", "a">>>>,
            <<<<"load", "b", "n">>, <<"main", "a">>>>,
            <<<<"part", "p">>, <<"main", "a">>>>,
            <<<<"part", "p">>, <<"load", "b", "n">>, <<"main", "a">>>>},
     g \in {<<<<"main", "b">>>>,
            <<<<"load", "a", "m">>, <<"main", "b">>>>,
            <<<<"part", "p">>, <<"main", "b">>>>,
            <<<<"part", "p">>, <<"bad">>>>,
            <<<<"load", "p", Absent>>, <<"main", "b">>>>}}
ResourceFile == INSTANCE ResourceFiles WITH
  Ids <- {"a", "b", "p"}, Names <- {"m", "n"}, NoName <- Absent, Pending <- Pending,
  NoResource <- Absent, InitialFiles <- MCInitialFiles

(* One protocol cannot create folders.                                     *)
MCFlags ==
  LET all == {"info", "list", "folderCreate", "fileCreate", "fileRead", "fileWrite"}
  IN ("p1" :> all \ {"folderCreate"}) @@ ("p2" :> all)
MCRegistrations == {
  [protocol |-> "p1", names |-> {"m"}], [protocol |-> "p2", names |-> {"m", "n"}],
  [protocol |-> "p2", names |-> {"n"}]}
Files == INSTANCE FileSystem WITH
  Protocols <- {"p1", "p2"}, FlagsOf <- MCFlags, Registrations <- MCRegistrations,
  Defaults <- {"n"}, NoName <- Absent, Handles <- {"h1"}, NoFile <- Absent,
  MaxNodes <- 4, MaxSize <- 1, file <- openFile

Chunk == INSTANCE ChunkFiles WITH
  Word <- 2, MaxChunks <- 2, MaxExtra <- 1, NoFile <- Absent, file <- chunkFile

resourceFileVars == <<files, object, idOf, nameOf, set, stack, unused>>
fileVars  == <<protocols, protocolMap, defaultName, trees, openFile>>
chunkVars == <<chunks, chunkFile>>
storageVars == <<resourceFileVars, fileVars, chunkVars>>
NoResourceFiles ==
  /\ files = NotMade /\ object = NotMade /\ idOf = NotMade /\ nameOf = NotMade
  /\ set = NotMade /\ stack = NotMade /\ unused = NotMade
NoFiles ==
  /\ protocols = NotMade /\ protocolMap = NotMade /\ defaultName = NotMade
  /\ trees = NotMade /\ openFile = NotMade
NoChunks == chunks = NotMade /\ chunkFile = NotMade

-----------------------------------------------------------------------------
(* All of a 2 x 2 texture, or a part, or more than there is.               *)
Region(x, y, w, h) == [x |-> x, y |-> y, w |-> w, h |-> h]
MCRegions == {Region(0, 0, 2, 2), Region(-1, -1, 2, 2), Region(1, 0, 2, 2)}
Textures == INSTANCE VulkanTextures WITH
  Width <- 2, Height <- 2, Layers <- 2, Regions <- MCRegions, Keeps <- TRUE,
  Followed <- {}, MaxCalls <- 2, MaxFrames <- 3,
  frame <- textureFrame, rendering <- textureRendering, queue <- textureQueue,
  calls <- textureCalls, wanted <- textureWanted, stopped <- textureStopped

textureVars == <<kind, mipmap, hosts, images, mips, texture, textureFrame, textureRendering,
                 textureQueue, textureCalls, textureWanted, textureStopped>>
NoTextures ==
  /\ kind = NotMade /\ mipmap = NotMade /\ hosts = NotMade /\ images = NotMade /\ mips = NotMade
  /\ texture = NotMade /\ textureFrame = NotMade /\ textureRendering = NotMade
  /\ textureQueue = NotMade /\ textureCalls = NotMade /\ textureWanted = NotMade
  /\ textureStopped = NotMade

(* Two sets of constants; vertices that are packed and some that are not;  *)
(* shaders that fit one another, the scene and the vertices, or do not.    *)
Attribute(base, count, bytes, norm) ==
  [base |-> base, count |-> count, bytes |-> bytes, normalized |-> norm]
Binding(stages, in, index, type, constants, volatility) ==
  [shaders |-> stages, set |-> in, index |-> index, type |-> type,
   constants |-> constants, volatility |-> volatility]
Floats(location) == [location |-> location, value |-> [base |-> "float", count |-> 4]]
Both == {"kVertex", "kFragment"}
MCTypes == {[a |-> 1, b |-> 2], [a |-> 2, b |-> 2]}
MCVertices == {
  <<Attribute("float", 1, 4, FALSE), Attribute("uint", 4, 1, TRUE)>>,
  <<Attribute("uint", 4, 1, TRUE), Attribute("int", 3, 2, TRUE), Attribute("int", 2, 1, FALSE)>>,
  <<Attribute("int", 1, 1, FALSE), Attribute("float", 2, 2, TRUE)>>,
  <<Attribute("float", 1, 4, FALSE), Attribute("int", 1, 1, FALSE)>>}
MCSceneBindings == {
  <<Binding(Both, "kScene", 0, "kConstants", "a", 3), Binding(Both, "kMaterial", 1, "kConstants", "b", 2)>>,
  <<Binding(Both, "kScene", 1, "kConstants", "b", 3), Binding(Both, "kScene", 1, "kConstants", "b", 3)>>,
  <<Binding(Both, "kMaterial", 3, "kTexture", "", 2)>>}
MCVertexShaders == {
  [bindings |-> <<Binding(Both, "kMaterial", 1, "kConstants", "b", 2),
                  Binding(Both, "kInstance", 0, "kTexture", "", 2)>>,
   inputs |-> {Floats(2)}, outputs |-> {Floats(1)}],
  [bindings |-> <<Binding({"kVertex"}, "kInstance", 2, "kConstants", "a", 1),
                  Binding({"kVertex"}, "kMaterial", 3, "kTexture", "", 2)>>,
   inputs |-> {Floats(1)},
   outputs |-> {Floats(1), [location |-> 2, value |-> [base |-> "int", count |-> 1]]}]}
MCFragmentShaders == {
  [bindings |-> <<Binding(Both, "kMaterial", 1, "kConstants", "b", 2),
                  Binding({"kFragment"}, "kMaterial", 3, "kTexture", "", 2)>>,
   inputs |-> {Floats(1)}, outputs |-> {}],
  [bindings |-> <<Binding(Both, "kMaterial", 1, "kConstants", "a", 2)>>,
   inputs |-> {}, outputs |-> {}]}
MCConfigs == {[cull_mode |-> "kNone", depth_mode |-> "kTest", raster_mode |-> "kFill", depth_test |-> d] :
                d \in {"kLess", "kEqual"}}
RenderMaterial == INSTANCE RenderMaterials WITH
  ConstantsTypes <- MCTypes, Vertices <- MCVertices, SceneBindings <- MCSceneBindings,
  VertexShaders <- MCVertexShaders, FragmentShaders <- MCFragmentShaders, Configs <- MCConfigs,
  BindingLimit <- 4, Followed <- {}, MaxSets <- 1, MaxSessions <- 2, stopped <- materialStopped

materialVars == <<constantsTypes, vertexTypes, sceneTypes, vertexShader, fragmentShader, materialType,
                  material, instance, typeFile, materialFile, sets, session, materialStopped>>
NoMaterials ==
  /\ constantsTypes = NotMade /\ vertexTypes = NotMade /\ sceneTypes = NotMade
  /\ vertexShader = NotMade /\ fragmentShader = NotMade /\ materialType = NotMade
  /\ material = NotMade /\ instance = NotMade /\ typeFile = NotMade /\ materialFile = NotMade
  /\ sets = NotMade /\ session = NotMade /\ materialStopped = NotMade

(* Bindings of a texture alone, of constants of each volatility, of both.  *)
Layout(texturesToo, constants, volatility, defaults, new, frames) ==
  [texture |-> texturesToo, constants |-> constants, volatility |-> volatility,
   defaults |-> defaults, new |-> new, frames |-> frames]
MCLayouts == {
  Layout(FALSE, FALSE, "", TRUE, 2, 1),
  Layout(TRUE, FALSE, "", TRUE, 2, 3),
  Layout(FALSE, TRUE, "kStaticWrite", TRUE, 1, 1),
  Layout(FALSE, TRUE, "kStaticReadWrite", FALSE, 2, 2),
  Layout(FALSE, TRUE, "kStaticReadWrite", TRUE, 3, 1),
  Layout(FALSE, TRUE, "kPerFrame", FALSE, 2, 2),
  Layout(TRUE, TRUE, "kStaticReadWrite", TRUE, 2, 1)}
Bindings == INSTANCE VulkanBindings WITH
  Datas <- 1 .. 3, Pointers <- 1 .. 2, Null <- 0, Layouts <- MCLayouts,
  BufferSlots <- 2, ClearedSlots <- 1, MaxBufferSlots <- 3, Followed <- {},
  MaxImages <- 2, MaxValues <- 1,
  buffers <- bindingBuffers, contents <- bindingContents, frame <- bindingFrame,
  rendering <- bindingRendering, drawn <- bindingDrawn, queue <- bindingQueue,
  images <- bindingImages, stopped <- bindingStopped

bindingVars == <<layout, groups, freeIndex, pool, data, textures, bindingBuffers, bindingContents,
                 bindingFrame, bindingRendering, bindingDrawn, bindingQueue, made, bindingImages,
                 values, bindingStopped>>
NoBindings ==
  /\ layout = NotMade /\ groups = NotMade /\ freeIndex = NotMade /\ pool = NotMade
  /\ data = NotMade /\ textures = NotMade /\ bindingBuffers = NotMade
  /\ bindingContents = NotMade /\ bindingFrame = NotMade /\ bindingRendering = NotMade
  /\ bindingDrawn = NotMade /\ bindingQueue = NotMade /\ made = NotMade
  /\ bindingImages = NotMade /\ values = NotMade /\ bindingStopped = NotMade

-----------------------------------------------------------------------------
(* Meshes, textures as they are saved and loaded, and draw lists.          *)

MCTypeOf     == <<1, 1>>
MCRegistered == [t \in {1} |-> 2]
MCMaterials  == <<[type |-> 1, data |-> 1], [type |-> 2, data |-> 2], [type |-> 1, data |-> 6]>>
Data(fits, bound, kindOf) == [kind |-> kindOf, fits |-> fits, bound |-> bound]
MCDatas == <<Data({1}, TRUE, "kMaterialData"), Data({2}, FALSE, "kMaterialData"),
             Data({1, 2}, TRUE, "kInstanceData"), Data({1}, TRUE, "kInstanceData"),
             Data({2}, TRUE, "kInstanceData"), Data({1}, TRUE, "kMaterialData"),
             Data({1, 2}, TRUE, "kSceneData"), Data({1, 2}, TRUE, "kSceneData")>>
MCScenes    == <<2, 1>>
MCSceneData == <<7, 8>>
Volatilities == {"kStaticWrite", "kStaticReadWrite", "kPerFrame"}

CreatesMesh(v) ==
  [do |-> "CreateMesh", mesh |-> 1, type |-> 1, volatility |-> v, vertices |-> 3, triangles |-> 1]
Sets(vertices, triangles) ==
  [do |-> "Set", mesh |-> 1, vertices |-> vertices, triangles |-> triangles]
SetsItems(part, index, items) ==
  [do |-> "SetItems", mesh |-> 1, part |-> part, index |-> index, items |-> items]
Removes(part, index, count) ==
  [do |-> "RemoveItems", mesh |-> 1, part |-> part, index |-> index, count |-> count]
Behind == -1
MeshCalls ==
  {CreatesMesh(v) : v \in Volatilities}
  \cup {Sets(<<1, 2, 3, 4>>, <<7, 8>>), Sets(<<5, 6>>, <<9>>),
        [do |-> "Edit", mesh |-> 1], [do |-> "EndEdit", mesh |-> 1],
        [do |-> "SaveMesh", mesh |-> 1, volatility |-> "kStaticWrite"],
        [do |-> "LoadMesh", mesh |-> 2],
        SetsItems("vertices", 1, <<7, 8>>), SetsItems("vertices", Behind, <<9>>),
        SetsItems("triangles", Behind, <<3, 4>>),
        Removes("vertices", 0, 2), Removes("vertices", 0, 1), Removes("vertices", 1, 3),
        Removes("triangles", 0, 1),
        [do |-> "ModifyItem", mesh |-> 1, part |-> "vertices", index |-> 0, item |-> 5]}

CreatesTexture(kindOf, count, width, height, v) ==
  [do |-> "CreateTexture", kind |-> kindOf, count |-> count, width |-> width, height |-> height,
   volatility |-> v, options |-> 1]
TextureCalls ==
  UNION {{CreatesTexture("texture", 1, 2, 1, v), CreatesTexture("array", 2, 1, 2, v),
          CreatesTexture("array", 3, 3, 1, v), CreatesTexture("array", 2, 2, 2, v),
          [do |-> "SaveTexture", volatility |-> v]} :
           v \in Volatilities}
  \cup {[do |-> "LoadTexture", options |-> i] : i \in {0, 2}}

SetsMesh(m, of, d) == [do |-> "SetMesh", mesh |-> m, material |-> of, data |-> d]
ListCalls ==
  {SetsMesh(1, 1, 3), SetsMesh(2, 0, 0), SetsMesh(1, 2, 0),
   [do |-> "SetMaterial", material |-> 3, data |-> 0], [do |-> "SetMaterialData", data |-> 6],
   [do |-> "SetInstanceData", data |-> 4], [do |-> "SetScissor", rect |-> 1],
   [do |-> "Draw", first |-> 0, count |-> 0], [do |-> "Draw", first |-> 0, count |-> 3],
   [do |-> "Reset"], [do |-> "ClearBindings"], [do |-> "NewList"],
   Sets(<<1, 2, 3>>, <<1>>)}
  \cup UNION {{[do |-> "DrawList", scene |-> s],
               [do |-> "DrawMesh", scene |-> s, mesh |-> 1, material |-> 1, data |-> 3]} : s \in {1, 2}}

Mesh == INSTANCE RenderResources WITH
  Meshes <- 1 .. 2, TypeOf <- MCTypeOf, Registered <- MCRegistered, Materials <- MCMaterials,
  Datas <- MCDatas, Scenes <- MCScenes, SceneData <- MCSceneData, Mipmapped <- {1},
  kMaxVertices <- 4, kMaxTextureSize <- 3, kMaxTextureArrayCount <- 3,
  kMaxTextureArrayPixels <- 9, Followed <- {}, MaxCalls <- 5,
  Calls <- MeshCalls, Made <- {}, texture <- savedTexture, drawn <- resourceDrawn
SavedTexture == INSTANCE RenderResources WITH
  Meshes <- 1 .. 2, TypeOf <- MCTypeOf, Registered <- MCRegistered, Materials <- MCMaterials,
  Datas <- MCDatas, Scenes <- MCScenes, SceneData <- MCSceneData, Mipmapped <- {1},
  kMaxVertices <- 4, kMaxTextureSize <- 3, kMaxTextureArrayCount <- 3,
  kMaxTextureArrayPixels <- 9, Followed <- {}, MaxCalls <- 5,
  Calls <- TextureCalls, Made <- {}, texture <- savedTexture, drawn <- resourceDrawn
DrawList == INSTANCE RenderResources WITH
  Meshes <- 1 .. 2, TypeOf <- MCTypeOf, Registered <- MCRegistered, Materials <- MCMaterials,
  Datas <- MCDatas, Scenes <- MCScenes, SceneData <- MCSceneData, Mipmapped <- {1},
  kMaxVertices <- 4, kMaxTextureSize <- 3, kMaxTextureArrayCount <- 3,
  kMaxTextureArrayPixels <- 9, Followed <- {}, MaxCalls <- 4,
  Calls <- ListCalls, Made <- 1 .. 2, texture <- savedTexture, drawn <- resourceDrawn

resourceVars == <<edit, meshes, file, savedTexture, chunk, loaded, list, rendering, draws,
                  resourceDrawn, contents, wanted, used, calls>>
NoResources ==
  /\ edit = NotMade /\ meshes = NotMade /\ file = NotMade /\ savedTexture = NotMade
  /\ chunk = NotMade /\ loaded = NotMade /\ list = NotMade /\ rendering = NotMade
  /\ draws = NotMade /\ resourceDrawn = NotMade /\ contents = NotMade /\ wanted = NotMade
  /\ used = NotMade /\ calls = NotMade

-----------------------------------------------------------------------------

renderVars == <<textureVars, materialVars, bindingVars, resourceVars>>
allVars == <<component, storageVars, renderVars>>

(* What is drawn is made without edit mode.                                *)
MCInit ==
  /\ component \in {"resource file", "file", "chunk", "texture", "material", "binding", "mesh",
                    "saved texture", "draw list"}
  /\ IF component = "resource file" THEN ResourceFile!Init   ELSE NoResourceFiles
  /\ IF component = "file"          THEN Files!Init          ELSE NoFiles
  /\ IF component = "chunk"         THEN Chunk!Init          ELSE NoChunks
  /\ IF component = "texture"       THEN Textures!Init       ELSE NoTextures
  /\ IF component = "material"      THEN RenderMaterial!Init ELSE NoMaterials
  /\ IF component = "binding"       THEN Bindings!Init       ELSE NoBindings
  /\ CASE component = "mesh"          -> Mesh!Init
       [] component = "saved texture" -> SavedTexture!Init
       [] component = "draw list"     -> DrawList!Init /\ ~edit /\ chunk = DrawList!NoTexture
       [] OTHER                       -> NoResources

MCNext ==
  \/ /\ component = "resource file" /\ ResourceFile!Next
     /\ UNCHANGED <<component, fileVars, chunkVars, renderVars>>
  \/ /\ component = "file" /\ Files!Next
     /\ UNCHANGED <<component, resourceFileVars, chunkVars, renderVars>>
  \/ /\ component = "chunk" /\ Chunk!Next
     /\ UNCHANGED <<component, resourceFileVars, fileVars, renderVars>>
  \/ /\ component = "texture" /\ Textures!Next
     /\ UNCHANGED <<component, storageVars, materialVars, bindingVars, resourceVars>>
  \/ /\ component = "material" /\ RenderMaterial!Next
     /\ UNCHANGED <<component, storageVars, textureVars, bindingVars, resourceVars>>
  \/ /\ component = "binding" /\ Bindings!Next
     /\ UNCHANGED <<component, storageVars, textureVars, materialVars, resourceVars>>
  \/ /\ \/ component = "mesh" /\ Mesh!Next
        \/ component = "saved texture" /\ SavedTexture!Next
        \/ component = "draw list" /\ DrawList!Next
     /\ UNCHANGED <<component, storageVars, textureVars, materialVars, bindingVars>>

MCSpec == MCInit /\ [][MCNext]_allVars

-----------------------------------------------------------------------------
(* The properties of the components                                        *)

(* Protocols give the same answers and do what they do completely; a file  *)
(* of chunks is read back as written; and however the reading of a         *)
(* resource file fails, names agree with resources and what is used stays. *)
FilesAgree ==
  /\ component = "file" =>
       /\ Files!FilesAgree /\ Files!CallsAreComplete
       /\ Files!ProtocolsAgree /\ Files!LocalFilesHold
  /\ component = "chunk" => Chunk!ChunksReadBack
  /\ component = "resource file" =>
       ResourceFile!FileNamesAgree /\ ResourceFile!ReadsKeepWhatIsUsed

(* What is drawn is what was written: textures and their mipmaps, the      *)
(* values of materials, the constants and textures of bindings, meshes as  *)
(* they were edited and loaded, and what each draw list asks for.          *)
RenderingAgrees ==
  /\ component = "texture"  => Textures!TexturesAgree
  /\ component = "material" => RenderMaterial!MaterialsAgree
  /\ component = "binding"  => Bindings!BindingsAgree
  /\ component = "mesh"          => Mesh!ResourcesAgree
  /\ component = "saved texture" => SavedTexture!ResourcesAgree
  /\ component = "draw list"     => DrawList!ResourcesAgree
=============================================================================
