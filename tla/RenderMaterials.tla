--------------------------- MODULE RenderMaterials ---------------------------
(***************************************************************************)
(* gb/render: the constants types, vertex types and scene types registered *)
(* with the RenderSystem, the shaders and the material type made with      *)
(* them, a material of that type, the values of their bindings, and the    *)
(* files they are saved to and loaded from, in this session or in one that *)
(* registers other types under the same names.                             *)
(*                                                                         *)
(* There is one of each; the values of constants, and the textures, are    *)
(* numbers, 0 for constants that are zero and for no texture.              *)
(***************************************************************************)
EXTENDS Integers, Sequences, FiniteSets, FiniteSetsExt, SequencesExt

CONSTANTS
  ConstantsTypes,      (* Functions from names to sizes, of what the       *)
                       (* application may register.                        *)
  Vertices,            (* Sequences of attributes.                         *)
  SceneBindings, VertexShaders, FragmentShaders, Configs,
  BindingLimit,        (* kMaxBindingIndex                                 *)
  Followed,            (* The mishaps after which a behaviour goes on.     *)
  MaxSets, MaxSessions (* Bounds: values set, sessions.                    *)

VARIABLES
  constantsTypes,
  vertexTypes,         (* The registered type, or none.                    *)
  sceneTypes,
  vertexShader, fragmentShader,
  materialType, material,
  instance,            (* The data of CreateInstanceBindingData.           *)
  typeFile, materialFile,
  sets, session,
  stopped

registered == <<constantsTypes, vertexTypes, sceneTypes>>
shaders    == <<vertexShader, fragmentShader>>
vars == <<registered, shaders, materialType, material, instance, typeFile, materialFile,
          sets, session, stopped>>

None == <<>>

-----------------------------------------------------------------------------
(* Vertex types.  A ShaderValue is known by its components, how many there *)
(* are and of how many bytes, and whether they are normalized.             *)

ValueOf(v) == [base |-> IF v.normalized THEN "float" ELSE v.base, count |-> v.count]

(* Where the pipeline finds each attribute, and the size of all.           *)
Packed(attributes) ==
  [i \in 1 .. Len(attributes) + 1 |->
     MapThenSumSet(LAMBDA j : attributes[j].bytes * attributes[j].count, 1 .. i - 1)]

PackedSize(attributes) == Packed(attributes)[Len(attributes) + 1]
Alignment(attributes)  == Max({1} \cup {attributes[i].bytes : i \in DOMAIN attributes})

(* Mutant: the attributes are added up only.                               *)
AcceptsAnyPacked(attributes, size) == size = PackedSize(attributes)

AcceptsVertex(attributes, size) ==
  /\ \A i \in DOMAIN attributes : Packed(attributes)[i] % attributes[i].bytes = 0
  /\ PackedSize(attributes) % Alignment(attributes) = 0
  /\ size = PackedSize(attributes)

-----------------------------------------------------------------------------
(* Bindings                                                                *)

kStaticWrite     == 1
kStaticReadWrite == 2
kPerFrame        == 3

Location(b) == <<b.set, b.index>>

IsValid(b) ==
  /\ b.shaders # {}
  /\ b.type \in {"kConstants", "kTexture", "kTextureArray"}
  /\ b.type = "kConstants" => b.constants \in DOMAIN constantsTypes
  /\ b.volatility \in {kStaticWrite, kStaticReadWrite, kPerFrame}
  /\ b.index >= 0 /\ b.index < BindingLimit

(* Mutant: constants of another type go together.                          *)
IgnoresConstants(a, b) == Location(a) = Location(b) /\ a.type = b.type

IsCompatible(a, b) ==
  /\ Location(a) = Location(b) /\ a.type = b.type
  /\ a.type = "kConstants" => a.constants = b.constants

(* Combine: for both stages, and the most permissive volatility.           *)
Combined(bindings, b) ==
  LET same == {a \in ToSet(bindings) : Location(a) = Location(b)}
  IN [b EXCEPT !.shaders = UNION {a.shaders : a \in same},
               !.volatility = Max({a.volatility : a \in same})]

(* Whether a is all that b asks for.                                       *)
Serves(a, b) ==
  /\ Location(a) = Location(b) /\ a.type = b.type /\ a.constants = b.constants
  /\ b.shaders \subseteq a.shaders /\ b.volatility <= a.volatility

(* The bindings without those at the location of one before.               *)
Distinct(bindings) ==
  FoldLeft(LAMBDA all, b : IF \E a \in ToSet(all) : Location(a) = Location(b) THEN all
                           ELSE Append(all, b), <<>>, bindings)

(* What scene types and shaders may be given.                              *)
Accepts(bindings) ==
  /\ \A i \in DOMAIN bindings : IsValid(bindings[i])
  /\ \A i, j \in DOMAIN bindings :
       Location(bindings[i]) = Location(bindings[j]) => bindings[i] = bindings[j]

AllCompatible(bindings) ==
  \A i, j \in DOMAIN bindings :
    Location(bindings[i]) = Location(bindings[j]) => IsCompatible(bindings[i], bindings[j])

-----------------------------------------------------------------------------
(* LocalBindingData of the bindings of one set: their values one after     *)
(* another, in the order of their indices, the first binding of an index.  *)

OfSet(bindings, set) == SelectSeq(bindings, LAMBDA b : b.set = set)
Indices(bindings)    == {b.index : b \in ToSet(bindings)}
BindingAt(bindings, index) == SelectSeq(bindings, LAMBDA b : b.index = index)[1]
Size(b) == IF b.type = "kConstants" THEN constantsTypes[b.constants] ELSE 1

Offset(bindings, index) ==
  MapThenSumSet(LAMBDA i : Size(BindingAt(bindings, i)), {i \in Indices(bindings) : i < index})

(* Mutant: values are as far apart as there are indices.                   *)
Adjacent(bindings, index) ==
  LET first == Cardinality({i \in Indices(bindings) : i < index})
  IN first .. first + Size(BindingAt(bindings, index)) - 1

Place(bindings, index) ==
  Offset(bindings, index) .. Offset(bindings, index) + Size(BindingAt(bindings, index)) - 1

LocalBindingData(bindings) ==
  [k \in 0 .. MapThenSumSet(LAMBDA i : Size(BindingAt(bindings, i)), Indices(bindings)) - 1 |-> 0]

DoSet(bytes, bindings, index, value) ==
  [k \in DOMAIN bytes |-> IF k \in Place(bindings, index) THEN value ELSE bytes[k]]

(* Each value, or Torn if only a part of it is there.                      *)
Torn == -1
Values(bytes, bindings) ==
  [i \in Indices(bindings) |->
     IF \E v \in 0 .. MaxSets : \A k \in Place(bindings, i) : bytes[k] = v
     THEN bytes[Offset(bindings, i)] ELSE Torn]

Zero(bindings) == [i \in Indices(bindings) |-> 0]

-----------------------------------------------------------------------------
(* A mishap is an order of calls whose consequences the code does not deal *)
(* with.  Unless it is Followed a behaviour ends there.                    *)
Mishap(m, happens) == happens /\ m \notin Followed

MaterialOf(t) == OfSet(t.bindings, "kMaterial")
InstanceOf(t) == OfSet(t.bindings, "kInstance")

Init ==
  /\ constantsTypes = <<>> /\ vertexTypes = None /\ sceneTypes = None
  /\ vertexShader = None /\ fragmentShader = None
  /\ materialType = None /\ material = None /\ instance = None
  /\ typeFile = None /\ materialFile = None
  /\ sets = 0 /\ session = 1 /\ stopped = FALSE

-----------------------------------------------------------------------------
(* Registrations                                                           *)
unchangedMaterials == <<materialType, material, instance, typeFile, materialFile, sets, session, stopped>>

RegisterConstantsTypes(types) ==
  /\ constantsTypes = <<>>
  /\ constantsTypes' = types
  /\ UNCHANGED <<vertexTypes, sceneTypes, shaders, unchangedMaterials>>

RegisterVertexType(attributes, size) ==
  /\ vertexTypes = None
  /\ AcceptsVertex(attributes, size)
  /\ vertexTypes' = [attributes |-> attributes, size |-> size]
  /\ UNCHANGED <<constantsTypes, sceneTypes, shaders, unchangedMaterials>>

RegisterSceneType(bindings) ==
  /\ sceneTypes = None /\ Accepts(bindings)
  /\ sceneTypes' = Distinct(bindings)
  /\ UNCHANGED <<constantsTypes, vertexTypes, shaders, unchangedMaterials>>

(* DoCreateShader: every binding is for its stage.  (Later sessions load    *)
(* the shaders of the first one.)                                          *)
CreateShader(stage, shader) ==
  /\ session = 1
  /\ Accepts(shader.bindings)
  /\ \A b \in ToSet(shader.bindings) : stage \in b.shaders
  /\ LET new == [shader EXCEPT !.bindings = Distinct(shader.bindings)]
     IN \/ /\ stage = "kVertex" /\ vertexShader = None
           /\ vertexShader' = new /\ UNCHANGED fragmentShader
        \/ /\ stage = "kFragment" /\ fragmentShader = None
           /\ fragmentShader' = new /\ UNCHANGED vertexShader
  /\ UNCHANGED <<registered, unchangedMaterials>>

-----------------------------------------------------------------------------
(* Material types                                                          *)

(* Mutant: the inputs of the vertex shader are not compared.               *)
ValidatesFragments(attributes, vertex, fragment) ==
  \A input \in fragment.inputs : input \in vertex.outputs

(* ValidateMaterialTypeArguments.  (Locations are counted from 1 here.)    *)
ValidateMaterialTypeArguments(attributes, vertex, fragment) ==
  /\ \A input \in vertex.inputs :
       /\ input.location <= Len(attributes)
       /\ ValueOf(attributes[input.location]) = input.value
  /\ \A input \in fragment.inputs : input \in vertex.outputs

NewType(bindings, vertex, fragment, config) ==
  LET t == [bindings |-> bindings, attributes |-> vertexTypes.attributes, scene |-> sceneTypes,
            vertexShader |-> vertex, fragmentShader |-> fragment, config |-> config]
  IN t @@ [material |-> LocalBindingData(MaterialOf(t)), instance |-> LocalBindingData(InstanceOf(t)),
           askedMaterial |-> Zero(MaterialOf(t)), askedInstance |-> Zero(InstanceOf(t)),
           fromFile |-> FALSE, writer |-> "type"]

(* DoCreateMaterialType.  What is combined is only compared: the type has  *)
(* the first binding of each location as it is.                            *)
CreateMaterialType(config) ==
  LET bindings == sceneTypes \o vertexShader.bindings \o fragmentShader.bindings IN
  /\ materialType = None /\ typeFile = None
  /\ sceneTypes # None /\ vertexTypes # None /\ vertexShader # None /\ fragmentShader # None
  /\ ValidateMaterialTypeArguments(vertexTypes.attributes, vertexShader, fragmentShader)
  /\ AllCompatible(bindings)
  /\ materialType' = NewType(Distinct(bindings), vertexShader, fragmentShader, config)
  /\ stopped' = Mishap("uncombined",
       \E b \in ToSet(Distinct(bindings)) : b # Combined(bindings, b))
  /\ UNCHANGED <<registered, shaders, material, instance, typeFile, materialFile, sets, session>>

(* CreateMaterial: CopyTo gives it the values of its type, and the copy of *)
(* the type's instance defaults is the same buffer.                        *)
NewMaterial(t) ==
  [data |-> Values(t.material, MaterialOf(t)), asked |-> t.askedMaterial,
   askedInstance |-> t.askedInstance, fromFile |-> FALSE]

CreateMaterial ==
  /\ materialType # None /\ material = None
  /\ material' = NewMaterial(materialType)
  /\ stopped' = Mishap("shared", materialType.writer = "material")
  /\ UNCHANGED <<registered, shaders, materialType, instance, typeFile, materialFile, sets, session>>

-----------------------------------------------------------------------------
(* Values                                                                  *)
Sets == sets < MaxSets /\ sets' = sets + 1

SetMaterialDefault ==
  /\ materialType # None /\ Sets
  /\ \E i \in Indices(MaterialOf(materialType)) :
       materialType' = [materialType EXCEPT
         !.material = DoSet(@, MaterialOf(materialType), i, sets'), !.askedMaterial[i] = sets',
         !.fromFile = FALSE]
  /\ UNCHANGED <<registered, shaders, material, instance, typeFile, materialFile, session, stopped>>

SetMaterialData ==
  /\ material # None /\ Sets
  /\ \E i \in DOMAIN material.data :
       material' = [material EXCEPT !.data[i] = sets', !.asked[i] = sets', !.fromFile = FALSE]
  /\ UNCHANGED <<registered, shaders, materialType, instance, typeFile, materialFile, session, stopped>>

(* The instance defaults of the type, or of the material.                  *)
SetInstanceDefault(by) ==
  /\ materialType # None /\ Sets
  /\ by = "material" => material # None
  /\ \E i \in Indices(InstanceOf(materialType)) :
       LET bytes == DoSet(materialType.instance, InstanceOf(materialType), i, sets')
           t == [materialType EXCEPT !.instance = bytes, !.fromFile = FALSE, !.writer = by]
       IN IF by = "type"
          THEN /\ materialType' = [t EXCEPT !.askedInstance[i] = sets']
               /\ UNCHANGED material
          ELSE /\ materialType' = t
               /\ material' = [material EXCEPT !.askedInstance[i] = sets', !.fromFile = FALSE]
  /\ UNCHANGED <<registered, shaders, instance, typeFile, materialFile, session, stopped>>

(* Whether the material, or the type, has the values of the other.         *)
Overwritten(reader) ==
  /\ material # None /\ materialType.writer # reader
  /\ material.askedInstance # materialType.askedInstance

(* Mutant: instances start from zero.                                      *)
InstanceOfZero(t) == Zero(InstanceOf(t))
InstanceData(t)   == Values(t.instance, InstanceOf(t))

CreateInstanceBindingData ==
  /\ material # None /\ instance = None
  /\ instance' = [data |-> InstanceData(materialType), asked |-> material.askedInstance]
  /\ stopped' = Mishap("shared", Overwritten("material"))
  /\ UNCHANGED <<registered, shaders, materialType, material, typeFile, materialFile, sets, session>>

-----------------------------------------------------------------------------
(* Files                                                                   *)

(* WriteBindingData: constants with their size, textures unless null.      *)
WriteBindingData(bindings, values) ==
  {[index |-> b.index, type |-> b.type, size |-> Size(b), value |-> values[b.index]] : b \in ToSet(bindings)}

(* The type of constants is that of the first binding of their index, of   *)
(* whatever set, and what is read is as much as that type needs.           *)
MisreadType(bindings, set, e) ==
  /\ e.type = "kConstants"
  /\ BindingAt(bindings, e.index).constants # BindingAt(OfSet(bindings, set), e.index).constants
MisreadSize(bindings, set, e) ==
  e.type = "kConstants" /\ e.size # Size(BindingAt(OfSet(bindings, set), e.index))
Misread(bindings, set, entries) ==
  \E e \in entries : \/ Mishap("typeByIndex", MisreadType(bindings, set, e))
                     \/ Mishap("sizes", MisreadSize(bindings, set, e))

(* Mutant: textures are not read.                                          *)
ReadsConstants(bindings, set, entries, values) ==
  [i \in DOMAIN values |->
     IF \E e \in entries : e.index = i /\ e.type = "kConstants"
     THEN (CHOOSE e \in entries : e.index = i).value ELSE values[i]]

(* ReadBindingData: a null texture leaves what is there.                   *)
ReadBindingData(bindings, set, entries, values) ==
  [i \in DOMAIN values |->
     IF \E e \in entries : e.index = i /\ (e.type = "kConstants" \/ e.value # 0)
     THEN LET e == CHOOSE e \in entries : e.index = i
          IN IF MisreadType(bindings, set, e) \/ MisreadSize(bindings, set, e) THEN Torn ELSE e.value
     ELSE values[i]]

Bytes(values, bindings) ==
  [k \in DOMAIN LocalBindingData(bindings) |->
     values[CHOOSE i \in Indices(bindings) : k \in Place(bindings, i)]]

SaveMaterialType ==
  /\ materialType # None
  /\ typeFile' = [bindings |-> materialType.bindings, config |-> materialType.config,
                  vertexShader |-> materialType.vertexShader,
                  fragmentShader |-> materialType.fragmentShader,
                  material |-> WriteBindingData(MaterialOf(materialType),
                                 Values(materialType.material, MaterialOf(materialType))),
                  instance |-> WriteBindingData(InstanceOf(materialType),
                                 Values(materialType.instance, InstanceOf(materialType))),
                  askedMaterial |-> materialType.askedMaterial,
                  askedInstance |-> materialType.askedInstance]
  /\ stopped' = Mishap("shared", Overwritten("type"))
  /\ UNCHANGED <<registered, shaders, materialType, material, instance, materialFile, sets, session>>

SaveMaterial ==
  /\ material # None
  /\ materialFile' = [bindings |-> materialType.bindings,
                      material |-> WriteBindingData(MaterialOf(materialType), material.data),
                      instance |-> WriteBindingData(InstanceOf(materialType), InstanceData(materialType)),
                      asked |-> material.asked, askedInstance |-> material.askedInstance]
  /\ stopped' = Mishap("shared", Overwritten("material"))
  /\ UNCHANGED <<registered, shaders, materialType, material, instance, typeFile, sets, session>>

(* A new session: nothing is registered or loaded.                         *)
Restart ==
  /\ typeFile # None /\ session < MaxSessions
  /\ session' = session + 1
  /\ constantsTypes' = <<>> /\ vertexTypes' = None /\ sceneTypes' = None
  /\ vertexShader' = None /\ fragmentShader' = None
  /\ materialType' = None /\ material' = None /\ instance' = None
  /\ UNCHANGED <<typeFile, materialFile, sets, stopped>>

Known(bindings) ==
  \A b \in ToSet(bindings) : b.type = "kConstants" => b.constants \in DOMAIN constantsTypes

(* Mutant: the bindings of the file are not looked for.                    *)
HasAny(file, bindings) == TRUE

(* LoadMaterialTypeChunk: the file has each binding of the scene and of    *)
(* the shaders, as far as their location goes.                             *)
HasLocations(file, bindings) ==
  \A b \in ToSet(bindings) : \E a \in ToSet(file.bindings) : Location(a) = Location(b)

Differs(bindings, needed) ==
  \E a \in ToSet(bindings), b \in ToSet(needed) : Location(a) = Location(b) /\ ~Serves(a, b)

LoadMaterialType ==
  LET f == typeFile
      needed == sceneTypes \o f.vertexShader.bindings \o f.fragmentShader.bindings
      new == NewType(f.bindings, f.vertexShader, f.fragmentShader,
                     [f.config EXCEPT !.raster_mode = "kFill", !.depth_test = "kLess"])
      material_ == ReadBindingData(f.bindings, "kMaterial", f.material, new.askedMaterial)
      instance_ == ReadBindingData(f.bindings, "kInstance", f.instance, new.askedInstance)
  IN
  /\ materialType = None /\ typeFile # None
  /\ sceneTypes # None /\ vertexTypes # None
  /\ ValidateMaterialTypeArguments(vertexTypes.attributes, f.vertexShader, f.fragmentShader)
  /\ HasLocations(f, needed)
  /\ IF Known(f.bindings)
     THEN /\ materialType' = [new EXCEPT
               !.material = Bytes(material_, MaterialOf(new)), !.instance = Bytes(instance_, InstanceOf(new)),
               !.askedMaterial = f.askedMaterial, !.askedInstance = f.askedInstance, !.fromFile = TRUE]
          /\ stopped' = \/ Mishap("config", f.config # new.config)
                        \/ Mishap("changed", Differs(f.bindings, needed))
                        \/ Misread(f.bindings, "kMaterial", f.material)
                        \/ Misread(f.bindings, "kInstance", f.instance)
     ELSE /\ stopped' = TRUE       (* Constants of a type that is null.    *)
          /\ UNCHANGED materialType
  /\ UNCHANGED <<registered, shaders, material, instance, typeFile, materialFile, sets, session>>

(* LoadMaterialChunk: the instance defaults are read into the shared       *)
(* buffer.                                                                 *)
LoadMaterial ==
  LET f == materialFile
      new == NewMaterial(materialType)
      instance_ == ReadBindingData(f.bindings, "kInstance", f.instance, InstanceData(materialType))
  IN
  /\ material = None /\ materialType # None /\ materialFile # None
  /\ HasLocations(materialType, f.bindings)
  /\ material' = [new EXCEPT !.data = ReadBindingData(f.bindings, "kMaterial", f.material, @),
                             !.asked = f.asked, !.askedInstance = f.askedInstance, !.fromFile = TRUE]
  /\ materialType' = [materialType EXCEPT !.instance = Bytes(instance_, InstanceOf(materialType)),
                                          !.fromFile = FALSE, !.writer = "material"]
  /\ stopped' = \/ Mishap("changed", Differs(f.bindings, materialType.bindings))
                \/ Mishap("nullTexture",
                     \/ \E e \in f.material : e.type # "kConstants" /\ e.value = 0 /\ new.data[e.index] # 0
                     \/ \E e \in f.instance : e.type # "kConstants" /\ e.value = 0
                                              /\ InstanceData(materialType)[e.index] # 0)
                \/ Misread(f.bindings, "kMaterial", f.material)
                \/ Misread(f.bindings, "kInstance", f.instance)
  /\ UNCHANGED <<registered, shaders, instance, typeFile, materialFile, sets, session>>

Next ==
  /\ ~stopped
  /\ \/ \E types \in ConstantsTypes : RegisterConstantsTypes(types)
     \/ \E attributes \in Vertices, size \in 1 .. 16 : RegisterVertexType(attributes, size)
     \/ \E bindings \in SceneBindings : RegisterSceneType(bindings)
     \/ \E shader \in VertexShaders : CreateShader("kVertex", shader)
     \/ \E shader \in FragmentShaders : CreateShader("kFragment", shader)
     \/ \E config \in Configs : CreateMaterialType(config)
     \/ CreateMaterial
     \/ SetMaterialDefault \/ SetMaterialData
     \/ \E by \in {"type", "material"} : SetInstanceDefault(by)
     \/ CreateInstanceBindingData
     \/ SaveMaterialType \/ SaveMaterial
     \/ Restart
     \/ LoadMaterialType \/ LoadMaterial

Spec == Init /\ [][Next]_vars

-----------------------------------------------------------------------------
(* Properties                                                              *)

(* A vertex of a registered type has its attributes where the pipeline     *)
(* looks for them: it is laid out without padding.                         *)
PaddedOffset(attributes, i) ==
  LET starts == {o \in 0 .. 32 : \A j \in 1 .. i - 1 : o >= Packed(attributes)[j + 1]}
  IN Min({o \in starts : o % attributes[i].bytes = 0})
VertexTypesArePacked ==
  vertexTypes # None =>
    LET a == vertexTypes.attributes IN
    /\ \A i \in DOMAIN a : PaddedOffset(a, i) = Packed(a)[i]
    /\ vertexTypes.size % Alignment(a) = 0

(* A material type, made or loaded, has one binding for each location that *)
(* its scene and shaders need, of their type, for their stages and of a    *)
(* volatility that allows theirs; and its shaders are fed what they read,  *)
(* the vertex shader by the attributes of the vertex type, the fragment    *)
(* shader by the outputs of the vertex shader, with as many components of  *)
(* the same base type.                                                     *)
TypesAreComplete ==
  materialType # None /\ ~stopped =>
    LET t == materialType IN
    /\ \A i, j \in DOMAIN t.bindings :
         Location(t.bindings[i]) = Location(t.bindings[j]) => i = j
    /\ \A b \in ToSet(t.scene) \cup ToSet(t.vertexShader.bindings) \cup ToSet(t.fragmentShader.bindings) :
         \E a \in ToSet(t.bindings) : Serves(a, b)
    /\ \A input \in t.vertexShader.inputs :
         /\ input.location \in DOMAIN t.attributes
         /\ LET a == t.attributes[input.location]
            IN /\ input.value.count = a.count
               /\ input.value.base = (IF a.normalized THEN "float" ELSE a.base)
    /\ \A input \in t.fragmentShader.inputs : \E output \in t.vertexShader.outputs :
         output.location = input.location /\ output.value = input.value

(* Values are those that were set, or saved: nobody else's are written     *)
(* over them, and a file brings them back.                                 *)
ValuesAreKept ==
  materialType # None /\ ~stopped =>
    /\ Values(materialType.material, MaterialOf(materialType)) = materialType.askedMaterial
    /\ materialType.writer = "type" =>
         InstanceData(materialType) = materialType.askedInstance
    /\ materialType.fromFile => materialType.config = typeFile.config
    /\ material # None =>
         /\ material.data = material.asked
         /\ materialType.writer = "material" => InstanceData(materialType) = material.askedInstance
    /\ instance # None => instance.data = instance.asked

MaterialsAgree == VertexTypesArePacked /\ TypesAreComplete /\ ValuesAreKept
=============================================================================
