-------------------------- MODULE MCResourceSystem --------------------------
(* The life of what is shared, for TLC: resources, which are counted, the  *)
(* sets that count them, and Vulkan buffers, which are collected when no   *)
(* frame uses them any more.                                               *)
(* A behaviour is one of one component, `component`; the others stay as    *)
(* they were made.  Pointers and names of the resource system are          *)
(* interchangeable, and so are Vulkan buffers and images of the swap       *)
(* chain: they are the same model values, since no behaviour uses both.    *)
EXTENDS VulkanFrames, ResourceSystem, TLC

CONSTANTS
  SetResources, SystemOf, NoSystem,
  Sets, MaxDependencies

VARIABLES
  component,
  (* ResourceSets *)
  deps, members, setSystem, setRefs

(* Three resources of one system and one of another.                       *)
MCSystemOf == [r \in SetResources |-> IF r = 4 THEN "b" ELSE "a"]
ResourceSet == INSTANCE ResourceSets WITH
  Resources <- SetResources, system <- setSystem, refs <- setRefs

ASSUME SetAssumption ==
  IsFiniteSet(Sets) /\ \A r \in SetResources : SystemOf[r] # NoSystem

Symmetry == Permutations(Ptrs) \cup Permutations(Names)

setVars == <<deps, members, setSystem, setRefs>>
allVars == <<component, allFrameVars, vars, setVars>>

(* The first image breaks the symmetry of names: it is that of frames.     *)
MCInit ==
  /\ component \in {"frame", "resource", "set"}
  /\ FramesInit
  /\ Init
  /\ ResourceSet!Init /\ (component # "set" => deps = {})

MCNext ==
  \/ component = "frame" /\ FramesNext /\ UNCHANGED <<component, vars, setVars>>
  \/ component = "resource" /\ Next /\ UNCHANGED <<component, allFrameVars, setVars>>
  \/ component = "set" /\ ResourceSet!Next /\ UNCHANGED <<component, allFrameVars, vars>>

MCSpec == MCInit /\ [][MCNext]_allVars

-----------------------------------------------------------------------------
(* The references of resource sets are counted, and what is removed from   *)
(* one takes along exactly what nothing left in it needs.                  *)
SetsHold ==
  /\ [](component = "set" => ResourceSet!SetsAccount /\ ResourceSet!RemovalsAreExact)
  /\ ResourceSet!RemovalsAreClosed
=============================================================================
