SPECIFICATION MCSpec
CONSTANTS
  Resources = {r1, r2}
  NoResource = NoResource
  Names = {n1, n2}
  NoName = NoName
  Pending = Pending
  Ptrs = {p1, p2}
  Cached = {r2}
  RenderBuffers = {b1}
  VkBuffers = {p1, p2}
  Images = {n1, n2}
  NoFrame = NoFrame
  NoBuffer = NoBuffer
  MaxFrames = 3
  MaxValues = 2
  Followed = {}
  SetResources = {1, 2, 3, 4}
  SystemOf <- MCSystemOf
  NoSystem = NoSystem
  Sets = {s1, s2}
  MaxDependencies = 2
SYMMETRY Symmetry
INVARIANT ReleasedWhenUnreferenced
CHECK_DEADLOCK FALSE
