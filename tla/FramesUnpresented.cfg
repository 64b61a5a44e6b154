SPECIFICATION FramesSpec
CONSTANTS
  RenderBuffers = {r1}
  VkBuffers = {v1, v2, v3, v4}
  Images = {i1, i2}
  NoFrame = NoFrame
  NoBuffer = NoBuffer
  MaxFrames = 3
  MaxValues = 2
  Followed = {"unpresented"}
INVARIANTS
  UsedExist
CHECK_DEADLOCK FALSE
