\* Input module asked for part of a block after a full block.
CONSTANTS
  BlockSize = 2
  MaxFrames = 6
  AllowShortRead = FALSE
SPECIFICATION Spec
PROPERTY PartialServesPreviousTail
