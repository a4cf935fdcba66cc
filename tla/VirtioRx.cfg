SPECIFICATION RxSpec
CONSTANTS
  Depth = 4
  IdxMod = 8
  Runts = {3, 5, 6, 7}
  Blanks = {5, 6, 7}
  MaxFrames = 11
INVARIANT RxInv
PROPERTY Receives
