CONSTANTS
  Options <- Shapes
  Addr <- Blocks
  BlockBits = 6
  Status = {"Modified", "Shared", "Invalid"}
  MaxUses = 4
SPECIFICATION Spec
PROPERTY
  WriteBackWhenDirty
