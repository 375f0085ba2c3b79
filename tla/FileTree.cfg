SPECIFICATION TreeSpec
CONSTANTS
  Images <- ImagesWithDev
  Extra <- OneDisk
  NewNames = {"hi", "tty0"}
  Names = {"dev", "hi", "vga", "tty0", "file"}
  MountPaths <- OnTop
  MaxDepth = 2
  MaxDirents = 11
PROPERTIES IsNamespace
