CONSTANTS
  Keys = {"a", "b"}
  Dirs = {"root", "lib"}
  Paths = {"part"}
  Names = {"pkg"}
  DirOf <- Where
  Resolve <- Tree
  PackageFiles <- Installed
  MaxVMs = 3
  MaxFrames = 2
SPECIFICATION Spec
INVARIANTS IInv FilesRunOnce OwnPaths
PROPERTIES ImplementsModuleRegistry
