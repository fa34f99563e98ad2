CONSTANTS
  Images <- MCImages
  Hooks <- MCHooks
  Slots <- MCSlots
  PageOf <- MCPageOf
  Pages = {"relro", "data", "bss"}
  Below = {"f"}
  Named = {"relro", "data"}
  Prots <- MCProts
  MaxCalls = 3
  MaxTouches = 1
  Keys <- MCKeys
  Libraries <- MCLibraries
  Names <- MCNames
  ElfHash <- MCElfHash
  GnuHash <- MCGnuHash
  Bits <- MCBits
  Native <- MCNative
  Chunk <- MCChunk
  Width <- MCWidth
  Streams <- MCStreams
  PageSize = 4
  WordSize = 2
  MapsFiles <- MCMapsFiles
  Addresses <- MCAddresses
INIT DataInit
NEXT DataNext
CHECK_DEADLOCK FALSE
INVARIANTS
  TypeOK ProtectionRestored HookComplete OldIsOriginal
  TreeSound WalkVisitsAll SymbolsFound TablesAsLinked PackedExact WordProtected
