CONSTANTS
  Images <- MCImages
  Hooks <- MCHooks
  Slots <- MCSlots
  PageOf <- MCPageOf
  Pages = {"relro", "data", "bss"}
  Below = {"f"}
  Named = {"relro", "data"}
  Prots <- MCProts
  MaxCalls = 1
  MaxTouches = 0
SPECIFICATION Spec
CHECK_DEADLOCK FALSE
INVARIANTS AllRelocationsHooked
