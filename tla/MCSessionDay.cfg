CONSTANTS
  DayLength = 6
  Windows <- MCWindows
SPECIFICATION Spec
INVARIANTS
  TypeOK
  NoEntryPastCutoffIfOrdered
PROPERTIES
  PhasesOnlyAdvance
  EntryShutForTheDay
CHECK_DEADLOCK FALSE
