SPECIFICATION Spec
CONSTANTS
  Protos <- MCProtos
  Platforms = {"android", "ios"}
  AppleOnes = {"ios"}
  MaxCommands = 3
  MaxAccidents = 1
  MaxEdits = 2
CHECK_DEADLOCK FALSE
INVARIANTS SoundRunRepairs WholeOrNothing
PROPERTY UserWorkKept
