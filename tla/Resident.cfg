\* Two places for the program, two other programs, drivers in and out of range.
CONSTANTS
  Instances = {i1, i2}
  Others = {o1, o2}
  NoInstance = NoInstance
  BufferOptions = {0, 2, 65535}
  DriverIrqs = {96, 128}
  Handles = {1}
SPECIFICATION ResidentSpec
INVARIANTS ResidentTypeOK CodeInPlace TimerSeesDriver OneResident
PROPERTIES OthersUndisturbed
