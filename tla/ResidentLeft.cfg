\* The driver may refuse a call after it has accepted the receiver.
CONSTANTS
  Instances = {i1, i2}
  Others = {o1}
  NoInstance = NoInstance
  BufferOptions = {0, 2, 65535}
  DriverIrqs = {96, 128}
  Handles = {1}
SPECIFICATION ResidentSpec
INVARIANTS NeverLeftConnected
