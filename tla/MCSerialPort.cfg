\* macOS, where a short read stands for a break, and Linux, where the driver
\* reports breaks and errors in the data.
SPECIFICATION Spec
CONSTANTS
  Byte = {0, 1, 255}
  RawBufSize = 5
  BufSize = 1
  UsbPayload = 3
  Platforms <- DarwinAndLinux
  TtyMax = 5
INVARIANTS
  TypeOK
  ReturnsInOrder
  ReturnsEverything
\* Nothing moves once the adapter is gone and the tty is full.
CHECK_DEADLOCK FALSE
