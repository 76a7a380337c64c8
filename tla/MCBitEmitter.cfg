SPECIFICATION EmitterSpec
CONSTANTS
  W = 4
  ByteBits = 2
  Fields <- MCFields
  LongFields <- MCLongFields
  Blobs <- MCBlobs
  MaxBits = 9
INVARIANT EmitterTypeOK
PROPERTY Implements
CHECK_DEADLOCK FALSE
