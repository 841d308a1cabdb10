SPECIFICATION Spec
CONSTANTS
    ByteBits = 8
    CrcBits = 16
    Poly = 4129
    kInit = 65535
    ByteSet = {0, 1, 85, 170, 255}
    MaxBytes = 3
INVARIANTS
    StreamingIsReference
    SmallErrorsDetected
