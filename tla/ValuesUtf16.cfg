SPECIFICATION ValuesSpec
CHECK_DEADLOCK FALSE
CONSTANTS
    Width = 6
    LongWidths = {3, 6}
    Mantissa = 3
    Native = "utf16le"
    MaxCalls = 2
INVARIANTS
    Utf16IsText
