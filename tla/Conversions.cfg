SPECIFICATION Spec
CONSTANTS
  CJSON_NESTING_LIMIT = 3
  MantissaBits = 8
  PowerBits = 4
  MaxBytes = 4
  MaxTokens = 5
  MaxParts = 6
  Keys <- KeyNames
INVARIANTS TextsKept BuffersKept FloatClose LengthTold PageTells FilesRead
CHECK_DEADLOCK FALSE
