CONSTANTS
  BytesVals = {b1}
  StringVals = {s1}
  Int32Vals <- MCInt32Vals
  MaxRepeat = 1
  Absent = Absent
SPECIFICATION Spec
INVARIANT EncodeRejectsMalformed
CHECK_DEADLOCK FALSE
