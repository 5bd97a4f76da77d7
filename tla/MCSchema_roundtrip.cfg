\* Every type with every field unset or set; repeated fields of up to two
\* elements; sint32 values around zero, where zigzag changes sign.
CONSTANTS
  BytesVals = {b1}
  StringVals = {s1}
  Int32Vals <- MCInt32Vals
  MaxRepeat = 2
  Absent = Absent
SPECIFICATION Spec
INVARIANT TypeOK
\* A message's trip ends once decoded or once a call throws.
CHECK_DEADLOCK FALSE
