SPECIFICATION Spec
CONSTANTS
  Image = {v1, v2, torn, other}
  Whole = {v1, v2, other}
  Ours = {v1, v2, torn}
  Size <- MCSize
  Chunks = 3
  Block = 2
  FirstSeq = 2
  LastSeq = 5
  Erased = Erased
  Torn = Torn
  v1 = v1
  v2 = v2
  torn = torn
  other = other
INVARIANTS TargetIsFit SwitchTakes
