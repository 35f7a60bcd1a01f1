CONSTANTS
  p1 = p1
  p2 = p2
  p3 = p3
  Proc = {p1, p2, p3}
  None = None
  NUM = 7
  UINT16 = 7
  MaxReq = 7
  Killable = {p1}
SPECIFICATION Spec
SYMMETRY VirtioSymmetry
CHECK_DEADLOCK FALSE
INVARIANTS DescsOwned CompletionMatches NoCallStranded
PROPERTIES ServedBeforeReturn
