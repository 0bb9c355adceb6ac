SPECIFICATION Spec
CONSTANTS
  Key = {"a", "b"}
  Outside = {"x"}
  Validator = {v}
  Planned = {"a"}
  Proc = {p}
  MaxOps = 1
  MaxGc = 1
  None = None
PROPERTIES BothNamesLive
CHECK_DEADLOCK FALSE
