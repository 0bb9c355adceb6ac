SPECIFICATION Spec
CONSTANTS
  Key = {"a", "b"}
  Outside = {"x"}
  Validator = {v, w}
  Planned = {"a"}
  Proc = {p, q}
  MaxOps = 2
  MaxGc = 1
  None = None
SYMMETRY Interchangeable
INVARIANTS TypeOK MetadataSuffices CertificateMeansValidated
PROPERTIES RootsKept
CHECK_DEADLOCK FALSE
