SPECIFICATION Spec
CONSTANTS
  W = 2
  Masks = {1, 2}
  Six = Six
  Default = Default
  OidKeys = {1, 2}
  OidModulus = 2
  Tids = {t1}
  Names = {n1}
  NumWorkers = 2
  MaxSensors = 2
  MaxOids = 2
  MaxNets = 1
  MaxTmpls = 2
INVARIANTS LookupComplete LookupSound ConfigMeaning TemplatesApart ReleasedOnce
CHECK_DEADLOCK FALSE
