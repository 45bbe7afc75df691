SPECIFICATION Spec
CONSTANTS
  t1 = t1  t2 = t2  n1 = n1  n2 = n2  d1 = d1  d2 = d2  e1 = e1
  i1 = i1  i2 = i2  good = good  bad = bad
  Malformed = Malformed
  None = None
  Tasks = {t1, t2}
  Names = {n1, n2}
  Docs = {d1, d2, e1}
  Items = {i1, i2}
  Subjects = {good, bad}
  NameOf <- Name
  MayCall <- Policy
  Requests <- AllRequests
  MaxRequests = 3
  MaxFaults = 2
INVARIANTS STypeOK EffectsAreSigned RememberedOnce
PROPERTY RegistrySpec
SYMMETRY Symmetry
CHECK_DEADLOCK FALSE
