SPECIFICATION Spec
CONSTANTS
  t1 = t1
  t2 = t2
  ann = ann
  bob = bob
  NoOne = NoOne
  Tabs = {t1, t2}
  Users = {ann, bob}
  Members = {ann}
  MaxFlows = 2
SYMMETRY MCSymmetry
INVARIANTS
  TypeOK
  SessionFollowsSignIns
  OneIdentity
  SignInSurvives
