SPECIFICATION DreamSpec
CONSTANTS
  p1 = p1
  p2 = p2
  Procs = {p1, p2}
  Groups = {g1, g2}
  NoGroup = NoGroup
  Tasks = {t1}
  Config <- MCDisabledConfig
  MaxRetries = 1
  MaxTime = 2
  MaxUpsets = 1
INVARIANTS DreamTypeOK NothingForgotten DisabledNeverDue
PROPERTY FenceProperty
