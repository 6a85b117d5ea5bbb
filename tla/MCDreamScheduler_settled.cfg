SPECIFICATION FairDreamSpec
CONSTANTS
  p1 = p1
  p2 = p2
  Procs = {p1, p2}
  Groups = {g1, g2}
  NoGroup = NoGroup
  Tasks = {t1}
  Config <- MCConfig
  MaxRetries = 1
  MaxTime = 1
  MaxUpsets = 1
PROPERTY SlotIsSettled
