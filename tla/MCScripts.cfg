SPECIFICATION Spec
CONSTANTS
  v1 = v1
  v2 = v2
  p1 = p1
  Verifiers = {v1, v2}
  Exporters = {p1}
  Checkouts <- MCCheckouts
  Sheet <- MCSheet
  Pages <- MCPages
  Chromes <- MCChromes

  
PROPERTIES
  ScriptsEnd
CHECK_DEADLOCK FALSE
