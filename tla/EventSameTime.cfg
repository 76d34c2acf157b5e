CONSTANTS
  d1 = d1
  d2 = d2
  d3 = d3
  Descs = {d1, d2, d3}
  Times = {1, 2, 3}
  ID_SPACE = 100
  MAX_ID = 5
  max_events = 0
  DELAY = 0
SPECIFICATION Spec
PROPERTIES
  ServedInOrder
