SPECIFICATION Spec
CONSTANTS
  c1 = c1
  b1 = b1
  b2 = b2
  t1 = t1
  a1 = a1
  a2 = a2
  Hub = Hub
  NoOne = NoOne
  Clients <- OneClient
  Tabs <- TwoTabs
  Turns <- OneTurn
  Asks <- OneAsk
PROPERTIES
  StarterIsAsked
CHECK_DEADLOCK FALSE
