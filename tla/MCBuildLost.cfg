CONSTANTS
  N = 2
  Spots = {1, 2}
  Features = {f1}
  MaxSites = 2
  MaxHp = 2
  MaxOrders = 2
SPECIFICATION Spec
PROPERTIES OrderIsItsJob
