SPECIFICATION Spec
CONSTANTS
  self = self  node2 = node2  node3 = node3  Torn = Torn
  parser1 = parser1  parser2 = parser2
  Nodes <- MCNodes
  Handlers <- MCHandlers
PROPERTY Discovered
