SPECIFICATION Spec
CONSTANTS
  MaxName = 6
  MaxLabel = 2
  AliasAlloc = 2
  Heads = {h1, h2, h3}
  Node = {n1, n2, n3, n4}
  Null = null
  IanaPorts <- MCPorts
  FlagNames <- MCFlagNames
  ClassNames <- MCClassNames
  TypeNames <- MCTypeNames
  Countries <- MCCountries
INVARIANTS
  
  RepliesAgree
  AddressesAgree
  NameInfoAnswers
  
  ListsKept
  
