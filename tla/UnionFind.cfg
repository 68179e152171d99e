SPECIFICATION FairSpec
CONSTANTS
  a1 = a1
  a2 = a2
  a3 = a3
  a4 = a4
  Account <- MCAccount
PROPERTIES
  ImplementsPartition
  CallsReturn
