CONSTANTS
  Width = 4
  Program <- Programs
SPECIFICATION Spec
INVARIANTS
  AssemblerTypeOK
  ExactWords
  InPlace
PROPERTIES
  Converts
