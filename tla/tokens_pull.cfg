SPECIFICATION Spec
CONSTANTS
  Tasks = {"watch", "call"}
  MaxTokens = 2
INVARIANTS RotationUsed
