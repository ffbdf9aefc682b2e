SPECIFICATION Spec
CONSTANTS
  Tasks = {"sync", "watch", "cleanup"}
  MaxTokens = 3
INVARIANTS TypeOK RotationSurvives NewestPresented
PROPERTIES StoredNeverRetreats
