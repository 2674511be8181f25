SPECIFICATION Spec
CONSTANTS
  MaxText = 10
  MaxLength = 9
  MaxSentences = 3
  MaxKeyPoints = 2
  CharLimit = 5
INVARIANTS
  StoredTextsAreCanonical
  SentencesAreExact
  SummariesAreBounded
CHECK_DEADLOCK FALSE
