SPECIFICATION Spec
CONSTANTS
  None = None
  MaxLen = 5
  Alphabet <- Keys
  Query <- Queries
  Catalog <- Tables
CHECK_DEADLOCK FALSE
INVARIANTS  ExplainsOne EditsWhatIsShown
