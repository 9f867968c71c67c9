SPECIFICATION Spec
CONSTANTS
  Paths = {1, 2, 3}
  LockFile = 3
  Reserved = {}
  Specs <- AllSpecs
  Workspaces <- SomeTexts
  Edits <- FewTexts
  MaxEdits = 1
  Tokens <- AllTokens
  Absent = Absent
  Blank = Blank
INVARIANTS
  CompilerInv
  ApplyIsIdempotent
PROPERTIES
  DeveloperTextStays
