SPECIFICATION Spec
CONSTANTS
  MaxForms = 5
  MaxCrashes = 1
  MaxCallDepth = 1
  Attempts = 2
  Iterations = 1
  Forms <- AllForms
  Actions = {"a"}
  Binders = {TRUE, FALSE}
  Crossings = {"retry"}
INVARIANTS
  CheckpointAccepted
