SPECIFICATION Spec
CONSTANTS
  Agents = {a1, a2}
  Racers = {a1, a2}
  a1 = a1
  a2 = a2
  Replies <- MCReplies
  ToolChoices = {"auto", "any", "source"}
  Decodes = {"typed", "raw"}
  MaxRounds <- MCRounds
  MaxAttempts <- MCAttempts
  Tokens = 2
  Limits <- MCLimits
  MaxCaptures = 1
  MaxRestarts = 0
INVARIANT
  ConfirmedResultsRecorded
