SPECIFICATION FairSpec
CONSTANTS
  c1 = c1
  c2 = c2
  s1 = s1
  s2 = s2
  shell = shell
  unknown = unknown
  surface = surface
  NoState = NoState
  NoContext = NoContext
  Calls <- two_Calls
  Threshold1 = 2
  Threshold2 = 2
  Threshold3 = 3
  Sessions = {s1}
  ActionTypes = {surface}
  ConsentLevelOf <- trust_Levels
  CommandTools = {}
  Contexts <- trust_Contexts
  WriteOutcomes = {TRUE, FALSE}
INVARIANTS RestartReadsBack LevelEarned
PROPERTIES TrustSpec WaitersResume
