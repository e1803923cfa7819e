SPECIFICATION Spec
CONSTANTS
  c1 = c1
  c2 = c2
  s1 = s1
  s2 = s2
  shell = shell
  unknown = unknown
  surface = surface
  NoState = NoState
  NoContext = NoContext
  Calls <- two_Calls
  Threshold1 = 1
  Threshold2 = 1
  Threshold3 = 1
  Sessions = {s1, s2}
  ActionTypes = {shell, unknown, surface}
  ConsentLevelOf <- races_Levels
  CommandTools = {shell}
  Contexts <- races_Contexts
  WriteOutcomes = {TRUE}
SYMMETRY symmetry
INVARIANTS TypeOK DecidedOnce NoStrandedPrompt OnceApprovalsFromPeople
PROPERTIES AbortStopsCalls EffectsAuthorised
