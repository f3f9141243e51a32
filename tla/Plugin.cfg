CONSTANTS
  i1 = i1
  i2 = i2
  c1 = c1
  c2 = c2
  plain = plain
  other = other
  secret = secret
  Instances = {i1, i2}
  Calls = {c1, c2}
  Contexts <- const_Contexts
  Checks <- const_Checks
  MaxScore = 3
  Medium = 1
  High = 3
  ToolCalls <- const_ToolCalls
  Sensitive = {secret}
  Unencodable = {}
  MaxDepth = 2
  MaxNodes = 11
  MaxItems = 3
  Heaps <- const_Heaps
SPECIFICATION Spec
SYMMETRY Symm
INVARIANT TypeOK LeaseHasUnload DeadHooksRefuse FinalSaysWhatWasScored
PROPERTY RunsAreJudged 
CHECK_DEADLOCK FALSE
