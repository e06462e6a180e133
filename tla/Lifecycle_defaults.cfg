SPECIFICATION Spec
CONSTANTS
  Resources <- MCUnset
  Restarts = FALSE
  Value = {v1, v2}
  Null = Null
  Unknown = Unknown
  Zero = Zero
  None = None
  Omit = Omit
INVARIANT DocumentedDefaultApplies
CHECK_DEADLOCK FALSE
