SPECIFICATION Spec
CONSTANTS
  Modes = {"Disable", "Allow", "Prefer", "Require"}
  Policies = {"Disabled", "Optional", "Required"}
  MaxRounds = 2
INVARIANTS SessionAgrees TlsPoliciesHold ContextIsTrue
PROPERTIES EveryCallReturns
