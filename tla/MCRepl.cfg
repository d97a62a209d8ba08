SPECIFICATION Spec
CONSTANTS
  c = c
  js = js
  None = None
  Commands <- AllCommands
  JsCommands <- JsOnly
  MaxQueued = 2
  MaxInterrupts = 1
  MaxCalls = 3
INVARIANTS
  OnlyCtrlCMisleads
  PromptNotMissed
  OneOwned
PROPERTY CallsEnd
CHECK_DEADLOCK FALSE
