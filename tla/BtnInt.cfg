CONSTANTS
  Count = 5
  W = 4
  MaxPresses = 3
SPECIFICATION Spec
INVARIANTS PressLedger TimerInv
PROPERTY EventsAreShown
