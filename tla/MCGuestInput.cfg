CONSTANTS
  hold = hold
  volup = volup
  multitouch = multitouch
  MULTITOUCH = multitouch
  Order <- MCOrder
  Buttons <- MCButtons
  RestsHigh <- MCRestsHigh
  VM_BUTTON_QUEUE_CAP = 2
  VM_TOUCH_QUEUE_CAP = 2
  MAX_INPUTS = 3
  MAX_PAUSES = 1
  MAX_RESETS = 1
SPECIFICATION FairInputSpec
INVARIANTS
  CascadeFresh
  QuietIsTrue
  EdgesKept
PROPERTIES
  AllHeard
