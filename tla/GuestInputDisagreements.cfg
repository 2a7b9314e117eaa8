\* This is violated by what the guest's driver does.
CONSTANTS
  hold = hold
  volup = volup
  multitouch = multitouch
  MULTITOUCH = multitouch
  Order <- MCOrder
  Buttons <- MCButtons
  RestsHigh <- MCRestsHigh
  VM_BUTTON_QUEUE_CAP = 4
  VM_TOUCH_QUEUE_CAP = 2
  MAX_INPUTS = 3
  MAX_PAUSES = 0
  MAX_RESETS = 0
SPECIFICATION InputSpec
PROPERTY
  TapSeen
