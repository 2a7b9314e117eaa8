---------------------------- MODULE MCGuestInput ----------------------------
(***************************************************************************)
(* Bounds for GuestInput: a switch of each polarity (the power key rests    *)
(* low, a volume key high) and the touch panel.                             *)
(***************************************************************************)
EXTENDS GuestInput

CONSTANTS hold, volup, multitouch

MCButtons == {hold, volup}
MCRestsHigh == {volup}
MCOrder == <<multitouch, hold, volup>>
=============================================================================
