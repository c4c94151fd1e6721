----------------------------- MODULE MCUsbLink -------------------------------
(* One reader and the guard of the one before it; two addresses, so that a   *)
(* re-open may name a device that has gone.                                  *)
EXTENDS UsbLink
CONSTANTS a1, a2, t1, t2, h1, h2
TwoAddr   == {a1, a2}
TwoThread == {t1, t2}
TwoHandle == {h1, h2}
==============================================================================
