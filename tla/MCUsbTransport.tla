---------------------------- MODULE MCUsbTransport ----------------------------
(* Small instances of UsbTransport for TLC.                                  *)
EXTENDS UsbTransport, TLC

\* Handles are interchangeable.
Symmetry == Permutations(Handles)
=============================================================================
