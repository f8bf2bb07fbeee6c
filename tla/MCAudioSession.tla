---------------------------- MODULE MCAudioSession ----------------------------
(* Small instances of AudioSession for TLC.                                  *)
EXTENDS AudioSession, TLC

\* Peers and owners are interchangeable.
Symmetry == Permutations(Peers) \cup Permutations(Owners)
=============================================================================
