---------------------------- MODULE MCWebSession ----------------------------
(* A small instance of WebSession for TLC.                                   *)
EXTENDS WebSession, TLC

CONSTANTS r1, r2, s1, s2, s3, s4

\* Requests and session ids are told apart by what they carry only.
WebSymmetry == Permutations(Slots) \cup Permutations(Sids)
=============================================================================
