----------------------------- MODULE MCSpiFlash -----------------------------
(* The users are interchangeable.                                          *)
EXTENDS SpiFlash, TLC

UserSymmetry == Permutations(Users)
============================================================================
