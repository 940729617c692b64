---------------------------- MODULE MCWriteSession ----------------------------
(* Keys for WriteSession.                                                  *)
EXTENDS WriteSession, TLC

KeySymmetry == Permutations(Keys)
===============================================================================
