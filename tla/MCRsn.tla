------------------------------- MODULE MCRsn -------------------------------
(* Instances of Rsn for model checking.                                    *)
EXTENDS Rsn, TLC

KeySymmetry == Permutations(Keys)
=============================================================================
