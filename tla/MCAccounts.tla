---------------------------- MODULE MCAccounts ----------------------------
(***************************************************************************)
(* Instances of Accounts for TLC: two accounts of one person, told by one  *)
(* verified phone.                                                         *)
(***************************************************************************)
EXTENDS Accounts, TLC

CONSTANTS phone

OnePhone == [u \in Account |-> phone]

Symmetry == Permutations(Call)
===========================================================================
