------------------------------ MODULE MCBankSync ------------------------------
(* BankSync on the small banks of BankInstances. *)
EXTENDS BankSync, BankInstances
===============================================================================
