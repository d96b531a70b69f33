--------------------------- MODULE MCBankSyncHistory --------------------------
(* BankSync with its history variables on the small banks of BankInstances. *)
EXTENDS BankSyncHistory, BankInstances
===============================================================================
