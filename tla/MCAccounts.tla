----------------------------- MODULE MCAccounts -----------------------------
(* TLC instance of Accounts.                                                *)
EXTENDS Accounts
=============================================================================
