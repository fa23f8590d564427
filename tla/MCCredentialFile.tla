---------------------------- MODULE MCCredentialFile ---------------------------
(* CredentialFile for TLC: commands, sites, accounts and cookies are alike. *)
EXTENDS CredentialFile, TLC

Interchangeable ==
  Permutations(Proc) \cup Permutations(Site) \cup Permutations(Email)
    \cup Permutations(Cookie)
================================================================================
