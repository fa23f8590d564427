------------------------------- MODULE MCSessions ------------------------------
(* Values of Sessions' constants for TLC. *)
EXTENDS Sessions, TLC

AllHandlers == Public \cup Private \cup Administrative
LifetimeHandlers == {"me", "login", "logout"}
LinkHandlers == {"createAccount", "updateAccount", "reissue", "redeem", "login"}
PasswordHandlers == {"login", "changePassword"}
OfficeHandlers == {"login", "updateAccount", "startImpersonation", "stopImpersonation"}

\* Accounts that start alike, slots, ids and passwords are interchangeable.
Interchangeable ==
  UNION {Permutations(S) : S \in {Admins, Users, Account \ (Admins \cup Users),
                                  Request, SessionId, LinkId, Password \ {First}}}
================================================================================
