---------------------------- MODULE MCAuthTokens ----------------------------
(* Instances of AuthTokens for TLC. *)
EXTENDS AuthTokens, TLC

Interchangeable ==
  Permutations(Requests) \cup Permutations(Users) \cup Permutations(Emails)
    \cup Permutations(Tokens)
==============================================================================
