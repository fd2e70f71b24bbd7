------------------------- MODULE MCOrganizationState -------------------------
(* One user and one system, two active states and an inactive one; a         *)
(* subscriber that takes everything and one that takes what users are told.  *)
EXTENDS OrganizationState, TLC

CONSTANTS a, b, i, h1, h2

MCWants ==
  (h1 :> Types \X Kinds) @@ (h2 :> Types \X {"user"})

=============================================================================
