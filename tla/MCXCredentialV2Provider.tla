---------------------- MODULE MCXCredentialV2Provider ----------------------
(* Small instances of XCredentialV2Provider for TLC. *)
EXTENDS XCredentialV2Provider, TLC

CONSTANTS uNone, uOne, uTwo

\* An empty machine, one user, two users.
MCUserCount == [u \in UserArrays |-> CASE u = uNone -> 0
                                       [] u = uOne -> 1
                                       [] u = uTwo -> 2]
\* Event windows are interchangeable, and so are providers.
Symmetry == Permutations(Windows) \cup Permutations(Providers)
=============================================================================
