----------------------- MODULE MCXCredentialProvider -----------------------
(* Small instances of XCredentialProvider for TLC. *)
EXTENDS XCredentialProvider, TLC

\* Event windows are interchangeable, and so are tiles.
Symmetry == Permutations(Windows) \cup Permutations(Tiles)
=============================================================================
