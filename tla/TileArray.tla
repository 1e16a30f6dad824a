------------------------------ MODULE TileArray ------------------------------
(***************************************************************************)
(* What the Vista/7 provider promises of its tiles: a tile lives while the *)
(* array or LogonUI can reach it, and for ever when a failed enumeration   *)
(* has lost it; the array is the whole of one enumeration.  Nothing here   *)
(* counts references.  XCredentialTile implements this with counts, and    *)
(* XCredentialProvider is built on it.                                     *)
(***************************************************************************)
EXTENDS Integers, Sequences, Functions

CONSTANTS Tiles,    \* the tiles a process may make
          MaxTiles  \* bound: tiles one enumeration makes

VARIABLES
  tile,    \* a tile's memory: unused, alive or deleted
  array,   \* the provider's array, <<>> when there is none
  lost,    \* tiles that were made and that nobody knows any more
  taken    \* tiles LogonUI holds

arrayVars == <<tile, array, lost, taken>>

ArrayTypeOK ==
  /\ tile \in [Tiles -> {"unused", "alive", "deleted"}]
  /\ array \in Seq(Tiles)
  /\ lost \subseteq Tiles
  /\ taken \subseteq Tiles

ArrayInit ==
  /\ tile = [c \in Tiles |-> "unused"]
  /\ array = <<>>
  /\ lost = {}
  /\ taken = {}

\* n new tiles, in the order in which they are made.
Fresh(n) == {made \in [1 .. n -> {c \in Tiles : tile[c] = "unused"}] :
               \A i, j \in 1 .. n : made[i] = made[j] => i = j}

\* The old tiles go, but for those that LogonUI holds, and the new ones are
\* the array, or are lost.
Enumerate(made, kept) ==
  /\ tile' = [c \in Tiles |-> IF c \in Range(array) \ taken THEN "deleted"
                              ELSE IF c \in Range(made) THEN "alive" ELSE tile[c]]
  /\ array' = IF kept THEN made ELSE <<>>
  /\ lost' = IF kept THEN lost ELSE lost \cup Range(made)
  /\ UNCHANGED taken

\* GetCredentialAt.
Take(c) ==
  /\ c \in Range(array)
  /\ taken' = taken \cup {c}
  /\ UNCHANGED <<tile, array, lost>>

\* LogonUI's last Release.
Drop(c) ==
  /\ c \in taken
  /\ taken' = taken \ {c}
  /\ tile' = [tile EXCEPT ![c] = IF c \in Range(array) \cup lost THEN @ ELSE "deleted"]
  /\ UNCHANGED <<array, lost>>

ArrayNext ==
  \/ \E n \in 0 .. MaxTiles : \E made \in Fresh(n) : \E kept \in BOOLEAN :
       Enumerate(made, kept)
  \/ \E c \in Tiles : Take(c) \/ Drop(c)

ArraySpec == ArrayInit /\ [][ArrayNext]_arrayVars

\* A tile that anybody can reach is alive.
ReachableIsAlive == \A c \in Range(array) \cup lost \cup taken : tile[c] = "alive"

=============================================================================
