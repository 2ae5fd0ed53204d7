-------------------------- MODULE MCArchiveHeader --------------------------
(* Small instances of ArchiveHeader: two headers of different sizes.       *)
EXTENDS ArchiveHeader, TLC

CONSTANTS h1, h2

MCHeaders == {h1, h2}
MCHLen == h1 :> 1 @@ h2 :> 2
=============================================================================
