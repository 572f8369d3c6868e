--------------------------- MODULE MCTokenSession ---------------------------
(***************************************************************************)
(* Small instances of TokenSession.                                        *)
(***************************************************************************)
EXTENDS TokenSession, TLC

CONSTANTS alice, guest, h1, h2

HandlerSymmetry == Permutations(Handlers)
=============================================================================
