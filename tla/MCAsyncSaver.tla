---------------------------- MODULE MCAsyncSaver ----------------------------
(* AsyncSaver and its inductive invariant, for TLC.                        *)
EXTENDS AsyncSaverInv
=============================================================================
