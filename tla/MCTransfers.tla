---------------------------- MODULE MCTransfers -----------------------------
(* Model checking of Transfers: files of one and of two bytes, which fit in
   the budget together, and between them one of four, whose size the listing
   does not give: it does not fit and is uploaded in two parts.            *)
EXTENDS TransfersInv

MCSize == <<1, 4, 2>>
=============================================================================
