--------------------------- MODULE MCLocalStorage ---------------------------
(* Model checking of LocalStorage: a pack, in the directory of a snapshot,
   which is in the directory of the snapshots, and manifest.json, in the
   directory of the store.                                                 *)
EXTENDS LocalStorageInv

MCAbove == [x \in {"pack", "manifest", "root", "snapshots", "s"} |->
                CASE x = "root"                    -> {}
                  [] x \in {"manifest", "snapshots"} -> {"root"}
                  [] x = "s"                       -> {"root", "snapshots"}
                  [] x = "pack"                    -> {"root", "snapshots", "s"}]
=============================================================================
