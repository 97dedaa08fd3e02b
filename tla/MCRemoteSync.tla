---------------------------- MODULE MCRemoteSync -----------------------------
(* Model checking of RemoteSync: the configurations give the constants.    *)
EXTENDS RemoteSyncInv
=============================================================================
