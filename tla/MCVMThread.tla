------------------------------ MODULE MCVMThread ------------------------------
(* Instances of VMThread for TLC; the values are in the .cfg files.        *)
EXTENDS VMThread, TLC
=============================================================================
