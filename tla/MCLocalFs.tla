---- MODULE MCLocalFs ----
(***************************************************************************)
(* TLC instance of LocalFs.  The bytes, names and pseudo-devices are all   *)
(* alike, so they may be exchanged.                                        *)
(***************************************************************************)
EXTENDS LocalFs, TLC
Exchange == Permutations(Names) \cup Permutations(Devices) \cup Permutations(Bytes)
====
