---------------------------- MODULE MC_Quarantine ----------------------------
(* Two callers, one path on the volume of the directory and one on another *)
(* volume, two ids that may collide, three files, so that a path is filled *)
(* again after its file was taken.                                         *)
EXTENDS Quarantine, TLC

(* Callers are alike; the properties checked under symmetry are safety.    *)
Alike == Permutations(Callers)
=============================================================================
