---------------------------- MODULE MCFileSystem ----------------------------
(* Instances of the file system for TLC. *)
EXTENDS FileSystem

CONSTANTS a1, a2, a3

DosArchivos  == {a1, a2}
TresArchivos == {a1, a2, a3}
=============================================================================
