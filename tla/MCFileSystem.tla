---------------------------- MODULE MCFileSystem ----------------------------
(* Two property names and two texts.                                       *)
EXTENDS FileSystem

CONSTANTS p1, p2, t1, t2
=============================================================================
