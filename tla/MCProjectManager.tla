-------------------------- MODULE MCProjectManager --------------------------
(***************************************************************************)
(* A project of two original files, a processor derived from the first   *)
(* (r3) and one that takes r3 and the second file (r4); the store holds    *)
(* their four output files.  Import_file can add a fifth file (x4); the    *)
(* GUI can add a1, which takes r3 and x4, and a2, which takes the imported *)
(* copy of the first file.                                                 *)
(***************************************************************************)
EXTENDS ProjectManager, TLC

CONSTANTS r1, r2, r3, r4, i1, i2, i3, i4, x4, a1, a2, f1, f2, f3, f4, f5, f6, f7

MCProcs == {r1, r2, r3, r4, i1, i2, i3, i4, x4, a1, a2}
MCFiles == {f1, f2, f3, f4, f5, f6, f7}
MCGen == (r3 :> {r1}) @@ (r4 :> {r3, r2}) @@ (a1 :> {r3, x4}) @@ (a2 :> {i1}) @@ [p \in MCProcs |-> {}]
MCLoc == (r1 :> f1) @@ (r2 :> f2) @@ (r3 :> f3) @@ (r4 :> f7) @@ (i1 :> f1) @@ (i2 :> f2)
         @@ (i3 :> f3) @@ (i4 :> f7) @@ (x4 :> f4) @@ (a1 :> f5) @@ (a2 :> f6)
MCProjectFile == {r1, r2, r3, r4}
MCStoreFiles == {f1, f2, f3, f7}
MCDirProc == (f1 :> i1) @@ (f2 :> i2) @@ (f3 :> i3) @@ (f7 :> i4)
MCImportProcs == {x4}
MCAddProcs == {a1, a2}

=============================================================================
