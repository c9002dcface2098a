----------------------------- MODULE MCFileCopy -----------------------------
(* A CopyMultiFile of two files, one without files, and a CopyFile, all    *)
(* with one base name.                                                     *)
EXTENDS FileCopy, TLC

MCCallOf == "f1" :> "multi" @@ "f2" :> "multi" @@ "f3" :> "single"
=============================================================================
