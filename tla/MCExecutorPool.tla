--------------------------- MODULE MCExecutorPool ---------------------------
(* A host list of two machines, and a caller of a single-host method whose *)
(* host has the name of the first and the address of the second.  Whoever  *)
(* connects first under the shared name decides where both work; the first *)
(* machine may never answer.                                               *)
EXTENDS ExecutorPool, TLC

MCName    == "w1" :> "n1" @@ "w2" :> "n2" @@ "s1" :> "n1"
MCAddress == "w1" :> "a1" @@ "w2" :> "a2" @@ "s1" :> "a2"
=============================================================================
