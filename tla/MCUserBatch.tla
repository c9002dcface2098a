----------------------------- MODULE MCUserBatch -----------------------------
(* Three entries, two of which name the same user.                         *)
EXTENDS UserBatch, TLC

MCUsername == "e1" :> "alice" @@ "e2" :> "alice" @@ "e3" :> "bob"
=============================================================================
