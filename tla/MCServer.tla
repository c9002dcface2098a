------------------------------ MODULE MCServer ------------------------------
(* A plain request and a websocket at the same time.                       *)
EXTENDS Server, TLC

MCRoutes == {"r1" :> "http" @@ "r2" :> "ws"}
=============================================================================
