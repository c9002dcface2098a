--------------------------- MODULE MCHealthChecker ---------------------------
(* A node, and two pods of one name in the two namespaces.                 *)
EXTENDS HealthChecker, TLC

MCPlaceOf == "n" :> "nodes" @@ "p" :> "default" @@ "q" :> "kube-system"
MCKeyOf   == "n" :> "n" @@ "p" :> "web" @@ "q" :> "web"

(* Every one else is a change away.                                        *)
State(n, p, q) == "n" :> n @@ "p" :> p @@ "q" :> q
MCClusters == {State("sick", "well", "gone"), State("well", "sick", "well")}
=============================================================================
