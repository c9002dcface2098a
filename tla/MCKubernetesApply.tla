-------------------------- MODULE MCKubernetesApply --------------------------
(* Two manifests that give an object the same name.                        *)
EXTENDS KubernetesApply

MCObject == [f \in File |-> "o"]
=============================================================================
