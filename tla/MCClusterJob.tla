----------------------------- MODULE MCClusterJob -----------------------------
(* Two jobs, with host lists in which no host, one or two carry a registry, *)
(* with and without insecure registries.                                    *)
EXTENDS ClusterJob

Host(name, registry, list, isDeleted) ==
  [name |-> name, registry |-> registry, insecure |-> list,
   isDeleted |-> isDeleted]

MCHosts ==
  {<<>>,
   <<Host("n1", TRUE, <<"r1", "r2">>, FALSE), Host("n2", FALSE, None, TRUE)>>,
   <<Host("n1", TRUE, <<"r1">>, TRUE), Host("n2", TRUE, <<>>, FALSE)>>,
   <<Host("n1", TRUE, <<>>, FALSE)>>}
=============================================================================
