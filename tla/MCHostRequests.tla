--------------------------- MODULE MCHostRequests ---------------------------
(* Names "a" and "ab", of which one is within the other, "a~", which looks *)
(* like "a" to sed, and an alias "c"; lines with tabs; addresses "i1" and   *)
(* "i11"; two mounts of one device and one of another.                    *)
EXTENDS HostRequests, TLC

Entry(ip, names)  == [ip |-> ip, names |-> names, spaced |-> TRUE]
Tabbed(ip, names) == [ip |-> ip, names |-> names, spaced |-> FALSE]

MCRecord == {[ip |-> "i1", domain |-> "a"], [ip |-> "i2", domain |-> "a"],
             [ip |-> "i1", domain |-> "b"]}

MCStart ==
  {[hosts  |-> File(<<>>, FALSE),
    resolv |-> <<>>],
   [hosts  |-> File(<<Entry("x", <<"a", "c">>), Entry("y", <<"b">>)>>, FALSE),
    resolv |-> <<Nameserver("i3"), Nameserver("i11")>>],
   [hosts  |-> File(<<Entry("x", <<"c", "a">>), Entry("y", <<"ab">>)>>, FALSE),
    resolv |-> <<[ip |-> "i2", comment |-> TRUE]>>],
   [hosts  |-> File(<<Tabbed("x", <<"a">>), Entry("y", <<"a~">>)>>, FALSE),
    resolv |-> <<>>]}

MCForeign == File(<<Entry("z", <<"c">>)>>, FALSE)

MCWithin == {<<"a", "ab">>, <<"i1", "i11">>}

MCMatching == {<<<<"a~">>, "a">>}

MCDeviceOf == "m1" :> "sdb" @@ "m2" :> "sdb" @@ "m3" :> "sdc"

MCManifest == {Yaml("absent", <<>>), Yaml("bare", <<>>), Yaml("other", <<>>),
               Yaml("pod", <<>>), Yaml("pod", <<"A">>)}

Requests == Permutations(FileRequest) \cup Permutations(ConfigRequest)
=============================================================================
