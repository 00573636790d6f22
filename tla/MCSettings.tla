----------------------------- MODULE MCSettings -----------------------------
(* An instance of Settings for TLC: a child, its parent and a third file. *)
EXTENDS Settings

CONSTANTS leaf, root, other

ThreeFiles == {leaf, root, other}
Extensions == [f \in ThreeFiles |-> IF f = root THEN "toml" ELSE "yaml"]

Selector(n, p, l) == [name |-> n, port |-> p, local |-> l]
Single(n, r, l) == [name |-> n, pod |-> FALSE, remote |-> r, local |-> l, all |-> FALSE,
                    sel |-> <<>>, exclude |-> {}, offset |-> 0]
All(n, out, o) == [Single(n, 0, 0) EXCEPT !.all = TRUE, !.exclude = out, !.offset = o]
Some(n, sel, inPod) == [Single(n, 0, 0) EXCEPT !.sel = sel, !.pod = inPod]

ApiService == Single("a", 1, 1)
SamePort == Single("b", 2, 1)
Platform == All("b", {"metrics"}, 2)
Named == Some("a", <<Selector("http", 0, 3), Selector("grpc", 0, 0)>>, FALSE)
Plain == Some("b", <<Selector("http", 0, 0), Selector("grpc", 0, 0)>>, FALSE)
InPod == Some("c", <<Selector("http", 0, 0), Selector("all", 0, 0)>>, TRUE)
Clash == Some("b", <<Selector("http", 1, 4), Selector("http", 0, 2)>>, FALSE)

AddedServices == {ApiService, Platform, Plain}
SvcFlags == {<<x>> : x \in AddedServices} \cup {<<Plain, ApiService, Platform>>}

(* Port lists of a service or pod, one of which the offset takes past the  *)
(* last port.                                                              *)
PortLists == {<<[name |-> "http", port |-> 1], [name |-> "grpc", port |-> 2]>>,
              <<[name |-> "http", port |-> 3], [name |-> "metrics", port |-> 1]>>,
              <<[name |-> "grpc", port |-> 1], [name |-> "metrics", port |-> 2]>>}

Extending(d, f) == [d EXCEPT !.extends = f, !.namespace = ""]
Drafts ==
    {[Blank EXCEPT !.services = <<ApiService, Platform>>, !.latency = 2, !.socks = "on", !.listen = "l1"],
     [Extending(Blank, root) EXCEPT !.services = <<Named, InPod>>, !.jitter = 1, !.socks = "off"],
     [Extending(Blank, other) EXCEPT !.services = <<SamePort, Clash>>, !.key = TRUE, !.interval = 1, !.listen = "l2"]}
=============================================================================
