--------------------------- MODULE MCSessionStorage ---------------------------
(* SessionStorage for TLC: two tabs and two origins, the user keys         *)
(* numbered in byte order.                                                 *)
EXTENDS SessionStorage

MapKeyOf(m) == [kind |-> "map", map |-> m, script |-> "s1"]
NsKeyOf(n, h) == [kind |-> "namespace", ns |-> n, host |-> h]

\* key 1 is VERSION
SmallMeaning ==
  <<[kind |-> "other"], MapKeyOf("m1"), MapKeyOf("m2"),
    NsKeyOf("n1", "h1"), NsKeyOf("n1", "h2"),
    NsKeyOf("n2", "h1"), NsKeyOf("n2", "h2")>>

VersionBatch == {<<Put(1, "good")>>}
=============================================================================
