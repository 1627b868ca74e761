---------------------------- MODULE MCRawLevelDb ----------------------------
(* RawLevelDb for TLC: batches of one put or deletion, or of two.           *)
EXTENDS RawLevelDb

Put(k) == [key |-> k, live |-> TRUE, value |-> "v"]
Del(k) == [key |-> k, live |-> FALSE, value |-> "v"]

SmallBatches ==
  {<<Put(k)>> : k \in Keys} \cup {<<Del(k)>> : k \in Keys}
    \cup {<<Put(k + 1), Del(k)>> : k \in {i \in Keys : i + 1 \in Keys}}
=============================================================================
