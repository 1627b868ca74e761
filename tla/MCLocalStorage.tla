---------------------------- MODULE MCLocalStorage ----------------------------
(* LocalStorage for TLC.  The user keys, in byte order: META:h1, META:h2,   *)
(* VERSION, _h1\x00s1, _h1\x00s2 and _h2\x00s1.  The browser writes a META  *)
(* and records of its storage key in one batch, after the deletions of a    *)
(* clear() if there was one, deletes both when a storage area gets empty,   *)
(* and writes VERSION alone.  One META is damaged.                          *)
EXTENDS LocalStorage

Means(kind, h, s) == [kind |-> kind, host |-> h, script |-> s]

SmallMeaning ==
  <<Means("meta", "h1", "s1"), Means("meta", "h2", "s1"),
    Means("other", "h1", "s1"), Means("record", "h1", "s1"),
    Means("record", "h1", "s2"), Means("record", "h2", "s1")>>

Put(k) == [key |-> k, live |-> TRUE, value |-> "good"]
PutBad(k) == [key |-> k, live |-> TRUE, value |-> "bad"]
PutHuge(k) == [key |-> k, live |-> TRUE, value |-> "huge"]
Del(k) == [key |-> k, live |-> FALSE, value |-> "good"]

SmallBatches ==
  { <<Put(1), Put(4)>>,
    <<Put(1), Put(4), Del(5)>>,
    <<Put(1), PutBad(5), Put(4)>>,
    <<Del(4), Put(1), Put(5)>>,
    <<Del(1), Del(4)>>,
    <<Put(2), Put(6)>>,
    <<PutHuge(2), Put(6)>>,
    <<Put(3)>> }
=============================================================================
