----------------------------- MODULE MCInMemoryCcr -----------------------------
(* Instances of InMemoryCcr for TLC.                                           *)
EXTENDS InMemoryCcr, TLC

CONSTANTS t1, t2, k1, k2, k3

TwoThreads == {t1, t2}
TwoKeys == {k1, k2}
ThreeKeys == {k1, k2, k3}

(* A shard for each key: `len` is as stale as it can be.                       *)
ShardPerKey == {{k} : k \in Keys}

(* In between: two shards, one of which holds two keys.                        *)
TwoShards == {{k1}, Keys \ {k1}}

Symmetric == Permutations(Threads) \cup Permutations(Keys)
===============================================================================
