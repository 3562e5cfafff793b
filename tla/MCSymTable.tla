---------------------------- MODULE MCSymTable ----------------------------
(* Instances of SymTableScopes.                                            *)
EXTENDS SymTableScopes

(* With two buckets: two chains of two names each.  No name is a prefix of *)
(* another one in its chain, though <<2>> is one of <<2, 1>>.              *)
DistinctNames == {<<1>>, <<3>>, <<2>>, <<2, 1>>}
DistinctHash == [name \in DistinctNames |-> byte_sum(name)]

(* x and xa_, in the code's 32 buckets.                                    *)
PrefixNames == {<<120>>, <<120, 97, 95>>}
PrefixHash == [name \in PrefixNames |-> byte_sum(name)]
===========================================================================
