---------------------------- MODULE MCDispatcher ----------------------------
(* Small instances of Dispatcher for TLC. *)
EXTENDS DispatcherDelivery, TLC

CONSTANTS s1, s2, d1, d2, i1, i2

\* Sessions and goroutines are interchangeable.
MCSymmetry == Permutations(Sessions) \cup Permutations(Dispatchers)

MCReceived == <<"message", ".", "received">>
MCTypes == {MCReceived}

\* A filter with a wildcard, which the events of the model match.
MCTarget == {[url |-> "u1", events |-> << <<"message", ".", "*">> >>]}
=============================================================================
