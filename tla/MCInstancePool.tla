--------------------------- MODULE MCInstancePool ---------------------------
(* Small instances of InstancePool for TLC. *)
EXTENDS InstancePool, TLC

CONSTANTS p1, p2

\* Goroutines are interchangeable.
ProcSymmetry == Permutations({p1, p2})

\* What no step reads any more: what is left in a client object that nothing
\* refers to, whether the last disconnection was expected once it is over, and
\* the phone code of a client that is paired or deleted.
LiveClient(c) ==
    IF c \in Unused THEN NewClient(NoJid)
    ELSE [cl[c] EXCEPT
            !.expected = @ /\ (IsConnected(cl[c]) \/ cl[c].bg \cap {"wait", "dial"} # {}),
            !.phone = @ /\ cl[c].jid = NoJid /\ ~cl[c].deleted]
LiveState ==
    <<row, store, linked, paired, pool, jids, settings, mu, req, faultVars,
      [c \in Clients |-> LiveClient(c)]>>
=============================================================================
