---------------------------- MODULE MCLockService ----------------------------
(* A small instance of LockService for TLC. *)
EXTENDS LockService, LockStore, TLC

Symmetry == Permutations(Server) \cup Permutations(Clerk)

\* Two clerks meet one fault, a change of leader, a restart or an orphaned call;
\* a clerk that is alone meets all of them.
BoundedFaults ==
    (\A c \in Clerk : requestId[c] > 0)
        => elections + restarts + Cardinality(Orphans) <= 2

\* The store that a server makes, over all histories of up to four operations of
\* two clients on two keys, or of three clients on one.
Histories(Key, Id) == UNION {[1 .. n -> Operation(Key, Id)] : n \in 0 .. 4}

ASSUME LockStoreIsFair ==
    /\ \A h \in Histories({1, 2}, {1, 2}) : FirstComeFirstServed(h, {1, 2}, {1, 2})
    /\ \A h \in Histories({1}, {1, 2, 3}) : FirstComeFirstServed(h, {1}, {1, 2, 3})

=============================================================================
