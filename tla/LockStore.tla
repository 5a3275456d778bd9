------------------------------ MODULE LockStore ------------------------------
(***************************************************************************)
(* The lock store of raft-lock/lockStore.go: for each key the queue of     *)
(* clients that own or wait for its lock, the owner first.  LockServer     *)
(* makes one, and applyToStateMachine, which would use it, is empty: the   *)
(* operations are functions here, compared with what a history of them     *)
(* says about who waits for what since when.                               *)
(***************************************************************************)
EXTENDS Integers, Sequences, SequencesExt

\* A store is a Go map: a key without a queue is not in its domain.
Queue(store, key) == IF key \in DOMAIN store THEN store[key] ELSE <<>>

EmptyStore == [key \in {} |-> <<>>]

\* store[key] = queue
Assign(store, key, queue) ==
    [k \in DOMAIN store \cup {key} |-> IF k = key THEN queue ELSE store[k]]

cleanEmpty(store, key) ==
    IF store[key] = <<>> THEN [k \in DOMAIN store \ {key} |-> store[k]] ELSE store

\* A client that owns the lock, or waits for it, keeps its place.
lock(store, key, id) ==
    IF Contains(Queue(store, key), id)
    THEN store
    ELSE Assign(store, key, Append(Queue(store, key), id))

\* The owner gives the lock back, or a waiting client leaves the queue.
unlock(store, key, id) ==
    LET Other(elem) == elem # id
    IN  cleanEmpty(Assign(store, key, SelectSeq(Queue(store, key), Other)), key)

HasOwner(store, key) == key \in DOMAIN store
getLockOwner(store, key) == store[key][1]

-----------------------------------------------------------------------------
(* The reference: what a history of operations says. *)

Operation(Key, Id) == [type : {"lock", "unlock"}, key : Key, id : Id]

Apply(store, op) ==
    IF op.type = "lock" THEN lock(store, op.key, op.id) ELSE unlock(store, op.key, op.id)

After(history) == FoldLeft(Apply, EmptyStore, history)

\* When the client asked for the lock it owns or waits for: the first time since
\* it last unlocked the key.  0 if it does not.
Since(history, key, id) ==
    LET Of(type) == {i \in DOMAIN history : history[i] = [type |-> type, key |-> key, id |-> id]}
        gone == {0} \cup Of("unlock")
        open == {i \in Of("lock") : \A g \in gone : g < i}
    IN  IF open = {} THEN 0 ELSE CHOOSE i \in open : \A j \in open : i <= j

\* lock, unlock and getLockOwner: for every history a key is in the store if and
\* only if somebody wants its lock, and its queue holds each such client once,
\* in the order in which they asked, so that getLockOwner never reads an empty
\* queue and nobody is overtaken.
FirstComeFirstServed(history, Key, Id) ==
    LET store == After(history)
        Wants(key) == {id \in Id : Since(history, key, id) # 0}
    IN  \A key \in Key :
            /\ HasOwner(store, key) <=> Wants(key) # {}
            /\ ToSet(Queue(store, key)) = Wants(key)
            /\ \A i, j \in DOMAIN Queue(store, key) :
                  i < j => Since(history, key, Queue(store, key)[i])
                             < Since(history, key, Queue(store, key)[j])
            /\ HasOwner(store, key) =>
                  \A id \in Wants(key) :
                      Since(history, key, getLockOwner(store, key)) <= Since(history, key, id)

=============================================================================
