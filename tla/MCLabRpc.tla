------------------------------ MODULE MCLabRpc ------------------------------
(* A small instance of LabRpc for TLC. *)
EXTENDS LabRpc

CONSTANT Crasher   \* the server the test crashes, restarts and cuts off

\* Calls are from or to that server; nothing happens to the others once a call
\* has been made.
OneCrasher ==
    /\ \A c \in DOMAIN calls : Crasher \in {calls[c].end.from, calls[c].end.to}
    /\ calls # <<>> => target = Crasher

=============================================================================
