---------------------------- MODULE ReplicatedLog ----------------------------
(***************************************************************************)
(* What a service sees of the Raft library of raft/raft.go, and what it    *)
(* is promised: Start on a server that believes to lead appends to that    *)
(* server's log, an entry that is agreed on stays and is handed to every   *)
(* server at the same index, and everything else may be lost.  Raft models *)
(* the library itself, and where it falls short of this; here a server     *)
(* only has its log, and a new leader holds all that was agreed on.        *)
(***************************************************************************)
EXTENDS Integers, Sequences

CONSTANTS
    Server,        \* the servers of the cluster
    NoServer,      \* stands for "no leader"
    MaxLog,        \* bound: Start appends no entry above this index
    MaxElections   \* bound: elections won

ASSUME ServerAssumption == NoServer \notin Server
ASSUME LogBoundAssumption ==
    MaxLog \in Nat /\ MaxElections \in Nat

VARIABLES
    log,          \* the log of each server, persistent
    leading,      \* servers whose GetState says they lead
    leader,       \* the one of them whose entries can be agreed on
    elections,    \* number of elections won
    agreed,       \* the entries agreed on
    commitIndex,
    lastApplied   \* last index the service took from applyCh

logVars == <<log, leading, leader, elections, agreed, commitIndex, lastApplied>>

RLInit ==
    /\ log = [s \in Server |-> <<>>]
    /\ leading = {}
    /\ leader = NoServer
    /\ elections = 0
    /\ agreed = <<>>
    /\ commitIndex = [s \in Server |-> 0]
    /\ lastApplied = [s \in Server |-> 0]

IsPrefixOf(p, l) == Len(p) <= Len(l) /\ SubSeq(l, 1, Len(p)) = p

\* A server wins an election.  Others may go on believing that they lead.
Elect(s) ==
    /\ elections < MaxElections
    /\ s # leader
    /\ IsPrefixOf(agreed, log[s])
    /\ elections' = elections + 1
    /\ leader' = s
    /\ leading' = leading \cup {s}
    /\ UNCHANGED <<log, agreed, commitIndex, lastApplied>>

\* A server takes over the log and the commit index of the leader.
Replicate(s) ==
    /\ leader # NoServer /\ leader # s
    /\ log' = [log EXCEPT ![s] = log[leader]]
    /\ commitIndex' = [commitIndex EXCEPT
                         ![s] = IF @ < commitIndex[leader] THEN commitIndex[leader] ELSE @]
    /\ leading' = leading \ {s}
    /\ UNCHANGED <<leader, elections, agreed, lastApplied>>

\* The leader commits its next entry.
Agree ==
    /\ leader # NoServer
    /\ commitIndex[leader] < Len(log[leader])
    /\ commitIndex' = [commitIndex EXCEPT ![leader] = @ + 1]
    /\ agreed' = IF commitIndex[leader] = Len(agreed)
                 THEN Append(agreed, log[leader][Len(agreed) + 1])
                 ELSE agreed
    /\ UNCHANGED <<log, leading, leader, elections, lastApplied>>

\* Start on a server that believes to lead: the entry gets the next index.
Start(s, cmd) ==
    /\ s \in leading
    /\ Len(log[s]) < MaxLog
    /\ log' = [log EXCEPT ![s] = Append(@, cmd)]
    /\ UNCHANGED <<leading, leader, elections, agreed, commitIndex, lastApplied>>

\* The service receives the next committed entry from applyCh.  Entries in the
\* channel, or about to be sent, cannot change any more.
ReceiveApply(s) ==
    /\ lastApplied[s] < commitIndex[s]
    /\ lastApplied' = [lastApplied EXCEPT ![s] = @ + 1]
    /\ UNCHANGED <<log, leading, leader, elections, agreed, commitIndex>>

\* A new instance has the log of the old one and applies it from the start.
RestartLog(s) ==
    /\ leading' = leading \ {s}
    /\ leader' = IF leader = s THEN NoServer ELSE leader
    /\ commitIndex' = [commitIndex EXCEPT ![s] = 0]
    /\ lastApplied' = [lastApplied EXCEPT ![s] = 0]
    /\ UNCHANGED <<log, elections, agreed>>

RaftStep ==
    \/ Agree
    \/ \E s \in Server : Elect(s) \/ Replicate(s)

=============================================================================
