------------------------------- MODULE MCRaft -------------------------------
(* Small instances of Raft for TLC. *)
EXTENDS Raft, TLC

CommandSymmetry == Permutations(Command)

\* Election goroutines alive, before or after they took the lock.
Elections == SumFunction(spawned) + BagCardinality(voteReq) + BagCardinality(voteRep)

\* Election timers that have stopped only take behaviours away, so that where
\* safety is checked all of them may be taken to run.
TimersRun == armed = Server

\* Servers 0 and 1 campaign, also at the same time, and exchange heartbeats while
\* one of them does; server 2 just votes.  Server 0 or 2 restarts, or one call is
\* handled after it was reported as failed.
TwoCandidates ==
    /\ TimersRun
    /\ spawned[2] = 0
    /\ SumFunction(spawned) <= 1
    /\ Elections <= 2
    /\ \A b \in DOMAIN beat : b.to # 2
    /\ Beats > 0 => Elections <= 1
    /\ epoch[1] = 0
    /\ BagCardinality(Orphans(voteReq)) + BagCardinality(Orphans(appReq))
         + SumFunction(epoch) <= 1

\* Server 0 campaigns in odd terms and server 1 in even ones, one at a time;
\* heartbeats reach those two only, so that server 2 just votes.
Rota ==
    /\ Elections <= 1
    /\ \A b \in DOMAIN beat : b.to # 2
    /\ \A i \in Server : role[i] # Follower => i = (currentTerm[i] + 1) % 2

\* Server 0 leads term 1 and server 1 term 2; 0 sends heartbeats to 1, 1 to 2.
Chain ==
    /\ TimersRun
    /\ Elections <= 1
    /\ \A i \in Server : role[i] # Follower => i = currentTerm[i] - 1
    /\ \A b \in DOMAIN beat : b.to = b.from + 1

\* Server 1 never campaigns; server 2 campaigns after server 0 restarted.
Reelected ==
    /\ TimersRun
    /\ Elections <= 1
    /\ spawned[1] = 0
    /\ epoch[1] = 0 /\ epoch[2] = 0
    /\ spawned[2] > 0 \/ role[2] # Follower => epoch[0] = 1

\* Server 0 leads term 1, and server 1 campaigns in term 2.
Overtaken ==
    /\ Elections <= 1
    /\ \A i \in Server : role[i] # Follower => i = currentTerm[i] - 1

=============================================================================
