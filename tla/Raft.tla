-------------------------------- MODULE Raft --------------------------------
(***************************************************************************)
(* The Raft library of raft/raft.go.                                       *)
(*                                                                         *)
(* Every critical section of rf.mu is one action.  What runs without the   *)
(* lock is a goroutine that waits for an RPC: the goroutine of election()  *)
(* and the goroutines of heartbeat().  A waiting goroutine is represented  *)
(* by its call, which is in one of the bags below, together with the local *)
(* variables it will use when the call returns.                            *)
(*                                                                         *)
(* The code's log starts with a dummy entry of term 0; here log[i] holds   *)
(* the real entries only, so the code's len(rf.log) is Len(log[i]) + 1 and *)
(* an index means the same in both.  Durations are left out: a timer that  *)
(* runs may expire in every state.                                         *)
(*                                                                         *)
(* A Slip_ operator is the definition after it with a likely mistake; it   *)
(* only serves to confirm that a property would notice it.                 *)
(***************************************************************************)
EXTENDS Integers, Sequences, FiniteSets, Bags, Functions

Calls == INSTANCE BagsExt               \* bags of pending calls

CONSTANTS
    N,            \* number of servers, len(rf.peers)
    Command,      \* the commands clients pass to Start
    MaxTerm,      \* bound: no election starts a term above it
    MaxLog,       \* bound: Start appends no entry above this index
    MaxRestarts,  \* bound: crashes followed by a restart, over all servers
    MaxSpawned,   \* bound: election goroutines of one server awaiting the lock
    MaxBeats,     \* bound: heartbeat goroutines alive at the same time
    MaxOrphans    \* bound: failed calls of one kind still to be handled

ASSUME NAssumption == N \in Nat /\ N >= 2
ASSUME BoundAssumption ==
    /\ MaxTerm \in Nat
    /\ MaxLog \in Nat
    /\ MaxRestarts \in Nat
    /\ MaxSpawned \in Nat
    /\ MaxBeats \in Nat
    /\ MaxOrphans \in Nat

Server == 0 .. N - 1

None == -1                              \* votedFor = -1

Follower  == "Follower"
Candidate == "Candidate"
Leader    == "Leader"
Role == {Follower, Candidate, Leader}

Entry == [term : Nat, cmd : Command]

VARIABLES
    currentTerm, votedFor, role, log, commitIndex, lastApplied,
    nextIndex, matchIndex,
    disk,        \* what the persister of each server holds
    armed,       \* servers whose election timer is running
    spawned,     \* "go rf.election()" that have not taken the lock yet
    epoch,       \* incarnations: start1 gives each one fresh client ends
    panicked,    \* servers stopped by an index out of range
    voteReq,     \* RequestVote calls not yet handled
    voteRep,     \* RequestVote replies not yet received
    beat,        \* heartbeat goroutines at the head of their loop
    appReq,      \* AppendEntries calls not yet handled
    appRep,      \* AppendEntries replies not yet received
    ballots,     \* history: <<voter, term, candidate>> for each vote granted
    applied      \* history: <<index, entry>> for each message on an applyCh

serverVars == <<currentTerm, votedFor, role>>
logVars    == <<log, commitIndex, lastApplied>>
leaderVars == <<nextIndex, matchIndex>>
voteCalls  == <<voteReq, voteRep>>
appCalls   == <<beat, appReq, appRep>>
history    == <<ballots, applied>>
vars == <<serverVars, logVars, leaderVars, disk, armed, spawned, epoch, panicked,
          voteCalls, appCalls, history>>

-----------------------------------------------------------------------------
(* Helpers *)

Majority(S) == Cardinality(S) > N \div 2

TermAt(l, k) == IF k = 0 THEN 0 ELSE l[k].term
LastIndex(l) == Len(l)
LastTerm(l)  == TermAt(l, Len(l))

\* The log l is more up to date than one that ends at (index, term).
MoreUpToDate(l, index, term) ==
    \/ LastTerm(l) > term
    \/ LastTerm(l) = term /\ LastIndex(l) > index

Disk == [term : Nat, votedFor : Server \cup {None}, log : Seq(Entry)]
Slip_SnapshotOrder(term, vote, l) == [term |-> vote, votedFor |-> term, log |-> l]
Slip_SnapshotLog(term, vote, l) == [term |-> term, votedFor |-> vote, log |-> <<>>]
Snapshot(term, vote, l) == [term |-> term, votedFor |-> vote, log |-> l]

\* persist() at the end of a critical section that leaves l as the log.
Slip_PersistNothing(i, l) == disk' = disk
Slip_PersistOldTerm(i, l) ==
    disk' = [disk EXCEPT ![i] = Snapshot(currentTerm[i], votedFor'[i], l)]
Persist(i, l) ==
    disk' = [disk EXCEPT ![i] = Snapshot(currentTerm'[i], votedFor'[i], l)]

\* Goroutines that are in heartbeat().
Beats == BagCardinality(beat) + BagCardinality(appReq) + BagCardinality(appRep)

\* A slice index out of range stops the process of server i.
PanicIf(cond, i) == panicked' = IF cond THEN panicked \cup {i} ELSE panicked

\* resetElectionTimer
ResetElectionTimer(i) == armed' = armed \cup {i}

\* A server that learns of a higher term from a reply follows and saves it.
StepDown(i, term) ==
    IF currentTerm[i] < term
    THEN /\ currentTerm' = [currentTerm EXCEPT ![i] = term]
         /\ role' = [role EXCEPT ![i] = Follower]
         /\ votedFor' = [votedFor EXCEPT ![i] = None]
         /\ ResetElectionTimer(i)
         /\ Persist(i, log[i])
    ELSE UNCHANGED <<serverVars, disk, armed>>

-----------------------------------------------------------------------------
(* Messages *)

\* A RequestVote call of an election goroutine.  votes is the set of servers
\* counted in VotesGranted; the peers up to "to" are counted in VoteCount.
VoteReq == [from : Server, to : Server, term : Nat, lastIndex : Nat,
            lastTerm : Nat, votes : SUBSET Server, epoch : Nat \cup {None}]
VoteRep == [call : VoteReq, term : Nat, granted : BOOLEAN]

Beat   == [from : Server, to : Server, term : Nat, next : Nat]
AppReq == [from : Server, to : Server, term : Nat, next : Nat \ {0},
           prevTerm : Nat, entries : Seq(Entry), commit : Nat,
           epoch : Nat \cup {None}]
AppRep == [call : AppReq, term : Nat \cup {-1}, success : BOOLEAN,
           newIndex : Nat, newTerm : Nat]

\* Only the incarnation that sent a call receives its reply, and only while its
\* Call has not returned.
Awaited(m) == m.epoch = epoch[m.from]

\* labrpc can report a failed Call while the handler has still to run.
Orphan(m) == [m EXCEPT !.epoch = None]

\* What is left of the pending calls when Call(m) fails before the handler ran.
Orphans(calls) == [m \in {x \in DOMAIN calls : x.epoch = None} |-> calls[m]]

AfterFailure(calls, m) ==
    {Calls!BagRemove(calls, m)} \cup
    IF BagCardinality(Orphans(calls)) < MaxOrphans
    THEN {Calls!BagAdd(Calls!BagRemove(calls, m), Orphan(m))}
    ELSE {}

ReplyVote(m, term, granted) ==
    /\ voteReq' = Calls!BagRemove(voteReq, m)
    /\ voteRep' = IF Awaited(m)
                  THEN Calls!BagAdd(voteRep, [call |-> m, term |-> term, granted |-> granted])
                  ELSE voteRep

ReplyAppend(m, term, success, newIndex, newTerm) ==
    /\ appReq' = Calls!BagRemove(appReq, m)
    /\ appRep' = IF Awaited(m)
                 THEN Calls!BagAdd(appRep, [call |-> m, term |-> term, success |-> success,
                                      newIndex |-> newIndex, newTerm |-> newTerm])
                 ELSE appRep

-----------------------------------------------------------------------------
(* Elections *)

\* ticker: the election timer expired and shouldStartElection saw no leader.  The
\* timer is reset, and the election runs in a goroutine that takes the lock later.
ElectionTimeout(i) ==
    /\ i \in armed
    /\ role[i] # Leader
    /\ spawned[i] < MaxSpawned
    /\ spawned' = [spawned EXCEPT ![i] = @ + 1]
    /\ UNCHANGED <<serverVars, logVars, leaderVars, disk, armed, epoch, panicked,
                   voteCalls, appCalls, history>>

\* ticker: the election timer of a leader expired, and is not reset.
LeaderTimeout(i) ==
    /\ i \in armed
    /\ role[i] = Leader
    /\ armed' = armed \ {i}
    /\ UNCHANGED <<serverVars, logVars, leaderVars, disk, spawned, epoch, panicked,
                   voteCalls, appCalls, history>>

\* Peers are called in index order, the candidate i left out: the one after k.
NextPeer(i, k) == IF k + 1 = i THEN k + 2 ELSE k + 1

\* Entry of election(): the candidate votes for itself in a new term, without
\* persisting either, and calls its first peer.
ElectionStart(i) ==
    /\ spawned[i] > 0
    /\ currentTerm[i] < MaxTerm
    /\ spawned' = [spawned EXCEPT ![i] = @ - 1]
    /\ role' = [role EXCEPT ![i] = Candidate]
    /\ votedFor' = [votedFor EXCEPT ![i] = i]
    /\ currentTerm' = [currentTerm EXCEPT ![i] = @ + 1]
    /\ ResetElectionTimer(i)
    /\ voteReq' = Calls!BagAdd(voteReq,
                    [from |-> i, to |-> NextPeer(i, -1), term |-> currentTerm'[i],
                     lastIndex |-> LastIndex(log[i]), lastTerm |-> LastTerm(log[i]),
                     votes |-> {i}, epoch |-> epoch[i]])
    /\ UNCHANGED <<logVars, leaderVars, disk, epoch, panicked, voteRep, appCalls, history>>

\* Handler, request of an older term.
RequestVoteStale(m) ==
    /\ m.term < currentTerm[m.to]
    /\ ReplyVote(m, currentTerm[m.to], FALSE)
    /\ UNCHANGED <<serverVars, disk, armed, ballots>>

\* Handler, request of the server's own term: only a repeated vote is granted.
GrantsAgain(m) == role[m.to] # Leader /\ votedFor[m.to] = m.from

RequestVoteSameTerm(m) ==
    /\ m.term = currentTerm[m.to]
    /\ ReplyVote(m, currentTerm[m.to], GrantsAgain(m))
    /\ ballots' = IF GrantsAgain(m) THEN ballots \cup {<<m.to, m.term, m.from>>} ELSE ballots
    /\ UNCHANGED <<serverVars, disk, armed>>

\* Handler, request of a newer term: the term is adopted whatever the vote, and
\* both are persisted; only a vote resets the timer.  reply.Term is the term before.
RequestVoteNewTerm(m) ==
    LET i == m.to
        granted == ~MoreUpToDate(log[i], m.lastIndex, m.lastTerm)
    IN  /\ m.term > currentTerm[i]
        /\ currentTerm' = [currentTerm EXCEPT ![i] = m.term]
        /\ role' = [role EXCEPT ![i] = Follower]
        /\ votedFor' = [votedFor EXCEPT ![i] = IF granted THEN m.from ELSE None]
        /\ IF granted THEN ResetElectionTimer(i) ELSE UNCHANGED armed
        /\ Persist(i, log[i])
        /\ ReplyVote(m, currentTerm[i], granted)
        /\ ballots' = IF granted THEN ballots \cup {<<i, m.term, m.from>>} ELSE ballots

RequestVote(m) ==
    /\ m.to \notin panicked
    /\ \/ RequestVoteStale(m)
       \/ RequestVoteSameTerm(m)
       \/ RequestVoteNewTerm(m)
    /\ UNCHANGED <<logVars, leaderVars, spawned, epoch, panicked, appCalls, applied>>

\* VoteCount counts the candidate and every peer up to m.to.
Asked(m) == {m.from} \cup 0 .. m.to

\* The loop of election() calls the next peer unless the votes are decided.
Decided(m, votes) ==
    \/ Majority(votes)
    \/ Majority(Asked(m) \ votes)
    \/ NextPeer(m.from, m.to) \notin Server

AskNext(reqs, m, votes) ==
    voteReq' = IF Decided(m, votes)
               THEN reqs
               ELSE Calls!BagAdd(reqs, [m EXCEPT !.to = NextPeer(m.from, m.to), !.votes = votes])

\* End of election(): a majority makes the server leader if it is still the
\* candidate of that term.
Slip_WinElection(i, term) ==
    IF role[i] = Candidate
    THEN /\ role' = [role EXCEPT ![i] = Leader]
         /\ UNCHANGED leaderVars
    ELSE UNCHANGED <<role, leaderVars>>
WinElection(i, term) ==
    IF currentTerm[i] = term /\ role[i] = Candidate
    THEN /\ role' = [role EXCEPT ![i] = Leader]
         /\ nextIndex' = [nextIndex EXCEPT ![i] = [j \in Server |-> LastIndex(log[i]) + 1]]
         /\ matchIndex' = [matchIndex EXCEPT ![i] =
                             [j \in Server |-> IF j = i THEN LastIndex(log[i]) ELSE 0]]
    ELSE UNCHANGED <<role, leaderVars>>

\* The election goroutine receives a vote.
VoteGranted(r) ==
    LET i == r.call.from
        votes == r.call.votes \cup {r.call.to}
    IN  /\ r.granted
        /\ voteRep' = Calls!BagRemove(voteRep, r)
        /\ AskNext(voteReq, r.call, votes)
        /\ IF Majority(votes)
           THEN WinElection(i, r.call.term)
           ELSE UNCHANGED <<role, leaderVars>>
        /\ UNCHANGED <<currentTerm, votedFor, disk, armed>>

\* The election goroutine receives a refusal, which may carry a newer term; it
\* goes on asking even after it stepped down.
VoteRefused(r) ==
    /\ ~r.granted
    /\ voteRep' = Calls!BagRemove(voteRep, r)
    /\ AskNext(voteReq, r.call, r.call.votes)
    /\ IF r.term > r.call.term
       THEN StepDown(r.call.from, r.term)
       ELSE UNCHANGED <<serverVars, disk, armed>>
    /\ UNCHANGED leaderVars

HandleVoteReply(r) ==
    /\ r.call.from \notin panicked
    /\ VoteGranted(r) \/ VoteRefused(r)
    /\ UNCHANGED <<logVars, spawned, epoch, panicked, appCalls, history>>

\* A lost request or reply: Call returns false, the reply is left zero and
\* counts as a refusal of term 0.
LoseVoteReq(m) ==
    /\ Awaited(m)
    /\ m.from \notin panicked
    /\ \E reqs \in AfterFailure(voteReq, m) : AskNext(reqs, m, m.votes)
    /\ UNCHANGED <<serverVars, logVars, leaderVars, disk, armed, spawned, epoch,
                   panicked, voteRep, appCalls, history>>

LoseVoteRep(r) ==
    /\ r.call.from \notin panicked
    /\ voteRep' = Calls!BagRemove(voteRep, r)
    /\ AskNext(voteReq, r.call, r.call.votes)
    /\ UNCHANGED <<serverVars, logVars, leaderVars, disk, armed, spawned, epoch,
                   panicked, appCalls, history>>

-----------------------------------------------------------------------------
(* Replication *)

\* Start, called on the leader by a client.
Start(i, c) ==
    /\ role[i] = Leader
    /\ LastIndex(log[i]) < MaxLog
    /\ log' = [log EXCEPT ![i] = Append(@, [term |-> currentTerm[i], cmd |-> c])]
    /\ matchIndex' = [matchIndex EXCEPT ![i][i] = LastIndex(log[i]) + 1]
    /\ UNCHANGED <<serverVars, commitIndex, lastApplied, nextIndex, armed, spawned, epoch,
                   panicked, voteCalls, appCalls, history>>
    /\ Persist(i, log'[i])

\* requestHeartbeats: one goroutine per peer, with the term and nextIndex of
\* this moment.
HeartbeatTick(i, j) ==
    /\ role[i] = Leader
    /\ j # i
    /\ Beats < MaxBeats
    /\ beat' = Calls!BagAdd(beat, [from |-> i, to |-> j, term |-> currentTerm[i],
                             next |-> nextIndex[i][j]])
    /\ UNCHANGED <<serverVars, logVars, leaderVars, disk, armed, spawned, epoch, panicked,
                   voteCalls, appReq, appRep, history>>

\* The head of the loop of heartbeat(): the goroutine ends unless the server
\* still leads that term; otherwise it sends the log from next to the end.
SendAppend(b) ==
    LET i == b.from
        l == log[i]
        leads == role[i] = Leader /\ currentTerm[i] = b.term
        inRange == b.next \in 1 .. LastIndex(l) + 1
    IN  /\ i \notin panicked
        /\ beat' = Calls!BagRemove(beat, b)
        /\ PanicIf(leads /\ ~inRange, i)
        /\ appReq' = IF leads /\ inRange
                     THEN Calls!BagAdd(appReq,
                            [from |-> i, to |-> b.to, term |-> b.term, next |-> b.next,
                             prevTerm |-> TermAt(l, b.next - 1),
                             entries |-> SubSeq(l, b.next, LastIndex(l)),
                             commit |-> commitIndex[i], epoch |-> epoch[i]])
                     ELSE appReq
        /\ UNCHANGED <<serverVars, logVars, leaderVars, disk, armed, spawned, epoch,
                       voteCalls, appRep, history>>

\* checkTermWithLeader: a request of an older term is refused.
Slip_AcceptsTerm(m) == TRUE
AcceptsTerm(m) == m.term >= currentTerm[m.to]

\* becomeFollower: a newer term is adopted, and nothing
\* is persisted here.
AdoptTerm(i, term) ==
    IF currentTerm[i] < term
    THEN /\ currentTerm' = [currentTerm EXCEPT ![i] = term]
         /\ votedFor' = [votedFor EXCEPT ![i] = None]
         /\ role' = [role EXCEPT ![i] = Follower]
    ELSE UNCHANGED serverVars

\* lookConsistency: entries that end before the server's own log are refused.
Behind(l, m) ==
    /\ Len(m.entries) > 0
    /\ MoreUpToDate(l, m.next - 1 + Len(m.entries), LastTerm(m.entries))

\* The server's log has the entry that precedes m.entries.
Slip_PrevMatches(l, m) == m.next - 1 <= LastIndex(l)
PrevMatches(l, m) ==
    /\ m.next - 1 <= LastIndex(l)
    /\ TermAt(l, m.next - 1) = m.prevTerm

\* The log after a matching request: all that follows m.next - 1 is replaced.
Spliced(l, m) == SubSeq(l, 1, m.next - 1) \o m.entries

\* The code bounds LeaderCommit by len(rf.log), one more than the last index.
CommitBound(l) == LastIndex(l) + 1

\* updateCommitIndexAndNotify.
FollowerCommit(l, commit, leaderCommit) ==
    IF commit >= leaderCommit THEN commit
    ELSE IF leaderCommit > CommitBound(l) THEN CommitBound(l) ELSE leaderCommit

\* findConflictIndex: walk back over the term found at start, down to commit.
IsConflictIndex(l, start, commit, k) ==
    /\ k \in 0 .. start
    /\ \A x \in k + 1 .. start : x > commit /\ TermAt(l, x) = TermAt(l, start)
    /\ k <= commit \/ TermAt(l, k) # TermAt(l, start)

\* Handler, request of an older term.
AppendEntriesStale(m) ==
    /\ ~AcceptsTerm(m)
    /\ ReplyAppend(m, currentTerm[m.to], FALSE, 0, 0)
    /\ UNCHANGED <<serverVars, log, commitIndex, disk>>

\* Handler, the server's log is ahead of the entries: reply.Term = -1.
AppendEntriesBehind(m) ==
    /\ AcceptsTerm(m)
    /\ Behind(log[m.to], m)
    /\ AdoptTerm(m.to, m.term)
    /\ ReplyAppend(m, -1, FALSE, 0, 0)
    /\ UNCHANGED <<log, commitIndex, disk>>

\* Handler, the logs agree at m.next - 1.  The rest of the log is replaced, also
\* by a heartbeat without entries, and the state is persisted.  The reply holds
\* the term before the request; its index is not read when it succeeds.
AppendEntriesMatch(m) ==
    LET i == m.to
    IN  /\ AcceptsTerm(m)
        /\ ~Behind(log[i], m)
        /\ PrevMatches(log[i], m)
        /\ AdoptTerm(i, m.term)
        /\ log' = [log EXCEPT ![i] = Spliced(@, m)]
        /\ commitIndex' = [commitIndex EXCEPT ![i] = FollowerCommit(log'[i], @, m.commit)]
        /\ Persist(i, log'[i])
        /\ ReplyAppend(m, currentTerm[i], TRUE, 0, 0)

\* Handler, the log is too short or has another term at m.next - 1: the reply
\* says where to try again.  A new term was adopted, but is not persisted.
AppendEntriesConflict(m) ==
    LET i == m.to
        l == log[i]
        prev == m.next - 1
    IN  /\ AcceptsTerm(m)
        /\ ~Behind(l, m)
        /\ ~PrevMatches(l, m)
        /\ AdoptTerm(i, m.term)
        /\ IF prev > LastIndex(l)
           THEN ReplyAppend(m, currentTerm[i], FALSE, LastIndex(l), LastTerm(l))
           ELSE \E k \in 0 .. prev :
                  /\ IsConflictIndex(l, prev, commitIndex[i], k)
                  /\ ReplyAppend(m, currentTerm[i], FALSE, k, TermAt(l, k))
        /\ UNCHANGED <<log, commitIndex, disk>>

AppendEntries(m) ==
    /\ m.to \notin panicked
    /\ \/ AppendEntriesStale(m)
       \/ AppendEntriesBehind(m)
       \/ AppendEntriesMatch(m)
       \/ AppendEntriesConflict(m)
    /\ ResetElectionTimer(m.to)
    /\ UNCHANGED <<lastApplied, leaderVars, spawned, epoch, panicked, voteCalls, beat, history>>

\* isMajorityReplicated
Replicated(match, k) == Majority({j \in Server : match[j] >= k})

\* updateCommitIndex: c is the index at which its loop ends.
IsCommitUpTo(l, match, commit, c) ==
    /\ \A k \in commit + 1 .. c : Replicated(match, k)
    /\ c < CommitBound(l) => ~Replicated(match, c + 1)

\* A heartbeat goroutine receives the reply of a server whose log is ahead.
AppendRefused(r) ==
    /\ ~r.success /\ r.term = -1
    /\ UNCHANGED <<serverVars, commitIndex, leaderVars, disk, armed, panicked, beat>>

\* ... or a newer term.
AppendNewTerm(r) ==
    /\ r.term > r.call.term
    /\ StepDown(r.call.from, r.term)
    /\ UNCHANGED <<commitIndex, leaderVars, panicked, beat>>

\* ... or a success.  The code does not ask whether the server still leads the
\* term of the call.
AppendSucceeded(r) ==
    LET i == r.call.from
        j == r.call.to
        sent == r.call.entries
        match == [matchIndex[i] EXCEPT ![j] = r.call.next - 1 + Len(sent)]
    IN  /\ r.success
        /\ r.term <= r.call.term
        /\ nextIndex' = [nextIndex EXCEPT ![i][j] = r.call.next + Len(sent)]
        /\ matchIndex' = [matchIndex EXCEPT ![i] = match]
        /\ IF Len(sent) > 0 /\ LastTerm(sent) = currentTerm[i]
           THEN \E c \in {commitIndex[i]} \cup commitIndex[i] .. CommitBound(log[i]) :
                  /\ IsCommitUpTo(log[i], match, commitIndex[i], c)
                  /\ commitIndex' = [commitIndex EXCEPT ![i] = c]
           ELSE UNCHANGED commitIndex
        /\ UNCHANGED <<serverVars, disk, armed, panicked, beat>>

\* adjustNextBasedOnReply
AdjustedNext(l, newIndex, newTerm) ==
    IF TermAt(l, newIndex) = newTerm THEN newIndex + 1 ELSE newIndex

\* The goroutine goes back to the head of its loop with another next, taken
\* from a log that may have lost newIndex meanwhile.
Retry(m, newIndex, newTerm) ==
    LET i == m.from
        inRange == newIndex <= LastIndex(log[i])
    IN  /\ PanicIf(~inRange, i)
        /\ beat' = IF inRange
                   THEN Calls!BagAdd(beat, [from |-> i, to |-> m.to, term |-> m.term,
                                      next |-> AdjustedNext(log[i], newIndex, newTerm)])
                   ELSE beat
        /\ UNCHANGED <<serverVars, commitIndex, leaderVars, disk, armed>>

\* ... or a conflict.
AppendConflicted(r) ==
    /\ ~r.success /\ r.term # -1 /\ r.term <= r.call.term
    /\ Retry(r.call, r.newIndex, r.newTerm)

HandleAppendReply(r) ==
    /\ r.call.from \notin panicked
    /\ appRep' = Calls!BagRemove(appRep, r)
    /\ \/ AppendRefused(r)
       \/ AppendNewTerm(r)
       \/ AppendSucceeded(r)
       \/ AppendConflicted(r)
    /\ UNCHANGED <<log, lastApplied, spawned, epoch, voteCalls, appReq, history>>

\* A lost request or reply leaves the reply zero: the goroutine retries from
\* index 0 of term 0.
LoseAppReq(m) ==
    /\ Awaited(m)
    /\ m.from \notin panicked
    /\ appReq' \in AfterFailure(appReq, m)
    /\ Retry(m, 0, 0)
    /\ UNCHANGED <<log, lastApplied, spawned, epoch, voteCalls, appRep, history>>

LoseAppRep(r) ==
    /\ r.call.from \notin panicked
    /\ appRep' = Calls!BagRemove(appRep, r)
    /\ Retry(r.call, 0, 0)
    /\ UNCHANGED <<log, lastApplied, spawned, epoch, voteCalls, appReq, history>>

\* CommitLog: what is committed and not applied yet goes to the applyCh.  The
\* code reads log[k] for every such k.
ApplyCommits(i) ==
    LET inRange == commitIndex[i] <= LastIndex(log[i])
        new == lastApplied[i] + 1 .. commitIndex[i]
    IN  /\ lastApplied[i] < commitIndex[i]
        /\ PanicIf(~inRange, i)
        /\ lastApplied' = IF inRange THEN [lastApplied EXCEPT ![i] = commitIndex[i]]
                                     ELSE lastApplied
        /\ applied' = IF inRange THEN applied \cup {<<k, log[i][k]>> : k \in new}
                                 ELSE applied
        /\ UNCHANGED <<serverVars, log, commitIndex, leaderVars, disk, armed, spawned, epoch,
                       voteCalls, appCalls, ballots>>

-----------------------------------------------------------------------------
(* Crash and restart *)

Others(bag, i) == [x \in {y \in DOMAIN bag : y.from # i} |-> bag[x]]
OthersReplies(bag, i) == [x \in {y \in DOMAIN bag : y.call.from # i} |-> bag[x]]

\* crash1, start1 and Make: a new instance with what the persister holds.  The
\* goroutines of the old one can no longer reach anybody; calls they had made
\* may still be handled.
Restart(i) ==
    /\ SumFunction(epoch) < MaxRestarts
    /\ epoch' = [epoch EXCEPT ![i] = @ + 1]
    /\ currentTerm' = [currentTerm EXCEPT ![i] = disk[i].term]
    /\ votedFor' = [votedFor EXCEPT ![i] = disk[i].votedFor]
    /\ log' = [log EXCEPT ![i] = disk[i].log]
    /\ role' = [role EXCEPT ![i] = Follower]
    /\ commitIndex' = [commitIndex EXCEPT ![i] = 0]
    /\ lastApplied' = [lastApplied EXCEPT ![i] = 0]
    /\ nextIndex' = [nextIndex EXCEPT ![i] = [j \in Server |-> 0]]
    /\ matchIndex' = [matchIndex EXCEPT ![i] = [j \in Server |-> 0]]
    /\ ResetElectionTimer(i)
    /\ spawned' = [spawned EXCEPT ![i] = 0]
    /\ panicked' = panicked \ {i}
    /\ voteRep' = OthersReplies(voteRep, i)
    /\ appRep' = OthersReplies(appRep, i)
    /\ beat' = Others(beat, i)
    /\ UNCHANGED <<disk, voteReq, appReq, history>>

-----------------------------------------------------------------------------
Init ==
    /\ currentTerm = [i \in Server |-> 0]
    /\ votedFor = [i \in Server |-> None]
    /\ role = [i \in Server |-> Follower]
    /\ log = [i \in Server |-> <<>>]
    /\ commitIndex = [i \in Server |-> 0]
    /\ lastApplied = [i \in Server |-> 0]
    /\ nextIndex = [i \in Server |-> [j \in Server |-> 0]]
    /\ matchIndex = [i \in Server |-> [j \in Server |-> 0]]
    /\ disk = [i \in Server |-> Snapshot(0, None, <<>>)]
    /\ armed = Server
    /\ spawned = [i \in Server |-> 0]
    /\ epoch = [i \in Server |-> 0]
    /\ panicked = {}
    /\ voteReq = EmptyBag /\ voteRep = EmptyBag
    /\ beat = EmptyBag /\ appReq = EmptyBag /\ appRep = EmptyBag
    /\ ballots = {} /\ applied = {}

\* What a server does by itself or for a client, with its process running.
ServerStep(i) ==
    /\ i \notin panicked
    /\ \/ ElectionTimeout(i)
       \/ LeaderTimeout(i)
       \/ ElectionStart(i)
       \/ \E c \in Command : Start(i, c)
       \/ \E j \in Server : HeartbeatTick(i, j)
       \/ ApplyCommits(i)

\* Handlers and the receipt of replies.
Deliver ==
    \/ \E m \in DOMAIN voteReq : RequestVote(m)
    \/ \E r \in DOMAIN voteRep : HandleVoteReply(r)
    \/ \E b \in DOMAIN beat : SendAppend(b)
    \/ \E m \in DOMAIN appReq : AppendEntries(m)
    \/ \E r \in DOMAIN appRep : HandleAppendReply(r)

Lose ==
    \/ \E m \in DOMAIN voteReq : LoseVoteReq(m)
    \/ \E r \in DOMAIN voteRep : LoseVoteRep(r)
    \/ \E m \in DOMAIN appReq : LoseAppReq(m)
    \/ \E r \in DOMAIN appRep : LoseAppRep(r)

Next ==
    \/ \E i \in Server : ServerStep(i)
    \/ Deliver
    \/ Lose
    \/ \E i \in Server : Restart(i)

Spec == Init /\ [][Next]_vars

-----------------------------------------------------------------------------
(* Properties *)

\* Every variable holds values of its kind, and calls are between servers.
TypeOK ==
    /\ currentTerm \in [Server -> Nat]
    /\ votedFor \in [Server -> Server \cup {None}]
    /\ role \in [Server -> Role]
    /\ log \in [Server -> Seq(Entry)]
    /\ commitIndex \in [Server -> Nat]
    /\ lastApplied \in [Server -> Nat]
    /\ nextIndex \in [Server -> [Server -> Nat]]
    /\ matchIndex \in [Server -> [Server -> Nat]]
    /\ disk \in [Server -> Disk]
    /\ armed \subseteq Server
    /\ spawned \in [Server -> Nat]
    /\ epoch \in [Server -> Nat]
    /\ panicked \subseteq Server
    /\ DOMAIN voteReq \subseteq VoteReq
    /\ DOMAIN voteRep \subseteq VoteRep
    /\ DOMAIN beat \subseteq Beat
    /\ DOMAIN appReq \subseteq AppReq
    /\ DOMAIN appRep \subseteq AppRep
    /\ ballots \subseteq Server \X Nat \X Server
    /\ applied \subseteq (Nat \X Entry)

\* checkOneLeader of the tester: no two running servers lead the same term,
\* although candidates save neither their term nor their vote before they ask
\* for votes, crash and come back with older ones.
ElectionSafety ==
    \A i, j \in Server :
        role[i] = Leader /\ role[j] = Leader /\ currentTerm[i] = currentTerm[j] => i = j

\* RequestVote: a server never grants two candidates a vote in one term, also
\* when it crashes between the two requests.
VoteOnce ==
    \A x, y \in ballots : x[1] = y[1] /\ x[2] = y[2] => x[3] = y[3]

\* Every change of the log is on disk before the lock is released.
LogDurable == \A i \in Server : disk[i].log = log[i]

\* Terms never decrease along a log, and a server that restarts never holds an
\* entry of a term it has still to reach (AppendEntries and Start persist term
\* and log together, election() persists neither).
LogTermsOrdered ==
    \A i \in Server :
        /\ \A k \in 1 .. Len(log[i]) :
              /\ log[i][k].term <= currentTerm[i]
              /\ log[i][k].term <= disk[i].term
        /\ \A k, l \in 1 .. Len(log[i]) : k <= l => log[i][k].term <= log[i][l].term

\* Two logs that hold an entry of the same term at the same index are the same
\* up to it (appendEntriesIfLogMatches).
LogMatching ==
    \A i, j \in Server : \A k \in 1 .. Len(log[i]) :
        k <= Len(log[j]) /\ log[i][k].term = log[j][k].term
            => SubSeq(log[i], 1, k) = SubSeq(log[j], 1, k)

\* A server that leads a term neither drops nor overwrites entries in it,
\* although AppendEntries does not check that it is not the leader.
LeaderAppendOnly ==
    [][\A i \in Server :
          role[i] = Leader /\ role'[i] = Leader /\ currentTerm'[i] = currentTerm[i]
              => Len(log[i]) <= Len(log'[i]) /\ SubSeq(log'[i], 1, Len(log[i])) = log[i]]_vars

\* checkConsistency of the tester: no two servers apply different entries at
\* one index.
StateMachineSafety == \A x, y \in applied : x[1] = y[1] => x[2] = y[2]

\* The comment of ticker: a server that does not lead will start an election
\* unless it hears from a leader, so its election timer runs.
TimerRuns ==
    \A i \in Server : role[i] # Leader /\ i \notin panicked => i \in armed

-----------------------------------------------------------------------------
(* The inductive invariant behind VoteOnce and ElectionSafety.  It is the    *)
(* history of granted votes that ties the volatile and the saved state of a  *)
(* voter to what candidates have been told.                                  *)

\* v counts as a voter for c in term t.
Backs(v, t, c) == v = c \/ <<v, t, c>> \in ballots

\* A server in this term with this vote cannot contradict a vote it granted.
Binds(b, term, vote) == term >= b[2] /\ (term = b[2] => vote = b[3])

\* Votes granted bind the voter, in memory and on disk.
BallotsBind ==
    \A b \in ballots :
        /\ b[1] # b[3]
        /\ Binds(b, currentTerm[b[1]], votedFor[b[1]])
        /\ Binds(b, disk[b[1]].term, disk[b[1]].votedFor)

\* A vote for another server, in memory or on disk, has been granted.
VotesRecorded ==
    \A v \in Server :
        /\ votedFor[v] \in Server => Backs(v, currentTerm[v], votedFor[v])
        /\ disk[v].votedFor \in Server => Backs(v, disk[v].term, disk[v].votedFor)

\* Candidates and leaders voted for themselves.
OwnVote == \A i \in Server : role[i] # Follower => votedFor[i] = i

\* The votes an election goroutine has counted were granted.
CallBacked(m) == m.from # m.to /\ \A v \in m.votes : Backs(v, m.term, m.from)

CallsBacked ==
    /\ \A m \in DOMAIN voteReq : CallBacked(m)
    /\ \A r \in DOMAIN voteRep :
          /\ CallBacked(r.call)
          /\ r.granted => <<r.call.to, r.call.term, r.call.from>> \in ballots

\* A leader has a majority behind it in its term.
LeaderBacked ==
    \A i \in Server : role[i] = Leader =>
        \E Q \in SUBSET Server : Majority(Q) /\ \A v \in Q : Backs(v, currentTerm[i], i)

VoteInv ==
    /\ BallotsBind
    /\ VoteOnce
    /\ VotesRecorded
    /\ OwnVote
    /\ CallsBacked
    /\ LeaderBacked

=============================================================================
