----------------------------- MODULE RaftProofs -----------------------------
(***************************************************************************)
(* Proofs about Raft for every number of servers and all bounds, with      *)
(* crashes and lost calls: type correctness, logs that are on disk with    *)
(* their terms in order, one vote per server and term, one leader per      *)
(* term.                                                                   *)
(***************************************************************************)
EXTENDS Raft, FiniteSetTheorems, TLAPS

-----------------------------------------------------------------------------
(* Facts about the helpers *)

\* Adding a call to a bag adds that call and nothing else.
LEMMA BagAddDomain ==
    ASSUME NEW B, NEW x
    PROVE  DOMAIN Calls!BagAdd(B, x) = DOMAIN B \cup {x}
BY DEF Calls!BagAdd

\* Removing a call brings no other call into the bag.
LEMMA BagRemoveDomain ==
    ASSUME NEW B, NEW x
    PROVE  DOMAIN Calls!BagRemove(B, x) \subseteq DOMAIN B
BY DEF Calls!BagRemove

\* The term found at an index of a log, index 0 included, is a natural number.
LEMMA TermAtType ==
    ASSUME NEW l \in Seq(Entry), NEW k \in 0 .. Len(l)
    PROVE  TermAt(l, k) \in Nat
<1>1. CASE k = 0
  BY <1>1 DEF TermAt
<1>2. CASE k # 0
  <2>1. l[k] \in Entry
    BY <1>2
  <2>. QED  BY <1>2, <2>1 DEF TermAt, Entry
<1>. QED  BY <1>1, <1>2

\* The last term of a log is a natural number.
LEMMA LastTermType ==
    ASSUME NEW l \in Seq(Entry)
    PROVE  LastTerm(l) \in Nat /\ LastIndex(l) \in Nat
BY TermAtType DEF LastTerm, LastIndex

\* A failed vote call leaves the pending calls and possibly an orphan.
LEMMA AfterFailureDomain ==
    ASSUME NEW B, NEW m, NEW C \in AfterFailure(B, m)
    PROVE  DOMAIN C \subseteq DOMAIN B \cup {Orphan(m)}
<1>1. C \in {Calls!BagRemove(B, m), Calls!BagAdd(Calls!BagRemove(B, m), Orphan(m))}
  BY DEF AfterFailure
<1>2. DOMAIN Calls!BagRemove(B, m) \subseteq DOMAIN B
  BY BagRemoveDomain
<1>3. DOMAIN Calls!BagAdd(Calls!BagRemove(B, m), Orphan(m)) = DOMAIN Calls!BagRemove(B, m) \cup {Orphan(m)}
  BY BagAddDomain
<1>. QED  BY <1>1, <1>2, <1>3

\* The first peer exists, and the call of an undecided election goes to a server.
LEMMA FirstPeerType ==
    ASSUME NEW i \in Server
    PROVE  NextPeer(i, -1) \in Server
BY NAssumption DEF NextPeer, Server

\* A bag of calls of one kind stays one.
LEMMA BagAddType ==
    ASSUME NEW B, NEW T, DOMAIN B \subseteq T, NEW x \in T
    PROVE  DOMAIN Calls!BagAdd(B, x) \subseteq T
<1>1. DOMAIN Calls!BagAdd(B, x) = DOMAIN B \cup {x}
  BY BagAddDomain
<1>. QED  BY <1>1

\* Removing a pending call leaves calls of the same kind.
LEMMA BagRemoveType ==
    ASSUME NEW B, NEW T, DOMAIN B \subseteq T, NEW x
    PROVE  DOMAIN Calls!BagRemove(B, x) \subseteq T
<1>1. DOMAIN Calls!BagRemove(B, x) \subseteq DOMAIN B
  BY BagRemoveDomain
<1>. QED  BY <1>1

\* The call of the next peer of an election is well formed.
LEMMA AskNextType ==
    ASSUME NEW B, DOMAIN B \subseteq VoteReq, NEW m \in VoteReq, NEW V \in SUBSET Server,
           AskNext(B, m, V)
    PROVE  DOMAIN voteReq' \subseteq VoteReq
<1>1. CASE Decided(m, V)
  BY <1>1 DEF AskNext
<1>2. CASE ~Decided(m, V)
  <2>1. [m EXCEPT !.to = NextPeer(m.from, m.to), !.votes = V] \in VoteReq
    BY <1>2 DEF Decided, VoteReq
  <2>. QED  BY <1>2, <2>1, BagAddType DEF AskNext
<1>. QED  BY <1>1, <1>2

\* What ReplyVote and ReplyAppend leave in the bags is well formed.
LEMMA ReplyVoteType ==
    ASSUME TypeOK, NEW m \in DOMAIN voteReq, NEW t \in Nat, NEW g \in BOOLEAN,
           ReplyVote(m, t, g)
    PROVE  DOMAIN voteReq' \subseteq VoteReq /\ DOMAIN voteRep' \subseteq VoteRep
<1>1. DOMAIN voteReq' \subseteq VoteReq
  BY BagRemoveType DEF TypeOK, ReplyVote
<1>2. [call |-> m, term |-> t, granted |-> g] \in VoteRep
  BY DEF TypeOK, VoteRep
<1>3. DOMAIN voteRep' \subseteq VoteRep
  BY <1>2, BagAddType DEF TypeOK, ReplyVote
<1>. QED  BY <1>1, <1>3

\* The reply to an AppendEntries call is well formed.
LEMMA ReplyAppendType ==
    ASSUME TypeOK, NEW m \in DOMAIN appReq, NEW t \in Nat \cup {-1}, NEW s \in BOOLEAN,
           NEW k \in Nat, NEW u \in Nat, ReplyAppend(m, t, s, k, u)
    PROVE  DOMAIN appReq' \subseteq AppReq /\ DOMAIN appRep' \subseteq AppRep
<1>1. DOMAIN appReq' \subseteq AppReq
  BY BagRemoveType DEF TypeOK, ReplyAppend
<1>2. [call |-> m, term |-> t, success |-> s, newIndex |-> k, newTerm |-> u] \in AppRep
  BY DEF TypeOK, AppRep
<1>3. DOMAIN appRep' \subseteq AppRep
  BY <1>2, BagAddType DEF TypeOK, ReplyAppend
<1>. QED  BY <1>1, <1>3

\* The end of election() keeps roles and the leader's tables well formed.
LEMMA WinElectionType ==
    ASSUME TypeOK, NEW i \in Server, NEW t, WinElection(i, t)
    PROVE  /\ role' \in [Server -> Role]
           /\ nextIndex' \in [Server -> [Server -> Nat]]
           /\ matchIndex' \in [Server -> [Server -> Nat]]
<1>1. CASE currentTerm[i] = t /\ role[i] = Candidate
  <2>. DEFINE next == [j \in Server |-> LastIndex(log[i]) + 1]
              match == [j \in Server |-> IF j = i THEN LastIndex(log[i]) ELSE 0]
  <2>1. next \in [Server -> Nat] /\ match \in [Server -> Nat]
    <3>1. LastIndex(log[i]) \in Nat
      BY LastTermType DEF TypeOK
    <3>. QED  BY <3>1
  <2>2. /\ role' = [role EXCEPT ![i] = Leader]
        /\ nextIndex' = [nextIndex EXCEPT ![i] = next]
        /\ matchIndex' = [matchIndex EXCEPT ![i] = match]
    BY <1>1 DEF WinElection
  <2>3. Leader \in Role
    BY DEF Role
  <2>. HIDE DEF next, match
  <2>. QED  BY <2>1, <2>2, <2>3 DEF TypeOK
<1>2. CASE ~(currentTerm[i] = t /\ role[i] = Candidate)
  BY <1>2 DEF TypeOK, WinElection, leaderVars
<1>. QED  BY <1>1, <1>2

\* becomeFollower keeps term, vote and role well formed.
LEMMA AdoptTermType ==
    ASSUME TypeOK, NEW i \in Server, NEW t \in Nat, AdoptTerm(i, t)
    PROVE  /\ currentTerm' \in [Server -> Nat]
           /\ votedFor' \in [Server -> Server \cup {None}]
           /\ role' \in [Server -> Role]
BY DEF TypeOK, AdoptTerm, Role, Follower, serverVars

\* Replacing the end of a log gives a log.
LEMMA SplicedType ==
    ASSUME NEW l \in Seq(Entry), NEW m \in AppReq, m.next - 1 <= LastIndex(l)
    PROVE  Spliced(l, m) \in Seq(Entry)
<1>1. m.next \in Nat \ {0} /\ m.entries \in Seq(Entry)
  BY DEF AppReq
<1>2. SubSeq(l, 1, m.next - 1) \in Seq(Entry)
  BY <1>1 DEF LastIndex
<1>. QED  BY <1>1, <1>2 DEF Spliced

\* A reply with a newer term keeps the volatile and the saved state well formed.
LEMMA StepDownType ==
    ASSUME TypeOK, NEW i \in Server, NEW t \in Nat, StepDown(i, t)
    PROVE  /\ currentTerm' \in [Server -> Nat]
           /\ votedFor' \in [Server -> Server \cup {None}]
           /\ role' \in [Server -> Role]
           /\ disk' \in [Server -> Disk]
           /\ armed' \subseteq Server
<1>1. CASE currentTerm[i] < t
  <2>1. /\ currentTerm' \in [Server -> Nat]
        /\ votedFor' \in [Server -> Server \cup {None}]
        /\ role' \in [Server -> Role]
        /\ armed' \subseteq Server
    BY <1>1 DEF TypeOK, StepDown, ResetElectionTimer, Role, Follower
  <2>2. Snapshot(currentTerm'[i], votedFor'[i], log[i]) \in Disk
    BY <2>1 DEF TypeOK, Snapshot, Disk
  <2>3. disk' \in [Server -> Disk]
    <3>1. disk' = [disk EXCEPT ![i] = Snapshot(currentTerm'[i], votedFor'[i], log[i])]
      BY <1>1 DEF StepDown, Persist
    <3>. QED  BY <2>2, <3>1 DEF TypeOK
  <2>. QED  BY <2>1, <2>3
<1>2. CASE ~(currentTerm[i] < t)
  BY <1>2 DEF TypeOK, StepDown, serverVars, Disk
<1>. QED  BY <1>1, <1>2

\* A retried heartbeat goroutine is well formed.
LEMMA RetryType ==
    ASSUME TypeOK, NEW m \in AppReq, NEW k \in Nat, NEW u \in Nat, Retry(m, k, u)
    PROVE  DOMAIN beat' \subseteq Beat /\ panicked' \subseteq Server
<1>. USE DEF Retry, PanicIf
<1>1. m.from \in Server /\ m.to \in Server /\ m.term \in Nat
  BY DEF AppReq
<1>2. AdjustedNext(log[m.from], k, u) \in Nat
  BY DEF AdjustedNext
<1>3. [from |-> m.from, to |-> m.to, term |-> m.term,
       next |-> AdjustedNext(log[m.from], k, u)] \in Beat
  BY <1>1, <1>2 DEF Beat
<1>4. DOMAIN beat' \subseteq Beat
  BY <1>3, BagAddType DEF TypeOK
<1>5. panicked' \subseteq Server
  BY <1>1 DEF TypeOK
<1>. QED  BY <1>4, <1>5

-----------------------------------------------------------------------------
(* Type correctness *)

\* The initial state is well typed.
LEMMA InitType == Init => TypeOK
BY DEF Init, TypeOK, Server, None, Role, Follower, Snapshot, Disk, EmptyBag, SetToBag

\* Every step keeps the state well typed.
LEMMA NextType == TypeOK /\ [Next]_vars => TypeOK'
<1>. SUFFICES ASSUME TypeOK, [Next]_vars
              PROVE  TypeOK'
  OBVIOUS
<1>. USE DEF serverVars, logVars, leaderVars, voteCalls, appCalls, history,
             ResetElectionTimer
<1>0. ASSUME NEW i \in Server, LeaderTimeout(i)
      PROVE  TypeOK'
  BY <1>0, ZenonT(30) DEF TypeOK, LeaderTimeout
<1>1. ASSUME NEW i \in Server, ElectionTimeout(i)
      PROVE  TypeOK'
  BY <1>1, SMTT(30) DEF TypeOK, ElectionTimeout
<1>2. ASSUME NEW i \in Server, ElectionStart(i)
      PROVE  TypeOK'
  <2>. DEFINE m == [from |-> i, to |-> NextPeer(i, -1), term |-> currentTerm'[i],
                    lastIndex |-> LastIndex(log[i]), lastTerm |-> LastTerm(log[i]),
                    votes |-> {i}, epoch |-> epoch[i]]
  <2>1. currentTerm' \in [Server -> Nat] /\ votedFor' \in [Server -> Server \cup {None}]
        /\ role' \in [Server -> Role] /\ spawned' \in [Server -> Nat]
    BY <1>2 DEF TypeOK, ElectionStart, Role, Candidate
  <2>2. m \in VoteReq
    BY <2>1, FirstPeerType, LastTermType DEF TypeOK, VoteReq
  <2>3. DOMAIN voteReq' \subseteq VoteReq
    BY <1>2, <2>2, BagAddType DEF TypeOK, ElectionStart
  <2>. QED  BY <1>2, <2>1, <2>3 DEF TypeOK, ElectionStart
<1>3. ASSUME NEW i \in Server, NEW c \in Command, Start(i, c)
      PROVE  TypeOK'
  <2>. DEFINE e == [term |-> currentTerm[i], cmd |-> c]
  <2>1. e \in Entry
    BY DEF TypeOK, Entry
  <2>2. Append(log[i], e) \in Seq(Entry)
    BY <2>1 DEF TypeOK
  <2>3. log' \in [Server -> Seq(Entry)]
    BY <1>3, <2>2 DEF TypeOK, Start
  <2>4. matchIndex' \in [Server -> [Server -> Nat]]
    BY <1>3 DEF TypeOK, Start, LastIndex
  <2>5. disk' \in [Server -> Disk]
    BY <1>3, <2>3 DEF TypeOK, Start, Persist, Snapshot, Disk
  <2>. QED  BY <1>3, <2>3, <2>4, <2>5 DEF TypeOK, Start
<1>4. ASSUME NEW i \in Server, NEW j \in Server, HeartbeatTick(i, j)
      PROVE  TypeOK'
  <2>1. [from |-> i, to |-> j, term |-> currentTerm[i], next |-> nextIndex[i][j]] \in Beat
    BY DEF TypeOK, Beat
  <2>2. DOMAIN beat' \subseteq Beat
    BY <1>4, <2>1, BagAddType DEF TypeOK, HeartbeatTick
  <2>. QED  BY <1>4, <2>2 DEF TypeOK, HeartbeatTick
<1>5. ASSUME NEW i \in Server, ApplyCommits(i)
      PROVE  TypeOK'
  <2>1. CASE commitIndex[i] <= LastIndex(log[i])
    <3>1. \A k \in lastApplied[i] + 1 .. commitIndex[i] : k \in Nat /\ log[i][k] \in Entry
      BY <2>1 DEF TypeOK, LastIndex
    <3>2. \A k \in lastApplied[i] + 1 .. commitIndex[i] : <<k, log[i][k]>> \in Nat \X Entry
      BY <3>1
    <3>3. applied' \subseteq (Nat \X Entry)
      BY <1>5, <2>1, <3>2 DEF TypeOK, ApplyCommits
    <3>. QED  BY <1>5, <2>1, <3>3 DEF TypeOK, ApplyCommits, PanicIf
  <2>2. CASE ~(commitIndex[i] <= LastIndex(log[i]))
    BY <1>5, <2>2 DEF TypeOK, ApplyCommits, PanicIf
  <2>. QED  BY <2>1, <2>2
<1>6. ASSUME NEW m \in DOMAIN voteReq, RequestVote(m)
      PROVE  TypeOK'
  <2>. m.from \in Server /\ m.to \in Server /\ m.term \in Nat
    BY DEF TypeOK, VoteReq
  <2>0. <<m.to, m.term, m.from>> \in Server \X Nat \X Server
    OBVIOUS
  <2>1. CASE RequestVoteStale(m)
    <3>1. DOMAIN voteReq' \subseteq VoteReq /\ DOMAIN voteRep' \subseteq VoteRep
      BY <2>1, ReplyVoteType DEF TypeOK, RequestVoteStale
    <3>. QED  BY <1>6, <2>1, <3>1 DEF TypeOK, RequestVote, RequestVoteStale
  <2>2. CASE RequestVoteSameTerm(m)
    <3>1. DOMAIN voteReq' \subseteq VoteReq /\ DOMAIN voteRep' \subseteq VoteRep
      BY <2>2, ReplyVoteType DEF TypeOK, RequestVoteSameTerm, GrantsAgain
    <3>2. ballots' \subseteq Server \X Nat \X Server
      BY <2>2, <2>0 DEF TypeOK, RequestVoteSameTerm
    <3>. QED  BY <1>6, <2>2, <3>1, <3>2 DEF TypeOK, RequestVote, RequestVoteSameTerm
  <2>3. CASE RequestVoteNewTerm(m)
    <3>. DEFINE g == ~MoreUpToDate(log[m.to], m.lastIndex, m.lastTerm)
    <3>1. DOMAIN voteReq' \subseteq VoteReq /\ DOMAIN voteRep' \subseteq VoteRep
      <4>1. ReplyVote(m, currentTerm[m.to], g)
        BY <2>3 DEF RequestVoteNewTerm
      <4>2. g \in BOOLEAN /\ currentTerm[m.to] \in Nat
        BY DEF TypeOK
      <4>. QED  BY <4>1, <4>2, ReplyVoteType
    <3>2. currentTerm' \in [Server -> Nat] /\ votedFor' \in [Server -> Server \cup {None}]
          /\ role' \in [Server -> Role]
      BY <2>3 DEF TypeOK, RequestVoteNewTerm, Role, Follower
    <3>3. disk' \in [Server -> Disk]
      BY <2>3, <3>2 DEF TypeOK, RequestVoteNewTerm, Persist, Snapshot, Disk
    <3>4. ballots' \subseteq Server \X Nat \X Server
      BY <2>3, <2>0 DEF TypeOK, RequestVoteNewTerm
    <3>5. armed' \subseteq Server
      BY <2>3 DEF TypeOK, RequestVoteNewTerm
    <3>. QED  BY <1>6, <2>3, <3>1, <3>2, <3>3, <3>4, <3>5 DEF TypeOK, RequestVote
  <2>. QED  BY <1>6, <2>1, <2>2, <2>3 DEF RequestVote
<1>7. ASSUME NEW r \in DOMAIN voteRep, HandleVoteReply(r)
      PROVE  TypeOK'
  <2>. r.call \in VoteReq /\ r.term \in Nat
    BY DEF TypeOK, VoteRep
  <2>. r.call.from \in Server /\ r.call.to \in Server /\ r.call.votes \in SUBSET Server
    BY DEF VoteReq
  <2>. DOMAIN voteReq \subseteq VoteReq
    BY DEF TypeOK
  <2>1. CASE VoteGranted(r)
    <3>. DEFINE V == r.call.votes \cup {r.call.to}
    <3>1. AskNext(voteReq, r.call, V) /\ V \in SUBSET Server
      BY <2>1 DEF VoteGranted
    <3>2. DOMAIN voteReq' \subseteq VoteReq
      BY <3>1, AskNextType
    <3>3. DOMAIN voteRep' \subseteq VoteRep
      BY <2>1, BagRemoveType DEF TypeOK, VoteGranted
    <3>4. role' \in [Server -> Role] /\ nextIndex' \in [Server -> [Server -> Nat]]
          /\ matchIndex' \in [Server -> [Server -> Nat]]
      <4>1. CASE Majority(V)
        BY <2>1, <4>1, WinElectionType DEF VoteGranted
      <4>2. CASE ~Majority(V)
        BY <2>1, <4>2 DEF TypeOK, VoteGranted
      <4>. QED  BY <4>1, <4>2
    <3>. QED  BY <1>7, <2>1, <3>2, <3>3, <3>4 DEF TypeOK, HandleVoteReply, VoteGranted
  <2>2. CASE VoteRefused(r)
    <3>1. DOMAIN voteReq' \subseteq VoteReq
      BY <2>2, AskNextType DEF VoteRefused
    <3>2. DOMAIN voteRep' \subseteq VoteRep
      BY <2>2, BagRemoveType DEF TypeOK, VoteRefused
    <3>3. currentTerm' \in [Server -> Nat] /\ votedFor' \in [Server -> Server \cup {None}]
          /\ role' \in [Server -> Role]
          /\ disk' \in [Server -> Disk]
          /\ armed' \subseteq Server
      BY <2>2, StepDownType DEF TypeOK, VoteRefused, Disk
    <3>. QED  BY <1>7, <2>2, <3>1, <3>2, <3>3 DEF TypeOK, HandleVoteReply, VoteRefused
  <2>. QED  BY <1>7, <2>1, <2>2 DEF HandleVoteReply
<1>8. ASSUME NEW b \in DOMAIN beat, SendAppend(b)
      PROVE  TypeOK'
  <2>. b.from \in Server /\ b.to \in Server /\ b.term \in Nat /\ b.next \in Nat
    BY DEF TypeOK, Beat
  <2>. DEFINE l == log[b.from]
              m == [from |-> b.from, to |-> b.to, term |-> b.term, next |-> b.next,
                    prevTerm |-> TermAt(l, b.next - 1),
                    entries |-> SubSeq(l, b.next, LastIndex(l)),
                    commit |-> commitIndex[b.from], epoch |-> epoch[b.from]]
  <2>1. ASSUME b.next \in 1 .. LastIndex(l) + 1
        PROVE  m \in AppReq
    <3>1. l \in Seq(Entry)
      BY DEF TypeOK
    <3>2. TermAt(l, b.next - 1) \in Nat
      BY <2>1, <3>1, TermAtType DEF LastIndex
    <3>3. SubSeq(l, b.next, LastIndex(l)) \in Seq(Entry)
      BY <2>1, <3>1 DEF LastIndex
    <3>4. b.next \in Nat \ {0} /\ commitIndex[b.from] \in Nat /\ epoch[b.from] \in Nat
      BY <2>1 DEF TypeOK
    <3>. QED  BY <3>2, <3>3, <3>4 DEF AppReq
  <2>2. DOMAIN appReq' \subseteq AppReq
    BY <1>8, <2>1, BagAddType DEF TypeOK, SendAppend
  <2>3. DOMAIN beat' \subseteq Beat
    BY <1>8, BagRemoveType DEF TypeOK, SendAppend
  <2>4. panicked' \subseteq Server
    BY <1>8 DEF TypeOK, SendAppend, PanicIf
  <2>. QED  BY <1>8, <2>2, <2>3, <2>4 DEF TypeOK, SendAppend
<1>9. ASSUME NEW m \in DOMAIN appReq, AppendEntries(m)
      PROVE  TypeOK'
  <2>. m \in AppReq
    BY DEF TypeOK
  <2>. m.from \in Server /\ m.to \in Server /\ m.term \in Nat /\ m.next \in Nat \ {0}
       /\ m.entries \in Seq(Entry) /\ m.commit \in Nat
    BY DEF AppReq
  <2>. currentTerm[m.to] \in Nat /\ log[m.to] \in Seq(Entry) /\ commitIndex[m.to] \in Nat
    BY DEF TypeOK
  <2>1. CASE AppendEntriesStale(m)
    <3>1. DOMAIN appReq' \subseteq AppReq /\ DOMAIN appRep' \subseteq AppRep
      BY <2>1, ReplyAppendType DEF AppendEntriesStale
    <3>. QED  BY <1>9, <2>1, <3>1 DEF TypeOK, AppendEntries, AppendEntriesStale
  <2>2. CASE AppendEntriesBehind(m)
    <3>1. DOMAIN appReq' \subseteq AppReq /\ DOMAIN appRep' \subseteq AppRep
      BY <2>2, ReplyAppendType DEF AppendEntriesBehind
    <3>2. currentTerm' \in [Server -> Nat] /\ votedFor' \in [Server -> Server \cup {None}]
          /\ role' \in [Server -> Role]
      BY <2>2, AdoptTermType DEF AppendEntriesBehind
    <3>. QED  BY <1>9, <2>2, <3>1, <3>2 DEF TypeOK, AppendEntries, AppendEntriesBehind
  <2>3. CASE AppendEntriesMatch(m)
    <3>1. DOMAIN appReq' \subseteq AppReq /\ DOMAIN appRep' \subseteq AppRep
      BY <2>3, ReplyAppendType DEF AppendEntriesMatch
    <3>2. currentTerm' \in [Server -> Nat] /\ votedFor' \in [Server -> Server \cup {None}]
          /\ role' \in [Server -> Role]
      BY <2>3, AdoptTermType DEF AppendEntriesMatch
    <3>3. Spliced(log[m.to], m) \in Seq(Entry)
      BY <2>3, SplicedType DEF AppendEntriesMatch, PrevMatches
    <3>4. log' \in [Server -> Seq(Entry)]
      BY <2>3, <3>3 DEF TypeOK, AppendEntriesMatch
    <3>5. commitIndex' \in [Server -> Nat]
      <4>1. log'[m.to] \in Seq(Entry)
        BY <3>4
      <4>2. FollowerCommit(log'[m.to], commitIndex[m.to], m.commit) \in Nat
        BY <4>1 DEF FollowerCommit, CommitBound, LastIndex
      <4>. QED  BY <2>3, <4>2 DEF TypeOK, AppendEntriesMatch
    <3>6. disk' \in [Server -> Disk]
      <4>1. Snapshot(currentTerm'[m.to], votedFor'[m.to], log'[m.to]) \in Disk
        BY <3>2, <3>4 DEF Snapshot, Disk
      <4>. QED  BY <2>3, <4>1 DEF TypeOK, AppendEntriesMatch, Persist
    <3>. QED  BY <1>9, <3>1, <3>2, <3>4, <3>5, <3>6 DEF TypeOK, AppendEntries
  <2>4. CASE AppendEntriesConflict(m)
    <3>. DEFINE l == log[m.to]
                prev == m.next - 1
    <3>1. DOMAIN appReq' \subseteq AppReq /\ DOMAIN appRep' \subseteq AppRep
      <4>1. CASE prev > LastIndex(l)
        BY <2>4, <4>1, ReplyAppendType, LastTermType DEF AppendEntriesConflict
      <4>2. CASE ~(prev > LastIndex(l))
        <5>1. PICK k \in 0 .. prev :
                ReplyAppend(m, currentTerm[m.to], FALSE, k, TermAt(l, k))
          BY <2>4, <4>2 DEF AppendEntriesConflict
        <5>2. k \in Nat /\ TermAt(l, k) \in Nat
          BY <4>2, TermAtType DEF LastIndex
        <5>. QED  BY <5>1, <5>2, ReplyAppendType
      <4>. QED  BY <4>1, <4>2
    <3>2. currentTerm' \in [Server -> Nat] /\ votedFor' \in [Server -> Server \cup {None}]
          /\ role' \in [Server -> Role]
      BY <2>4, AdoptTermType DEF AppendEntriesConflict
    <3>. QED  BY <1>9, <2>4, <3>1, <3>2 DEF TypeOK, AppendEntries, AppendEntriesConflict
  <2>. QED  BY <1>9, <2>1, <2>2, <2>3, <2>4 DEF AppendEntries
<1>10. ASSUME NEW r \in DOMAIN appRep, HandleAppendReply(r)
       PROVE  TypeOK'
  <2>. r.call \in AppReq /\ r.term \in Nat \cup {-1} /\ r.newIndex \in Nat /\ r.newTerm \in Nat
    BY DEF TypeOK, AppRep
  <2>. r.call.from \in Server /\ r.call.to \in Server /\ r.call.next \in Nat \ {0}
       /\ r.call.term \in Nat /\ r.call.entries \in Seq(Entry)
    BY DEF AppReq
  <2>0. DOMAIN appRep' \subseteq AppRep
    BY <1>10, BagRemoveType DEF TypeOK, HandleAppendReply
  <2>1. CASE AppendRefused(r)
    BY <1>10, <2>0, <2>1 DEF TypeOK, HandleAppendReply, AppendRefused
  <2>2. CASE AppendNewTerm(r)
    <3>1. /\ currentTerm' \in [Server -> Nat]
          /\ votedFor' \in [Server -> Server \cup {None}]
          /\ role' \in [Server -> Role]
          /\ disk' \in [Server -> Disk]
          /\ armed' \subseteq Server
      <4>1. r.term \in Nat
        BY <2>2 DEF AppendNewTerm
      <4>. QED  BY <2>2, <4>1, StepDownType DEF AppendNewTerm
    <3>. QED  BY <1>10, <2>0, <2>2, <3>1 DEF TypeOK, HandleAppendReply, AppendNewTerm
  <2>3. CASE AppendSucceeded(r)
    <3>1. r.call.next + Len(r.call.entries) \in Nat
          /\ r.call.next - 1 + Len(r.call.entries) \in Nat
      <4>1. ASSUME NEW x \in Nat \ {0}, NEW y \in Nat
            PROVE  x + y \in Nat /\ x - 1 + y \in Nat
        OBVIOUS
      <4>2. Len(r.call.entries) \in Nat
        OBVIOUS
      <4>. QED  BY <4>1, <4>2
    <3>2. nextIndex' \in [Server -> [Server -> Nat]] /\ matchIndex' \in [Server -> [Server -> Nat]]
      BY <2>3, <3>1 DEF TypeOK, AppendSucceeded
    <3>3. commitIndex' \in [Server -> Nat]
      <4>1. \/ UNCHANGED commitIndex
            \/ \E c \in {commitIndex[r.call.from]}
                        \cup commitIndex[r.call.from] .. CommitBound(log[r.call.from]) :
                  commitIndex' = [commitIndex EXCEPT ![r.call.from] = c]
        BY <2>3 DEF AppendSucceeded
      <4>2. CommitBound(log[r.call.from]) \in Nat
        <5>1. log[r.call.from] \in Seq(Entry)
          BY DEF TypeOK
        <5>2. LastIndex(log[r.call.from]) \in Nat
          BY <5>1, LastTermType
        <5>. QED  BY <5>2 DEF CommitBound
      <4>3. ASSUME NEW c \in {commitIndex[r.call.from]}
                        \cup commitIndex[r.call.from] .. CommitBound(log[r.call.from])
            PROVE  c \in Nat
        BY <4>2 DEF TypeOK
      <4>. QED  BY <4>1, <4>3 DEF TypeOK
    <3>. QED  BY <1>10, <2>0, <2>3, <3>2, <3>3 DEF TypeOK, HandleAppendReply, AppendSucceeded
  <2>4. CASE AppendConflicted(r)
    <3>1. DOMAIN beat' \subseteq Beat /\ panicked' \subseteq Server
      BY <2>4, RetryType DEF AppendConflicted
    <3>. QED  BY <1>10, <2>0, <2>4, <3>1 DEF TypeOK, HandleAppendReply, AppendConflicted, Retry
  <2>. QED  BY <1>10, <2>1, <2>2, <2>3, <2>4 DEF HandleAppendReply
<1>11. ASSUME NEW m \in DOMAIN voteReq, LoseVoteReq(m)
       PROVE  TypeOK'
  <2>. m \in VoteReq /\ m.votes \in SUBSET Server
    BY DEF TypeOK, VoteReq
  <2>1. PICK B \in AfterFailure(voteReq, m) : AskNext(B, m, m.votes)
    BY <1>11 DEF LoseVoteReq
  <2>2. DOMAIN B \subseteq VoteReq
    <3>1. DOMAIN B \subseteq DOMAIN voteReq \cup {Orphan(m)}
      BY AfterFailureDomain
    <3>2. Orphan(m) \in VoteReq
      BY DEF Orphan, VoteReq
    <3>. QED  BY <3>1, <3>2 DEF TypeOK
  <2>3. DOMAIN voteReq' \subseteq VoteReq
    BY <2>1, <2>2, AskNextType
  <2>. QED  BY <1>11, <2>3 DEF TypeOK, LoseVoteReq
<1>12. ASSUME NEW r \in DOMAIN voteRep, LoseVoteRep(r)
       PROVE  TypeOK'
  <2>. r.call \in VoteReq /\ r.call.votes \in SUBSET Server /\ DOMAIN voteReq \subseteq VoteReq
    BY DEF TypeOK, VoteRep, VoteReq
  <2>1. DOMAIN voteReq' \subseteq VoteReq
    BY <1>12, AskNextType DEF LoseVoteRep
  <2>2. DOMAIN voteRep' \subseteq VoteRep
    BY <1>12, BagRemoveType DEF TypeOK, LoseVoteRep
  <2>. QED  BY <1>12, <2>1, <2>2 DEF TypeOK, LoseVoteRep
<1>13. ASSUME NEW m \in DOMAIN appReq, LoseAppReq(m)
       PROVE  TypeOK'
  <2>. m \in AppReq
    BY DEF TypeOK
  <2>1. DOMAIN appReq' \subseteq AppReq
    <3>1. DOMAIN appReq' \subseteq DOMAIN appReq \cup {Orphan(m)}
      BY <1>13, AfterFailureDomain DEF LoseAppReq
    <3>2. Orphan(m) \in AppReq
      BY DEF Orphan, AppReq
    <3>. QED  BY <3>1, <3>2 DEF TypeOK
  <2>2. DOMAIN beat' \subseteq Beat /\ panicked' \subseteq Server
    BY <1>13, RetryType DEF LoseAppReq
  <2>. QED  BY <1>13, <2>1, <2>2 DEF TypeOK, LoseAppReq, Retry
<1>14. ASSUME NEW r \in DOMAIN appRep, LoseAppRep(r)
       PROVE  TypeOK'
  <2>1. DOMAIN appRep' \subseteq AppRep
    BY <1>14, BagRemoveType DEF TypeOK, LoseAppRep
  <2>2. r.call \in AppReq
    BY DEF TypeOK, AppRep
  <2>3. DOMAIN beat' \subseteq Beat /\ panicked' \subseteq Server
    BY <1>14, <2>2, RetryType DEF LoseAppRep
  <2>. QED  BY <1>14, <2>1, <2>3 DEF TypeOK, LoseAppRep, Retry
<1>15. ASSUME NEW i \in Server, Restart(i)
       PROVE  TypeOK'
  <2>1. disk[i] \in Disk
    BY DEF TypeOK
  <2>2. disk[i].term \in Nat /\ disk[i].votedFor \in Server \cup {None} /\ disk[i].log \in Seq(Entry)
    BY <2>1 DEF Disk
  <2>3. DOMAIN voteRep' \subseteq VoteRep /\ DOMAIN appRep' \subseteq AppRep /\ DOMAIN beat' \subseteq Beat
    BY <1>15 DEF TypeOK, Restart, Others, OthersReplies
  <2>4. /\ currentTerm' \in [Server -> Nat]
        /\ votedFor' \in [Server -> Server \cup {None}]
        /\ log' \in [Server -> Seq(Entry)]
        /\ role' \in [Server -> Role]
    BY <1>15, <2>2 DEF TypeOK, Restart, Role, Follower
  <2>5. /\ commitIndex' \in [Server -> Nat]
        /\ lastApplied' \in [Server -> Nat]
        /\ spawned' \in [Server -> Nat]
        /\ epoch' \in [Server -> Nat]
        /\ panicked' \subseteq Server
        /\ armed' \subseteq Server
    BY <1>15 DEF TypeOK, Restart
  <2>6. nextIndex' \in [Server -> [Server -> Nat]] /\ matchIndex' \in [Server -> [Server -> Nat]]
    <3>1. [j \in Server |-> 0] \in [Server -> Nat]
      OBVIOUS
    <3>. QED  BY <1>15, <3>1 DEF TypeOK, Restart
  <2>. QED  BY <1>15, <2>3, <2>4, <2>5, <2>6 DEF TypeOK, Restart
<1>16. CASE UNCHANGED vars
  BY <1>16 DEF TypeOK, vars
<1>. QED  BY <1>0, <1>1, <1>2, <1>3, <1>4, <1>5, <1>6, <1>7, <1>8, <1>9, <1>10, <1>11, <1>12,
             <1>13, <1>14, <1>15, <1>16 DEF Next, ServerStep, Deliver, Lose

\* Every reachable state of the Raft servers is well typed: in particular every
\* index sent in an AppendEntries call is at least 1, and no call names a server
\* that does not exist.
THEOREM TypeCorrect == Spec => []TypeOK
BY InitType, NextType, PTL DEF Spec

-----------------------------------------------------------------------------
(* The order of terms in logs and in the entries that are sent             *)

\* Terms never decrease along l, and none is above t.
Sorted(l) == \A k, n \in 1 .. Len(l) : k <= n => l[k].term <= l[n].term
Bounded(l, t) == \A k \in 1 .. Len(l) : l[k].term <= t

\* The entries of a call continue the log they were cut from, in the term of
\* the call.
CallOrdered(m) ==
    /\ Sorted(m.entries)
    /\ Bounded(m.entries, m.term)
    /\ \A k \in 1 .. Len(m.entries) : m.prevTerm <= m.entries[k].term

ServerOrdered(i) ==
    /\ disk[i].log = log[i]
    /\ Sorted(log[i])
    /\ Bounded(log[i], currentTerm[i])
    /\ Bounded(log[i], disk[i].term)

\* LogDurable and LogTermsOrdered, and what the calls that are still to be
\* handled will write: also those of an instance that has crashed.
LogInv ==
    /\ \A i \in Server : ServerOrdered(i)
    /\ \A m \in DOMAIN appReq : CallOrdered(m)

\* The entries of a log are entries.
LEMMA EntryType ==
    ASSUME NEW l \in Seq(Entry), NEW k \in 1 .. Len(l)
    PROVE  l[k] \in Entry /\ l[k].term \in Nat
<1>1. l[k] \in Entry
  OBVIOUS
<1>. QED  BY <1>1 DEF Entry

\* Start: an entry of a term that no entry exceeds goes to the end.
LEMMA AppendSorted ==
    ASSUME NEW l \in Seq(Entry), NEW e \in Entry, Sorted(l), Bounded(l, e.term)
    PROVE  Sorted(Append(l, e)) /\ Bounded(Append(l, e), e.term)
<1>. DEFINE q == Append(l, e)
<1>1. e.term \in Nat
  BY DEF Entry
<1>2. q \in Seq(Entry) /\ Len(q) = Len(l) + 1 /\ Len(l) \in Nat /\ q[Len(q)] = e
  OBVIOUS
<1>3. \A k \in 1 .. Len(l) : q[k] = l[k]
  OBVIOUS
<1>. HIDE DEF q
<1>4. \A k \in 1 .. Len(q) : k \in 1 .. Len(l) \/ k = Len(q)
  BY <1>2
<1>5. \A k \in 1 .. Len(q) : q[k].term \in Nat /\ q[k].term <= e.term
  <2>. SUFFICES ASSUME NEW k \in 1 .. Len(q)
                PROVE  q[k].term \in Nat /\ q[k].term <= e.term
    OBVIOUS
  <2>1. q[k].term \in Nat
    BY <1>2, EntryType
  <2>. QED  BY <1>1, <1>2, <1>3, <1>4, <2>1 DEF Bounded
<1>6. Sorted(q)
  <2>. SUFFICES ASSUME NEW k \in 1 .. Len(q), NEW n \in 1 .. Len(q), k <= n
                PROVE  q[k].term <= q[n].term
    BY DEF Sorted
  <2>1. CASE n = Len(q)
    BY <2>1, <1>2, <1>5
  <2>2. CASE n # Len(q)
    <3>1. k \in 1 .. Len(l) /\ n \in 1 .. Len(l)
      BY <2>2, <1>2
    <3>. QED  BY <3>1, <1>3 DEF Sorted
  <2>. QED  BY <2>1, <2>2
<1>. QED  BY <1>5, <1>6 DEF Bounded, q

\* The term at an index is the greatest up to it.
LEMMA SortedPrefix ==
    ASSUME NEW l \in Seq(Entry), Sorted(l), NEW n \in 0 .. Len(l), NEW k \in 1 .. n
    PROVE  l[k].term <= TermAt(l, n)
BY DEF Sorted, TermAt

\* SendAppend: what is cut from an ordered log is ordered, and continues it.
LEMMA SubSeqOrdered ==
    ASSUME NEW l \in Seq(Entry), NEW t \in Nat, Sorted(l), Bounded(l, t),
           NEW n \in 1 .. Len(l) + 1
    PROVE  LET s == SubSeq(l, n, Len(l))
           IN  /\ Sorted(s)
               /\ Bounded(s, t)
               /\ \A k \in 1 .. Len(s) : TermAt(l, n - 1) <= s[k].term
<1>. DEFINE s == SubSeq(l, n, Len(l))
<1>1. Len(s) = Len(l) - n + 1 /\ Len(l) \in Nat /\ \A k \in 1 .. Len(s) : s[k] = l[n + k - 1]
  OBVIOUS
<1>2. \A k \in 1 .. Len(s) : n + k - 1 \in 1 .. Len(l) /\ s[k] = l[n + k - 1]
  BY <1>1
<1>. HIDE DEF s
<1>3. Sorted(s)
  <2>. SUFFICES ASSUME NEW k \in 1 .. Len(s), NEW j \in 1 .. Len(s), k <= j
                PROVE  s[k].term <= s[j].term
    BY DEF Sorted
  <2>1. n + k - 1 <= n + j - 1
    BY <1>1
  <2>. QED  BY <1>2, <2>1 DEF Sorted
<1>4. Bounded(s, t)
  BY <1>2 DEF Bounded
<1>5. ASSUME NEW k \in 1 .. Len(s)
      PROVE  TermAt(l, n - 1) <= s[k].term
  <2>0. n + k - 1 \in 1 .. Len(l) /\ s[k] = l[n + k - 1]
    BY <1>2
  <2>1. CASE n = 1
    <3>1. l[n + k - 1].term \in Nat
      BY <2>0, EntryType
    <3>. QED  BY <2>0, <2>1, <3>1 DEF TermAt
  <2>2. CASE n # 1
    <3>1. n - 1 \in 1 .. Len(l) /\ n - 1 <= n + k - 1
      BY <2>2, <1>1
    <3>. QED  BY <2>0, <3>1 DEF Sorted, TermAt
  <2>. QED  BY <2>1, <2>2
<1>. QED  BY <1>3, <1>4, <1>5 DEF s

\* AppendEntries: entries that continue what is left of the log in a term that
\* the log does not exceed.
LEMMA SplicedOrdered ==
    ASSUME NEW l \in Seq(Entry), NEW m \in AppReq, Sorted(l), Bounded(l, m.term),
           CallOrdered(m), PrevMatches(l, m)
    PROVE  Sorted(Spliced(l, m)) /\ Bounded(Spliced(l, m), m.term)
<1>1. m.next \in Nat \ {0} /\ m.entries \in Seq(Entry) /\ m.term \in Nat /\ m.prevTerm \in Nat
  BY DEF AppReq
<1>. DEFINE p == m.next - 1
            s == SubSeq(l, 1, p)
            q == Spliced(l, m)
<1>2. p \in 0 .. Len(l) /\ Len(l) \in Nat /\ TermAt(l, p) = m.prevTerm
  BY <1>1 DEF PrevMatches, LastIndex
<1>3. s \in Seq(Entry) /\ Len(s) = p /\ \A k \in 1 .. p : s[k] = l[k]
  BY <1>1, <1>2
<1>. HIDE DEF p, s
<1>4. q = s \o m.entries
  BY DEF Spliced, s, p
<1>5. /\ q \in Seq(Entry)
      /\ Len(q) = p + Len(m.entries) /\ Len(m.entries) \in Nat
      /\ \A k \in 1 .. p : q[k] = s[k]
      /\ \A k \in p + 1 .. Len(q) : q[k] = m.entries[k - p]
  <2>1. ASSUME NEW u \in Seq(Entry), NEW v \in Seq(Entry)
        PROVE  /\ u \o v \in Seq(Entry)
               /\ Len(u \o v) = Len(u) + Len(v) /\ Len(v) \in Nat
               /\ \A k \in 1 .. Len(u) : (u \o v)[k] = u[k]
               /\ \A k \in Len(u) + 1 .. Len(u) + Len(v) : (u \o v)[k] = v[k - Len(u)]
    OBVIOUS
  <2>. HIDE DEF q
  <2>2. /\ q \in Seq(Entry)
        /\ Len(q) = Len(s) + Len(m.entries) /\ Len(m.entries) \in Nat
        /\ \A k \in 1 .. Len(s) : q[k] = s[k]
        /\ \A k \in Len(s) + 1 .. Len(s) + Len(m.entries) : q[k] = m.entries[k - Len(s)]
    BY <1>1, <1>3, <1>4, <2>1, Zenon
  <2>. QED  BY <1>3, <2>2
<1>. HIDE DEF q
<1>6. ASSUME NEW k \in 1 .. p
      PROVE  q[k] = l[k] /\ q[k].term \in Nat /\ q[k].term <= m.prevTerm /\ q[k].term <= m.term
  <2>1. q[k] = l[k] /\ k \in 1 .. Len(l)
    BY <1>2, <1>3, <1>5
  <2>2. l[k].term \in Nat
    BY <2>1, EntryType
  <2>3. l[k].term <= m.prevTerm
    BY <1>2, SortedPrefix
  <2>4. l[k].term <= m.term
    BY <2>1 DEF Bounded
  <2>. QED  BY <2>1, <2>2, <2>3, <2>4
<1>7. ASSUME NEW k \in p + 1 .. Len(q)
      PROVE  /\ k - p \in 1 .. Len(m.entries) /\ q[k] = m.entries[k - p]
             /\ q[k].term \in Nat /\ m.prevTerm <= q[k].term /\ q[k].term <= m.term
  <2>1. k - p \in 1 .. Len(m.entries) /\ q[k] = m.entries[k - p]
    BY <1>2, <1>5
  <2>2. m.entries[k - p].term \in Nat
    BY <1>1, <2>1, EntryType
  <2>. QED  BY <2>1, <2>2 DEF CallOrdered, Bounded
<1>8. \A k \in 1 .. Len(q) : k \in 1 .. p \/ k \in p + 1 .. Len(q)
  BY <1>2, <1>5
<1>9. Bounded(q, m.term)
  BY <1>6, <1>7, <1>8 DEF Bounded
<1>10. ASSUME NEW k \in 1 .. Len(q), NEW n \in 1 .. Len(q), k <= n
       PROVE  q[k].term <= q[n].term
  <2>1. CASE n \in 1 .. p
    <3>1. k \in 1 .. p /\ p <= Len(l)
      BY <2>1, <1>2, <1>10
    <3>2. k \in 1 .. Len(l) /\ n \in 1 .. Len(l)
      BY <2>1, <3>1, <1>2
    <3>3. q[k] = l[k] /\ q[n] = l[n]
      BY <1>6, <2>1, <3>1
    <3>. QED  BY <1>10, <3>2, <3>3 DEF Sorted
  <2>2. CASE n \in p + 1 .. Len(q) /\ k \in 1 .. p
    BY <2>2, <1>1, <1>6, <1>7
  <2>3. CASE n \in p + 1 .. Len(q) /\ k \in p + 1 .. Len(q)
    <3>1. k - p <= n - p
      BY <1>2, <1>10
    <3>2. k - p \in 1 .. Len(m.entries) /\ n - p \in 1 .. Len(m.entries)
          /\ q[k] = m.entries[k - p] /\ q[n] = m.entries[n - p]
      BY <1>7, <2>3
    <3>. QED  BY <3>1, <3>2 DEF CallOrdered, Sorted
  <2>. QED  BY <1>8, <2>1, <2>2, <2>3
<1>11. Sorted(q)
  BY <1>10 DEF Sorted
<1>. QED  BY <1>9, <1>11 DEF q

\* A step that leaves the log of server i alone, never lowers its term, and saves
\* nothing or the state it leaves.
Kept(i) ==
    /\ log'[i] = log[i]
    /\ currentTerm'[i] >= currentTerm[i]
    /\ \/ disk'[i] = disk[i]
       \/ disk'[i].log = log[i] /\ disk'[i].term = currentTerm'[i]

\* Such a step keeps the terms of server i in order.
LEMMA KeptOrdered ==
    ASSUME TypeOK, TypeOK', NEW i \in Server, ServerOrdered(i), Kept(i)
    PROVE  ServerOrdered(i)'
<1>1. currentTerm[i] \in Nat /\ currentTerm'[i] \in Nat /\ log[i] \in Seq(Entry)
  BY DEF TypeOK
<1>2. \A k \in 1 .. Len(log[i]) : log[i][k].term \in Nat
  BY <1>1, EntryType
<1>3. Bounded(log[i], currentTerm'[i])
  BY <1>1, <1>2 DEF Bounded, ServerOrdered, Kept
<1>4. disk'[i].log = log[i] /\ Bounded(log[i], disk'[i].term)
  BY <1>3 DEF ServerOrdered, Kept
<1>. QED  BY <1>3, <1>4 DEF ServerOrdered, Kept

\* A step that leaves all logs alone and sends nothing keeps the invariant.
LEMMA KeptInv ==
    ASSUME TypeOK, TypeOK', LogInv, \A i \in Server : Kept(i),
           DOMAIN appReq' \subseteq DOMAIN appReq
    PROVE  LogInv'
<1>1. \A i \in Server : ServerOrdered(i)'
  BY KeptOrdered DEF LogInv
<1>2. \A m \in DOMAIN appReq' : CallOrdered(m)
  BY DEF LogInv
<1>. QED  BY <1>1, <1>2 DEF LogInv, CallOrdered

\* A server the step does not touch.
LEMMA UntouchedKept ==
    ASSUME TypeOK, NEW i \in Server, log'[i] = log[i], currentTerm'[i] = currentTerm[i],
           disk'[i] = disk[i]
    PROVE  Kept(i)
BY DEF TypeOK, Kept

\* A reply with a newer term changes the term and saves it.
LEMMA StepDownKept ==
    ASSUME TypeOK, NEW i \in Server, NEW t \in Nat, StepDown(i, t), UNCHANGED log
    PROVE  \A j \in Server : Kept(j)
<1>1. CASE currentTerm[i] < t
  <2>1. currentTerm' = [currentTerm EXCEPT ![i] = t] /\ Persist(i, log[i])
    BY <1>1 DEF StepDown
  <2>2. currentTerm'[i] = t /\ disk'[i] = Snapshot(t, votedFor'[i], log[i])
    BY <2>1 DEF TypeOK, Persist
  <2>3. disk'[i].log = log[i] /\ disk'[i].term = currentTerm'[i]
    BY <2>2 DEF Snapshot
  <2>4. Kept(i)
    BY <1>1, <2>2, <2>3 DEF TypeOK, Kept
  <2>5. \A j \in Server \ {i} : currentTerm'[j] = currentTerm[j] /\ disk'[j] = disk[j]
    BY <2>1 DEF TypeOK, Persist
  <2>. QED  BY <2>4, <2>5, UntouchedKept
<1>2. CASE ~(currentTerm[i] < t)
  BY <1>2, UntouchedKept DEF StepDown, serverVars
<1>. QED  BY <1>1, <1>2

\* becomeFollower raises the term and saves nothing.
LEMMA AdoptTermKept ==
    ASSUME TypeOK, NEW i \in Server, NEW t \in Nat, AdoptTerm(i, t), UNCHANGED <<log, disk>>
    PROVE  \A j \in Server : Kept(j)
<1>. SUFFICES ASSUME NEW j \in Server
              PROVE  Kept(j)
  OBVIOUS
<1>1. currentTerm \in [Server -> Nat]
  BY DEF TypeOK
<1>2. \/ currentTerm' = [currentTerm EXCEPT ![i] = t] /\ currentTerm[i] < t
      \/ currentTerm' = currentTerm
  BY DEF AdoptTerm, serverVars
<1>3. currentTerm'[j] >= currentTerm[j]
  BY <1>1, <1>2
<1>. QED  BY <1>3 DEF Kept

\* ReplyAppend takes the call out and sends none.
LEMMA ReplyAppendCalls ==
    ASSUME NEW m, NEW t, NEW s, NEW k, NEW u, ReplyAppend(m, t, s, k, u)
    PROVE  DOMAIN appReq' \subseteq DOMAIN appReq
BY BagRemoveDomain DEF ReplyAppend

\* The initial logs and disks are empty.
LEMMA InitLogInv == Init => LogInv
<1>. SUFFICES ASSUME Init
              PROVE  LogInv
  OBVIOUS
<1>1. ASSUME NEW i \in Server
      PROVE  log[i] = <<>> /\ disk[i].log = <<>>
  BY DEF Init, Snapshot
<1>2. DOMAIN appReq = {}
  BY DEF Init, EmptyBag, SetToBag
<1>. QED  BY <1>1, <1>2 DEF LogInv, ServerOrdered, Sorted, Bounded

\* Start: the entry has the term of the leader, which no entry exceeds, and term
\* and log are saved together.
LEMMA StartLogInv ==
    ASSUME TypeOK, TypeOK', LogInv, NEW i \in Server, NEW c \in Command, Start(i, c)
    PROVE  LogInv'
<1>. DEFINE e == [term |-> currentTerm[i], cmd |-> c]
<1>1. e \in Entry /\ e.term = currentTerm[i] /\ log[i] \in Seq(Entry)
  BY DEF TypeOK, Entry
<1>2. log'[i] = Append(log[i], e) /\ currentTerm' = currentTerm /\ appReq' = appReq
  BY DEF TypeOK, Start, serverVars, appCalls
<1>3. disk'[i].log = log'[i] /\ disk'[i].term = currentTerm[i]
  BY <1>2 DEF TypeOK, Start, Persist, Snapshot
<1>. HIDE DEF e
<1>4. Sorted(log'[i]) /\ Bounded(log'[i], currentTerm[i])
  BY <1>1, <1>2, AppendSorted DEF LogInv, ServerOrdered
<1>5. ServerOrdered(i)'
  BY <1>2, <1>3, <1>4 DEF ServerOrdered
<1>6. ASSUME NEW j \in Server, j # i
      PROVE  ServerOrdered(j)'
  <2>1. log'[j] = log[j] /\ disk'[j] = disk[j]
    BY <1>6 DEF TypeOK, Start, Persist
  <2>. QED  BY <1>2, <2>1, UntouchedKept, KeptOrdered DEF LogInv
<1>. QED  BY <1>2, <1>5, <1>6 DEF LogInv, CallOrdered

\* SendAppend: the entries are cut from the log of a server that leads in the term
\* of the call.
LEMMA SendAppendLogInv ==
    ASSUME TypeOK, TypeOK', LogInv, NEW b \in DOMAIN beat, SendAppend(b)
    PROVE  LogInv'
<1>. DEFINE i == b.from
            l == log[i]
            m == [from |-> i, to |-> b.to, term |-> b.term, next |-> b.next,
                  prevTerm |-> TermAt(l, b.next - 1),
                  entries |-> SubSeq(l, b.next, LastIndex(l)),
                  commit |-> commitIndex[i], epoch |-> epoch[i]]
            sent == currentTerm[i] = b.term /\ b.next \in 1 .. LastIndex(l) + 1
<1>0. i \in Server /\ l \in Seq(Entry) /\ currentTerm[i] \in Nat
  BY DEF TypeOK, Beat
<1>1. \A j \in Server : ServerOrdered(j)'
  BY UntouchedKept, KeptOrdered DEF LogInv, SendAppend, serverVars, logVars
<1>2. DOMAIN appReq' \subseteq DOMAIN appReq \/ (sent /\ appReq' = Calls!BagAdd(appReq, m))
  BY DEF SendAppend
<1>3. ASSUME sent
      PROVE  CallOrdered(m)
  <2>1. Sorted(l) /\ Bounded(l, currentTerm[i])
    BY <1>0 DEF LogInv, ServerOrdered
  <2>2. b.next \in 1 .. Len(l) + 1
    BY <1>3 DEF LastIndex
  <2>. DEFINE s == SubSeq(l, b.next, Len(l))
  <2>3. Sorted(s) /\ Bounded(s, b.term) /\ \A k \in 1 .. Len(s) : TermAt(l, b.next - 1) <= s[k].term
    BY <1>0, <1>3, <2>1, <2>2, SubSeqOrdered
  <2>4. m.entries = s /\ m.term = b.term /\ m.prevTerm = TermAt(l, b.next - 1)
    BY DEF LastIndex
  <2>. HIDE DEF s, m, l
  <2>. QED  BY <2>3, <2>4 DEF CallOrdered
<1>4. ASSUME NEW x \in DOMAIN appReq'
      PROVE  CallOrdered(x)
  <2>. HIDE DEF m, sent
  <2>1. x \in DOMAIN appReq \/ (sent /\ x = m)
    <3>1. DOMAIN Calls!BagAdd(appReq, m) = DOMAIN appReq \cup {m}
      BY BagAddDomain
    <3>. QED  BY <1>2, <1>4, <3>1
  <2>. QED  BY <1>3, <2>1 DEF LogInv
<1>. QED  BY <1>1, <1>4 DEF LogInv, CallOrdered

\* AppendEntries: what is left of the log is continued by the entries of a call
\* of a term that the server was not past.
LEMMA MatchLogInv ==
    ASSUME TypeOK, TypeOK', LogInv, NEW m \in DOMAIN appReq, AppendEntriesMatch(m)
    PROVE  LogInv'
<1>. DEFINE i == m.to
<1>0. m \in AppReq /\ i \in Server /\ m.term \in Nat /\ log[i] \in Seq(Entry)
      /\ currentTerm[i] \in Nat
  BY DEF TypeOK, AppReq
<1>1. currentTerm'[i] = m.term /\ currentTerm[i] <= m.term
  <2>1. currentTerm[i] <= m.term /\ AdoptTerm(i, m.term)
    BY <1>0 DEF AppendEntriesMatch, AcceptsTerm
  <2>2. CASE currentTerm[i] < m.term
    BY <1>0, <2>1, <2>2 DEF TypeOK, AdoptTerm
  <2>3. CASE ~(currentTerm[i] < m.term)
    <3>1. currentTerm' = currentTerm
      BY <2>1, <2>3 DEF AdoptTerm, serverVars
    <3>. QED  BY <1>0, <2>1, <2>3, <3>1
  <2>. QED  BY <2>2, <2>3
<1>2. log'[i] = Spliced(log[i], m) /\ disk'[i].log = log'[i] /\ disk'[i].term = m.term
  <2>1. log' = [log EXCEPT ![i] = Spliced(log[i], m)] /\ Persist(i, log'[i])
    BY DEF AppendEntriesMatch
  <2>2. log'[i] = Spliced(log[i], m)
    BY <1>0, <2>1 DEF TypeOK
  <2>3. disk'[i] = Snapshot(currentTerm'[i], votedFor'[i], log'[i])
    BY <1>0, <2>1 DEF TypeOK, Persist
  <2>. QED  BY <1>1, <2>2, <2>3 DEF Snapshot
<1>3. Sorted(log'[i]) /\ Bounded(log'[i], m.term)
  <2>1. Sorted(log[i]) /\ Bounded(log[i], currentTerm[i])
    BY <1>0 DEF LogInv, ServerOrdered
  <2>2. Bounded(log[i], m.term)
    <3>1. \A k \in 1 .. Len(log[i]) : log[i][k].term \in Nat
      BY <1>0, EntryType
    <3>. QED  BY <1>0, <1>1, <2>1, <3>1 DEF Bounded
  <2>3. CallOrdered(m) /\ PrevMatches(log[i], m)
    BY DEF LogInv, AppendEntriesMatch
  <2>. QED  BY <1>0, <1>2, <2>1, <2>2, <2>3, SplicedOrdered
<1>4. ServerOrdered(i)'
  BY <1>1, <1>2, <1>3 DEF ServerOrdered
<1>5. ASSUME NEW j \in Server, j # i
      PROVE  ServerOrdered(j)'
  <2>1. log'[j] = log[j] /\ disk'[j] = disk[j] /\ currentTerm'[j] = currentTerm[j]
    <3>1. log'[j] = log[j] /\ disk'[j] = disk[j]
      BY <1>0, <1>5 DEF TypeOK, AppendEntriesMatch, Persist
    <3>2. AdoptTerm(i, m.term) /\ currentTerm \in [Server -> Nat]
      BY DEF AppendEntriesMatch, TypeOK
    <3>3. currentTerm'[j] = currentTerm[j]
      BY <1>0, <1>5, <3>2 DEF AdoptTerm, serverVars
    <3>. QED  BY <3>1, <3>3
  <2>. QED  BY <2>1, UntouchedKept, KeptOrdered DEF LogInv
<1>6. DOMAIN appReq' \subseteq DOMAIN appReq
  BY ReplyAppendCalls DEF AppendEntriesMatch
<1>. QED  BY <1>4, <1>5, <1>6 DEF LogInv, CallOrdered

\* Every step keeps the terms in order and the logs on disk.
LEMMA NextLogInv == TypeOK /\ TypeOK' /\ LogInv /\ [Next]_vars => LogInv'
<1>. SUFFICES ASSUME TypeOK, TypeOK', LogInv, [Next]_vars
              PROVE  LogInv'
  OBVIOUS
<1>. USE DEF serverVars, logVars, leaderVars, voteCalls, appCalls, history
<1>1. ASSUME UNCHANGED <<log, disk, currentTerm, appReq>>
      PROVE  LogInv'
  BY <1>1, UntouchedKept, KeptInv
<1>2. ASSUME NEW i \in Server, ElectionTimeout(i) \/ LeaderTimeout(i)
                               \/ (\E j \in Server : HeartbeatTick(i, j)) \/ ApplyCommits(i)
      PROVE  LogInv'
  BY <1>1, <1>2 DEF ElectionTimeout, LeaderTimeout, HeartbeatTick, ApplyCommits
<1>3. ASSUME NEW i \in Server, ElectionStart(i)
      PROVE  LogInv'
  <2>1. \A j \in Server : Kept(j)
    <3>. SUFFICES ASSUME NEW j \in Server
                  PROVE  Kept(j)
      OBVIOUS
    <3>1. currentTerm' = [currentTerm EXCEPT ![i] = currentTerm[i] + 1]
          /\ log' = log /\ disk' = disk
      BY <1>3 DEF ElectionStart
    <3>2. currentTerm \in [Server -> Nat]
      BY DEF TypeOK
    <3>3. currentTerm'[j] >= currentTerm[j]
      BY <3>1, <3>2
    <3>. QED  BY <3>1, <3>3 DEF Kept
  <2>. QED  BY <1>3, <2>1, KeptInv DEF ElectionStart
<1>4. ASSUME NEW i \in Server, NEW c \in Command, Start(i, c)
      PROVE  LogInv'
  BY <1>4, StartLogInv
<1>5. ASSUME NEW m \in DOMAIN voteReq, RequestVote(m)
      PROVE  LogInv'
  <2>0. m.to \in Server /\ m.term \in Nat
    BY DEF TypeOK, VoteReq
  <2>1. CASE RequestVoteStale(m) \/ RequestVoteSameTerm(m)
    BY <1>1, <1>5, <2>1 DEF RequestVote, RequestVoteStale, RequestVoteSameTerm
  <2>2. CASE RequestVoteNewTerm(m)
    <3>1. currentTerm' = [currentTerm EXCEPT ![m.to] = m.term] /\ Persist(m.to, log[m.to])
          /\ currentTerm[m.to] < m.term /\ log' = log /\ appReq' = appReq
      BY <1>5, <2>0, <2>2 DEF TypeOK, RequestVote, RequestVoteNewTerm
    <3>2. currentTerm'[m.to] = m.term /\ disk'[m.to] = Snapshot(m.term, votedFor'[m.to], log[m.to])
      BY <2>0, <3>1 DEF TypeOK, Persist
    <3>3. Kept(m.to)
      <4>1. currentTerm[m.to] \in Nat
        BY <2>0 DEF TypeOK
      <4>2. disk'[m.to].log = log[m.to] /\ disk'[m.to].term = m.term
        BY <3>2 DEF Snapshot
      <4>. QED  BY <2>0, <3>1, <3>2, <4>1, <4>2 DEF Kept
    <3>4. \A j \in Server \ {m.to} : Kept(j)
      BY <2>0, <3>1, UntouchedKept DEF TypeOK, Persist
    <3>. QED  BY <3>1, <3>3, <3>4, KeptInv
  <2>. QED  BY <1>5, <2>1, <2>2 DEF RequestVote
<1>6. ASSUME NEW r \in DOMAIN voteRep, HandleVoteReply(r)
      PROVE  LogInv'
  <2>0. r.call.from \in Server /\ r.term \in Nat
    BY DEF TypeOK, VoteRep, VoteReq
  <2>1. CASE UNCHANGED <<serverVars, disk>> \/ VoteGranted(r)
    BY <1>1, <1>6, <2>1 DEF HandleVoteReply, VoteGranted
  <2>2. CASE StepDown(r.call.from, r.term)
    BY <1>6, <2>0, <2>2, StepDownKept, KeptInv DEF HandleVoteReply
  <2>. QED  BY <1>6, <2>1, <2>2 DEF HandleVoteReply, VoteRefused
<1>7. ASSUME NEW b \in DOMAIN beat, SendAppend(b)
      PROVE  LogInv'
  BY <1>7, SendAppendLogInv
<1>8. ASSUME NEW m \in DOMAIN appReq, AppendEntries(m)
      PROVE  LogInv'
  <2>0. m.to \in Server /\ m.term \in Nat
    BY DEF TypeOK, AppReq
  <2>1. CASE AppendEntriesStale(m)
    BY <1>8, <2>1, UntouchedKept, ReplyAppendCalls, KeptInv DEF AppendEntriesStale
  <2>2. CASE AppendEntriesBehind(m)
    BY <2>0, <2>2, AdoptTermKept, ReplyAppendCalls, KeptInv DEF AppendEntriesBehind
  <2>3. CASE AppendEntriesMatch(m)
    BY <2>3, MatchLogInv
  <2>4. CASE AppendEntriesConflict(m)
    <3>1. DOMAIN appReq' \subseteq DOMAIN appReq
      BY <2>4, ReplyAppendCalls DEF AppendEntriesConflict
    <3>. QED  BY <2>0, <2>4, <3>1, AdoptTermKept, KeptInv DEF AppendEntriesConflict
  <2>. QED  BY <1>8, <2>1, <2>2, <2>3, <2>4 DEF AppendEntries
<1>9. ASSUME NEW r \in DOMAIN appRep, HandleAppendReply(r)
      PROVE  LogInv'
  <2>0. r.call.from \in Server /\ r.call.term \in Nat /\ r.term \in Nat \cup {-1}
    BY DEF TypeOK, AppRep, AppReq
  <2>1. CASE AppendRefused(r) \/ AppendSucceeded(r) \/ AppendConflicted(r)
    BY <1>1, <1>9, <2>1
       DEF HandleAppendReply, AppendRefused, AppendSucceeded, AppendConflicted, Retry
  <2>2. CASE AppendNewTerm(r)
    <3>1. r.term \in Nat
      BY <2>0, <2>2 DEF AppendNewTerm
    <3>. QED  BY <1>9, <2>0, <2>2, <3>1, StepDownKept, KeptInv DEF HandleAppendReply, AppendNewTerm
  <2>. QED  BY <1>9, <2>1, <2>2 DEF HandleAppendReply
<1>10. ASSUME NEW m \in DOMAIN voteReq, LoseVoteReq(m)
       PROVE  LogInv'
  BY <1>1, <1>10 DEF LoseVoteReq
<1>11. ASSUME NEW r \in DOMAIN voteRep, LoseVoteRep(r)
       PROVE  LogInv'
  BY <1>1, <1>11 DEF LoseVoteRep
<1>12. ASSUME NEW m \in DOMAIN appReq, LoseAppReq(m)
       PROVE  LogInv'
  <2>1. \A j \in Server : ServerOrdered(j)'
    BY <1>12, UntouchedKept, KeptOrdered DEF LogInv, LoseAppReq, Retry
  <2>2. CallOrdered(Orphan(m))
    <3>1. m \in AppReq
      BY DEF TypeOK
    <3>2. Orphan(m).entries = m.entries /\ Orphan(m).term = m.term
          /\ Orphan(m).prevTerm = m.prevTerm
      BY <3>1 DEF Orphan, AppReq
    <3>. QED  BY <3>2 DEF LogInv, CallOrdered
  <2>3. DOMAIN appReq' \subseteq DOMAIN appReq \cup {Orphan(m)}
    BY <1>12, AfterFailureDomain DEF LoseAppReq
  <2>4. \A x \in DOMAIN appReq' : CallOrdered(x)
    BY <2>2, <2>3 DEF LogInv
  <2>. QED  BY <2>1, <2>4 DEF LogInv, CallOrdered
<1>13. ASSUME NEW r \in DOMAIN appRep, LoseAppRep(r)
       PROVE  LogInv'
  BY <1>1, <1>13 DEF LoseAppRep, Retry
<1>14. ASSUME NEW i \in Server, Restart(i)
       PROVE  LogInv'
  <2>1. log'[i] = disk[i].log /\ currentTerm'[i] = disk[i].term /\ disk' = disk /\ appReq' = appReq
    BY <1>14 DEF TypeOK, Restart
  <2>2. ServerOrdered(i)'
    BY <2>1 DEF LogInv, ServerOrdered
  <2>3. ASSUME NEW j \in Server, j # i
        PROVE  ServerOrdered(j)'
    <3>1. log'[j] = log[j] /\ currentTerm'[j] = currentTerm[j]
      BY <1>14, <2>3 DEF TypeOK, Restart
    <3>. QED  BY <2>1, <3>1, UntouchedKept, KeptOrdered DEF LogInv
  <2>. QED  BY <2>1, <2>2, <2>3 DEF LogInv, CallOrdered
<1>15. CASE UNCHANGED vars
  BY <1>1, <1>15 DEF vars
<1>. QED  BY <1>2, <1>3, <1>4, <1>5, <1>6, <1>7, <1>8, <1>9, <1>10, <1>11, <1>12, <1>13, <1>14,
             <1>15 DEF Next, ServerStep, Deliver, Lose

\* The invariant behind the two theorems that follow.
THEOREM LogInvariance == Spec => []LogInv
BY InitType, NextType, InitLogInv, NextLogInv, PTL DEF Spec

\* Whatever crashes and late calls happen, what a server holds as its log is what
\* its persister holds whenever rf.mu is free: a restart loses no entry.
THEOREM LogOnDisk == Spec => []LogDurable
<1>1. LogInv => LogDurable
  BY DEF LogInv, ServerOrdered, LogDurable
<1>. QED  BY <1>1, LogInvariance, PTL

\* The terms of a log never decrease and never exceed the server's own term, the
\* one it would restart with included, although election() saves no term and
\* AppendEntries may be called by an instance that has crashed.
THEOREM LogInTermOrder == Spec => []LogTermsOrdered
<1>1. LogInv => LogTermsOrdered
  BY DEF LogInv, ServerOrdered, Sorted, Bounded, LogTermsOrdered
<1>. QED  BY <1>1, LogInvariance, PTL

-----------------------------------------------------------------------------
(* Votes and elections.  First, steps by what they do to the votes *)

\* A step that keeps the servers' votes and adds no vote call.
VotesKept == UNCHANGED <<currentTerm, votedFor, role, disk, ballots>>
NoNewCall == DOMAIN voteReq' \subseteq DOMAIN voteReq /\ DOMAIN voteRep' \subseteq DOMAIN voteRep

\* What a server holds about votes; CallsBacked is what its calls hold.
ServerInv == BallotsBind /\ VoteOnce /\ VotesRecorded /\ OwnVote /\ LeaderBacked

\* A recorded vote is between servers, and its voter's terms are numbers.
LEMMA BallotType ==
    ASSUME TypeOK, NEW b \in ballots
    PROVE  /\ b[1] \in Server /\ b[2] \in Nat /\ b[3] \in Server
           /\ currentTerm[b[1]] \in Nat
           /\ disk[b[1]].term \in Nat
BY DEF TypeOK, Disk

\* Steps that leave terms, votes, roles, disks and granted votes alone keep the
\* invariant of the servers.
LEMMA KeptServerInv ==
    ASSUME TypeOK, ServerInv, VotesKept
    PROVE  ServerInv'
BY DEF ServerInv, VotesKept, BallotsBind, Binds, VoteOnce, VotesRecorded, Backs, OwnVote,
       LeaderBacked

\* Votes are never taken back, so the calls that counted them stay backed.
LEMMA KeptCalls ==
    ASSUME CallsBacked, NoNewCall, ballots \subseteq ballots'
    PROVE  CallsBacked'
BY DEF CallsBacked, NoNewCall, CallBacked, Backs

\* Server i enters a newer term t without a vote, and persists that or not.
EnterTerm(i, t) ==
    /\ currentTerm[i] < t
    /\ currentTerm' = [currentTerm EXCEPT ![i] = t]
    /\ votedFor' = [votedFor EXCEPT ![i] = None]
    /\ role' = [role EXCEPT ![i] = Follower]
    /\ ballots' = ballots
    /\ disk' = disk \/ \E l : disk' = [disk EXCEPT ![i] = Snapshot(t, None, l)]

\* So do steps in which a server enters a newer term without having granted a
\* vote in it.
LEMMA EnterTermServerInv ==
    ASSUME TypeOK, ServerInv, NEW i \in Server, NEW t \in Nat, EnterTerm(i, t)
    PROVE  ServerInv'
<1>. USE DEF EnterTerm, Snapshot
<1>0. None \notin Server
  BY NAssumption DEF None, Server
<1>a. \A v \in Server : IF v = i THEN currentTerm'[v] = t /\ votedFor'[v] = None
                               ELSE currentTerm'[v] = currentTerm[v] /\ votedFor'[v] = votedFor[v]
  BY DEF TypeOK
<1>b. \A v \in Server : \/ disk'[v] = disk[v]
                        \/ v = i /\ disk'[v].term = t /\ disk'[v].votedFor = None
  <2>1. CASE disk' = disk
    BY <2>1
  <2>2. CASE disk' # disk
    <3>1. PICK l : disk' = [disk EXCEPT ![i] = Snapshot(t, None, l)]
      BY <2>2
    <3>2. Snapshot(t, None, l).term = t /\ Snapshot(t, None, l).votedFor = None
      OBVIOUS
    <3>3. \A v \in Server : IF v = i THEN disk'[v] = Snapshot(t, None, l)
                                     ELSE disk'[v] = disk[v]
      BY <3>1 DEF TypeOK
    <3>. HIDE DEF Snapshot
    <3>. QED  BY <3>2, <3>3
  <2>. QED  BY <2>1, <2>2
<1>1. BallotsBind'
  BY <1>a, <1>b, BallotType DEF ServerInv, BallotsBind, Binds
<1>2. VoteOnce'
  BY DEF ServerInv, VoteOnce
<1>3. VotesRecorded'
  <2>. SUFFICES ASSUME NEW v \in Server
                PROVE  /\ votedFor'[v] \in Server =>
                             v = votedFor'[v] \/ <<v, currentTerm'[v], votedFor'[v]>> \in ballots'
                       /\ disk'[v].votedFor \in Server =>
                             \/ v = disk'[v].votedFor
                             \/ <<v, disk'[v].term, disk'[v].votedFor>> \in ballots'
    BY DEF VotesRecorded, Backs
  <2>1. votedFor'[v] \in Server => votedFor'[v] = votedFor[v] /\ currentTerm'[v] = currentTerm[v]
    BY <1>0, <1>a
  <2>2. disk'[v].votedFor \in Server => disk'[v] = disk[v]
    BY <1>0, <1>b
  <2>3. votedFor'[v] \in Server =>
          v = votedFor'[v] \/ <<v, currentTerm'[v], votedFor'[v]>> \in ballots'
    <3>1. votedFor[v] \in Server => v = votedFor[v] \/ <<v, currentTerm[v], votedFor[v]>> \in ballots
      BY DEF ServerInv, VotesRecorded, Backs
    <3>2. ballots' = ballots
      OBVIOUS
    <3>. HIDE DEF EnterTerm
    <3>. QED  BY <2>1, <3>1, <3>2
  <2>4. disk'[v].votedFor \in Server =>
          v = disk'[v].votedFor \/ <<v, disk'[v].term, disk'[v].votedFor>> \in ballots'
    BY <2>2 DEF ServerInv, VotesRecorded, Backs
  <2>. QED  BY <2>3, <2>4
<1>4. OwnVote'
  BY DEF TypeOK, ServerInv, OwnVote
<1>5. LeaderBacked'
  BY DEF TypeOK, ServerInv, LeaderBacked, Backs, Leader, Follower
<1>. QED  BY <1>1, <1>2, <1>3, <1>4, <1>5 DEF ServerInv

\* Server i saves the term and the vote it holds.
SaveVote(i) ==
    /\ UNCHANGED <<currentTerm, votedFor, role, ballots>>
    /\ \E l : disk' = [disk EXCEPT ![i] = Snapshot(currentTerm[i], votedFor[i], l)]

\* So does a persist() of the term and the vote the server holds.
LEMMA SaveVoteServerInv ==
    ASSUME TypeOK, ServerInv, NEW i \in Server, SaveVote(i)
    PROVE  ServerInv'
<1>. USE DEF SaveVote, Snapshot
<1>a. \A v \in Server :
        \/ disk'[v] = disk[v]
        \/ disk'[v].term = currentTerm[v] /\ disk'[v].votedFor = votedFor[v]
  BY DEF TypeOK
<1>1. BallotsBind'
  BY <1>a, BallotType DEF ServerInv, BallotsBind, Binds
<1>2. VoteOnce'
  BY DEF ServerInv, VoteOnce
<1>3. VotesRecorded'
  BY <1>a DEF ServerInv, VotesRecorded, Backs
<1>4. OwnVote' /\ LeaderBacked'
  BY DEF ServerInv, OwnVote, LeaderBacked, Backs
<1>. QED  BY <1>1, <1>2, <1>3, <1>4 DEF ServerInv

\* AdoptTerm and StepDown are such steps.
LEMMA StepDownServerInv ==
    ASSUME TypeOK, ServerInv, NEW i \in Server, NEW t \in Nat, StepDown(i, t),
           ballots' = ballots
    PROVE  ServerInv'
<1>1. CASE currentTerm[i] < t
  <2>1. EnterTerm(i, t)
    BY <1>1 DEF TypeOK, StepDown, Persist, EnterTerm
  <2>. QED  BY <2>1, EnterTermServerInv
<1>2. CASE ~(currentTerm[i] < t)
  <2>1. VotesKept
    BY <1>2 DEF StepDown, VotesKept, serverVars
  <2>. QED  BY <2>1, KeptServerInv
<1>. QED  BY <1>1, <1>2

\* So does becomeFollower.
LEMMA AdoptTermServerInv ==
    ASSUME TypeOK, ServerInv, NEW i \in Server, NEW t \in Nat, AdoptTerm(i, t),
           ballots' = ballots,
           disk' = disk \/ \E l : disk' = [disk EXCEPT ![i] = Snapshot(currentTerm'[i], votedFor'[i], l)]
    PROVE  ServerInv'
<1>1. CASE currentTerm[i] < t
  <2>1. EnterTerm(i, t)
    BY <1>1 DEF TypeOK, AdoptTerm, EnterTerm
  <2>. QED  BY <2>1, EnterTermServerInv
<1>2. CASE ~(currentTerm[i] < t)
  <2>1. UNCHANGED <<currentTerm, votedFor, role>>
    BY <1>2 DEF AdoptTerm, serverVars
  <2>2. VotesKept \/ SaveVote(i)
    BY <2>1 DEF VotesKept, SaveVote
  <2>. QED  BY <2>2, KeptServerInv, SaveVoteServerInv
<1>. QED  BY <1>1, <1>2

-----------------------------------------------------------------------------
(* Vote calls *)

\* A reply tells the truth about a vote.
LEMMA ReplyVoteCalls ==
    ASSUME CallsBacked, NEW m \in DOMAIN voteReq, NEW t, NEW g, ReplyVote(m, t, g),
           ballots \subseteq ballots',
           g => <<m.to, m.term, m.from>> \in ballots'
    PROVE  CallsBacked'
<1>. DEFINE r == [call |-> m, term |-> t, granted |-> g]
<1>1. DOMAIN voteReq' \subseteq DOMAIN voteReq
  BY BagRemoveDomain DEF ReplyVote
<1>2. DOMAIN voteRep' \subseteq DOMAIN voteRep \cup {r}
  BY BagAddDomain DEF ReplyVote
<1>3. \A x \in DOMAIN voteReq : x.from # x.to
                               /\ \A v \in x.votes : v = x.from \/ <<v, x.term, x.from>> \in ballots'
  BY DEF CallsBacked, CallBacked, Backs
<1>4. \A x \in DOMAIN voteRep :
        /\ x.call.from # x.call.to
        /\ \A v \in x.call.votes : v = x.call.from \/ <<v, x.call.term, x.call.from>> \in ballots'
        /\ x.granted => <<x.call.to, x.call.term, x.call.from>> \in ballots'
  BY DEF CallsBacked, CallBacked, Backs
<1>5. r.call = m /\ r.granted = g
  OBVIOUS
<1>. HIDE DEF r
<1>. QED  BY <1>1, <1>2, <1>3, <1>4, <1>5 DEF CallsBacked, CallBacked, Backs

\* The next call of an election counts only votes that were granted.
LEMMA AskNextCalls ==
    ASSUME NEW B, \A x \in DOMAIN B : CallBacked(x), NEW m \in VoteReq, NEW V \in SUBSET Server,
           \A v \in V : Backs(v, m.term, m.from), AskNext(B, m, V)
    PROVE  \A x \in DOMAIN voteReq' : CallBacked(x)
<1>. DEFINE n == [m EXCEPT !.to = NextPeer(m.from, m.to), !.votes = V]
<1>1. n.from = m.from /\ n.to = NextPeer(m.from, m.to) /\ n.votes = V /\ n.term = m.term
  BY DEF VoteReq
<1>2. m.from # NextPeer(m.from, m.to)
  BY DEF VoteReq, NextPeer, Server
<1>3. CallBacked(n)
  BY <1>1, <1>2 DEF CallBacked
<1>4. DOMAIN voteReq' \subseteq DOMAIN B \cup {n}
  BY BagAddDomain DEF AskNext
<1>. QED  BY <1>3, <1>4

\* Pending calls that count granted votes, and fewer replies.
LEMMA CallsBackedNext ==
    ASSUME CallsBacked, ballots' = ballots,
           \A x \in DOMAIN voteReq' : CallBacked(x),
           DOMAIN voteRep' \subseteq DOMAIN voteRep
    PROVE  CallsBacked'
BY DEF CallsBacked, CallBacked, Backs

-----------------------------------------------------------------------------
(* The actions that change votes *)

\* A candidate that enters a new term keeps the invariant although it saves
\* neither term nor vote.
LEMMA ElectionStartVotes ==
    ASSUME TypeOK, VoteInv, NEW i \in Server, ElectionStart(i)
    PROVE  VoteInv'
<1>. USE DEF logVars, leaderVars, appCalls, history
<1>1. \A v \in Server :
        IF v = i THEN currentTerm'[v] = currentTerm[v] + 1 /\ votedFor'[v] = i /\ role'[v] = Candidate
        ELSE currentTerm'[v] = currentTerm[v] /\ votedFor'[v] = votedFor[v] /\ role'[v] = role[v]
  BY DEF TypeOK, ElectionStart
<1>2. disk' = disk /\ ballots' = ballots /\ voteRep' = voteRep
  BY DEF ElectionStart
<1>3. BallotsBind'
  BY <1>1, <1>2, BallotType DEF VoteInv, BallotsBind, Binds
<1>4. VoteOnce'
  BY <1>2 DEF VoteInv, VoteOnce
<1>5. VotesRecorded'
  BY <1>1, <1>2 DEF VoteInv, VotesRecorded, Backs
<1>6. OwnVote'
  BY <1>1 DEF VoteInv, OwnVote
<1>7. LeaderBacked'
  <2>1. \A v \in Server : role'[v] = Leader => role[v] = Leader /\ currentTerm'[v] = currentTerm[v]
    BY <1>1 DEF Leader, Candidate
  <2>. QED  BY <1>2, <2>1 DEF VoteInv, LeaderBacked, Backs
<1>8. CallsBacked'
  <2>. DEFINE m == [from |-> i, to |-> NextPeer(i, -1), term |-> currentTerm'[i],
                    lastIndex |-> LastIndex(log[i]), lastTerm |-> LastTerm(log[i]),
                    votes |-> {i}, epoch |-> epoch[i]]
  <2>1. DOMAIN voteReq' = DOMAIN voteReq \cup {m}
    BY BagAddDomain DEF ElectionStart
  <2>2. i # NextPeer(i, -1)
    BY DEF NextPeer, Server
  <2>3. CallBacked(m)
    BY <2>2 DEF CallBacked, Backs
  <2>. HIDE DEF m
  <2>. QED  BY <1>2, <2>1, <2>3, CallsBackedNext DEF VoteInv, CallsBacked
<1>. QED  BY <1>3, <1>4, <1>5, <1>6, <1>7, <1>8 DEF VoteInv

\* A granted vote of a newer term: the voter is bound before it replies.
LEMMA GrantVotes ==
    ASSUME TypeOK, VoteInv, NEW m \in DOMAIN voteReq, RequestVoteNewTerm(m),
           ~MoreUpToDate(log[m.to], m.lastIndex, m.lastTerm)
    PROVE  VoteInv'
<1>. DEFINE i == m.to
            c == m.from
            new == <<m.to, m.term, m.from>>
<1>0. i \in Server /\ c \in Server /\ m.term \in Nat /\ i # c
  BY DEF TypeOK, VoteReq, VoteInv, CallsBacked, CallBacked
<1>1. \A v \in Server :
        IF v = i THEN currentTerm'[v] = m.term /\ votedFor'[v] = c /\ role'[v] = Follower
        ELSE currentTerm'[v] = currentTerm[v] /\ votedFor'[v] = votedFor[v] /\ role'[v] = role[v]
  BY <1>0 DEF TypeOK, RequestVoteNewTerm
<1>2. \A v \in Server :
        IF v = i THEN disk'[v].term = m.term /\ disk'[v].votedFor = c
        ELSE disk'[v] = disk[v]
  BY <1>0, <1>1 DEF TypeOK, RequestVoteNewTerm, Persist, Snapshot
<1>3. ballots' = ballots \cup {new} /\ m.term > currentTerm[i]
  BY DEF RequestVoteNewTerm
<1>4. \A b \in ballots : b[1] = i => b[2] < m.term
  BY <1>0, <1>3, BallotType DEF VoteInv, BallotsBind, Binds
<1>5. new[1] = i /\ new[2] = m.term /\ new[3] = c
  OBVIOUS
<1>. HIDE DEF new
<1>6. BallotsBind'
  <2>. SUFFICES ASSUME NEW b \in ballots'
                PROVE  /\ b[1] # b[3]
                       /\ currentTerm'[b[1]] >= b[2] /\ (currentTerm'[b[1]] = b[2] => votedFor'[b[1]] = b[3])
                       /\ disk'[b[1]].term >= b[2] /\ (disk'[b[1]].term = b[2] => disk'[b[1]].votedFor = b[3])
    BY DEF BallotsBind, Binds
  <2>1. CASE b = new
    BY <1>0, <1>1, <1>2, <1>5, <2>1
  <2>2. CASE b \in ballots
    <3>1. CASE b[1] = i
      BY <1>0, <1>1, <1>2, <1>4, <2>2, <3>1, BallotType DEF VoteInv, BallotsBind, Binds
    <3>2. CASE b[1] # i
      BY <1>1, <1>2, <2>2, <3>2, BallotType DEF VoteInv, BallotsBind, Binds
    <3>. QED  BY <3>1, <3>2
  <2>. QED  BY <1>3, <2>1, <2>2
<1>7. VoteOnce'
  <2>. SUFFICES ASSUME NEW x \in ballots', NEW y \in ballots', x[1] = y[1], x[2] = y[2]
                PROVE  x[3] = y[3]
    BY DEF VoteOnce
  <2>1. CASE x \in ballots /\ y \in ballots
    BY <2>1 DEF VoteInv, VoteOnce
  <2>2. \A b \in ballots : ~(b[1] = i /\ b[2] = m.term)
    BY <1>0, <1>4, BallotType
  <2>. QED  BY <1>3, <1>5, <2>1, <2>2
<1>8. VotesRecorded'
  BY <1>0, <1>1, <1>2, <1>3 DEF VoteInv, VotesRecorded, Backs, new
<1>9. OwnVote'
  BY <1>1 DEF VoteInv, OwnVote
<1>10. LeaderBacked'
  <2>1. \A v \in Server : role'[v] = Leader => role[v] = Leader /\ currentTerm'[v] = currentTerm[v]
    BY <1>1 DEF Leader, Follower
  <2>. QED  BY <1>3, <2>1 DEF VoteInv, LeaderBacked, Backs
<1>11. CallsBacked'
  <2>1. ReplyVote(m, currentTerm[m.to], TRUE)
    BY DEF RequestVoteNewTerm
  <2>2. new \in ballots' /\ ballots \subseteq ballots'
    BY <1>3
  <2>. QED  BY <2>1, <2>2, ReplyVoteCalls DEF VoteInv, new
<1>. QED  BY <1>6, <1>7, <1>8, <1>9, <1>10, <1>11 DEF VoteInv

\* The election goroutine receives a vote: with a majority the candidate leads.
LEMMA VoteGrantedVotes ==
    ASSUME TypeOK, VoteInv, NEW r \in DOMAIN voteRep, VoteGranted(r), ballots' = ballots
    PROVE  VoteInv'
<1>. DEFINE i == r.call.from
            V == r.call.votes \cup {r.call.to}
<1>0. i \in Server /\ V \in SUBSET Server /\ r.call \in VoteReq
  BY DEF TypeOK, VoteRep, VoteReq
<1>1. \A v \in V : Backs(v, r.call.term, i)
  BY DEF VoteGranted, VoteInv, CallsBacked, CallBacked, Backs
<1>2. currentTerm' = currentTerm /\ votedFor' = votedFor /\ disk' = disk
  BY DEF VoteGranted
<1>3. BallotsBind' /\ VoteOnce' /\ VotesRecorded'
  BY <1>2 DEF VoteInv, BallotsBind, Binds, VoteOnce, VotesRecorded, Backs
<1>4. \/ role' = role
      \/ /\ Majority(V) /\ currentTerm[i] = r.call.term /\ role[i] = Candidate
         /\ role' = [role EXCEPT ![i] = Leader]
  BY DEF VoteGranted, WinElection
<1>5. OwnVote'
  <2>1. \A v \in Server : role'[v] # Follower => role[v] # Follower
    BY <1>0, <1>4 DEF TypeOK, Follower, Candidate
  <2>. QED  BY <1>2, <2>1 DEF VoteInv, OwnVote
<1>6. LeaderBacked'
  <2>. SUFFICES ASSUME NEW v \in Server, role'[v] = Leader
                PROVE  \E Q \in SUBSET Server :
                          Majority(Q) /\ \A x \in Q : Backs(x, currentTerm[v], v)
    BY <1>2 DEF LeaderBacked, Backs
  <2>1. CASE role[v] = Leader
    BY <2>1 DEF VoteInv, LeaderBacked
  <2>2. CASE role[v] # Leader
    <3>1. v = i /\ Majority(V) /\ currentTerm[i] = r.call.term
      BY <1>0, <1>4, <2>2 DEF TypeOK
    <3>. QED  BY <1>0, <1>1, <3>1
  <2>. QED  BY <2>1, <2>2
<1>7. CallsBacked'
  <2>1. DOMAIN voteRep' \subseteq DOMAIN voteRep
    BY BagRemoveDomain DEF VoteGranted
  <2>2. \A x \in DOMAIN voteReq : CallBacked(x)
    BY DEF VoteInv, CallsBacked
  <2>3. AskNext(voteReq, r.call, V)
    BY DEF VoteGranted
  <2>4. \A x \in DOMAIN voteReq' : CallBacked(x)
    BY <1>0, <1>1, <2>2, <2>3, AskNextCalls
  <2>. QED  BY <2>1, <2>4, CallsBackedNext DEF VoteInv
<1>. QED  BY <1>3, <1>5, <1>6, <1>7 DEF VoteInv

\* A restarted server holds the vote it saved, and leads nothing.
LEMMA RestartVotes ==
    ASSUME TypeOK, VoteInv, NEW i \in Server, Restart(i)
    PROVE  VoteInv'
<1>1. \A v \in Server :
        IF v = i THEN currentTerm'[v] = disk[v].term /\ votedFor'[v] = disk[v].votedFor /\ role'[v] = Follower
        ELSE currentTerm'[v] = currentTerm[v] /\ votedFor'[v] = votedFor[v] /\ role'[v] = role[v]
  BY DEF TypeOK, Restart
<1>2. disk' = disk /\ ballots' = ballots /\ voteReq' = voteReq
  BY DEF Restart, history
<1>3. BallotsBind'
  BY <1>1, <1>2, BallotType DEF VoteInv, BallotsBind, Binds
<1>4. VoteOnce'
  BY <1>2 DEF VoteInv, VoteOnce
<1>5. VotesRecorded'
  BY <1>1, <1>2 DEF VoteInv, VotesRecorded, Backs
<1>6. OwnVote'
  BY <1>1 DEF VoteInv, OwnVote
<1>7. LeaderBacked'
  <2>1. \A v \in Server : role'[v] = Leader => role[v] = Leader /\ currentTerm'[v] = currentTerm[v]
    BY <1>1 DEF Leader, Follower
  <2>. QED  BY <1>2, <2>1 DEF VoteInv, LeaderBacked, Backs
<1>8. CallsBacked'
  <2>1. NoNewCall
    BY <1>2 DEF NoNewCall, Restart, OthersReplies
  <2>. QED  BY <1>2, <2>1, KeptCalls DEF VoteInv
<1>. QED  BY <1>3, <1>4, <1>5, <1>6, <1>7, <1>8 DEF VoteInv

-----------------------------------------------------------------------------
(* The invariant *)

\* No votes have been granted initially.
LEMMA InitVotes == Init => VoteInv
<1>. SUFFICES ASSUME Init
              PROVE  VoteInv
  OBVIOUS
<1>1. ballots = {} /\ DOMAIN voteReq = {} /\ DOMAIN voteRep = {}
  BY DEF Init, EmptyBag, SetToBag
<1>2. BallotsBind /\ VoteOnce /\ CallsBacked
  BY <1>1 DEF BallotsBind, VoteOnce, CallsBacked
<1>3. VotesRecorded
  BY DEF Init, VotesRecorded, Snapshot, None, Server
<1>4. OwnVote /\ LeaderBacked
  BY DEF Init, OwnVote, LeaderBacked, Follower, Leader
<1>. QED  BY <1>2, <1>3, <1>4 DEF VoteInv

\* Every step keeps the invariant of the votes.
LEMMA NextVotes == TypeOK /\ VoteInv /\ [Next]_vars => VoteInv'
<1>. SUFFICES ASSUME TypeOK, VoteInv, [Next]_vars
              PROVE  VoteInv'
  OBVIOUS
<1>. USE DEF serverVars, logVars, leaderVars, voteCalls, appCalls, history
<1>a. ServerInv /\ CallsBacked
  BY DEF VoteInv, ServerInv
<1>b. ASSUME ServerInv', CallsBacked'
      PROVE  VoteInv'
  BY <1>b DEF VoteInv, ServerInv
<1>c. ASSUME VotesKept, voteReq' = voteReq, voteRep' = voteRep
      PROVE  VoteInv'
  <2>1. NoNewCall /\ ballots \subseteq ballots'
    BY <1>c DEF NoNewCall, VotesKept
  <2>. QED  BY <1>a, <1>b, <1>c, <2>1, KeptServerInv, KeptCalls
<1>d. ASSUME ServerInv', ballots' = ballots, voteReq' = voteReq, voteRep' = voteRep
      PROVE  VoteInv'
  <2>1. NoNewCall /\ ballots \subseteq ballots'
    BY <1>d DEF NoNewCall
  <2>. QED  BY <1>a, <1>b, <1>d, <2>1, KeptCalls
<1>0. ASSUME NEW i \in Server, LeaderTimeout(i)
      PROVE  VoteInv'
  BY <1>0, <1>c DEF LeaderTimeout, VotesKept
<1>1. ASSUME NEW i \in Server, ElectionTimeout(i)
      PROVE  VoteInv'
  BY <1>1, <1>c DEF ElectionTimeout, VotesKept
<1>2. ASSUME NEW i \in Server, ElectionStart(i)
      PROVE  VoteInv'
  BY <1>2, ElectionStartVotes
<1>3. ASSUME NEW i \in Server, NEW c \in Command, Start(i, c)
      PROVE  VoteInv'
  <2>1. SaveVote(i)
    BY <1>3 DEF Start, SaveVote, Persist
  <2>. QED  BY <1>3, <1>a, <1>d, <2>1, SaveVoteServerInv DEF Start
<1>4. ASSUME NEW i \in Server, NEW j \in Server, HeartbeatTick(i, j)
      PROVE  VoteInv'
  BY <1>4, <1>c DEF HeartbeatTick, VotesKept
<1>5. ASSUME NEW i \in Server, ApplyCommits(i)
      PROVE  VoteInv'
  BY <1>5, <1>c DEF ApplyCommits, VotesKept
<1>6. ASSUME NEW m \in DOMAIN voteReq, RequestVote(m)
      PROVE  VoteInv'
  <2>. m.from \in Server /\ m.to \in Server /\ m.term \in Nat /\ m.from # m.to
    BY DEF TypeOK, VoteReq, VoteInv, CallsBacked, CallBacked
  <2>1. CASE RequestVoteStale(m)
    <3>1. VotesKept /\ ReplyVote(m, currentTerm[m.to], FALSE) /\ ballots \subseteq ballots'
      BY <2>1 DEF RequestVoteStale, VotesKept
    <3>. QED  BY <1>a, <1>b, <3>1, KeptServerInv, ReplyVoteCalls
  <2>2. CASE RequestVoteSameTerm(m)
    <3>1. GrantsAgain(m) => <<m.to, m.term, m.from>> \in ballots
      BY <2>2 DEF RequestVoteSameTerm, GrantsAgain, VoteInv, VotesRecorded, Backs
    <3>2. VotesKept /\ ReplyVote(m, currentTerm[m.to], GrantsAgain(m)) /\ ballots \subseteq ballots'
      BY <2>2, <3>1 DEF RequestVoteSameTerm, VotesKept
    <3>. QED  BY <1>a, <1>b, <3>1, <3>2, KeptServerInv, ReplyVoteCalls
  <2>3. CASE RequestVoteNewTerm(m) /\ ~MoreUpToDate(log[m.to], m.lastIndex, m.lastTerm)
    BY <2>3, GrantVotes
  <2>4. CASE RequestVoteNewTerm(m) /\ MoreUpToDate(log[m.to], m.lastIndex, m.lastTerm)
    <3>1. EnterTerm(m.to, m.term)
      BY <2>4 DEF TypeOK, RequestVoteNewTerm, Persist, EnterTerm
    <3>2. ReplyVote(m, currentTerm[m.to], FALSE) /\ ballots \subseteq ballots'
      BY <2>4 DEF RequestVoteNewTerm
    <3>. QED  BY <1>a, <1>b, <3>1, <3>2, EnterTermServerInv, ReplyVoteCalls
  <2>. QED  BY <1>6, <2>1, <2>2, <2>3, <2>4 DEF RequestVote
<1>7. ASSUME NEW r \in DOMAIN voteRep, HandleVoteReply(r)
      PROVE  VoteInv'
  <2>0. ballots' = ballots
    BY <1>7 DEF HandleVoteReply
  <2>1. CASE VoteGranted(r)
    BY <2>0, <2>1, VoteGrantedVotes
  <2>2. CASE VoteRefused(r)
    <3>1. r.call \in VoteReq /\ r.call.from \in Server /\ r.call.votes \in SUBSET Server /\ r.term \in Nat
      BY DEF TypeOK, VoteRep, VoteReq
    <3>2. ServerInv'
      <4>1. StepDown(r.call.from, r.term) \/ VotesKept
        BY <2>0, <2>2 DEF VoteRefused, VotesKept
      <4>. QED  BY <1>a, <2>0, <3>1, <4>1, StepDownServerInv, KeptServerInv
    <3>3. CallsBacked'
      <4>1. DOMAIN voteRep' \subseteq DOMAIN voteRep /\ AskNext(voteReq, r.call, r.call.votes)
        BY <2>2, BagRemoveDomain DEF VoteRefused
      <4>2. /\ \A x \in DOMAIN voteReq : CallBacked(x)
            /\ \A v \in r.call.votes : Backs(v, r.call.term, r.call.from)
        BY <1>a DEF CallsBacked, CallBacked
      <4>3. \A x \in DOMAIN voteReq' : CallBacked(x)
        BY <3>1, <4>1, <4>2, AskNextCalls
      <4>. QED  BY <1>a, <2>0, <4>1, <4>3, CallsBackedNext
    <3>. QED  BY <1>b, <3>2, <3>3
  <2>. QED  BY <1>7, <2>1, <2>2 DEF HandleVoteReply
<1>8. ASSUME NEW b \in DOMAIN beat, SendAppend(b)
      PROVE  VoteInv'
  BY <1>8, <1>c DEF SendAppend, VotesKept
<1>9. ASSUME NEW m \in DOMAIN appReq, AppendEntries(m)
      PROVE  VoteInv'
  <2>0. m.to \in Server /\ m.term \in Nat
    BY DEF TypeOK, AppReq
  <2>1. ballots' = ballots /\ voteReq' = voteReq /\ voteRep' = voteRep
    BY <1>9 DEF AppendEntries
  <2>2. CASE AppendEntriesStale(m)
    BY <1>c, <2>1, <2>2 DEF AppendEntriesStale, VotesKept
  <2>3. CASE ~AppendEntriesStale(m)
    <3>1. /\ AdoptTerm(m.to, m.term)
          /\ disk' = disk \/ \E l : disk' = [disk EXCEPT ![m.to] =
                                      Snapshot(currentTerm'[m.to], votedFor'[m.to], l)]
      BY <1>9, <2>3 DEF AppendEntries, AppendEntriesBehind, AppendEntriesMatch,
                        AppendEntriesConflict, Persist
    <3>2. ServerInv'
      BY <1>a, <2>0, <2>1, <3>1, AdoptTermServerInv
    <3>. QED  BY <1>d, <2>1, <3>2
  <2>. QED  BY <2>2, <2>3
<1>10. ASSUME NEW r \in DOMAIN appRep, HandleAppendReply(r)
       PROVE  VoteInv'
  <2>0. ballots' = ballots /\ voteReq' = voteReq /\ voteRep' = voteRep
    BY <1>10 DEF HandleAppendReply
  <2>1. CASE AppendNewTerm(r)
    <3>1. StepDown(r.call.from, r.term)
      BY <2>1 DEF AppendNewTerm
    <3>2. r.call.from \in Server /\ r.term \in Nat
      <4>1. r \in AppRep
        BY DEF TypeOK
      <4>2. r.call \in AppReq /\ r.term \in Nat \cup {-1}
        BY <4>1 DEF AppRep
      <4>3. r.call.from \in Server /\ r.call.term \in Nat
        BY <4>2 DEF AppReq
      <4>. QED  BY <2>1, <4>2, <4>3 DEF AppendNewTerm
    <3>3. ServerInv'
      BY <1>a, <2>0, <3>1, <3>2, StepDownServerInv
    <3>. QED  BY <1>d, <2>0, <3>3
  <2>2. CASE ~AppendNewTerm(r)
    <3>1. VotesKept
      BY <1>10, <2>0, <2>2 DEF HandleAppendReply, AppendRefused, AppendSucceeded,
                                AppendConflicted, Retry, VotesKept
    <3>. QED  BY <1>c, <2>0, <3>1
  <2>. QED  BY <2>1, <2>2
<1>11. ASSUME NEW m \in DOMAIN voteReq, LoseVoteReq(m)
       PROVE  VoteInv'
  <2>1. VotesKept /\ ballots' = ballots /\ voteRep' = voteRep
    BY <1>11 DEF LoseVoteReq, VotesKept
  <2>2. PICK B \in AfterFailure(voteReq, m) : AskNext(B, m, m.votes)
    BY <1>11 DEF LoseVoteReq
  <2>3. m \in VoteReq /\ m.votes \in SUBSET Server /\ CallBacked(m)
    BY <1>a DEF TypeOK, VoteReq, CallsBacked
  <2>4. CallBacked(Orphan(m))
    BY <2>3 DEF Orphan, CallBacked, VoteReq
  <2>5. \A x \in DOMAIN B : CallBacked(x)
    BY <1>a, <2>4, AfterFailureDomain DEF CallsBacked
  <2>6. \A x \in DOMAIN voteReq' : CallBacked(x)
    BY <2>2, <2>3, <2>5, AskNextCalls DEF CallBacked
  <2>. QED  BY <1>a, <1>b, <2>1, <2>6, KeptServerInv, CallsBackedNext
<1>12. ASSUME NEW r \in DOMAIN voteRep, LoseVoteRep(r)
       PROVE  VoteInv'
  <2>1. VotesKept /\ ballots' = ballots /\ DOMAIN voteRep' \subseteq DOMAIN voteRep
    BY <1>12, BagRemoveDomain DEF LoseVoteRep, VotesKept
  <2>2. r.call \in VoteReq /\ r.call.votes \in SUBSET Server
    BY DEF TypeOK, VoteRep, VoteReq
  <2>3. /\ \A x \in DOMAIN voteReq : CallBacked(x)
        /\ \A v \in r.call.votes : Backs(v, r.call.term, r.call.from)
    BY <1>a DEF CallsBacked, CallBacked
  <2>4. \A x \in DOMAIN voteReq' : CallBacked(x)
    BY <1>12, <2>2, <2>3, AskNextCalls DEF LoseVoteRep
  <2>. QED  BY <1>a, <1>b, <2>1, <2>4, KeptServerInv, CallsBackedNext
<1>13. ASSUME NEW m \in DOMAIN appReq, LoseAppReq(m)
       PROVE  VoteInv'
  BY <1>13, <1>c DEF LoseAppReq, Retry, VotesKept
<1>14. ASSUME NEW r \in DOMAIN appRep, LoseAppRep(r)
       PROVE  VoteInv'
  BY <1>14, <1>c DEF LoseAppRep, Retry, VotesKept
<1>15. ASSUME NEW i \in Server, Restart(i)
       PROVE  VoteInv'
  BY <1>15, RestartVotes
<1>16. CASE UNCHANGED vars
  BY <1>16, <1>c DEF vars, VotesKept
<1>. QED  BY <1>0, <1>1, <1>2, <1>3, <1>4, <1>5, <1>6, <1>7, <1>8, <1>9, <1>10, <1>11, <1>12,
             <1>13, <1>14, <1>15, <1>16 DEF Next, ServerStep, Deliver, Lose

\* Two majorities of the servers have a server in common.
LEMMA MajoritiesIntersect ==
    ASSUME NEW P \in SUBSET Server, NEW Q \in SUBSET Server, Majority(P), Majority(Q)
    PROVE  P \cap Q # {}
<1>1. IsFiniteSet(Server) /\ Cardinality(Server) = N
  <2>1. IsFiniteSet(0 .. N - 1) /\ Cardinality(0 .. N - 1) = (IF 0 > N - 1 THEN 0 ELSE N - 1 - 0 + 1)
    BY NAssumption, FS_Interval
  <2>. QED  BY <2>1, NAssumption DEF Server
<1>2. Cardinality(P) \in Nat /\ Cardinality(Q) \in Nat
  BY <1>1, FS_Subset, FS_CardinalityType
<1>3. Cardinality(P) + Cardinality(Q) > Cardinality(Server)
  BY <1>1, <1>2, NAssumption DEF Majority
<1>. QED  BY <1>1, <1>3, FS_MajoritiesIntersect

\* Two majorities share a server, which votes once: one leader per term.
LEMMA VoteInvSafe == TypeOK /\ VoteInv => ElectionSafety
<1>. SUFFICES ASSUME TypeOK, VoteInv, NEW i \in Server, NEW j \in Server,
                     role[i] = Leader, role[j] = Leader, currentTerm[i] = currentTerm[j], i # j
              PROVE  FALSE
  BY DEF ElectionSafety
<1>1. PICK P \in SUBSET Server : Majority(P) /\ \A v \in P : Backs(v, currentTerm[i], i)
  BY DEF VoteInv, LeaderBacked
<1>2. PICK Q \in SUBSET Server : Majority(Q) /\ \A v \in Q : Backs(v, currentTerm[i], j)
  BY DEF VoteInv, LeaderBacked
<1>3. PICK v \in P \cap Q : TRUE
  BY <1>1, <1>2, MajoritiesIntersect
<1>4. votedFor[i] = i /\ votedFor[j] = j
  BY DEF VoteInv, OwnVote, Leader, Follower
<1>5. CASE v = i
  <2>1. <<i, currentTerm[i], j>> \in ballots
    BY <1>2, <1>3, <1>5 DEF Backs
  <2>. QED  BY <1>4, <2>1 DEF VoteInv, BallotsBind, Binds
<1>6. CASE v = j
  <2>1. <<j, currentTerm[j], i>> \in ballots
    BY <1>1, <1>3, <1>6 DEF Backs
  <2>. QED  BY <1>4, <2>1 DEF VoteInv, BallotsBind, Binds
<1>7. CASE v # i /\ v # j
  <2>1. <<v, currentTerm[i], i>> \in ballots /\ <<v, currentTerm[i], j>> \in ballots
    BY <1>1, <1>2, <1>3, <1>7 DEF Backs
  <2>. QED  BY <2>1 DEF VoteInv, VoteOnce
<1>. QED  BY <1>5, <1>6, <1>7

\* The votes that candidates counted bind their voters, in memory and on disk.
THEOREM VoteInvariant == Spec => []VoteInv
<1>1. Init => TypeOK /\ VoteInv
  BY InitType, InitVotes
<1>2. TypeOK /\ VoteInv /\ [Next]_vars => (TypeOK /\ VoteInv)'
  BY NextType, NextVotes
<1>. QED  BY <1>1, <1>2, PTL DEF Spec

\* RequestVote grants at most one candidate a vote in a term, over all crashes
\* and restarts of the voter, although election() saves neither the new term
\* nor the candidate's own vote.
THEOREM OneVotePerTerm == Spec => []VoteOnce
<1>1. VoteInv => VoteOnce
  BY DEF VoteInv
<1>. QED  BY <1>1, VoteInvariant, PTL

\* At every moment at most one running server leads a term, whatever the number
\* of servers, lost or delayed calls, crashes and restarts.
THEOREM OneLeaderPerTerm == Spec => []ElectionSafety
<1>1. TypeOK /\ VoteInv => ElectionSafety
  BY VoteInvSafe
<1>. QED  BY <1>1, TypeCorrect, VoteInvariant, PTL

=============================================================================
