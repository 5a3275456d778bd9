--------------------------- MODULE RaftMatchProofs ---------------------------
(***************************************************************************)
(* Logs match and leaders only append, for every number of servers, and    *)
(* any lost, late or orphaned calls, as long as no server restarts.        *)
(*                                                                         *)
(* A log, and the part of one that an AppendEntries call carries, are      *)
(* segments: entries with the index and the term before them.  Any two     *)
(* segments, of servers or of calls still to be handled, agree up to the   *)
(* last point at which they have the same term, because only the one       *)
(* winner of a term makes entries of it, and puts them behind all others.  *)
(***************************************************************************)
EXTENDS RaftProofs

-----------------------------------------------------------------------------
(* Segments of logs, and the inductive invariant *)

Segment == [prev : Nat, prevTerm : Nat, entries : Seq(Entry)]
Whole(l) == [prev |-> 0, prevTerm |-> 0, entries |-> l]
LogSegment(i) == Whole(log[i])
CallSegment(m) == [prev |-> m.next - 1, prevTerm |-> m.prevTerm, entries |-> m.entries]
Segments == {LogSegment(i) : i \in Server} \cup {CallSegment(m) : m \in DOMAIN appReq}

\* The points of a segment: its entries, and the one before them, of which only
\* the term is known.
End(s) == s.prev + Len(s.entries)
EntryIn(s, k) == s.entries[k - s.prev]
TermIn(s, k) == IF k = s.prev THEN s.prevTerm ELSE EntryIn(s, k).term
Points(s) == s.prev .. End(s)

\* Segments with the same term at a point are the same up to it, as far as both
\* reach back.
SameAt(s, t, x) ==
    /\ TermIn(s, x) = TermIn(t, x)
    /\ s.prev < x /\ t.prev < x => EntryIn(s, x) = EntryIn(t, x)
Agree(s, t) ==
    \A k, x \in Points(s) \cap Points(t) :
        x <= k /\ TermIn(s, k) = TermIn(t, k) => SameAt(s, t, x)

\* Server i has a majority in term t, and has not voted for another in it.
Elected(t, i) ==
    /\ \E Q \in SUBSET Server : Majority(Q) /\ \A v \in Q : Backs(v, t, i)
    /\ \A b \in ballots : ~(b[1] = i /\ b[2] = t)

\* Server i won the election of term t, and has led t or does so still.
Won(t, i) ==
    /\ Elected(t, i)
    /\ currentTerm[i] > t \/ (currentTerm[i] = t /\ role[i] = Leader)

\* No server sends heartbeats to itself.
NotToSelf ==
    /\ \A b \in DOMAIN beat : b.from # b.to
    /\ \A m \in DOMAIN appReq : m.from # m.to
    /\ \A r \in DOMAIN appRep : r.call.from # r.call.to

\* Who calls AppendEntries, and who made an entry, won the election of that term.
SendersWon == \A m \in DOMAIN appReq : Won(m.term, m.from)
TermsWon ==
    \A s \in Segments : \A k \in Points(s) : k > 0 => \E i \in Server : Won(TermIn(s, k), i)

\* Nobody has an entry of a term that its leader does not have.
LeaderLongest ==
    \A i \in Server : role[i] = Leader =>
        \A s \in Segments : \A k \in Points(s) :
            TermIn(s, k) = currentTerm[i] => k <= Len(log[i])

SegmentsAgree == \A s, t \in Segments : Agree(s, t)

MatchInv == NotToSelf /\ SendersWon /\ TermsWon /\ LeaderLongest /\ SegmentsAgree

-----------------------------------------------------------------------------
(* Facts about segments *)

\* The ends of a segment are numbers.
LEMMA SegmentType ==
    ASSUME NEW s \in Segment
    PROVE  /\ s.prev \in Nat /\ s.prevTerm \in Nat /\ s.entries \in Seq(Entry)
           /\ End(s) \in Nat /\ s.prev <= End(s)
           /\ Points(s) \subseteq Nat
BY DEF Segment, End, Points

\* Logs and calls are segments.
LEMMA SegmentsType ==
    ASSUME TypeOK
    PROVE  /\ \A i \in Server : LogSegment(i) \in Segment
           /\ \A m \in DOMAIN appReq : CallSegment(m) \in Segment
           /\ Segments \subseteq Segment
<1>1. ASSUME NEW i \in Server PROVE LogSegment(i) \in Segment
  BY DEF TypeOK, LogSegment, Whole, Segment
<1>2. ASSUME NEW m \in DOMAIN appReq PROVE CallSegment(m) \in Segment
  <2>1. m.next \in Nat \ {0} /\ m.prevTerm \in Nat /\ m.entries \in Seq(Entry)
    BY DEF TypeOK, AppReq
  <2>. QED  BY <2>1 DEF CallSegment, Segment
<1>. QED  BY <1>1, <1>2 DEF Segments

\* Agreement is symmetric and reflexive.
LEMMA AgreeSymmetric ==
    ASSUME NEW s, NEW t, Agree(s, t)
    PROVE  Agree(t, s)
BY DEF Agree, SameAt

\* A segment agrees with itself.
LEMMA AgreeReflexive ==
    ASSUME NEW s
    PROVE  Agree(s, s)
BY DEF Agree, SameAt

\* A part of a segment agrees with what the whole agrees with.
LEMMA AgreePart ==
    ASSUME NEW s \in Segment, NEW u \in Segment, NEW t \in Segment, Agree(s, t),
           s.prev <= u.prev, End(u) <= End(s),
           \A k \in Points(u) : TermIn(u, k) = TermIn(s, k),
           \A k \in Points(u) : k > u.prev => EntryIn(u, k) = EntryIn(s, k)
    PROVE  Agree(u, t)
<1>. SUFFICES ASSUME NEW k \in Points(u) \cap Points(t), NEW x \in Points(u) \cap Points(t),
                     x <= k, TermIn(u, k) = TermIn(t, k)
              PROVE  SameAt(u, t, x)
  BY DEF Agree
<1>1. k \in Points(s) /\ x \in Points(s)
  BY SegmentType DEF Points
<1>2. SameAt(s, t, x)
  BY <1>1 DEF Agree
<1>3. u.prev < x => s.prev < x
  BY SegmentType DEF Points
<1>. QED  BY <1>2, <1>3 DEF SameAt

\* So does a segment s whose end, from the first point of m on, is replaced by m.
LEMMA AgreeSplice ==
    ASSUME NEW s \in Segment, NEW m \in Segment, NEW u \in Segment, NEW t \in Segment,
           Agree(s, t), Agree(m, t),
           m.prev \in Points(s), TermIn(s, m.prev) = TermIn(m, m.prev),
           u.prev = s.prev, End(u) = End(m),
           \A k \in s.prev .. m.prev : TermIn(u, k) = TermIn(s, k),
           \A k \in s.prev + 1 .. m.prev : EntryIn(u, k) = EntryIn(s, k),
           \A k \in Points(m) : TermIn(u, k) = TermIn(m, k),
           \A k \in Points(m) : k > m.prev => EntryIn(u, k) = EntryIn(m, k)
    PROVE  Agree(u, t)
<1>. SUFFICES ASSUME NEW k \in Points(u) \cap Points(t), NEW x \in Points(u) \cap Points(t),
                     x <= k, TermIn(u, k) = TermIn(t, k)
              PROVE  SameAt(u, t, x)
  BY DEF Agree
<1>0. /\ s.prev \in Nat /\ m.prev \in Nat /\ t.prev \in Nat /\ End(s) \in Nat /\ End(m) \in Nat
      /\ End(t) \in Nat /\ k \in Nat /\ x \in Nat
  BY SegmentType
<1>a. ASSUME NEW y \in Points(s) \cap Points(t), y <= m.prev, TermIn(s, y) = TermIn(t, y), x <= y
      PROVE  SameAt(u, t, x)
  <2>1. x \in Points(s) /\ x \in s.prev .. m.prev
    BY <1>0, <1>a DEF Points
  <2>2. SameAt(s, t, x)
    BY <1>a, <2>1 DEF Agree
  <2>3. s.prev < x => x \in s.prev + 1 .. m.prev
    BY <1>0, <2>1
  <2>. QED  BY <2>1, <2>2, <2>3 DEF SameAt
<1>1. CASE k <= m.prev
  <2>1. k \in Points(s) /\ k \in s.prev .. m.prev
    BY <1>0, <1>1 DEF Points
  <2>2. TermIn(s, k) = TermIn(t, k)
    BY <2>1
  <2>. QED  BY <1>1, <1>a, <2>1, <2>2
<1>2. CASE k > m.prev
  <2>1. k \in Points(m) /\ TermIn(m, k) = TermIn(t, k)
    BY <1>0, <1>2 DEF Points
  <2>2. CASE x > m.prev
    <3>1. x \in Points(m)
      BY <1>0, <2>2 DEF Points
    <3>2. SameAt(m, t, x)
      BY <2>1, <3>1 DEF Agree
    <3>. QED  BY <2>2, <3>1, <3>2 DEF SameAt
  <2>3. CASE x <= m.prev
    <3>1. m.prev \in Points(m) /\ m.prev \in Points(t)
      BY <1>0, <1>2, <2>3 DEF Points
    <3>2. TermIn(m, m.prev) = TermIn(t, m.prev)
      BY <1>0, <1>2, <2>1, <3>1 DEF Agree, SameAt
    <3>. QED  BY <1>0, <1>a, <2>3, <3>1, <3>2
  <2>. QED  BY <1>0, <2>2, <2>3
<1>. QED  BY <1>0, <1>1, <1>2

\* So does a segment with one more entry, of a term that t does not have there.
LEMMA AgreeExtended ==
    ASSUME NEW s \in Segment, NEW u \in Segment, NEW t \in Segment, Agree(s, t),
           u.prev = s.prev, End(u) = End(s) + 1,
           \A k \in Points(s) : TermIn(u, k) = TermIn(s, k),
           \A k \in Points(s) : k > s.prev => EntryIn(u, k) = EntryIn(s, k),
           End(u) \in Points(t) => TermIn(t, End(u)) # TermIn(u, End(u))
    PROVE  Agree(u, t)
<1>. SUFFICES ASSUME NEW k \in Points(u) \cap Points(t), NEW x \in Points(u) \cap Points(t),
                     x <= k, TermIn(u, k) = TermIn(t, k)
              PROVE  SameAt(u, t, x)
  BY DEF Agree
<1>0. /\ s.prev \in Nat /\ t.prev \in Nat /\ End(s) \in Nat /\ End(t) \in Nat
      /\ k \in Nat /\ x \in Nat
  BY SegmentType
<1>1. k # End(u)
  OBVIOUS
<1>2. k \in Points(s) /\ x \in Points(s)
  BY <1>0, <1>1 DEF Points
<1>3. SameAt(s, t, x)
  BY <1>2 DEF Agree
<1>. QED  BY <1>2, <1>3 DEF SameAt

-----------------------------------------------------------------------------
(* Who won a term *)

\* Terms are not lowered, leaders stay in their term, and no server that has led a
\* term votes in it: true of all steps but a restart.
Forward ==
    /\ \A i \in Server : /\ currentTerm[i] <= currentTerm'[i]
                         /\ role[i] = Leader /\ currentTerm'[i] = currentTerm[i] => role'[i] = Leader
    /\ ballots \subseteq ballots'
    /\ \A b \in ballots' \ ballots :
          \/ currentTerm[b[1]] < b[2]
          \/ currentTerm[b[1]] = b[2] /\ role[b[1]] # Leader

\* Then who won a term stays its winner.
LEMMA WonKept ==
    ASSUME TypeOK, TypeOK', Forward, NEW t \in Nat, NEW i \in Server, Won(t, i)
    PROVE  Won(t, i)'
<1>0. currentTerm[i] \in Nat /\ currentTerm'[i] \in Nat
  BY DEF TypeOK
<1>1. \E Q \in SUBSET Server : Majority(Q) /\ \A v \in Q : Backs(v, t, i)'
  BY DEF Won, Elected, Backs, Forward
<1>2. currentTerm'[i] > t \/ (currentTerm'[i] = t /\ role'[i] = Leader)
  BY <1>0 DEF Won, Forward
<1>3. ASSUME NEW b \in ballots', b[1] = i, b[2] = t
      PROVE  FALSE
  <2>1. b \notin ballots
    BY <1>3 DEF Won, Elected
  <2>2. currentTerm[i] < t \/ (currentTerm[i] = t /\ role[i] # Leader)
    BY <1>3, <2>1 DEF Forward
  <2>. QED  BY <1>0, <2>2 DEF Won
<1>. QED  BY <1>1, <1>2, <1>3 DEF Won, Elected

\* A candidate or leader with a majority is elected: it has voted for itself.
LEMMA MajorityElects ==
    ASSUME VoteInv, NEW i \in Server, role[i] # Follower, NEW Q \in SUBSET Server,
           Majority(Q), \A v \in Q : Backs(v, currentTerm[i], i)
    PROVE  Elected(currentTerm[i], i)
<1>1. votedFor[i] = i
  BY DEF VoteInv, OwnVote
<1>2. \A b \in ballots : ~(b[1] = i /\ b[2] = currentTerm[i])
  BY <1>1 DEF VoteInv, BallotsBind, Binds
<1>. QED  BY <1>2 DEF Elected

\* A leader won the term it leads.
LEMMA LeaderWon ==
    ASSUME VoteInv, NEW i \in Server, role[i] = Leader
    PROVE  Won(currentTerm[i], i)
<1>1. PICK Q \in SUBSET Server : Majority(Q) /\ \A v \in Q : Backs(v, currentTerm[i], i)
  BY DEF VoteInv, LeaderBacked
<1>2. role[i] # Follower
  BY DEF Leader, Follower
<1>. QED  BY <1>1, <1>2, MajorityElects DEF Won

\* A term has one winner, also when it led the term long ago.
LEMMA OneWinner ==
    ASSUME VoteInv, NEW t, NEW i \in Server, NEW j \in Server, Elected(t, i), Elected(t, j)
    PROVE  i = j
<1>. SUFFICES ASSUME i # j PROVE FALSE
  OBVIOUS
<1>1. PICK P \in SUBSET Server : Majority(P) /\ \A v \in P : Backs(v, t, i)
  BY DEF Elected
<1>2. PICK Q \in SUBSET Server : Majority(Q) /\ \A v \in Q : Backs(v, t, j)
  BY DEF Elected
<1>3. PICK v \in P \cap Q : TRUE
  BY <1>1, <1>2, MajoritiesIntersect
<1>4. CASE v = i
  BY <1>2, <1>3, <1>4 DEF Backs, Elected
<1>5. CASE v = j
  BY <1>1, <1>3, <1>5 DEF Backs, Elected
<1>6. CASE v # i /\ v # j
  <2>1. <<v, t, i>> \in ballots /\ <<v, t, j>> \in ballots
    BY <1>1, <1>2, <1>3, <1>6 DEF Backs
  <2>. QED  BY <2>1 DEF VoteInv, VoteOnce
<1>. QED  BY <1>4, <1>5, <1>6

-----------------------------------------------------------------------------
(* Steps by what they do to segments *)

\* Nobody begins to lead, and a leader that goes on has lost nothing.
LeadersKept ==
    \A i \in Server : role'[i] = Leader =>
        /\ role[i] = Leader /\ currentTerm'[i] = currentTerm[i]
        /\ Len(log[i]) <= Len(log'[i])

\* Every point of u is one of a segment that exists.
Covered(u) == \A k \in Points(u) : \E s \in Segments : k \in Points(s) /\ TermIn(s, k) = TermIn(u, k)

\* The term of a point is a number.
LEMMA TermInType ==
    ASSUME NEW s \in Segment, NEW k \in Points(s)
    PROVE  TermIn(s, k) \in Nat
<1>1. s.prev \in Nat /\ Len(s.entries) \in Nat /\ k \in s.prev .. s.prev + Len(s.entries)
  BY SegmentType DEF Points, End
<1>2. CASE k = s.prev
  BY <1>2, SegmentType DEF TermIn
<1>3. CASE k # s.prev
  <2>1. k - s.prev \in 1 .. Len(s.entries)
    BY <1>1, <1>3
  <2>2. s.entries[k - s.prev].term \in Nat
    BY <2>1, SegmentType, EntryType
  <2>. QED  BY <1>3, <2>2 DEF TermIn, EntryIn
<1>. QED  BY <1>2, <1>3

\* A new segment that agrees with the others keeps all in agreement.
LEMMA StillAgree ==
    ASSUME SegmentsAgree, NEW u, Segments' \subseteq Segments \cup {u},
           \A t \in Segments : Agree(u, t)
    PROVE  SegmentsAgree'
<1>. SUFFICES ASSUME NEW s \in Segments', NEW t \in Segments'
              PROVE  Agree(s, t)
  BY DEF SegmentsAgree
<1>1. CASE s \in Segments /\ t \in Segments
  BY <1>1 DEF SegmentsAgree
<1>2. CASE s = u /\ t \in Segments
  BY <1>2
<1>3. CASE s \in Segments /\ t = u
  BY <1>3, AgreeSymmetric
<1>4. CASE s = u /\ t = u
  BY <1>4, AgreeReflexive
<1>. QED  BY <1>1, <1>2, <1>3, <1>4

\* A step that adds at most a segment of entries there are already.
LEMMA CoveredStep ==
    ASSUME TypeOK, TypeOK', MatchInv, Forward, NotToSelf', SendersWon', LeadersKept,
           NEW u, Segments' \subseteq Segments \cup {u}, Covered(u),
           \A t \in Segments : Agree(u, t)
    PROVE  MatchInv'
<1>1. ASSUME NEW s \in Segments', NEW k \in Points(s)
      PROVE  \E x \in Segments : k \in Points(x) /\ TermIn(x, k) = TermIn(s, k)
  BY <1>1 DEF Covered
<1>2. TermsWon'
  <2>. SUFFICES ASSUME NEW s \in Segments', NEW k \in Points(s), k > 0
                PROVE  \E i \in Server : Won(TermIn(s, k), i)'
    BY DEF TermsWon
  <2>1. PICK x \in Segments : k \in Points(x) /\ TermIn(x, k) = TermIn(s, k)
    BY <1>1
  <2>2. PICK i \in Server : Won(TermIn(x, k), i)
    BY <2>1 DEF MatchInv, TermsWon
  <2>3. TermIn(x, k) \in Nat
    BY <2>1, SegmentsType, TermInType
  <2>. QED  BY <2>1, <2>2, <2>3, WonKept
<1>3. LeaderLongest'
  <2>. SUFFICES ASSUME NEW i \in Server, role'[i] = Leader, NEW s \in Segments', NEW k \in Points(s),
                       TermIn(s, k) = currentTerm'[i]
                PROVE  k <= Len(log'[i])
    BY DEF LeaderLongest
  <2>1. PICK x \in Segments : k \in Points(x) /\ TermIn(x, k) = TermIn(s, k)
    BY <1>1
  <2>2. k <= Len(log[i])
    BY <2>1 DEF LeadersKept, MatchInv, LeaderLongest
  <2>3. k \in Nat
    BY <2>1, SegmentsType, SegmentType
  <2>4. log[i] \in Seq(Entry) /\ log'[i] \in Seq(Entry)
    BY DEF TypeOK
  <2>5. Len(log[i]) \in Nat /\ Len(log'[i]) \in Nat
    BY <2>4
  <2>. QED  BY <2>2, <2>3, <2>5 DEF LeadersKept
<1>4. SegmentsAgree'
  BY StillAgree DEF MatchInv
<1>. QED  BY <1>2, <1>3, <1>4 DEF MatchInv

\* A step that adds no segment.
LEMMA QuietStep ==
    ASSUME TypeOK, TypeOK', MatchInv, Forward, NotToSelf', SendersWon', LeadersKept,
           Segments' \subseteq Segments
    PROVE  MatchInv'
<1>1. PICK u \in Segments : TRUE
  BY NAssumption DEF Segments, Server
<1>2. Covered(u) /\ \A t \in Segments : Agree(u, t)
  BY DEF Covered, MatchInv, SegmentsAgree
<1>. QED  BY <1>2, CoveredStep

-----------------------------------------------------------------------------
(* Terms go forward *)

\* Server i enters term t, in any role but Leader, or nothing happens to terms and
\* roles.
Enters(i, t) ==
    /\ currentTerm[i] < t
    /\ currentTerm' = [currentTerm EXCEPT ![i] = t]
    /\ \E x \in {Follower, Candidate} : role' = [role EXCEPT ![i] = x]
Stays == UNCHANGED <<currentTerm, role>>

\* What both do for the terms and roles of all servers.
LEMMA EntersStays ==
    ASSUME TypeOK, NEW i \in Server, NEW t \in Nat, Enters(i, t) \/ Stays
    PROVE  \A j \in Server :
              /\ currentTerm[j] <= currentTerm'[j]
              /\ role[j] = Leader /\ currentTerm'[j] = currentTerm[j] => role'[j] = Leader
              /\ role'[j] = Leader => role[j] = Leader /\ currentTerm'[j] = currentTerm[j]
<1>. SUFFICES ASSUME NEW j \in Server
              PROVE  /\ currentTerm[j] <= currentTerm'[j]
                     /\ role[j] = Leader /\ currentTerm'[j] = currentTerm[j] => role'[j] = Leader
                     /\ role'[j] = Leader => role[j] = Leader /\ currentTerm'[j] = currentTerm[j]
  OBVIOUS
<1>0. currentTerm \in [Server -> Nat] /\ role \in [Server -> Role] /\ currentTerm[j] \in Nat
  BY DEF TypeOK
<1>1. CASE Stays
  BY <1>0, <1>1 DEF Stays
<1>2. CASE Enters(i, t) /\ j # i
  BY <1>0, <1>2 DEF Enters
<1>3. CASE Enters(i, t) /\ j = i
  <2>1. currentTerm'[j] = t /\ currentTerm[j] < t
    BY <1>0, <1>3 DEF Enters
  <2>2. role'[j] # Leader
    BY <1>0, <1>3 DEF Enters, Leader, Follower, Candidate
  <2>. QED  BY <1>0, <2>1, <2>2
<1>. QED  BY <1>1, <1>2, <1>3

\* Steps of this kind go forward when no votes are granted, and make no leader.
LEMMA EntersForward ==
    ASSUME TypeOK, NEW i \in Server, NEW t \in Nat, Enters(i, t) \/ Stays, ballots' = ballots
    PROVE  Forward
BY EntersStays DEF Forward

\* A leader keeps its log, unless that is the log the step changes.
LEMMA EntersLeaders ==
    ASSUME TypeOK, NEW i \in Server, NEW t \in Nat, Enters(i, t) \/ Stays,
           \A j \in Server : role'[j] = Leader => log'[j] = log[j]
    PROVE  LeadersKept
<1>1. \A j \in Server : role'[j] = Leader => Len(log[j]) <= Len(log'[j])
  <2>. SUFFICES ASSUME NEW j \in Server, role'[j] = Leader
                PROVE  Len(log[j]) <= Len(log'[j])
    OBVIOUS
  <2>1. log[j] \in Seq(Entry) /\ log'[j] = log[j]
    BY DEF TypeOK
  <2>2. Len(log[j]) \in Nat
    BY <2>1
  <2>. QED  BY <2>1, <2>2
<1>. QED  BY <1>1, EntersStays DEF LeadersKept

\* A newer term in a reply or a call is such a step.
LEMMA StepDownEnters ==
    ASSUME TypeOK, NEW i \in Server, NEW t \in Nat, StepDown(i, t)
    PROVE  Enters(i, t) \/ Stays
BY DEF StepDown, Enters, Stays, serverVars

\* So is becomeFollower.
LEMMA AdoptTermEnters ==
    ASSUME TypeOK, NEW i \in Server, NEW t \in Nat, AdoptTerm(i, t)
    PROVE  Enters(i, t) \/ Stays
BY DEF AdoptTerm, Enters, Stays, serverVars

\* RequestVote: the voter enters a newer term or votes in one it does not lead.
LEMMA RequestVoteForward ==
    ASSUME TypeOK, NEW m \in DOMAIN voteReq, RequestVote(m)
    PROVE  /\ Forward
           /\ \E i \in Server : \E t \in Nat : Enters(i, t) \/ Stays
<1>. DEFINE new == <<m.to, m.term, m.from>>
<1>0. m.to \in Server /\ m.term \in Nat /\ m.from \in Server
  BY DEF TypeOK, VoteReq
<1>1. Enters(m.to, m.term) \/ Stays
  BY DEF RequestVote, RequestVoteStale, RequestVoteSameTerm, RequestVoteNewTerm, serverVars,
         Enters, Stays
<1>2. \/ ballots' = ballots
      \/ /\ ballots' = ballots \cup {new}
         /\ \/ currentTerm[m.to] < m.term
            \/ currentTerm[m.to] = m.term /\ role[m.to] # Leader
  <2>1. CASE RequestVoteStale(m)
    BY <2>1 DEF RequestVoteStale
  <2>2. CASE RequestVoteSameTerm(m)
    BY <2>2 DEF RequestVoteSameTerm, GrantsAgain
  <2>3. CASE RequestVoteNewTerm(m)
    BY <1>0, <2>3 DEF RequestVoteNewTerm, TypeOK
  <2>. QED  BY <2>1, <2>2, <2>3 DEF RequestVote
<1>3. new[1] = m.to /\ new[2] = m.term
  OBVIOUS
<1>. HIDE DEF new
<1>4. Forward
  BY <1>0, <1>1, <1>2, <1>3, EntersStays DEF Forward
<1>. QED  BY <1>0, <1>1, <1>4

-----------------------------------------------------------------------------
(* The calls of heartbeat goroutines *)

\* n is the call m, perhaps without anybody waiting for its reply.
SameCall(n, m) ==
    /\ n.from = m.from /\ n.to = m.to /\ n.term = m.term
    /\ CallSegment(n) = CallSegment(m)

\* No AppendEntries call is made.
NoNewAppend == \A n \in DOMAIN appReq' : \E m \in DOMAIN appReq : SameCall(n, m)

\* Steps that make no call keep the senders, and bring no segment if no log changes.
LEMMA NoNewAppendKept ==
    ASSUME TypeOK, TypeOK', SendersWon, Forward, NoNewAppend
    PROVE  SendersWon' /\ (log' = log => Segments' \subseteq Segments)
<1>1. SendersWon'
  <2>. SUFFICES ASSUME NEW n \in DOMAIN appReq'
                PROVE  Won(n.term, n.from)'
    BY DEF SendersWon
  <2>1. PICK m \in DOMAIN appReq : SameCall(n, m)
    BY DEF NoNewAppend
  <2>2. m.term \in Nat /\ m.from \in Server /\ Won(m.term, m.from)
    BY DEF TypeOK, AppReq, SendersWon
  <2>3. Won(m.term, m.from)'
    BY <2>2, WonKept
  <2>. QED  BY <2>1, <2>3 DEF SameCall
<1>2. ASSUME log' = log PROVE Segments' \subseteq Segments
  <2>1. \A n \in DOMAIN appReq' : \E m \in DOMAIN appReq : CallSegment(n) = CallSegment(m)
    BY DEF NoNewAppend, SameCall
  <2>2. \A i \in Server : LogSegment(i)' = LogSegment(i)
    BY <1>2 DEF LogSegment, Whole
  <2>. QED  BY <2>1, <2>2 DEF Segments
<1>. QED  BY <1>1, <1>2

\* Calls that are removed or handled.
LEMMA FewerAppends ==
    ASSUME DOMAIN appReq' \subseteq DOMAIN appReq
    PROVE  NoNewAppend
BY DEF NoNewAppend, SameCall

\* A call that failed may go on as an orphan.
LEMMA OrphanAppends ==
    ASSUME TypeOK, NEW m \in DOMAIN appReq, appReq' \in AfterFailure(appReq, m)
    PROVE  NoNewAppend
<1>1. DOMAIN appReq' \subseteq DOMAIN appReq \cup {Orphan(m)}
  BY AfterFailureDomain
<1>2. SameCall(Orphan(m), m)
  BY DEF TypeOK, AppReq, Orphan, SameCall, CallSegment
<1>. QED  BY <1>1, <1>2 DEF NoNewAppend, SameCall

\* A goroutine that retries calls the same peer again.
LEMMA RetryNotToSelf ==
    ASSUME NotToSelf, NEW m, m.from # m.to, NEW k, NEW u, Retry(m, k, u)
    PROVE  \A b \in DOMAIN beat' : b.from # b.to
<1>. DEFINE n == [from |-> m.from, to |-> m.to, term |-> m.term,
                  next |-> AdjustedNext(log[m.from], k, u)]
<1>1. DOMAIN beat' \subseteq DOMAIN beat \cup {n}
  BY BagAddDomain DEF Retry
<1>2. n.from # n.to
  OBVIOUS
<1>. QED  BY <1>1, <1>2 DEF NotToSelf

\* No handler, reply or retry makes a server call itself.
LEMMA NextNotToSelf ==
    ASSUME TypeOK, NotToSelf, Next
    PROVE  NotToSelf'
<1>. USE DEF serverVars, logVars, leaderVars, voteCalls, appCalls, history
<1>a. ASSUME beat' = beat, appReq' = appReq, appRep' = appRep
      PROVE  NotToSelf'
  BY <1>a DEF NotToSelf
<1>b. ASSUME NEW r \in DOMAIN appRep PROVE r.call.from # r.call.to
  BY <1>b DEF NotToSelf
<1>1. ASSUME NEW i \in Server, NEW j \in Server, HeartbeatTick(i, j)
      PROVE  NotToSelf'
  <2>. DEFINE b == [from |-> i, to |-> j, term |-> currentTerm[i], next |-> nextIndex[i][j]]
  <2>1. DOMAIN beat' \subseteq DOMAIN beat \cup {b} /\ appReq' = appReq /\ appRep' = appRep
    BY <1>1, BagAddDomain DEF HeartbeatTick
  <2>2. b.from # b.to
    BY <1>1 DEF HeartbeatTick
  <2>. HIDE DEF b
  <2>. QED  BY <2>1, <2>2 DEF NotToSelf
<1>2. ASSUME NEW b \in DOMAIN beat, SendAppend(b)
      PROVE  NotToSelf'
  <2>. DEFINE i == b.from
              m == [from |-> i, to |-> b.to, term |-> b.term, next |-> b.next,
                    prevTerm |-> TermAt(log[i], b.next - 1),
                    entries |-> SubSeq(log[i], b.next, LastIndex(log[i])),
                    commit |-> commitIndex[i], epoch |-> epoch[i]]
  <2>0. appReq' \in {appReq, Calls!BagAdd(appReq, m)}
    BY <1>2 DEF SendAppend
  <2>1. /\ DOMAIN beat' \subseteq DOMAIN beat
        /\ DOMAIN appReq' \subseteq DOMAIN appReq \cup {m}
        /\ appRep' = appRep
    <3>. HIDE DEF m
    <3>1. DOMAIN appReq' \subseteq DOMAIN appReq \cup {m}
      BY <2>0, BagAddDomain
    <3>2. DOMAIN beat' \subseteq DOMAIN beat /\ appRep' = appRep
      BY <1>2, BagRemoveDomain DEF SendAppend
    <3>. QED  BY <3>1, <3>2
  <2>2. m.from # m.to
    BY DEF NotToSelf
  <2>. HIDE DEF m
  <2>. QED  BY <2>1, <2>2 DEF NotToSelf
<1>3. ASSUME NEW m \in DOMAIN appReq, AppendEntries(m)
      PROVE  NotToSelf'
  <2>1. PICK t, s, k, u : ReplyAppend(m, t, s, k, u)
    BY <1>3 DEF AppendEntries, AppendEntriesStale, AppendEntriesBehind, AppendEntriesMatch,
                AppendEntriesConflict
  <2>. DEFINE r == [call |-> m, term |-> t, success |-> s, newIndex |-> k, newTerm |-> u]
  <2>0. appRep' \in {appRep, Calls!BagAdd(appRep, r)}
    BY <2>1 DEF ReplyAppend
  <2>2. /\ DOMAIN appReq' \subseteq DOMAIN appReq
        /\ DOMAIN appRep' \subseteq DOMAIN appRep \cup {r}
        /\ beat' = beat
    <3>. HIDE DEF r
    <3>1. DOMAIN appRep' \subseteq DOMAIN appRep \cup {r}
      BY <2>0, BagAddDomain
    <3>2. DOMAIN appReq' \subseteq DOMAIN appReq /\ beat' = beat
      BY <1>3, <2>1, BagRemoveDomain DEF ReplyAppend, AppendEntries
    <3>. QED  BY <3>1, <3>2
  <2>3. r.call = m
    OBVIOUS
  <2>. HIDE DEF r
  <2>. QED  BY <2>2, <2>3 DEF NotToSelf
<1>4. ASSUME NEW r \in DOMAIN appRep, HandleAppendReply(r)
      PROVE  NotToSelf'
  <2>1. DOMAIN appRep' \subseteq DOMAIN appRep /\ appReq' = appReq
    BY <1>4, BagRemoveDomain DEF HandleAppendReply
  <2>2. beat' = beat \/ \E k, u : Retry(r.call, k, u)
    BY <1>4 DEF HandleAppendReply, AppendRefused, AppendNewTerm, AppendSucceeded, AppendConflicted
  <2>3. \A b \in DOMAIN beat' : b.from # b.to
    BY <1>b, <2>2, RetryNotToSelf DEF NotToSelf
  <2>. QED  BY <2>1, <2>3 DEF NotToSelf
<1>5. ASSUME NEW m \in DOMAIN appReq, LoseAppReq(m)
      PROVE  NotToSelf'
  <2>1. appReq' \in AfterFailure(appReq, m) /\ Retry(m, 0, 0) /\ appRep' = appRep
    BY <1>5 DEF LoseAppReq
  <2>2. \A b \in DOMAIN beat' : b.from # b.to
    BY <2>1, RetryNotToSelf DEF NotToSelf
  <2>3. NoNewAppend
    BY <2>1, OrphanAppends
  <2>. QED  BY <2>1, <2>2, <2>3 DEF NotToSelf, NoNewAppend, SameCall
<1>6. ASSUME NEW r \in DOMAIN appRep, LoseAppRep(r)
      PROVE  NotToSelf'
  <2>1. DOMAIN appRep' \subseteq DOMAIN appRep /\ appReq' = appReq /\ Retry(r.call, 0, 0)
    BY <1>6, BagRemoveDomain DEF LoseAppRep
  <2>2. \A b \in DOMAIN beat' : b.from # b.to
    BY <1>b, <2>1, RetryNotToSelf
  <2>. QED  BY <2>1, <2>2 DEF NotToSelf
<1>7. ASSUME NEW i \in Server, Restart(i)
      PROVE  NotToSelf'
  BY <1>7 DEF Restart, Others, OthersReplies, NotToSelf
<1>8. ASSUME NEW i \in Server, ServerStep(i)
      PROVE  NotToSelf'
  <2>1. CASE \E j \in Server : HeartbeatTick(i, j)
    BY <1>1, <2>1
  <2>2. CASE ~\E j \in Server : HeartbeatTick(i, j)
    BY <1>8, <1>a, <2>2 DEF ServerStep, ElectionTimeout, LeaderTimeout, ElectionStart, Start, ApplyCommits
  <2>. QED  BY <2>1, <2>2
<1>9. ASSUME NEW m \in DOMAIN voteReq, RequestVote(m) \/ LoseVoteReq(m)
      PROVE  NotToSelf'
  BY <1>9, <1>a DEF RequestVote, LoseVoteReq
<1>10. ASSUME NEW r \in DOMAIN voteRep, HandleVoteReply(r) \/ LoseVoteRep(r)
       PROVE  NotToSelf'
  BY <1>10, <1>a DEF HandleVoteReply, LoseVoteRep
<1>. QED  BY <1>2, <1>3, <1>4, <1>5, <1>6, <1>7, <1>8, <1>9, <1>10 DEF Next, Deliver, Lose

-----------------------------------------------------------------------------
(* The segments that steps make *)

\* A log as a segment.
LEMMA WholePoints ==
    ASSUME NEW l \in Seq(Entry)
    PROVE  /\ Whole(l) \in Segment /\ Whole(l).prev = 0 /\ End(Whole(l)) = Len(l)
           /\ Points(Whole(l)) = 0 .. Len(l) /\ Len(l) \in Nat
           /\ \A k \in 0 .. Len(l) : /\ TermIn(Whole(l), k) = TermAt(l, k)
                                     /\ k > 0 => EntryIn(Whole(l), k) = l[k]
<1>. DEFINE s == Whole(l)
<1>1. s.prev = 0 /\ s.prevTerm = 0 /\ s.entries = l /\ Len(l) \in Nat /\ s \in Segment
  BY DEF Whole, Segment
<1>. HIDE DEF s
<1>2. End(s) = Len(l) /\ Points(s) = 0 .. Len(l)
  BY <1>1 DEF End, Points
<1>3. \A k \in 0 .. Len(l) : TermIn(s, k) = TermAt(l, k) /\ EntryIn(s, k) = l[k]
  BY <1>1 DEF TermIn, EntryIn, TermAt
<1>. QED  BY <1>1, <1>2, <1>3 DEF s

\* The segment of a call that sends a log from n on.
LEMMA PartPoints ==
    ASSUME NEW l \in Seq(Entry), NEW n \in 1 .. Len(l) + 1, NEW u,
           u = [prev |-> n - 1, prevTerm |-> TermAt(l, n - 1), entries |-> SubSeq(l, n, Len(l))]
    PROVE  /\ u \in Segment /\ u.prev = n - 1 /\ End(u) = Len(l)
           /\ \A k \in Points(u) : /\ k \in 0 .. Len(l) /\ TermIn(u, k) = TermAt(l, k)
                                   /\ k > u.prev => EntryIn(u, k) = l[k]
<1>. DEFINE q == SubSeq(l, n, Len(l))
<1>1. Len(l) \in Nat /\ n \in Nat /\ n >= 1 /\ n - 1 \in 0 .. Len(l)
  OBVIOUS
<1>2. q \in Seq(Entry) /\ Len(q) = Len(l) - (n - 1) /\ \A x \in 1 .. Len(q) : q[x] = l[n - 1 + x]
  <2>1. q \in Seq(Entry)
    OBVIOUS
  <2>2. Len(q) = Len(l) - n + 1 /\ \A x \in 1 .. Len(q) : q[x] = l[n + x - 1]
    OBVIOUS
  <2>. HIDE DEF q
  <2>3. \A x \in 1 .. Len(q) : n + x - 1 = n - 1 + x
    BY <1>1, <2>2
  <2>. QED  BY <1>1, <2>1, <2>2, <2>3
<1>3. TermAt(l, n - 1) \in Nat
  BY <1>1, TermAtType
<1>4. u.prev = n - 1 /\ u.prevTerm = TermAt(l, n - 1) /\ u.entries = q
  OBVIOUS
<1>5. u \in Segment
  <2>. HIDE DEF q
  <2>. QED  BY <1>1, <1>2, <1>3 DEF Segment, q
<1>. HIDE DEF q
<1>6. End(u) = Len(l) /\ Points(u) = n - 1 .. Len(l)
  BY <1>1, <1>2, <1>4 DEF End, Points
<1>7. ASSUME NEW k \in Points(u)
      PROVE  /\ k \in 0 .. Len(l) /\ TermIn(u, k) = TermAt(l, k)
             /\ k > u.prev => EntryIn(u, k) = l[k]
  <2>1. k \in 0 .. Len(l) /\ k >= n - 1
    BY <1>1, <1>6
  <2>2. CASE k = n - 1
    BY <1>1, <1>4, <2>1, <2>2 DEF TermIn
  <2>3. CASE k # n - 1
    <3>1. k - (n - 1) \in 1 .. Len(q) /\ n - 1 + (k - (n - 1)) = k /\ k # 0
      BY <1>1, <1>2, <2>1, <2>3
    <3>2. EntryIn(u, k) = l[k]
      BY <1>2, <1>4, <3>1 DEF EntryIn
    <3>. QED  BY <1>4, <2>1, <2>3, <3>1, <3>2 DEF TermIn, TermAt
  <2>. QED  BY <2>2, <2>3
<1>. QED  BY <1>4, <1>5, <1>6, <1>7

\* The log after AppendEntries, up to where the call begins and from there on.
LEMMA SplicedPoints ==
    ASSUME NEW l \in Seq(Entry), NEW m \in AppReq, PrevMatches(l, m)
    PROVE  /\ Spliced(l, m) \in Seq(Entry)
           /\ CallSegment(m) \in Segment
           /\ CallSegment(m).prev \in 0 .. Len(l)
           /\ TermIn(CallSegment(m), CallSegment(m).prev) = TermAt(l, CallSegment(m).prev)
           /\ Len(Spliced(l, m)) = End(CallSegment(m))
           /\ \A k \in 0 .. CallSegment(m).prev :
                 /\ TermAt(Spliced(l, m), k) = TermAt(l, k)
                 /\ k > 0 => Spliced(l, m)[k] = l[k]
           /\ \A k \in Points(CallSegment(m)) :
                 /\ TermAt(Spliced(l, m), k) = TermIn(CallSegment(m), k)
                 /\ k > CallSegment(m).prev => Spliced(l, m)[k] = EntryIn(CallSegment(m), k)
<1>1. m.next \in Nat \ {0} /\ m.entries \in Seq(Entry) /\ m.prevTerm \in Nat
  BY DEF AppReq
<1>. DEFINE c == CallSegment(m)
            p == m.next - 1
            a == SubSeq(l, 1, p)
            q == Spliced(l, m)
<1>2. p \in 0 .. Len(l) /\ p \in Nat /\ Len(l) \in Nat /\ TermAt(l, p) = m.prevTerm
  BY <1>1 DEF PrevMatches, LastIndex
<1>3. a \in Seq(Entry) /\ Len(a) = p /\ \A k \in 1 .. p : a[k] = l[k]
  BY <1>1, <1>2
<1>4. c.prev = p /\ c.prevTerm = m.prevTerm /\ c.entries = m.entries
  BY DEF CallSegment
<1>5. c \in Segment
  BY <1>1 DEF CallSegment, Segment
<1>. HIDE DEF p, a, c
<1>6. q = a \o m.entries
  BY DEF Spliced, a, p
<1>. HIDE DEF q
<1>7. ASSUME NEW x \in Seq(Entry), NEW y \in Seq(Entry)
      PROVE  /\ x \o y \in Seq(Entry)
             /\ Len(x \o y) = Len(x) + Len(y) /\ Len(y) \in Nat
             /\ \A k \in 1 .. Len(x) : (x \o y)[k] = x[k]
             /\ \A k \in Len(x) + 1 .. Len(x) + Len(y) : (x \o y)[k] = y[k - Len(x)]
  OBVIOUS
<1>8. /\ q \in Seq(Entry)
      /\ Len(q) = Len(a) + Len(m.entries) /\ Len(m.entries) \in Nat
      /\ \A k \in 1 .. Len(a) : q[k] = a[k]
      /\ \A k \in Len(a) + 1 .. Len(a) + Len(m.entries) : q[k] = m.entries[k - Len(a)]
  BY <1>1, <1>3, <1>6, <1>7, Zenon
<1>9. Len(q) = End(c) /\ Points(c) = p .. p + Len(m.entries)
  BY <1>2, <1>3, <1>4, <1>8 DEF End, Points
<1>10. ASSUME NEW k \in 0 .. p
       PROVE  TermAt(q, k) = TermAt(l, k) /\ (k > 0 => q[k] = l[k])
  <2>1. k > 0 => k \in 1 .. p
    BY <1>2
  <2>2. k > 0 => q[k] = l[k]
    BY <1>3, <1>8, <2>1
  <2>. QED  BY <1>2, <2>2 DEF TermAt
<1>11. TermIn(c, p) = m.prevTerm
  BY <1>4 DEF TermIn
<1>12. ASSUME NEW k \in Points(c)
       PROVE  TermAt(q, k) = TermIn(c, k) /\ (k > p => q[k] = EntryIn(c, k))
  <2>1. CASE k = p
    <3>1. p \in 0 .. p /\ ~(k > p)
      BY <1>2, <2>1
    <3>. QED  BY <1>2, <1>10, <1>11, <2>1, <3>1
  <2>2. CASE k # p
    <3>1. k \in p + 1 .. p + Len(m.entries) /\ k # 0
      BY <1>2, <1>8, <1>9, <2>2
    <3>2. q[k] = EntryIn(c, k)
      BY <1>3, <1>4, <1>8, <3>1 DEF EntryIn
    <3>. QED  BY <1>4, <2>2, <3>1, <3>2 DEF TermAt, TermIn
  <2>. QED  BY <2>1, <2>2
<1>. QED  BY <1>2, <1>4, <1>5, <1>8, <1>9, <1>10, <1>11, <1>12 DEF c, q

-----------------------------------------------------------------------------
(* The actions that add segments or make a leader *)

\* Start: the leader's new entry is the first of its term at that index, since
\* nobody has more of that term than the leader.
LEMMA StartMatch ==
    ASSUME TypeOK, TypeOK', VoteInv, MatchInv, NotToSelf',
           NEW i \in Server, NEW c \in Command, Start(i, c)
    PROVE  MatchInv'
<1>. USE DEF serverVars, appCalls, history
<1>. DEFINE l == log[i]
            e == [term |-> currentTerm[i], cmd |-> c]
            q == Append(l, e)
            s == Whole(l)
            u == Whole(q)
<1>1. /\ role[i] = Leader /\ Stays /\ ballots' = ballots /\ appReq' = appReq
      /\ log' = [log EXCEPT ![i] = q]
  BY DEF Start, Stays
<1>2. l \in Seq(Entry) /\ e \in Entry /\ e.term = currentTerm[i] /\ currentTerm[i] \in Nat
  BY DEF TypeOK, Entry
<1>. HIDE DEF e
<1>3. /\ q \in Seq(Entry) /\ Len(q) = Len(l) + 1 /\ Len(l) \in Nat
      /\ q[Len(l) + 1] = e /\ \A k \in 1 .. Len(l) : q[k] = l[k]
  BY <1>2
<1>4. \A j \in Server : log'[j] = IF j = i THEN q ELSE log[j]
  BY <1>1 DEF TypeOK
<1>. HIDE DEF q
<1>5. \A k \in 0 .. Len(l) : TermAt(q, k) = TermAt(l, k)
  BY <1>3 DEF TermAt
<1>6. TermAt(q, Len(l) + 1) = currentTerm[i]
  BY <1>2, <1>3 DEF TermAt
<1>7. /\ s \in Segment /\ s.prev = 0 /\ End(s) = Len(l) /\ Points(s) = 0 .. Len(l)
      /\ \A k \in 0 .. Len(l) : TermIn(s, k) = TermAt(l, k) /\ (k > 0 => EntryIn(s, k) = l[k])
  BY <1>2, WholePoints
<1>8. /\ u \in Segment /\ u.prev = 0 /\ End(u) = Len(l) + 1 /\ Points(u) = 0 .. Len(l) + 1
      /\ \A k \in 0 .. Len(l) + 1 : TermIn(u, k) = TermAt(q, k) /\ (k > 0 => EntryIn(u, k) = q[k])
  BY <1>3, WholePoints
<1>9. s \in Segments /\ Segments' \subseteq Segments \cup {u}
  <2>1. \A j \in Server : LogSegment(j)' = IF j = i THEN u ELSE LogSegment(j)
    BY <1>4 DEF LogSegment
  <2>. HIDE DEF u
  <2>. QED  BY <1>1, <2>1 DEF Segments, LogSegment
<1>. HIDE DEF s, u
<1>10. \A k \in Points(s) : TermIn(u, k) = TermIn(s, k) /\ (k > s.prev => EntryIn(u, k) = EntryIn(s, k))
  <2>. SUFFICES ASSUME NEW k \in 0 .. Len(l)
                PROVE  TermIn(u, k) = TermIn(s, k) /\ (k > 0 => EntryIn(u, k) = EntryIn(s, k))
    BY <1>7
  <2>1. k \in 0 .. Len(l) + 1 /\ (k > 0 => k \in 1 .. Len(l))
    BY <1>3
  <2>. QED  BY <1>3, <1>5, <1>7, <1>8, <2>1
<1>11. TermIn(u, End(u)) = currentTerm[i] /\ End(u) \in Points(u)
  BY <1>3, <1>6, <1>8
<1>12. ASSUME NEW t \in Segments, NEW k \in Points(t), TermIn(t, k) = currentTerm[i]
       PROVE  k <= Len(l)
  BY <1>1, <1>12 DEF MatchInv, LeaderLongest
<1>13. ASSUME NEW t \in Segments PROVE Agree(u, t)
  <2>1. t \in Segment /\ Agree(s, t)
    BY <1>9, SegmentsType DEF MatchInv, SegmentsAgree
  <2>2. End(u) \in Points(t) => TermIn(t, End(u)) # TermIn(u, End(u))
    BY <1>3, <1>8, <1>11, <1>12
  <2>. QED  BY <1>7, <1>8, <1>10, <2>1, <2>2, AgreeExtended
<1>14. Forward
  BY <1>1, EntersForward
<1>15. SendersWon'
  BY <1>1, <1>14, FewerAppends, NoNewAppendKept DEF MatchInv
<1>16. TermsWon'
  <2>. SUFFICES ASSUME NEW x \in Segments', NEW k \in Points(x), k > 0
                PROVE  \E j \in Server : Won(TermIn(x, k), j)'
    BY DEF TermsWon
  <2>a. ASSUME NEW y \in Segments, k \in Points(y), TermIn(y, k) = TermIn(x, k)
        PROVE  \E j \in Server : Won(TermIn(x, k), j)'
    <3>1. PICK j \in Server : Won(TermIn(y, k), j)
      BY <2>a DEF MatchInv, TermsWon
    <3>2. TermIn(y, k) \in Nat
      BY <2>a, SegmentsType, TermInType
    <3>. QED  BY <1>14, <2>a, <3>1, <3>2, WonKept
  <2>1. CASE x \in Segments
    BY <2>1, <2>a
  <2>2. CASE x = u /\ k # End(u)
    <3>1. k \in Points(s)
      BY <1>3, <1>7, <1>8, <2>2
    <3>. QED  BY <1>9, <1>10, <2>2, <2>a, <3>1
  <2>3. CASE x = u /\ k = End(u)
    <3>1. Won(currentTerm[i], i)
      BY <1>1, LeaderWon
    <3>2. PICK t \in Nat : t = currentTerm[i]
      BY <1>2
    <3>3. Won(t, i)'
      BY <1>14, <3>1, <3>2, WonKept
    <3>4. TermIn(x, k) = t
      BY <1>11, <2>3, <3>2
    <3>. QED  BY <3>3, <3>4
  <2>. QED  BY <1>9, <2>1, <2>2, <2>3
<1>17. LeaderLongest'
  <2>. SUFFICES ASSUME NEW j \in Server, role'[j] = Leader, NEW x \in Segments', NEW k \in Points(x),
                       TermIn(x, k) = currentTerm'[j]
                PROVE  k <= Len(log'[j])
    BY DEF LeaderLongest
  <2>0. role[j] = Leader /\ currentTerm'[j] = currentTerm[j]
    BY <1>1 DEF Stays
  <2>1. Len(log[j]) \in Nat
    <3>1. log[j] \in Seq(Entry)
      BY DEF TypeOK
    <3>. QED  BY <3>1
  <2>2. Len(log[j]) <= Len(log'[j]) /\ Len(log'[j]) \in Nat
    BY <1>3, <1>4, <2>1
  <2>a. ASSUME NEW y \in Segments, k \in Points(y), TermIn(y, k) = TermIn(x, k)
        PROVE  k <= Len(log'[j])
    <3>1. k <= Len(log[j])
      BY <2>0, <2>a DEF MatchInv, LeaderLongest
    <3>2. k \in Nat
      BY <2>a, SegmentsType, SegmentType
    <3>. QED  BY <2>1, <2>2, <3>1, <3>2
  <2>3. CASE x \in Segments
    BY <2>3, <2>a
  <2>4. CASE x = u /\ k # End(u)
    <3>1. k \in Points(s)
      BY <1>3, <1>7, <1>8, <2>4
    <3>. QED  BY <1>9, <1>10, <2>4, <2>a, <3>1
  <2>5. CASE x = u /\ k = End(u)
    <3>1. currentTerm[i] = currentTerm[j]
      BY <1>11, <2>0, <2>5
    <3>2. i = j
      BY <1>1, <2>0, <3>1, VoteInvSafe DEF ElectionSafety
    <3>. QED  BY <1>3, <1>4, <1>8, <2>5, <3>2
  <2>. QED  BY <1>9, <2>3, <2>4, <2>5
<1>18. SegmentsAgree'
  BY <1>9, <1>13, StillAgree DEF MatchInv
<1>. QED  BY <1>15, <1>16, <1>17, <1>18 DEF MatchInv

\* The end of election(): nobody has an entry of the term that is won, since its
\* author would have won the term before.
LEMMA WinMatch ==
    ASSUME TypeOK, TypeOK', VoteInv, MatchInv, NotToSelf', NEW r \in DOMAIN voteRep,
           VoteGranted(r), UNCHANGED <<log, ballots, appReq>>
    PROVE  MatchInv'
<1>. DEFINE i == r.call.from
            V == r.call.votes \cup {r.call.to}
<1>0. i \in Server /\ V \in SUBSET Server
  BY DEF TypeOK, VoteRep, VoteReq
<1>1. \A v \in V : Backs(v, r.call.term, i)
  BY DEF VoteGranted, VoteInv, CallsBacked, CallBacked, Backs
<1>2. currentTerm' = currentTerm
  BY DEF VoteGranted
<1>3. \/ role' = role
      \/ /\ Majority(V) /\ currentTerm[i] = r.call.term /\ role[i] = Candidate
         /\ role' = [role EXCEPT ![i] = Leader]
  BY DEF VoteGranted, WinElection
<1>. HIDE DEF V
<1>4. Forward
  <2>1. \A j \in Server : role[j] = Leader => role'[j] = Leader
    BY <1>3 DEF TypeOK
  <2>2. \A j \in Server : currentTerm[j] <= currentTerm'[j]
    BY <1>2 DEF TypeOK
  <2>. QED  BY <2>1, <2>2 DEF Forward
<1>5. SendersWon' /\ Segments' \subseteq Segments
  BY <1>4, FewerAppends, NoNewAppendKept DEF MatchInv
<1>6. TermsWon'
  <2>. SUFFICES ASSUME NEW s \in Segments, NEW k \in Points(s), k > 0
                PROVE  \E j \in Server : Won(TermIn(s, k), j)'
    BY <1>5 DEF TermsWon
  <2>1. PICK j \in Server : Won(TermIn(s, k), j)
    BY DEF MatchInv, TermsWon
  <2>2. TermIn(s, k) \in Nat
    BY SegmentsType, TermInType
  <2>. QED  BY <1>4, <2>1, <2>2, WonKept
<1>7. LeaderLongest'
  <2>. SUFFICES ASSUME NEW j \in Server, role'[j] = Leader, NEW s \in Segments, NEW k \in Points(s),
                       TermIn(s, k) = currentTerm[j]
                PROVE  k <= Len(log[j])
    BY <1>2, <1>5 DEF LeaderLongest
  <2>1. CASE role[j] = Leader
    BY <2>1 DEF MatchInv, LeaderLongest
  <2>2. CASE role[j] # Leader /\ k > 0
    <3>1. j = i /\ Majority(V) /\ currentTerm[i] = r.call.term /\ role[i] = Candidate
      BY <1>0, <1>3, <2>2 DEF TypeOK
    <3>2. Elected(currentTerm[i], i)
      BY <1>0, <1>1, <3>1, MajorityElects DEF Candidate, Follower
    <3>3. PICK x \in Server : Won(TermIn(s, k), x)
      BY <2>2 DEF MatchInv, TermsWon
    <3>4. x = i
      BY <1>0, <3>1, <3>2, <3>3, OneWinner DEF Won
    <3>5. currentTerm[i] \in Nat
      BY <1>0 DEF TypeOK
    <3>. QED  BY <3>1, <3>3, <3>4, <3>5 DEF Won, Candidate, Leader
  <2>3. CASE ~(k > 0)
    <3>1. k \in Nat
      BY SegmentsType, SegmentType
    <3>2. log[j] \in Seq(Entry)
      BY DEF TypeOK
    <3>3. Len(log[j]) \in Nat
      BY <3>2
    <3>. QED  BY <2>3, <3>1, <3>3
  <2>. QED  BY <2>1, <2>2, <2>3
<1>8. SegmentsAgree'
  BY <1>5 DEF MatchInv, SegmentsAgree
<1>. QED  BY <1>5, <1>6, <1>7, <1>8 DEF MatchInv

\* The head of the loop of heartbeat(): a call carries a part of the leader's log.
LEMMA SendMatch ==
    ASSUME TypeOK, TypeOK', VoteInv, MatchInv, NotToSelf', NEW b \in DOMAIN beat, SendAppend(b)
    PROVE  MatchInv'
<1>. USE DEF serverVars, logVars, history
<1>. DEFINE i == b.from
            l == log[i]
            m == [from |-> i, to |-> b.to, term |-> b.term, next |-> b.next,
                  prevTerm |-> TermAt(l, b.next - 1),
                  entries |-> SubSeq(l, b.next, LastIndex(l)),
                  commit |-> commitIndex[i], epoch |-> epoch[i]]
            u == [prev |-> b.next - 1, prevTerm |-> TermAt(l, b.next - 1),
                  entries |-> SubSeq(l, b.next, Len(l))]
            leads == /\ role[i] = Leader /\ currentTerm[i] = b.term
                     /\ b.next \in 1 .. LastIndex(l) + 1
<1>0. i \in Server /\ b.term \in Nat
  BY DEF TypeOK, Beat
<1>1. Stays /\ log' = log /\ ballots' = ballots
  BY DEF SendAppend, Stays
<1>2. Forward
  BY <1>0, <1>1, EntersForward
<1>3. LeadersKept
  BY <1>0, <1>1, EntersLeaders
<1>4. CASE ~leads
  <2>1. appReq' = appReq
    BY <1>4 DEF SendAppend
  <2>2. SendersWon' /\ Segments' \subseteq Segments
    BY <1>1, <1>2, <2>1, FewerAppends, NoNewAppendKept DEF MatchInv
  <2>. QED  BY <1>2, <1>3, <2>2, QuietStep
<1>5. CASE leads
  <2>1. appReq' = Calls!BagAdd(appReq, m)
    BY <1>5 DEF SendAppend
  <2>2. m.term = b.term /\ m.from = i /\ CallSegment(m) = u
    BY DEF CallSegment, LastIndex
  <2>3. l \in Seq(Entry) /\ b.next \in 1 .. Len(l) + 1
    BY <1>0, <1>5 DEF TypeOK, LastIndex
  <2>. HIDE DEF m
  <2>4. DOMAIN appReq' = DOMAIN appReq \cup {m}
    BY <2>1, BagAddDomain
  <2>5. SendersWon'
    <3>1. Won(b.term, i)
      BY <1>0, <1>5, LeaderWon
    <3>2. \A n \in DOMAIN appReq : n.term \in Nat /\ n.from \in Server /\ Won(n.term, n.from)
      BY DEF TypeOK, AppReq, MatchInv, SendersWon
    <3>3. \A n \in DOMAIN appReq' : n.term \in Nat /\ n.from \in Server /\ Won(n.term, n.from)
      BY <1>0, <2>2, <2>4, <3>1, <3>2
    <3>4. \A n \in DOMAIN appReq' : Won(n.term, n.from)'
      BY <1>2, <3>3, WonKept
    <3>. QED  BY <3>4 DEF SendersWon
  <2>a. u = [prev |-> b.next - 1, prevTerm |-> TermAt(l, b.next - 1),
             entries |-> SubSeq(l, b.next, Len(l))]
    OBVIOUS
  <2>. HIDE DEF u
  <2>6. /\ u \in Segment /\ u.prev = b.next - 1 /\ End(u) = Len(l)
        /\ \A k \in Points(u) : /\ k \in 0 .. Len(l) /\ TermIn(u, k) = TermAt(l, k)
                                /\ k > u.prev => EntryIn(u, k) = l[k]
    BY <2>3, <2>a, PartPoints, ZenonT(30)
  <2>. DEFINE s == Whole(l)
  <2>7. /\ s \in Segment /\ s.prev = 0 /\ End(s) = Len(l) /\ Points(s) = 0 .. Len(l)
        /\ \A k \in 0 .. Len(l) : TermIn(s, k) = TermAt(l, k) /\ (k > 0 => EntryIn(s, k) = l[k])
    BY <2>3, WholePoints
  <2>8. s \in Segments
    BY <1>0 DEF Segments, LogSegment
  <2>9. Segments' \subseteq Segments \cup {u}
    <3>1. \A j \in Server : LogSegment(j)' = LogSegment(j)
      BY <1>1 DEF LogSegment
    <3>. QED  BY <2>2, <2>4, <3>1 DEF Segments
  <2>. HIDE DEF s
  <2>10. u.prev \in Nat
    BY <2>6, SegmentType
  <2>11. \A k \in Points(u) : TermIn(u, k) = TermIn(s, k) /\ (k > u.prev => EntryIn(u, k) = EntryIn(s, k))
    BY <2>6, <2>7, <2>10
  <2>12. Covered(u)
    BY <2>6, <2>7, <2>8, <2>11 DEF Covered
  <2>13. ASSUME NEW t \in Segments PROVE Agree(u, t)
    <3>1. t \in Segment /\ Agree(s, t)
      BY <2>8, SegmentsType DEF MatchInv, SegmentsAgree
    <3>2. s.prev <= u.prev /\ End(u) <= End(s)
      BY <2>3, <2>6, <2>7, <2>10
    <3>. QED  BY <2>6, <2>7, <2>11, <3>1, <3>2, AgreePart
  <2>. QED  BY <1>2, <1>3, <2>5, <2>9, <2>12, <2>13, CoveredStep
<1>. QED  BY <1>4, <1>5

\* Who handles a call of its own term does not lead it: the caller does.
LEMMA NotTheLeader ==
    ASSUME TypeOK, VoteInv, MatchInv, NEW m \in DOMAIN appReq, AcceptsTerm(m), AdoptTerm(m.to, m.term)
    PROVE  role'[m.to] # Leader
<1>. SUFFICES ASSUME role'[m.to] = Leader PROVE FALSE
  OBVIOUS
<1>0. m.to \in Server /\ m.from \in Server /\ m.term \in Nat /\ currentTerm[m.to] \in Nat
  BY DEF TypeOK, AppReq
<1>1. Enters(m.to, m.term) \/ Stays
  BY <1>0, AdoptTermEnters
<1>2. role[m.to] = Leader /\ currentTerm'[m.to] = currentTerm[m.to]
  BY <1>0, <1>1, EntersStays
<1>3. ~(currentTerm[m.to] < m.term)
  BY <1>0, <1>2 DEF AdoptTerm, TypeOK
<1>4. currentTerm[m.to] = m.term
  BY <1>0, <1>3 DEF AcceptsTerm
<1>5. Won(m.term, m.to) /\ Won(m.term, m.from)
  BY <1>0, <1>2, <1>4, LeaderWon DEF MatchInv, SendersWon
<1>6. m.to = m.from
  BY <1>0, <1>5, OneWinner DEF Won
<1>. QED  BY <1>6 DEF MatchInv, NotToSelf

\* AppendEntries: the caller's entries follow a point at which both logs have the
\* same term, so that the new log agrees with all that either agreed with.
LEMMA AppendEntriesKeepMatch ==
    ASSUME TypeOK, TypeOK', VoteInv, MatchInv, NotToSelf', NEW m \in DOMAIN appReq, AppendEntries(m)
    PROVE  MatchInv'
<1>. USE DEF serverVars, history
<1>. DEFINE i == m.to
            l == log[i]
<1>0. i \in Server /\ m.from \in Server /\ m.term \in Nat /\ m \in AppReq /\ l \in Seq(Entry)
  BY DEF TypeOK, AppReq
<1>1. Enters(i, m.term) \/ Stays
  <2>1. AdoptTerm(i, m.term) \/ Stays
    BY DEF AppendEntries, AppendEntriesStale, AppendEntriesBehind, AppendEntriesMatch,
           AppendEntriesConflict, Stays
  <2>. QED  BY <1>0, <2>1, AdoptTermEnters
<1>2. Forward
  BY <1>0, <1>1, EntersForward DEF AppendEntries
<1>3. DOMAIN appReq' \subseteq DOMAIN appReq
  <2>1. \E t, s, k, n : ReplyAppend(m, t, s, k, n)
    BY DEF AppendEntries, AppendEntriesStale, AppendEntriesBehind, AppendEntriesMatch,
           AppendEntriesConflict
  <2>. QED  BY <2>1, BagRemoveDomain DEF ReplyAppend
<1>4. SendersWon' /\ (log' = log => Segments' \subseteq Segments)
  BY <1>2, <1>3, FewerAppends, NoNewAppendKept DEF MatchInv
<1>5. CASE ~AppendEntriesMatch(m)
  <2>1. log' = log
    BY <1>5 DEF AppendEntries, AppendEntriesStale, AppendEntriesBehind, AppendEntriesConflict
  <2>2. LeadersKept
    BY <1>0, <1>1, <2>1, EntersLeaders
  <2>. QED  BY <1>2, <1>4, <2>1, <2>2, QuietStep
<1>6. CASE AppendEntriesMatch(m)
  <2>. DEFINE q == Spliced(l, m)
              s == Whole(l)
              c == CallSegment(m)
              u == Whole(q)
  <2>1. /\ AcceptsTerm(m) /\ AdoptTerm(i, m.term) /\ PrevMatches(l, m)
        /\ log' = [log EXCEPT ![i] = q]
    BY <1>6 DEF AppendEntriesMatch
  <2>2. \A j \in Server : log'[j] = IF j = i THEN q ELSE log[j]
    BY <2>1 DEF TypeOK
  <2>3. LeadersKept
    <3>1. role'[i] # Leader
      BY <2>1, NotTheLeader
    <3>. QED  BY <1>0, <1>1, <2>2, <3>1, EntersLeaders
  <2>4. /\ q \in Seq(Entry) /\ c \in Segment /\ c.prev \in 0 .. Len(l)
        /\ TermIn(c, c.prev) = TermAt(l, c.prev) /\ Len(q) = End(c)
        /\ \A k \in 0 .. c.prev : TermAt(q, k) = TermAt(l, k) /\ (k > 0 => q[k] = l[k])
        /\ \A k \in Points(c) : TermAt(q, k) = TermIn(c, k) /\ (k > c.prev => q[k] = EntryIn(c, k))
    BY <1>0, <2>1, SplicedPoints
  <2>5. c \in Segments /\ s \in Segments
    BY <1>0 DEF Segments, LogSegment
  <2>6. Segments' \subseteq Segments \cup {u}
    <3>1. \A j \in Server : LogSegment(j)' = IF j = i THEN u ELSE LogSegment(j)
      BY <2>2 DEF LogSegment
    <3>. HIDE DEF u
    <3>. QED  BY <1>3, <3>1 DEF Segments
  <2>. HIDE DEF q, c
  <2>7. /\ s \in Segment /\ s.prev = 0 /\ End(s) = Len(l) /\ Points(s) = 0 .. Len(l) /\ Len(l) \in Nat
        /\ \A k \in 0 .. Len(l) : TermIn(s, k) = TermAt(l, k) /\ (k > 0 => EntryIn(s, k) = l[k])
    BY <1>0, WholePoints
  <2>8. /\ u \in Segment /\ u.prev = 0 /\ End(u) = Len(q) /\ Points(u) = 0 .. Len(q) /\ Len(q) \in Nat
        /\ \A k \in 0 .. Len(q) : TermIn(u, k) = TermAt(q, k) /\ (k > 0 => EntryIn(u, k) = q[k])
    BY <2>4, WholePoints
  <2>. HIDE DEF s, u
  <2>9. c.prev \in Nat /\ c.prev <= Len(q) /\ Points(c) = c.prev .. Len(q)
    BY <2>4, SegmentType DEF Points
  <2>10. \A k \in 0 .. c.prev : k \in Points(s) /\ TermIn(u, k) = TermIn(s, k)
    BY <2>4, <2>7, <2>8, <2>9
  <2>11. \A k \in 1 .. c.prev : EntryIn(u, k) = EntryIn(s, k)
    <3>. SUFFICES ASSUME NEW k \in 1 .. c.prev PROVE EntryIn(u, k) = EntryIn(s, k)
      OBVIOUS
    <3>1. k \in 0 .. c.prev /\ k \in 0 .. Len(l) /\ k \in 0 .. Len(q) /\ k > 0
      BY <2>4, <2>7, <2>8, <2>9
    <3>. QED  BY <2>4, <2>7, <2>8, <3>1
  <2>12. \A k \in Points(c) : TermIn(u, k) = TermIn(c, k) /\ (k > c.prev => EntryIn(u, k) = EntryIn(c, k))
    <3>. SUFFICES ASSUME NEW k \in Points(c)
                  PROVE  TermIn(u, k) = TermIn(c, k) /\ (k > c.prev => EntryIn(u, k) = EntryIn(c, k))
      OBVIOUS
    <3>1. k \in 0 .. Len(q) /\ (k > c.prev => k > 0)
      BY <2>8, <2>9
    <3>. QED  BY <2>4, <2>8, <3>1
  <2>13. Covered(u)
    <3>. SUFFICES ASSUME NEW k \in Points(u)
                  PROVE  \E x \in Segments : k \in Points(x) /\ TermIn(x, k) = TermIn(u, k)
      BY DEF Covered
    <3>1. k \in 0 .. c.prev \/ k \in Points(c)
      BY <2>8, <2>9
    <3>. QED  BY <2>5, <2>10, <2>12, <3>1
  <2>14. ASSUME NEW t \in Segments PROVE Agree(u, t)
    <3>1. t \in Segment /\ Agree(s, t) /\ Agree(c, t)
      BY <2>5, SegmentsType DEF MatchInv, SegmentsAgree
    <3>2. c.prev \in Points(s) /\ TermIn(s, c.prev) = TermIn(c, c.prev)
      BY <2>4, <2>7
    <3>3. /\ u.prev = s.prev /\ End(u) = End(c)
          /\ \A k \in s.prev .. c.prev : TermIn(u, k) = TermIn(s, k)
          /\ \A k \in s.prev + 1 .. c.prev : EntryIn(u, k) = EntryIn(s, k)
      BY <2>4, <2>7, <2>8, <2>10, <2>11
    <3>. QED  BY <2>4, <2>7, <2>8, <2>12, <3>1, <3>2, <3>3, AgreeSplice
  <2>. QED  BY <1>2, <1>4, <2>3, <2>6, <2>13, <2>14, CoveredStep
<1>. QED  BY <1>5, <1>6

-----------------------------------------------------------------------------
(* The invariant *)

\* Nobody has an entry initially.
LEMMA InitMatch == Init => MatchInv
<1>. SUFFICES ASSUME Init PROVE MatchInv
  OBVIOUS
<1>1. TypeOK
  BY InitType
<1>2. DOMAIN beat = {} /\ DOMAIN appReq = {} /\ DOMAIN appRep = {}
  BY DEF Init, EmptyBag, SetToBag
<1>3. \A i \in Server : log[i] = <<>> /\ role[i] # Leader
  BY DEF Init, Leader, Follower
<1>4. NotToSelf /\ SendersWon /\ LeaderLongest
  BY <1>2, <1>3 DEF NotToSelf, SendersWon, LeaderLongest
<1>5. \A s \in Segments : s = Whole(<<>>)
  BY <1>2, <1>3 DEF Segments, LogSegment
<1>6. TermsWon
  <2>1. Points(Whole(<<>>)) = 0 .. 0
    <3>1. <<>> \in Seq(Entry) /\ Len(<<>>) = 0
      OBVIOUS
    <3>. QED  BY <3>1, WholePoints
  <2>. QED  BY <1>5, <2>1 DEF TermsWon
<1>7. SegmentsAgree
  BY <1>5, AgreeReflexive DEF SegmentsAgree
<1>. QED  BY <1>4, <1>6, <1>7 DEF MatchInv

\* Every step but a restart keeps logs and calls in agreement.
LEMMA NextMatch ==
    TypeOK /\ TypeOK' /\ VoteInv /\ MatchInv /\ [Next]_vars /\ [epoch' = epoch]_vars => MatchInv'
<1>. SUFFICES ASSUME TypeOK, TypeOK', VoteInv, MatchInv, [Next]_vars, [epoch' = epoch]_vars
              PROVE  MatchInv'
  OBVIOUS
<1>. USE DEF serverVars, logVars, leaderVars, voteCalls, appCalls, history
<1>0. CASE UNCHANGED vars
  <2>1. Segments' = Segments
    BY <1>0 DEF vars, Segments, LogSegment
  <2>. QED  BY <1>0, <2>1 DEF vars, MatchInv, NotToSelf, SendersWon, TermsWon, LeaderLongest,
                SegmentsAgree, Won, Elected, Backs
<1>1. CASE Next /\ epoch' = epoch
  <2>. USE <1>1
  <2>n. NotToSelf'
    BY NextNotToSelf DEF MatchInv
  <2>a. ASSUME NEW i \in Server, NEW t \in Nat, Enters(i, t) \/ Stays, Forward, log' = log, NoNewAppend
        PROVE  MatchInv'
    <3>1. SendersWon' /\ Segments' \subseteq Segments
      BY <2>a, NoNewAppendKept DEF MatchInv
    <3>2. LeadersKept
      BY <2>a, EntersLeaders
    <3>. QED  BY <2>a, <2>n, <3>1, <3>2, QuietStep
  <2>b. ASSUME NEW i \in Server, NEW t \in Nat, Enters(i, t) \/ Stays,
               UNCHANGED <<log, ballots>>, NoNewAppend
        PROVE  MatchInv'
    BY <2>a, <2>b, EntersForward
  <2>c. ASSUME UNCHANGED <<currentTerm, role, log, ballots>>, NoNewAppend
        PROVE  MatchInv'
    <3>1. 0 \in Server /\ 0 \in Nat
      BY NAssumption DEF Server
    <3>2. Stays
      BY <2>c DEF Stays
    <3>. QED  BY <2>b, <2>c, <3>1, <3>2
  <2>d. appReq' = appReq => NoNewAppend
    BY FewerAppends
  <2>1. ASSUME NEW i \in Server, ServerStep(i)
        PROVE  MatchInv'
    <3>1. CASE ElectionTimeout(i) \/ LeaderTimeout(i) \/ ApplyCommits(i)
      BY <2>c, <2>d, <3>1 DEF ElectionTimeout, LeaderTimeout, ApplyCommits
    <3>2. CASE ElectionStart(i)
      <4>1. Enters(i, currentTerm[i] + 1) /\ currentTerm[i] + 1 \in Nat
        <5>1. currentTerm[i] \in Nat
          BY DEF TypeOK
        <5>. QED  BY <3>2, <5>1 DEF ElectionStart, Enters
      <4>2. UNCHANGED <<log, ballots, appReq>>
        BY <3>2 DEF ElectionStart
      <4>3. PICK t \in Nat : t = currentTerm[i] + 1
        BY <4>1
      <4>4. Enters(i, t)
        BY <4>1, <4>3
      <4>. QED  BY <2>b, <2>d, <4>2, <4>4
    <3>3. CASE \E c \in Command : Start(i, c)
      BY <2>n, <3>3, StartMatch
    <3>4. CASE \E j \in Server : HeartbeatTick(i, j)
      BY <2>c, <2>d, <3>4 DEF HeartbeatTick
    <3>. QED  BY <2>1, <3>1, <3>2, <3>3, <3>4 DEF ServerStep
  <2>2. ASSUME NEW m \in DOMAIN voteReq, RequestVote(m)
        PROVE  MatchInv'
    <3>1. log' = log /\ appReq' = appReq
      BY <2>2 DEF RequestVote
    <3>. QED  BY <2>2, <2>a, <2>d, <3>1, RequestVoteForward
  <2>3. ASSUME NEW r \in DOMAIN voteRep, HandleVoteReply(r)
        PROVE  MatchInv'
    <3>1. UNCHANGED <<log, ballots, appReq>>
      BY <2>3 DEF HandleVoteReply
    <3>2. CASE VoteGranted(r)
      BY <2>n, <3>1, <3>2, WinMatch
    <3>3. CASE VoteRefused(r)
      <4>1. r.call.from \in Server /\ r.term \in Nat
        BY DEF TypeOK, VoteRep, VoteReq
      <4>2. StepDown(r.call.from, r.term) \/ Stays
        BY <3>3 DEF VoteRefused, Stays
      <4>. QED  BY <2>b, <2>d, <3>1, <4>1, <4>2, StepDownEnters
    <3>. QED  BY <2>3, <3>2, <3>3 DEF HandleVoteReply
  <2>4. ASSUME NEW b \in DOMAIN beat, SendAppend(b)
        PROVE  MatchInv'
    BY <2>4, <2>n, SendMatch
  <2>5. ASSUME NEW m \in DOMAIN appReq, AppendEntries(m)
        PROVE  MatchInv'
    BY <2>5, <2>n, AppendEntriesKeepMatch
  <2>6. ASSUME NEW r \in DOMAIN appRep, HandleAppendReply(r)
        PROVE  MatchInv'
    <3>1. UNCHANGED <<log, ballots, appReq>>
      BY <2>6 DEF HandleAppendReply
    <3>2. CASE AppendNewTerm(r)
      <4>1. r \in AppRep
        BY DEF TypeOK
      <4>2. r.call \in AppReq /\ r.term \in Nat \cup {-1}
        BY <4>1 DEF AppRep
      <4>3. r.call.from \in Server /\ r.call.term \in Nat
        BY <4>2 DEF AppReq
      <4>4. r.term \in Nat /\ StepDown(r.call.from, r.term)
        BY <3>2, <4>2, <4>3 DEF AppendNewTerm
      <4>. QED  BY <2>b, <2>d, <3>1, <4>3, <4>4, StepDownEnters
    <3>3. CASE ~AppendNewTerm(r)
      <4>1. UNCHANGED <<currentTerm, role>>
        BY <2>6, <3>3 DEF HandleAppendReply, AppendRefused, AppendSucceeded, AppendConflicted, Retry
      <4>. QED  BY <2>c, <2>d, <3>1, <4>1
    <3>. QED  BY <3>2, <3>3
  <2>7. ASSUME NEW m \in DOMAIN voteReq, LoseVoteReq(m)
        PROVE  MatchInv'
    BY <2>7, <2>c, <2>d DEF LoseVoteReq
  <2>8. ASSUME NEW r \in DOMAIN voteRep, LoseVoteRep(r)
        PROVE  MatchInv'
    BY <2>8, <2>c, <2>d DEF LoseVoteRep
  <2>9. ASSUME NEW m \in DOMAIN appReq, LoseAppReq(m)
        PROVE  MatchInv'
    <3>1. UNCHANGED <<currentTerm, role, log, ballots>> /\ appReq' \in AfterFailure(appReq, m)
      BY <2>9 DEF LoseAppReq, Retry
    <3>. QED  BY <2>c, <3>1, OrphanAppends
  <2>10. ASSUME NEW r \in DOMAIN appRep, LoseAppRep(r)
         PROVE  MatchInv'
    BY <2>10, <2>c, <2>d DEF LoseAppRep, Retry
  <2>11. ASSUME NEW i \in Server, Restart(i)
         PROVE  FALSE
    <3>1. epoch'[i] = epoch[i] + 1 /\ epoch[i] \in Nat
      BY <2>11 DEF Restart, TypeOK
    <3>. QED  BY <3>1
  <2>. QED  BY <2>1, <2>2, <2>3, <2>4, <2>5, <2>6, <2>7, <2>8, <2>9, <2>10, <2>11 DEF Next, Deliver, Lose
<1>. QED  BY <1>0, <1>1 DEF vars

\* Nobody is restarted: a server that was would lead again a term that it forgot to
\* have campaigned in, since election() does not save it.
NoRestart == [][epoch' = epoch]_vars

\* What logs and calls hold agrees as long as no server restarts.
THEOREM MatchInvariant == Spec /\ NoRestart => []MatchInv
<1>1. Init => MatchInv
  BY InitMatch
<1>2. TypeOK /\ TypeOK' /\ VoteInv /\ MatchInv /\ [Next]_vars /\ [epoch' = epoch]_vars => MatchInv'
  BY NextMatch
<1>. QED  BY <1>1, <1>2, TypeCorrect, VoteInvariant, PTL DEF Spec, NoRestart

\* Segments that agree are logs that match.
LEMMA AgreeingLogsMatch == TypeOK /\ MatchInv => LogMatching
<1>. SUFFICES ASSUME TypeOK, MatchInv, NEW i \in Server, NEW j \in Server,
                     NEW k \in 1 .. Len(log[i]), k <= Len(log[j]), log[i][k].term = log[j][k].term
              PROVE  SubSeq(log[i], 1, k) = SubSeq(log[j], 1, k)
  BY DEF LogMatching
<1>. DEFINE l == log[i]
            q == log[j]
<1>1. l \in Seq(Entry) /\ q \in Seq(Entry)
  BY DEF TypeOK
<1>2. Agree(Whole(l), Whole(q))
  BY DEF MatchInv, SegmentsAgree, Segments, LogSegment
<1>. HIDE DEF l, q
<1>3. k \in 1 .. Len(l) /\ k \in 1 .. Len(q) /\ Len(l) \in Nat /\ Len(q) \in Nat /\ l[k].term = q[k].term
  BY <1>1 DEF l, q
<1>4. TermIn(Whole(l), k) = TermIn(Whole(q), k)
  <2>1. TermIn(Whole(l), k) = TermAt(l, k) /\ TermIn(Whole(q), k) = TermAt(q, k)
    BY <1>1, <1>3, WholePoints
  <2>. QED  BY <1>3, <2>1 DEF TermAt
<1>5. ASSUME NEW x \in 1 .. k PROVE l[x] = q[x]
  <2>1. x \in 0 .. Len(l) /\ x \in 0 .. Len(q) /\ x > 0 /\ x <= k /\ k \in 0 .. Len(l) /\ k \in 0 .. Len(q)
    BY <1>3
  <2>2. /\ Points(Whole(l)) = 0 .. Len(l) /\ Points(Whole(q)) = 0 .. Len(q)
        /\ Whole(l).prev = 0 /\ Whole(q).prev = 0
        /\ EntryIn(Whole(l), x) = l[x] /\ EntryIn(Whole(q), x) = q[x]
    BY <1>1, <2>1, WholePoints
  <2>3. SameAt(Whole(l), Whole(q), x)
    BY <1>2, <1>4, <2>1, <2>2 DEF Agree
  <2>. QED  BY <2>1, <2>2, <2>3 DEF SameAt
<1>6. ASSUME NEW x \in Seq(Entry), k \in 1 .. Len(x)
      PROVE  SubSeq(x, 1, k) = [y \in 1 .. k |-> x[y]]
  BY <1>6
<1>7. SubSeq(l, 1, k) = SubSeq(q, 1, k)
  BY <1>1, <1>3, <1>5, <1>6
<1>. QED  BY <1>7 DEF l, q

\* appendEntriesIfLogMatches: two logs with an entry of the same term at the same
\* index are the same up to it, for every number of servers, of lost, repeated and
\* late calls, and of leaders, as long as no server restarts.
THEOREM LogsMatch == Spec /\ NoRestart => []LogMatching
<1>1. TypeOK /\ MatchInv => LogMatching
  BY AgreeingLogsMatch
<1>. QED  BY <1>1, TypeCorrect, MatchInvariant, PTL

\* A leader's log changes by what clients append.
LEMMA LeaderOnlyAppends ==
    TypeOK /\ VoteInv /\ MatchInv /\ [Next]_vars /\ [epoch' = epoch]_vars =>
        [\A i \in Server :
            role[i] = Leader /\ role'[i] = Leader /\ currentTerm'[i] = currentTerm[i]
                => Len(log[i]) <= Len(log'[i]) /\ SubSeq(log'[i], 1, Len(log[i])) = log[i]]_vars
<1>. SUFFICES ASSUME TypeOK, VoteInv, MatchInv, Next, epoch' = epoch, NEW i \in Server, role'[i] = Leader
              PROVE  Len(log[i]) <= Len(log'[i]) /\ SubSeq(log'[i], 1, Len(log[i])) = log[i]
  BY DEF vars
<1>. USE DEF serverVars, logVars, leaderVars, voteCalls, appCalls, history
<1>0. log[i] \in Seq(Entry)
  BY DEF TypeOK
<1>1. CASE log'[i] = log[i]
  <2>1. ASSUME NEW l \in Seq(Entry) PROVE Len(l) <= Len(l) /\ SubSeq(l, 1, Len(l)) = l
    OBVIOUS
  <2>. QED  BY <1>0, <1>1, <2>1
<1>2. CASE \E c \in Command : Start(i, c)
  <2>1. PICK c \in Command : Start(i, c)
    BY <1>2
  <2>2. log'[i] = Append(log[i], [term |-> currentTerm[i], cmd |-> c])
    BY <2>1 DEF Start, TypeOK
  <2>3. [term |-> currentTerm[i], cmd |-> c] \in Entry
    BY DEF TypeOK, Entry
  <2>4. ASSUME NEW l \in Seq(Entry), NEW e \in Entry
        PROVE  Len(l) <= Len(Append(l, e)) /\ SubSeq(Append(l, e), 1, Len(l)) = l
    OBVIOUS
  <2>. QED  BY <1>0, <2>2, <2>3, <2>4
<1>3. log'[i] = log[i] \/ \E c \in Command : Start(i, c)
  <2>1. ASSUME NEW j \in Server, ServerStep(j)
        PROVE  log'[i] = log[i] \/ \E c \in Command : Start(i, c)
    <3>1. CASE \E c \in Command : Start(j, c)
      BY <3>1 DEF Start, TypeOK
    <3>2. CASE ~\E c \in Command : Start(j, c)
      BY <2>1, <3>2 DEF ServerStep, ElectionTimeout, LeaderTimeout, ElectionStart, HeartbeatTick,
                        ApplyCommits
    <3>. QED  BY <3>1, <3>2
  <2>2. ASSUME NEW m \in DOMAIN appReq, AppendEntries(m)
        PROVE  log'[i] = log[i]
    <3>1. CASE AppendEntriesMatch(m)
      <4>1. AcceptsTerm(m) /\ AdoptTerm(m.to, m.term) /\ \E q : log' = [log EXCEPT ![m.to] = q]
        BY <3>1 DEF AppendEntriesMatch
      <4>2. i # m.to
        BY <4>1, NotTheLeader
      <4>. QED  BY <4>1, <4>2 DEF TypeOK
    <3>2. CASE ~AppendEntriesMatch(m)
      BY <2>2, <3>2 DEF AppendEntries, AppendEntriesStale, AppendEntriesBehind, AppendEntriesConflict
    <3>. QED  BY <3>1, <3>2
  <2>3. ASSUME NEW j \in Server, Restart(j)
        PROVE  FALSE
    <3>1. epoch'[j] = epoch[j] + 1 /\ epoch[j] \in Nat
      BY <2>3 DEF Restart, TypeOK
    <3>. QED  BY <3>1
  <2>4. ASSUME \/ \E m \in DOMAIN voteReq : RequestVote(m) \/ LoseVoteReq(m)
               \/ \E r \in DOMAIN voteRep : HandleVoteReply(r) \/ LoseVoteRep(r)
               \/ \E b \in DOMAIN beat : SendAppend(b)
               \/ \E r \in DOMAIN appRep : HandleAppendReply(r) \/ LoseAppRep(r)
               \/ \E m \in DOMAIN appReq : LoseAppReq(m)
        PROVE  log' = log
    BY <2>4 DEF RequestVote, LoseVoteReq, HandleVoteReply, LoseVoteRep, SendAppend, HandleAppendReply,
                LoseAppRep, LoseAppReq
  <2>. QED  BY <2>1, <2>2, <2>3, <2>4 DEF Next, Deliver, Lose
<1>. QED  BY <1>1, <1>2, <1>3

\* A leader never drops or overwrites an entry in its term, although AppendEntries
\* does not ask whether it is called on the leader, as long as no server restarts.
THEOREM LeadersAppendOnly == Spec /\ NoRestart => LeaderAppendOnly
<1>1. TypeOK /\ VoteInv /\ MatchInv /\ [Next]_vars /\ [epoch' = epoch]_vars =>
        [\A i \in Server :
            role[i] = Leader /\ role'[i] = Leader /\ currentTerm'[i] = currentTerm[i]
                => Len(log[i]) <= Len(log'[i]) /\ SubSeq(log'[i], 1, Len(log[i])) = log[i]]_vars
  BY LeaderOnlyAppends
<1>. QED  BY <1>1, TypeCorrect, VoteInvariant, MatchInvariant, PTL DEF Spec, NoRestart, LeaderAppendOnly

=============================================================================
