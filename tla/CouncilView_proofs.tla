------------------------- MODULE CouncilView_proofs -------------------------
(***************************************************************************)
(* Theorems about the query node's picture of the council: its handlers    *)
(* find every record they look up, and what they show is what the chain    *)
(* has, through any number of elections.                                   *)
(***************************************************************************)
EXTENDS CouncilView, CouncilElection_proofs, CouncilBudget_proofs

(* The tables of the database. *)
ShownReferendum ==
    {Inactive} \cup
    [tag : {"Voting", "Revealing"}, winning_target_count : Nat,
     current_cycle_id : Nat, ends_at : Nat]

Db == [halted          : BOOLEAN,
       electionRound   : [cycleId : Nat, isFinished : BOOLEAN],
       stageUpdate     : [stage : CouncilStages, changedAt : Nat],
       referendumStage : ShownReferendum,
       candidate       : [Members -> ShownCandidate \cup {None}],
       castVote        : [Accounts -> ShownVote \cup {None}],
       councilMember   : [Members -> ShownCouncilMember \cup {None}],
       electedAtBlock  : Nat,
       isCouncilMember : SUBSET Members,
       accumulatedReward : Int]

(* What a handler leaves alone: the stages and the round, the candidacies  *)
(* and votes, the council.                                                 *)
SameStages(d, e) ==
    /\ e.electionRound = d.electionRound
    /\ e.stageUpdate = d.stageUpdate
    /\ e.referendumStage = d.referendumStage

SameElections(d, e) ==
    /\ e.candidate = d.candidate
    /\ e.castVote = d.castVote

SameOffices(d, e) ==
    /\ e.councilMember = d.councilMember
    /\ e.electedAtBlock = d.electedAtBlock
    /\ e.isCouncilMember = d.isCouncilMember
    /\ e.accumulatedReward = d.accumulatedReward

Runs(d) == d \in Db /\ ~ d.halted

-----------------------------------------------------------------------------
(* The handlers, when the records they need are there.                     *)

(* The start of an announcing period, the first or after an election.      *)
RoundStarted(d, e, endsAt, block) ==
    /\ e.electionRound = [cycleId |-> d.electionRound.cycleId + 1, isFinished |-> FALSE]
    /\ e.stageUpdate = [stage |-> Announcing(0, endsAt), changedAt |-> block]
    /\ SameOffices(d, e)

(* A new round starts when its update is the latest. *)
LEMMA RoundStart ==
    ASSUME NEW d, Runs(d), NEW endsAt \in Nat, NEW block \in Nat,
           block > d.stageUpdate.changedAt,
           NEW e, e = AnnouncingPeriodStarted(d, endsAt, block)
    PROVE  Runs(e) /\ RoundStarted(d, e, endsAt, block) /\ SameElections(d, e)
<1> DEFINE r == [cycleId |-> d.electionRound.cycleId + 1, isFinished |-> FALSE]
           u == [stage |-> Announcing(0, endsAt), changedAt |-> block]
<1>1. r \in [cycleId : Nat, isFinished : BOOLEAN] /\ u \in [stage : CouncilStages, changedAt : Nat]
  BY DEF Runs, Db, CouncilStages, Announcing
<1>2. e = [d EXCEPT !.electionRound = r, !.referendumStage = Inactive, !.stageUpdate = u]
  BY DEF AnnouncingPeriodStarted, Handled, startNextElectionRound, updateCouncilStage, Runs, Db
<1> HIDE DEF r, u
<1>3. Inactive \in ShownReferendum
  BY DEF ShownReferendum
<1> QED BY <1>1, <1>2, <1>3
        DEF Runs, Db, RoundStarted, SameOffices, SameElections, r, u

(* A candidacy that differs from another in its status. *)
GivenStatus(c, k, status) ==
    /\ k \in ShownCandidate
    /\ k.status = status
    /\ k.electionRound = c.electionRound
    /\ k.stakingAccountId = c.stakingAccountId
    /\ k.stake = c.stake
    /\ k.stakeLocked = c.stakeLocked
    /\ k.votePower = c.votePower

(* Setting the status of some candidacies changes nothing else. *)
LEMMA StatusSet ==
    ASSUME NEW d, Runs(d), NEW S, NEW status \in {"ACTIVE", "WITHDRAWN", "ELECTED", "FAILED"},
           \A m \in S : m \in Members /\ HasCandidate(d, m),
           NEW e, e = WithStatus(d, S, status)
    PROVE  /\ Runs(e) /\ SameStages(d, e) /\ SameOffices(d, e) /\ e.castVote = d.castVote
           /\ \A m \in S : GivenStatus(d.candidate[m], e.candidate[m], status)
           /\ \A m \in Members \ S : e.candidate[m] = d.candidate[m]
<1> DEFINE c == [m \in Members |-> IF m \in S THEN [d.candidate[m] EXCEPT !.status = status]
                                   ELSE d.candidate[m]]
<1>1. e = [d EXCEPT !.candidate = c]
  BY DEF WithStatus, Runs, Db
<1>2. d.candidate \in [Members -> ShownCandidate \cup {None}]
  BY DEF Runs, Db
<1>3. \A m \in S : d.candidate[m] \in ShownCandidate
  BY <1>2 DEF HasCandidate
<1>4. \A m \in S : GivenStatus(d.candidate[m], c[m], status)
  BY <1>3 DEF GivenStatus, ShownCandidate
<1>5. \A m \in Members \ S : c[m] = d.candidate[m]
  OBVIOUS
<1>6. c \in [Members -> ShownCandidate \cup {None}]
  BY <1>2, <1>4 DEF GivenStatus
<1> HIDE DEF c
<1> QED BY <1>1, <1>4, <1>5, <1>6 DEF Runs, Db, SameStages, SameOffices

(* An election that failed ends the candidacies of its round and starts    *)
(* the next one.                                                           *)
LEMMA RoundRestart ==
    ASSUME NEW d, Runs(d), HasElectionRound(d), NEW endsAt \in Nat, NEW block \in Nat,
           block > d.stageUpdate.changedAt,
           NEW e, e = ElectionRestarted(d, endsAt, block)
    PROVE  /\ Runs(e) /\ RoundStarted(d, e, endsAt, block) /\ e.castVote = d.castVote
           /\ \A m \in ActiveCandidates(d) :
                 GivenStatus(d.candidate[m], e.candidate[m], "FAILED")
           /\ \A m \in Members \ ActiveCandidates(d) : e.candidate[m] = d.candidate[m]
<1> DEFINE c == abortCandidacies(d)
           x == concludeElectionRound(c)
<1>1. /\ Runs(c) /\ SameStages(d, c) /\ SameOffices(d, c) /\ c.castVote = d.castVote
      /\ \A m \in ActiveCandidates(d) : GivenStatus(d.candidate[m], c.candidate[m], "FAILED")
      /\ \A m \in Members \ ActiveCandidates(d) : c.candidate[m] = d.candidate[m]
  <2>1. \A m \in ActiveCandidates(d) : m \in Members /\ HasCandidate(d, m)
    BY DEF ActiveCandidates, HasCandidateInRound
  <2>2. c = WithStatus(d, ActiveCandidates(d), "FAILED")
    BY DEF abortCandidacies
  <2> HIDE DEF c
  <2> QED BY <2>1, <2>2, StatusSet
<1> HIDE DEF c
<1>2. /\ Runs(x) /\ SameElections(c, x) /\ SameOffices(c, x)
      /\ x.stageUpdate = c.stageUpdate /\ x.referendumStage = c.referendumStage
      /\ x.electionRound.cycleId = c.electionRound.cycleId
  BY <1>1 DEF concludeElectionRound, Runs, Db, SameElections, SameOffices
<1>3. e = AnnouncingPeriodStarted(x, endsAt, block)
  <2>1. e = startNextElectionRound(x, d.electionRound.cycleId + 1, endsAt, block)
    BY DEF ElectionRestarted, Handled, Runs, c, x
  <2>2. ~ x.halted /\ x.electionRound.cycleId = d.electionRound.cycleId
    BY <1>1, <1>2 DEF Runs, SameStages
  <2> HIDE DEF x
  <2> QED BY <2>1, <2>2 DEF AnnouncingPeriodStarted, Handled
<1>4. block > x.stageUpdate.changedAt
  BY <1>1, <1>2 DEF SameStages
<1> HIDE DEF x
<1>5. Runs(e) /\ RoundStarted(x, e, endsAt, block) /\ SameElections(x, e)
  BY <1>2, <1>3, <1>4, RoundStart
<1> QED BY <1>1, <1>2, <1>5 DEF RoundStarted, SameElections, SameOffices, SameStages

(* The start of the election: the referendum's event, then the council's.  *)
LEMMA ElectionStart ==
    ASSUME NEW d, Runs(d), HasElectionRound(d), NEW target \in Nat, NEW endsAt \in Nat,
           NEW count \in Nat, NEW block \in Nat, block > d.stageUpdate.changedAt,
           NEW e, e = VotingPeriodStarted(ReferendumStartedForcefully(d, target, endsAt),
                                          count, block)
    PROVE  /\ Runs(e) /\ SameElections(d, e) /\ SameOffices(d, e)
           /\ e.electionRound = d.electionRound
           /\ e.stageUpdate = [stage |-> Election(count), changedAt |-> block]
           /\ e.referendumStage = Voting(target, d.electionRound.cycleId, endsAt)
<1> DEFINE v == Voting(target, d.electionRound.cycleId, endsAt)
           u == [stage |-> Election(count), changedAt |-> block]
<1>1. v \in ShownReferendum /\ u \in [stage : CouncilStages, changedAt : Nat]
  BY DEF Runs, Db, CouncilStages, Election, ShownReferendum, Voting
<1> HIDE DEF v, u
<1>2. e = [d EXCEPT !.referendumStage = v, !.stageUpdate = u]
  BY DEF VotingPeriodStarted, ReferendumStartedForcefully, Handled, updateCouncilStage,
         Runs, Db, v, u
<1> QED BY <1>1, <1>2 DEF Runs, Db, SameElections, SameOffices, v, u

(* The start of the revealing stage. *)
LEMMA RevealingStart ==
    ASSUME NEW d, Runs(d), HasElectionRound(d), d.referendumStage.tag = "Voting",
           NEW endsAt \in Nat, NEW e, e = RevealingStageStarted(d, endsAt)
    PROVE  /\ Runs(e) /\ SameElections(d, e) /\ SameOffices(d, e)
           /\ e.electionRound = d.electionRound /\ e.stageUpdate = d.stageUpdate
           /\ e.referendumStage.tag = "Revealing"
           /\ e.referendumStage.winning_target_count = d.referendumStage.winning_target_count
           /\ e.referendumStage.ends_at = endsAt
<1> DEFINE v == [tag |-> "Revealing",
                 winning_target_count |-> d.referendumStage.winning_target_count,
                 current_cycle_id |-> d.electionRound.cycleId, ends_at |-> endsAt]
<1>1. v \in ShownReferendum
  BY DEF Runs, Db, ShownReferendum, Inactive
<1>2. e = [d EXCEPT !.referendumStage = v]
  BY DEF RevealingStageStarted, Handled, Runs, Db
<1>3. v.tag = "Revealing" /\ v.ends_at = endsAt
      /\ v.winning_target_count = d.referendumStage.winning_target_count
  OBVIOUS
<1> HIDE DEF v
<1> QED BY <1>1, <1>2, <1>3 DEF Runs, Db, SameElections, SameOffices

(* A new candidacy is the member's last one, active and without power. *)
LEMMA CandidacyShown ==
    ASSUME NEW d, Runs(d), HasElectionRound(d), d.stageUpdate.stage.tag = "Announcing",
           NEW m \in Members, NEW a \in Accounts, NEW s \in Nat,
           NEW e, e = NewCandidate(d, m, a, s)
    PROVE  /\ Runs(e) /\ SameOffices(d, e) /\ e.castVote = d.castVote
           /\ e.electionRound = d.electionRound /\ e.referendumStage = d.referendumStage
           /\ e.stageUpdate.changedAt = d.stageUpdate.changedAt
           /\ e.stageUpdate.stage.tag = "Announcing"
           /\ e.stageUpdate.stage.ends_at = d.stageUpdate.stage.ends_at
           /\ e.candidate[m] = [electionRound |-> d.electionRound.cycleId, status |-> "ACTIVE",
                                stakingAccountId |-> a, stake |-> s,
                                stakeLocked |-> TRUE, votePower |-> 0]
           /\ e.candidate[m] \in ShownCandidate
           /\ \A k \in Members \ {m} : e.candidate[k] = d.candidate[k]
<1> DEFINE st == d.stageUpdate.stage
           rec == [electionRound |-> d.electionRound.cycleId, status |-> "ACTIVE",
                   stakingAccountId |-> a, stake |-> s, stakeLocked |-> TRUE, votePower |-> 0]
           u == [d.stageUpdate EXCEPT !.stage.candidates_count = @ + 1]
           c == [d.candidate EXCEPT ![m] = rec]
<1>1. /\ d.stageUpdate \in [stage : CouncilStages, changedAt : Nat]
      /\ st \in [tag : {"Announcing"}, candidates_count : Nat, ends_at : Nat]
      /\ d.candidate \in [Members -> ShownCandidate \cup {None}]
  BY DEF Runs, Db, CouncilStages
<1>2. /\ u \in [stage : CouncilStages, changedAt : Nat]
      /\ u.stage.tag = "Announcing" /\ u.stage.ends_at = st.ends_at
      /\ u.changedAt = d.stageUpdate.changedAt
  BY <1>1 DEF CouncilStages
<1>3. rec \in ShownCandidate
  BY DEF ShownCandidate, Runs, Db
<1>4. c \in [Members -> ShownCandidate \cup {None}] /\ c[m] = rec
      /\ \A k \in Members \ {m} : c[k] = d.candidate[k]
  BY <1>1, <1>3
<1>5. e = [d EXCEPT !.stageUpdate = u, !.candidate = c]
  BY DEF NewCandidate, Handled, Runs, Db
<1> HIDE DEF u, c, rec
<1>6. /\ Runs(e) /\ SameOffices(d, e) /\ e.castVote = d.castVote
      /\ e.electionRound = d.electionRound /\ e.referendumStage = d.referendumStage
      /\ e.stageUpdate = u /\ e.candidate = c
  BY <1>2, <1>4, <1>5 DEF Runs, Db, SameOffices
<1> QED BY <1>2, <1>3, <1>4, <1>6 DEF rec

(* The two ways a candidacy ends before the election, and its note. *)
LEMMA CandidacyEndShown ==
    ASSUME NEW d, Runs(d), NEW m \in Members, HasCandidate(d, m), NEW e,
           e = CandidacyStakeRelease(d, m) \/ e = CandidacyWithdraw(d, m)
    PROVE  /\ Runs(e) /\ SameStages(d, e) /\ SameOffices(d, e) /\ e.castVote = d.castVote
           /\ HasCandidate(e, m)
           /\ e = CandidacyStakeRelease(d, m) => e.candidate[m].status = d.candidate[m].status
           /\ e = CandidacyWithdraw(d, m) => e.candidate[m].status = "WITHDRAWN"
           /\ \A k \in Members \ {m} : e.candidate[k] = d.candidate[k]
<1>1. /\ d.candidate \in [Members -> ShownCandidate \cup {None}]
      /\ d.candidate[m] \in ShownCandidate
  BY DEF Runs, Db, HasCandidate
<1>2. ASSUME NEW rec \in ShownCandidate, e = [d EXCEPT !.candidate[m] = rec]
      PROVE  /\ Runs(e) /\ SameStages(d, e) /\ SameOffices(d, e) /\ e.castVote = d.castVote
             /\ HasCandidate(e, m) /\ e.candidate[m] = rec
             /\ \A k \in Members \ {m} : e.candidate[k] = d.candidate[k]
  <2> DEFINE c == [d.candidate EXCEPT ![m] = rec]
  <2>1. c \in [Members -> ShownCandidate \cup {None}] /\ c[m] = rec /\ rec # None
        /\ \A k \in Members \ {m} : c[k] = d.candidate[k]
    BY <1>1, NoneIsNoRecord
  <2>2. e = [d EXCEPT !.candidate = c]
    BY <1>2 DEF Runs, Db
  <2> HIDE DEF c
  <2> QED BY <2>1, <2>2 DEF Runs, Db, SameStages, SameOffices, HasCandidate
<1> DEFINE Ended == /\ Runs(e) /\ SameStages(d, e) /\ SameOffices(d, e)
                    /\ e.castVote = d.castVote /\ HasCandidate(e, m)
                    /\ \A k \in Members \ {m} : e.candidate[k] = d.candidate[k]
<1>3. ASSUME e = CandidacyStakeRelease(d, m)
      PROVE  Ended /\ e.candidate[m].status = d.candidate[m].status
  <2> DEFINE rec == [d.candidate[m] EXCEPT !.stakeLocked = FALSE]
  <2>1. rec \in ShownCandidate /\ rec.status = d.candidate[m].status
    BY <1>1 DEF ShownCandidate
  <2>2. e = [d EXCEPT !.candidate[m] = rec]
    BY <1>3 DEF CandidacyStakeRelease, Handled, Runs, Db
  <2> HIDE DEF rec
  <2> QED BY <1>2, <2>1, <2>2
<1>4. ASSUME e = CandidacyWithdraw(d, m)
      PROVE  Ended /\ e.candidate[m].status = "WITHDRAWN"
  <2> DEFINE rec == [d.candidate[m] EXCEPT !.status = "WITHDRAWN"]
  <2>1. rec \in ShownCandidate /\ rec.status = "WITHDRAWN"
    BY <1>1 DEF ShownCandidate
  <2>2. e = [d EXCEPT !.candidate[m] = rec]
    BY <1>4 DEF CandidacyWithdraw, Handled, Runs, Db
  <2> HIDE DEF rec
  <2> QED BY <1>2, <2>1, <2>2
<1> QED BY <1>3, <1>4

(* The handlers of votes. *)
VoteSet(d, e, a, rec) ==
    /\ e.castVote[a] = rec /\ rec \in ShownVote
    /\ \A b \in Accounts \ {a} : e.castVote[b] = d.castVote[b]

(* A cast vote is the account's last one, locked and not revealed. *)
LEMMA VoteCastShown ==
    ASSUME NEW d, Runs(d), HasElectionRound(d), NEW a \in Accounts, NEW s \in Nat,
           NEW e, e = VoteCast(d, a, s)
    PROVE  /\ Runs(e) /\ SameStages(d, e) /\ SameOffices(d, e) /\ e.candidate = d.candidate
           /\ VoteSet(d, e, a, [electionRound |-> d.electionRound.cycleId, stake |-> s,
                                stakeLocked |-> TRUE, voteFor |-> None])
<1> DEFINE rec == [electionRound |-> d.electionRound.cycleId, stake |-> s,
                   stakeLocked |-> TRUE, voteFor |-> None]
           v == [d.castVote EXCEPT ![a] = rec]
<1>1. rec \in ShownVote /\ d.castVote \in [Accounts -> ShownVote \cup {None}]
  BY DEF ShownVote, Runs, Db
<1>2. e = [d EXCEPT !.castVote = v]
  BY DEF VoteCast, Handled, Runs, Db
<1> HIDE DEF rec
<1>3. v \in [Accounts -> ShownVote \cup {None}] /\ v[a] = rec
      /\ \A b \in Accounts \ {a} : v[b] = d.castVote[b]
  BY <1>1
<1> HIDE DEF v
<1> QED BY <1>1, <1>2, <1>3 DEF Runs, Db, SameStages, SameOffices, VoteSet, rec

(* A released vote is no longer locked. *)
LEMMA VoteReleaseShown ==
    ASSUME NEW d, Runs(d), NEW a \in Accounts, HasCastVote(d, a),
           NEW e, e = StakeReleased(d, a)
    PROVE  /\ Runs(e) /\ SameStages(d, e) /\ SameOffices(d, e) /\ e.candidate = d.candidate
           /\ VoteSet(d, e, a, [d.castVote[a] EXCEPT !.stakeLocked = FALSE])
           /\ e.castVote[a].stakeLocked = FALSE
<1> DEFINE rec == [d.castVote[a] EXCEPT !.stakeLocked = FALSE]
           v == [d.castVote EXCEPT ![a] = rec]
<1>1. d.castVote \in [Accounts -> ShownVote \cup {None}] /\ d.castVote[a] \in ShownVote
  BY DEF Runs, Db, HasCastVote
<1>2. rec \in ShownVote /\ rec.stakeLocked = FALSE
  BY <1>1 DEF ShownVote
<1>3. e = [d EXCEPT !.castVote = v]
  BY DEF StakeReleased, Handled, Runs, Db
<1> HIDE DEF rec
<1>4. v \in [Accounts -> ShownVote \cup {None}] /\ v[a] = rec
      /\ \A b \in Accounts \ {a} : v[b] = d.castVote[b]
  BY <1>1, <1>2
<1> HIDE DEF v
<1> QED BY <1>2, <1>3, <1>4 DEF Runs, Db, SameStages, SameOffices, VoteSet, rec

(* A revealed vote counts for its candidate. *)
LEMMA RevealShown ==
    ASSUME NEW d, Runs(d), NEW a \in Accounts, NEW m \in Members,
           HasCandidateInRound(d, m), HasCastVoteInRound(d, a),
           NEW e, e = VoteRevealed(d, a, m)
    PROVE  /\ Runs(e) /\ SameStages(d, e) /\ SameOffices(d, e)
           /\ VoteSet(d, e, a, [d.castVote[a] EXCEPT !.voteFor = m])
           /\ e.candidate[m] = [d.candidate[m] EXCEPT !.votePower = @ + d.castVote[a].stake]
           /\ e.candidate[m] \in ShownCandidate
           /\ \A k \in Members \ {m} : e.candidate[k] = d.candidate[k]
<1> DEFINE rec == [d.castVote[a] EXCEPT !.voteFor = m]
           v == [d.castVote EXCEPT ![a] = rec]
           cand == [d.candidate[m] EXCEPT !.votePower = @ + d.castVote[a].stake]
           c == [d.candidate EXCEPT ![m] = cand]
<1>1. /\ d.castVote \in [Accounts -> ShownVote \cup {None}] /\ d.castVote[a] \in ShownVote
      /\ d.candidate \in [Members -> ShownCandidate \cup {None}]
      /\ d.candidate[m] \in ShownCandidate
  BY DEF Runs, Db, HasCastVoteInRound, HasCastVote, HasCandidateInRound, HasCandidate
<1>2. rec \in ShownVote
  BY <1>1 DEF ShownVote
<1>3. cand \in ShownCandidate
  BY <1>1 DEF ShownVote, ShownCandidate
<1>4. e = [d EXCEPT !.castVote = v, !.candidate = c]
  BY DEF VoteRevealed, Handled, Runs, Db
<1> HIDE DEF rec, cand
<1>5. v \in [Accounts -> ShownVote \cup {None}] /\ v[a] = rec
      /\ \A b \in Accounts \ {a} : v[b] = d.castVote[b]
  BY <1>1, <1>2
<1>6. c \in [Members -> ShownCandidate \cup {None}] /\ c[m] = cand
      /\ \A k \in Members \ {m} : c[k] = d.candidate[k]
  BY <1>1, <1>3
<1> HIDE DEF v, c
<1>7. /\ Runs(e) /\ SameStages(d, e) /\ SameOffices(d, e)
      /\ e.castVote = v /\ e.candidate = c
  BY <1>4, <1>5, <1>6 DEF Runs, Db, SameStages, SameOffices
<1> QED BY <1>2, <1>3, <1>5, <1>6, <1>7 DEF VoteSet, rec, cand

-----------------------------------------------------------------------------
(* Payments.                                                               *)

(* The recurrence of the remaining budgets has one solution. *)
LEMMA PaymentsUnique ==
    ASSUME BudgetTypeOK, NEW b, NEW n, NEW r \in Remainders(b), NEW s \in Remainders(b),
           PaysInOrder(b, n, r), PaysInOrder(b, n, s)
    PROVE  r = s
<1> DEFINE L == Len(councilMembers)
           N == {i \in 0 .. L : r[i] # s[i]}
<1>1. L \in Nat /\ r \in [0 .. L -> 0 .. b] /\ s \in [0 .. L -> 0 .. b]
  BY DEF BudgetTypeOK, Remainders
<1>2. N = {}
  <2> SUFFICES ASSUME N # {} PROVE FALSE
    OBVIOUS
  <2>1. N \subseteq Nat
    OBVIOUS
  <2>2. PICK k \in N : \A j \in N : k <= j
    <3> HIDE DEF N
    <3> QED BY <2>1, LeastNatural
  <2>3. k \in 0 .. L /\ k # 0 /\ r[k] # s[k]
    BY <2>2 DEF PaysInOrder
  <2>4. k \in 1 .. L /\ k - 1 \in 0 .. L /\ ~ (k <= k - 1)
    BY <1>1, <2>3
  <2>5. r[k - 1] = s[k - 1]
    BY <2>2, <2>4
  <2> HIDE DEF N, L
  <2>6. /\ r[k] = r[k - 1] - PayableReward(r[k - 1], CurrentReward(councilMembers[k], n))
        /\ s[k] = s[k - 1] - PayableReward(s[k - 1], CurrentReward(councilMembers[k], n))
    BY <2>4 DEF PaysInOrder, L
  <2> QED BY <2>3, <2>5, <2>6
<1> HIDE DEF L
<1> QED BY <1>1, <1>2

(* What a councilor is owed, once their last payment is past. *)
LEMMA RewardIsOwed ==
    ASSUME NEW cm \in CouncilMember, NEW n \in Nat, cm.last_payment_block <= n
    PROVE  CurrentReward(cm, n) = Owed(cm, n)
<1>1. cm.last_payment_block \in Nat
  BY DEF CouncilMember
<1>2. (IF n > cm.last_payment_block THEN n - cm.last_payment_block ELSE 0)
         = n - cm.last_payment_block
  BY <1>1
<1> QED BY <1>2 DEF CurrentReward, Owed

(* The events of a payment: one for each councilor, with what they are     *)
(* paid and what stays owed to them.                                       *)
LEMMA PaymentEvents ==
    ASSUME BudgetTypeOK, NEW b \in Nat, NEW n \in Nat, NEW rem \in Remainders(b),
           PaysInOrder(b, n, rem),
           \A i \in 1 .. Len(councilMembers) : councilMembers[i].last_payment_block <= n,
           NEW p, p = Payments(b, n)
    PROVE  /\ Len(p) = Len(councilMembers)
           /\ \A i \in 1 .. Len(councilMembers) :
                 /\ p[i].memberId = councilMembers[i].membership_id
                 /\ p[i].memberId \in Members
                 /\ p[i].paidBalance = rem[i - 1] - rem[i]
                 /\ p[i].missingBalance =
                       Owed(AfterPayment(councilMembers[i], n, rem[i - 1], rem[i]), n)
                 /\ p[i].missingBalance \in Nat
<1> DEFINE L == Len(councilMembers)
           chosen == CHOOSE r \in Remainders(b) : PaysInOrder(b, n, r)
<1>1. chosen = rem
  <2>1. chosen \in Remainders(b) /\ PaysInOrder(b, n, chosen)
    OBVIOUS
  <2> HIDE DEF chosen
  <2> QED BY <2>1, PaymentsUnique
<1>2. p = [i \in 1 .. L |->
            [memberId |-> councilMembers[i].membership_id,
             paidBalance |-> rem[i - 1] - rem[i],
             missingBalance |-> CurrentReward(councilMembers[i], n) - (rem[i - 1] - rem[i])]]
  BY <1>1 DEF Payments
<1>3. L \in Nat /\ councilMembers \in [1 .. L -> CouncilMember] /\ councilorReward \in Nat
      /\ rem \in [0 .. L -> 0 .. b]
  BY DEF BudgetTypeOK, Remainders
<1>4. Len(p) = L
  BY <1>2, <1>3
<1> SUFFICES ASSUME NEW i \in 1 .. L
             PROVE  /\ p[i].memberId = councilMembers[i].membership_id
                    /\ p[i].memberId \in Members
                    /\ p[i].paidBalance = rem[i - 1] - rem[i]
                    /\ p[i].missingBalance =
                          Owed(AfterPayment(councilMembers[i], n, rem[i - 1], rem[i]), n)
                    /\ p[i].missingBalance \in Nat
  BY <1>4
<1> DEFINE cm == councilMembers[i]
           new == AfterPayment(cm, n, rem[i - 1], rem[i])
<1>5. /\ cm \in CouncilMember /\ cm.last_payment_block <= n
      /\ rem[i - 1] \in Nat /\ rem[i] \in Nat
      /\ rem[i] = rem[i - 1] - PayableReward(rem[i - 1], CurrentReward(cm, n))
  BY <1>3 DEF PaysInOrder
<1>6. p[i].memberId = cm.membership_id /\ p[i].paidBalance = rem[i - 1] - rem[i]
      /\ p[i].missingBalance = CurrentReward(cm, n) - (rem[i - 1] - rem[i])
  BY <1>2
<1> HIDE DEF cm, L
<1>7. Balanced(cm, new, n, rem[i - 1], rem[i])
  <2> HIDE DEF new
  <2>1. new = AfterPayment(cm, n, rem[i - 1], rem[i])
    BY DEF new
  <2> QED BY <1>3, <1>5, <2>1, PaymentBalance
<1>8. CurrentReward(cm, n) = Owed(cm, n)
  BY <1>5, RewardIsOwed
<1> HIDE DEF new
<1>9. CurrentReward(cm, n) - (rem[i - 1] - rem[i]) = Owed(new, n) /\ Owed(new, n) \in Nat
  BY <1>5, <1>7, <1>8 DEF Balanced
<1>10. cm.membership_id \in Members
  BY <1>5 DEF CouncilMember
<1> QED BY <1>6, <1>9, <1>10 DEF cm, new

(* A term of office after a payment. *)
PaidTerm(c, k, missing, block) ==
    /\ k \in ShownCouncilMember
    /\ k.stakingAccountId = c.stakingAccountId
    /\ k.stake = c.stake
    /\ k.electedInCouncil = c.electedInCouncil
    /\ k.unpaidReward = missing
    /\ k.lastPaymentBlock = block

(* The payments of a block, to members who have a term of office each. *)
LEMMA PaymentsShown ==
    ASSUME NEW d, Runs(d), NEW p, NEW block \in Nat, Len(p) \in Nat,
           \A i \in 1 .. Len(p) :
               /\ p[i].memberId \in Members
               /\ p[i].paidBalance \in Int
               /\ p[i].missingBalance \in Nat
               /\ d.councilMember[p[i].memberId] # None,
           \A i, j \in 1 .. Len(p) : p[i].memberId = p[j].memberId => i = j,
           NEW e, e = RewardPayment(d, p, block)
    PROVE  /\ Runs(e) /\ SameStages(d, e) /\ SameElections(d, e)
           /\ e.electedAtBlock = d.electedAtBlock
           /\ e.isCouncilMember = d.isCouncilMember
           /\ e.accumulatedReward = d.accumulatedReward
                 + SumOver([i \in 1 .. Len(p) |-> p[i].paidBalance], 1 .. Len(p))
           /\ \A i \in 1 .. Len(p) :
                 PaidTerm(d.councilMember[p[i].memberId], e.councilMember[p[i].memberId],
                          p[i].missingBalance, block)
<1> DEFINE L == Len(p)
           of(m) == {i \in 1 .. L : p[i].memberId = m}
           paid(m) == p[CHOOSE i \in of(m) : TRUE]
           bal == [i \in 1 .. L |-> p[i].paidBalance]
           term(m) == [d.councilMember[m] EXCEPT !.unpaidReward = paid(m).missingBalance,
                                                 !.lastPaymentBlock = block]
           c == [m \in Members |-> IF of(m) = {} THEN d.councilMember[m] ELSE term(m)]
           acc == d.accumulatedReward + SumOver(bal, 1 .. L)
<1>1. SumOver(bal, 1 .. L) \in Int
  <2>1. Summable(bal, 1 .. L)
    <3>1. \A i \in 1 .. L : bal[i] \in Int
      OBVIOUS
    <3>2. IsFiniteSet(1 .. L)
      BY FS_Interval
    <3> HIDE DEF bal
    <3> QED BY <3>1, <3>2 DEF Summable
  <2> HIDE DEF bal
  <2> QED BY <2>1, SumType
<1>2. \A m \in Members : of(m) # {} => d.councilMember[m] # None
  OBVIOUS
<1>3. e = [d EXCEPT !.accumulatedReward = acc, !.councilMember = c]
  <2>1. e = [d EXCEPT
                !.accumulatedReward = d.accumulatedReward + MapThenSumSet(LAMBDA i : bal[i], 1 .. L),
                !.councilMember = c]
    BY <1>2, Zenon DEF RewardPayment, Handled, Runs
  <2> QED BY <2>1 DEF SumOver
<1>4. \A i \in 1 .. L : of(p[i].memberId) = {i} /\ paid(p[i].memberId) = p[i]
  <2> TAKE i \in 1 .. L
  <2>1. of(p[i].memberId) = {i}
    OBVIOUS
  <2>2. (CHOOSE j \in {i} : TRUE) = i
    OBVIOUS
  <2> HIDE DEF of
  <2> QED BY <2>1, <2>2
<1>5. d.councilMember \in [Members -> ShownCouncilMember \cup {None}]
      /\ d.accumulatedReward \in Int
  BY DEF Runs, Db
<1>6. \A i \in 1 .. L :
         PaidTerm(d.councilMember[p[i].memberId], c[p[i].memberId], p[i].missingBalance, block)
  <2> TAKE i \in 1 .. L
  <2> DEFINE m == p[i].memberId
             x == p[i].missingBalance
  <2>1. m \in Members /\ x \in Nat /\ d.councilMember[m] \in ShownCouncilMember
    BY <1>5
  <2>2. of(m) # {} /\ paid(m) = p[i]
    BY <1>4
  <2>3. c[m] = [d.councilMember[m] EXCEPT !.unpaidReward = x, !.lastPaymentBlock = block]
    <3> HIDE DEF of, paid
    <3> QED BY <2>1, <2>2
  <2> HIDE DEF m, x, c
  <2>4. PaidTerm(d.councilMember[m], c[m], x, block)
    BY <2>1, <2>3 DEF PaidTerm, ShownCouncilMember
  <2> QED BY <2>4 DEF m, x
<1>7. c \in [Members -> ShownCouncilMember \cup {None}]
  <2> SUFFICES ASSUME NEW m \in Members PROVE c[m] \in ShownCouncilMember \cup {None}
    OBVIOUS
  <2>1. CASE of(m) = {}
    BY <1>5, <2>1
  <2>2. CASE of(m) # {}
    <3>1. PICK i \in 1 .. L : p[i].memberId = m
      BY <2>2
    <3> HIDE DEF c
    <3> QED BY <1>6, <3>1 DEF PaidTerm
  <2> QED BY <2>1, <2>2
<1>8. acc \in Int
  BY <1>1, <1>5
<1> HIDE DEF c, acc
<1>9. /\ Runs(e) /\ SameStages(d, e) /\ SameElections(d, e)
      /\ e.electedAtBlock = d.electedAtBlock /\ e.isCouncilMember = d.isCouncilMember
      /\ e.accumulatedReward = acc /\ e.councilMember = c
  BY <1>3, <1>7, <1>8 DEF Runs, Db, SameStages, SameElections
<1> QED BY <1>6, <1>9 DEF acc

-----------------------------------------------------------------------------
(* The election of a council.                                              *)

(* A new term of office, of a member elected in a block. *)
NewTerm(cand, k, block) ==
    /\ k \in ShownCouncilMember
    /\ k.stakingAccountId = cand.stakingAccountId
    /\ k.stake = cand.stake
    /\ k.lastPaymentBlock = block
    /\ k.unpaidReward = 0
    /\ k.electedInCouncil = block

(* Those whom the chain elects and who are active take office; no          *)
(* candidacy stays active.                                                 *)
ElectedShown(d, e, ids, idleEnd, block) ==
    /\ Runs(e) /\ e.castVote = d.castVote
    /\ e.electionRound = [cycleId |-> d.electionRound.cycleId, isFinished |-> TRUE]
    /\ e.stageUpdate = [stage |-> Idle(idleEnd), changedAt |-> block]
    /\ e.referendumStage = d.referendumStage
    /\ e.isCouncilMember = ids
    /\ e.electedAtBlock = block
    /\ e.accumulatedReward = d.accumulatedReward
    /\ \A m \in ids : NewTerm(d.candidate[m], e.councilMember[m], block)
    /\ \A m \in ActiveCandidates(d) : \E status \in {"ELECTED", "FAILED"} :
          GivenStatus(d.candidate[m], e.candidate[m], status)
    /\ \A m \in Members \ ActiveCandidates(d) : e.candidate[m] = d.candidate[m]

(* It is so when they are candidates of the round. *)
LEMMA CouncilElected ==
    ASSUME NEW d, Runs(d), HasElectionRound(d), NEW ids, ids \subseteq ActiveCandidates(d),
           NEW idleEnd \in Nat, NEW block \in Nat, block > d.stageUpdate.changedAt,
           NEW e, e = NewCouncilElected(d, ids, idleEnd, block)
    PROVE  ElectedShown(d, e, ids, idleEnd, block)
<1> DEFINE act == ActiveCandidates(d)
           x == WithStatus(d, ids, "ELECTED")
           y == WithStatus(x, act \ ids, "FAILED")
           z == concludeElectionRound(y)
           c == convertCandidatesToCouncilMembers(d, ids, block)
           u == [stage |-> Idle(idleEnd), changedAt |-> block]
           w == [z EXCEPT !.councilMember = c, !.electedAtBlock = block, !.isCouncilMember = ids]
<1>0. /\ \A m \in act : m \in Members /\ HasCandidate(d, m)
      /\ act \cap ids = ids
  BY DEF ActiveCandidates, HasCandidateInRound
<1>1. e = updateCouncilStage(w, Idle(idleEnd), block)
  BY <1>0 DEF NewCouncilElected, Handled, Runs, CouncilMarks
<1>2. /\ Runs(x) /\ SameStages(d, x) /\ SameOffices(d, x) /\ x.castVote = d.castVote
      /\ \A m \in ids : GivenStatus(d.candidate[m], x.candidate[m], "ELECTED")
      /\ \A m \in Members \ ids : x.candidate[m] = d.candidate[m]
  <2>1. \A m \in ids : m \in Members /\ HasCandidate(d, m)
    BY <1>0
  <2>2. x = WithStatus(d, ids, "ELECTED")
    OBVIOUS
  <2> HIDE DEF x
  <2> QED BY <2>1, <2>2, StatusSet
<1> HIDE DEF x
<1>3. /\ Runs(y) /\ SameStages(x, y) /\ SameOffices(x, y) /\ y.castVote = x.castVote
      /\ \A m \in act \ ids : GivenStatus(x.candidate[m], y.candidate[m], "FAILED")
      /\ \A m \in Members \ (act \ ids) : y.candidate[m] = x.candidate[m]
  <2>1. \A m \in act \ ids : m \in Members /\ HasCandidate(x, m)
    BY <1>0, <1>2 DEF HasCandidate
  <2>2. y = WithStatus(x, act \ ids, "FAILED")
    OBVIOUS
  <2> HIDE DEF y, act
  <2> QED BY <1>2, <2>1, <2>2, StatusSet
<1> HIDE DEF y
<1>4. /\ Runs(z) /\ SameElections(y, z) /\ SameOffices(y, z)
      /\ z.stageUpdate = y.stageUpdate /\ z.referendumStage = y.referendumStage
      /\ z.electionRound = [cycleId |-> y.electionRound.cycleId, isFinished |-> TRUE]
  BY <1>3 DEF concludeElectionRound, Runs, Db, SameElections, SameOffices
<1> HIDE DEF z
<1>5. /\ c \in [Members -> ShownCouncilMember \cup {None}]
      /\ \A m \in ids : NewTerm(d.candidate[m], c[m], block)
  <2>1. /\ d.candidate \in [Members -> ShownCandidate \cup {None}]
        /\ d.councilMember \in [Members -> ShownCouncilMember \cup {None}]
    BY DEF Runs, Db
  <2>2. \A m \in ids : m \in Members /\ d.candidate[m] \in ShownCandidate
    BY <1>0, <2>1 DEF HasCandidate
  <2>3. \A m \in ids : NewTerm(d.candidate[m], c[m], block)
    BY <2>2 DEF convertCandidatesToCouncilMembers, NewTerm, ShownCandidate, ShownCouncilMember
  <2>4. \A m \in Members \ ids : c[m] = d.councilMember[m]
    BY DEF convertCandidatesToCouncilMembers
  <2>5. c = [m \in Members |-> c[m]]
    BY DEF convertCandidatesToCouncilMembers
  <2> HIDE DEF c
  <2>6. \A m \in Members : c[m] \in ShownCouncilMember \cup {None}
    BY <2>1, <2>3, <2>4 DEF NewTerm
  <2> QED BY <2>3, <2>5, <2>6
<1> HIDE DEF c
<1>6. ids \in SUBSET Members
  BY <1>0
<1>7. /\ Runs(w) /\ SameStages(z, w) /\ SameElections(z, w)
      /\ w.councilMember = c /\ w.electedAtBlock = block /\ w.isCouncilMember = ids
      /\ w.accumulatedReward = z.accumulatedReward
  BY <1>4, <1>5, <1>6 DEF Runs, Db, SameStages, SameElections
<1> HIDE DEF w
<1>8. block > w.stageUpdate.changedAt
  BY <1>2, <1>3, <1>4, <1>7 DEF SameStages
<1>9. u \in [stage : CouncilStages, changedAt : Nat]
  BY DEF CouncilStages, Idle
<1>10. e = [w EXCEPT !.stageUpdate = u]
  BY <1>1, <1>8 DEF updateCouncilStage
<1> HIDE DEF u
<1>11. /\ Runs(e) /\ SameElections(w, e) /\ SameOffices(w, e)
       /\ e.stageUpdate = u /\ e.electionRound = w.electionRound
       /\ e.referendumStage = w.referendumStage
  BY <1>7, <1>9, <1>10 DEF Runs, Db, SameElections, SameOffices
<1>12. e.candidate = y.candidate /\ e.castVote = d.castVote
  BY <1>2, <1>3, <1>4, <1>7, <1>11 DEF SameElections
<1>13. \A m \in act : \E status \in {"ELECTED", "FAILED"} :
          GivenStatus(d.candidate[m], e.candidate[m], status)
  BY <1>0, <1>2, <1>3, <1>12
<1>14. \A m \in Members \ act : e.candidate[m] = d.candidate[m]
  BY <1>0, <1>2, <1>3, <1>12
<1>15. /\ e.electionRound = [cycleId |-> d.electionRound.cycleId, isFinished |-> TRUE]
       /\ e.referendumStage = d.referendumStage
       /\ e.accumulatedReward = d.accumulatedReward
  BY <1>2, <1>3, <1>4, <1>7, <1>11 DEF SameStages, SameOffices
<1>16. e.councilMember = c /\ e.isCouncilMember = ids /\ e.electedAtBlock = block
  BY <1>7, <1>11 DEF SameOffices
<1> QED BY <1>5, <1>11, <1>12, <1>13, <1>14, <1>15, <1>16 DEF u, ElectedShown

-----------------------------------------------------------------------------
(* The inductive invariant.  Next to the properties it says that an update *)
(* is older than the end of the referendum's stage, so that the next one   *)
(* is later than it, that there is a round unless the council is idle, and *)
(* that the records are there which the handlers will look up.             *)

StageRight(d) ==
    /\ d.electionRound.cycleId = announcementPeriodNr
    /\ d.stageUpdate.stage.tag = stage.tag
    /\ stage.tag \in {"Idle", "Announcing"} => d.stageUpdate.stage.ends_at = stage.ends_at
    /\ d.electionRound.isFinished <=> stage.tag = "Idle"
    /\ refStage.tag # "Inactive" =>
          /\ d.referendumStage.tag = refStage.tag
          /\ d.referendumStage.winning_target_count = refStage.winning_target_count
          /\ d.referendumStage.ends_at = refStage.ends_at
    /\ d.stageUpdate.changedAt <= now
    /\ refStage.tag # "Inactive" => d.stageUpdate.changedAt < refStage.ends_at
    /\ stage.tag # "Idle" => announcementPeriodNr > 0

Active(d, m) == HasCandidate(d, m) /\ d.candidate[m].status = "ACTIVE"

CandidacyRight(d, m) ==
    candidates[m] # None =>
        /\ HasCandidate(d, m)
        /\ d.candidate[m].electionRound = candidates[m].cycle_id
        /\ d.candidate[m].stakingAccountId = candidates[m].staking_account_id
        /\ d.candidate[m].stake = candidates[m].stake
        /\ d.candidate[m].stakeLocked
        /\ d.candidate[m].votePower = candidates[m].vote_power

ActiveRight(d, m) == Active(d, m) <=> IsCurrentCandidate(m) /\ stage.tag # "Idle"

VoteRight(d, a) ==
    /\ (HasCastVote(d, a) /\ d.castVote[a].stakeLocked) <=> votes[a] # None
    /\ votes[a] # None =>
          /\ d.castVote[a].electionRound = votes[a].cycle_id
          /\ d.castVote[a].stake = votes[a].stake
          /\ d.castVote[a].voteFor = votes[a].vote_for

ElectionRight(d) ==
    /\ \A m \in Members : CandidacyRight(d, m) /\ ActiveRight(d, m)
    /\ \A a \in Accounts : VoteRight(d, a)

OfficeRight(d) ==
    /\ d.isCouncilMember = {councilMembers[i].membership_id : i \in 1 .. Len(councilMembers)}
    /\ \A i \in 1 .. Len(councilMembers) :
          LET shown == d.councilMember[councilMembers[i].membership_id] IN
          /\ shown # None
          /\ shown.electedInCouncil = d.electedAtBlock
          /\ shown.stakingAccountId = councilMembers[i].staking_account_id
          /\ shown.stake = councilMembers[i].stake

DebtRight(d) ==
    /\ \A i \in 1 .. Len(councilMembers) :
          LET shown == d.councilMember[councilMembers[i].membership_id] IN
          shown.unpaidReward + (now - shown.lastPaymentBlock) * councilorReward
             = CurrentReward(councilMembers[i], now)
    /\ d.accumulatedReward = totalIssuance - InitialIssuance

ChainInv == IndInv /\ CountInv /\ CouncilComplete /\ PaymentsPast

ViewInv == Runs(db) /\ StageRight(db) /\ ElectionRight(db) /\ OfficeRight(db)

(* The initial database shows the genesis of the chain. *)
LEMMA InitViewInv == ViewInit => ChainInv /\ ViewInv
<1> SUFFICES ASSUME ViewInit PROVE ChainInv /\ ViewInv
  OBVIOUS
<1>1. ChainInv
  BY InitIndInv, InitCountInv DEF ViewInit, ChainInv, Init, BudgetInit, CouncilComplete,
                                  PaymentsPast
<1>2. db = InitialDb /\ stage = Idle(1) /\ announcementPeriodNr = 0 /\ refStage = Inactive
      /\ now = 0 /\ councilMembers = <<>>
      /\ candidates = [m \in Members |-> None] /\ votes = [a \in Accounts |-> None]
  BY DEF ViewInit, Init, ReferendumInit, BudgetInit
<1>3. Runs(db)
  BY <1>2 DEF InitialDb, Runs, Db, CouncilStages, Idle, ShownReferendum
<1>4. StageRight(db)
  BY <1>2 DEF InitialDb, StageRight, Idle, Inactive
<1>5. ElectionRight(db)
  BY <1>2 DEF InitialDb, ElectionRight, CandidacyRight, ActiveRight, Active, VoteRight,
              HasCandidate, HasCastVote, IsCurrentCandidate
<1>6. OfficeRight(db)
  BY <1>2 DEF InitialDb, OfficeRight
<1> QED BY <1>1, <1>3, <1>4, <1>5, <1>6 DEF ViewInv

(* Every step of the composition is a step of the chain. *)
LEMMA ViewStepIsChainStep == [ViewNext]_viewVars => [Next]_vars
<1> SUFFICES ASSUME [ViewNext]_viewVars PROVE [Next]_vars
  OBVIOUS
<1>1. CASE ExtrinsicShown
  <2>1. Extrinsic
    BY <1>1 DEF ExtrinsicShown, Extrinsic
  <2> QED BY <2>1 DEF Next
<1> QED BY <1>1 DEF ViewNext, CouncilHookShown, ReferendumHookShown, Next, viewVars

(* So the invariants of the chain hold of it. *)
LEMMA NextChainInv == ChainInv /\ [ViewNext]_viewVars => ChainInv'
  BY ViewStepIsChainStep, NextIndInv, NextCountInv, NextCouncilComplete, NextPaymentsPast
  DEF ChainInv

-----------------------------------------------------------------------------
(* The council's hook.                                                     *)

(* A round in which nobody stands yet: the candidacies of before are over. *)
LEMMA NobodyStands ==
    ASSUME ChainInv, announcementPeriodNr' = announcementPeriodNr + 1, UNCHANGED candidates
    PROVE  \A m \in Members : ~ IsCurrentCandidate(m)'
<1>1. \A m \in Members : candidates[m] # None =>
         candidates[m].cycle_id \in Nat /\ candidates[m].cycle_id <= announcementPeriodNr
  BY DEF ChainInv, CountInv, IndInv, TypeOK, Candidate
<1>2. announcementPeriodNr \in Nat
  BY DEF ChainInv, IndInv, TypeOK
<1> QED BY <1>1, <1>2 DEF IsCurrentCandidate

(* The active candidacies are those of the current round. *)
LEMMA ActiveInRound ==
    ASSUME ChainInv, ViewInv, NEW m \in Members
    PROVE  m \in ActiveCandidates(db) <=> Active(db, m)
<1>1. Active(db, m) => IsCurrentCandidate(m) /\ CandidacyRight(db, m)
  BY DEF ViewInv, ElectionRight, ActiveRight
<1>2. Active(db, m) => HasCandidateInRound(db, m)
  BY <1>1 DEF ViewInv, StageRight, CandidacyRight, IsCurrentCandidate, HasCandidateInRound,
              Active
<1> QED BY <1>2 DEF ActiveCandidates, HasCandidateInRound, Active

(* A failed election, or a start without one, is followed by a round       *)
(* without active candidacies.                                             *)
LEMMA NewRoundElection ==
    ASSUME ChainInv, ViewInv, announcementPeriodNr' = announcementPeriodNr + 1,
           UNCHANGED <<candidates, votes>>, NEW e, Runs(e), e.castVote = db.castVote,
           \A m \in Members : Active(db, m) =>
               GivenStatus(db.candidate[m], e.candidate[m], "FAILED"),
           \A m \in Members : ~ Active(db, m) => e.candidate[m] = db.candidate[m]
    PROVE  ElectionRight(e)'
<1>1. \A m \in Members : ~ IsCurrentCandidate(m)'
  BY NobodyStands
<1>2. ASSUME NEW m \in Members PROVE CandidacyRight(e, m)' /\ ActiveRight(e, m)'
  <2>0. CandidacyRight(db, m)
    BY DEF ViewInv, ElectionRight
  <2>1. CASE Active(db, m)
    <3>1. GivenStatus(db.candidate[m], e.candidate[m], "FAILED")
      BY <2>1
    <3>2. e.candidate[m] # None
      BY <3>1, NoneIsNoRecord DEF GivenStatus
    <3>3. ~ Active(e, m) /\ HasCandidate(e, m)
      BY <3>1, <3>2 DEF GivenStatus, Active, HasCandidate
    <3>4. CandidacyRight(e, m)'
      BY <2>0, <3>1, <3>3 DEF CandidacyRight, GivenStatus, HasCandidate
    <3> QED BY <1>1, <3>3, <3>4 DEF ActiveRight, Active, HasCandidate
  <2>2. CASE ~ Active(db, m)
    <3>1. e.candidate[m] = db.candidate[m]
      BY <2>2
    <3>2. ~ Active(e, m)
      BY <2>2, <3>1 DEF Active, HasCandidate
    <3>3. CandidacyRight(e, m)'
      BY <2>0, <3>1 DEF CandidacyRight, HasCandidate
    <3> QED BY <1>1, <3>2, <3>3 DEF ActiveRight, Active, HasCandidate
  <2> QED BY <2>1, <2>2
<1>3. ASSUME NEW a \in Accounts PROVE VoteRight(e, a)'
  BY DEF ViewInv, ElectionRight, VoteRight, HasCastVote
<1> QED BY <1>2, <1>3 DEF ElectionRight

(* Nothing is shown, and nothing has changed, of candidacies and votes. *)
LEMMA SameElectionRight ==
    ASSUME ViewInv, NEW e, SameElections(db, e),
           UNCHANGED <<candidates, votes, announcementPeriodNr>>,
           stage'.tag = "Idle" <=> stage.tag = "Idle"
    PROVE  ElectionRight(e)'
<1>1. ASSUME NEW m \in Members PROVE CandidacyRight(e, m)' /\ ActiveRight(e, m)'
  <2>1. CandidacyRight(db, m) /\ ActiveRight(db, m) /\ e.candidate[m] = db.candidate[m]
    BY DEF ViewInv, ElectionRight, SameElections
  <2>2. CandidacyRight(e, m)'
    BY <2>1 DEF CandidacyRight, HasCandidate
  <2>3. ActiveRight(e, m)'
    BY <2>1 DEF ActiveRight, Active, HasCandidate, IsCurrentCandidate
  <2> QED BY <2>2, <2>3
<1>2. ASSUME NEW a \in Accounts PROVE VoteRight(e, a)'
  BY DEF ViewInv, ElectionRight, VoteRight, HasCastVote, SameElections
<1> QED BY <1>1, <1>2 DEF ElectionRight

(* The event of the council's stage, whichever it is. *)
LEMMA StageEventShown ==
    ASSUME ChainInv, ViewInv, CouncilOnInitialize, NEW e, e = StageEvents(db, now + 1)
    PROVE  Runs(e) /\ StageRight(e)' /\ ElectionRight(e)' /\ SameOffices(db, e)
<1> DEFINE n == now + 1
<1>1. /\ n \in Nat /\ now \in Nat /\ now' = n /\ stage \in CouncilStages
      /\ announcementPeriodNr \in Nat /\ UNCHANGED <<candidates, votes>> /\ TryProgressStage(n)
      /\ AnnouncingPeriodDuration \in Nat \ {0} /\ VoteStageDuration \in Nat \ {0}
  BY CouncilAssumption, ReferendumAssumption
  DEF ChainInv, IndInv, TypeOK, ReferendumTypeOK, CouncilOnInitialize
<1>2. /\ Runs(db) /\ StageRight(db) /\ db.stageUpdate.changedAt \in Nat
      /\ n > db.stageUpdate.changedAt
  BY <1>1 DEF ViewInv, StageRight, Runs, Db
<1>3. StagesAgree /\ DeadlinesAhead /\ refStage' \in {Inactive} \cup VotingStages \cup RevealingStages
  <2>1. IndInv'
    BY NextIndInv DEF ChainInv, Next
  <2> QED BY <2>1 DEF ChainInv, IndInv, TypeOK, ReferendumTypeOK
<1> HIDE DEF n
<1>4. e = StageEvents(db, n)
  BY DEF n
<1>5. ASSUME EndIdlePeriod(n) \/ RestartAnnouncing(n)
      PROVE  /\ stage' = Announcing(0, n + AnnouncingPeriodDuration)
             /\ stage'.tag = "Announcing" /\ stage'.ends_at = n + AnnouncingPeriodDuration
             /\ stage'.ends_at \in Nat /\ stage' # stage
             /\ announcementPeriodNr' = announcementPeriodNr + 1
             /\ refStage'.tag = "Inactive"
  BY <1>1, <1>3, <1>5 DEF EndIdlePeriod, RestartAnnouncing, StartAnnouncingPeriod, Announcing,
                          StagesAgree
<1>6. ASSUME EndIdlePeriod(n) \/ RestartAnnouncing(n), Runs(e),
             RoundStarted(db, e, stage'.ends_at, n)
      PROVE  StageRight(e)'
  <2>1. /\ e.electionRound.cycleId = announcementPeriodNr + 1 /\ e.electionRound.isFinished = FALSE
        /\ e.stageUpdate.stage = stage' /\ e.stageUpdate.changedAt = n
    BY <1>2, <1>5, <1>6 DEF RoundStarted, StageRight
  <2> QED BY <1>1, <1>5, <1>6, <2>1 DEF StageRight
<1>7. CASE EndIdlePeriod(n)
  <2>1. stage.tag = "Idle" /\ e = AnnouncingPeriodStarted(db, stage'.ends_at, n)
    BY <1>4, <1>5, <1>7 DEF StageEvents, EndIdlePeriod
  <2>2. Runs(e) /\ RoundStarted(db, e, stage'.ends_at, n) /\ SameElections(db, e)
    BY <1>1, <1>2, <1>5, <1>7, <2>1, RoundStart
  <2>3. \A m \in Members : ~ Active(db, m) /\ e.candidate[m] = db.candidate[m]
    BY <2>1, <2>2 DEF ViewInv, ElectionRight, ActiveRight, SameElections
  <2>4. ElectionRight(e)'
    BY <1>1, <1>5, <1>7, <2>2, <2>3, NewRoundElection DEF SameElections
  <2> QED BY <1>6, <1>7, <2>2, <2>4 DEF RoundStarted
<1>8. CASE RestartAnnouncing(n)
  <2>1. stage.tag = "Announcing" /\ e = ElectionRestarted(db, stage'.ends_at, n)
    BY <1>4, <1>5, <1>8 DEF StageEvents, RestartAnnouncing
  <2>2. HasElectionRound(db)
    BY <1>2, <2>1 DEF StageRight, HasElectionRound
  <2>3. /\ Runs(e) /\ RoundStarted(db, e, stage'.ends_at, n) /\ e.castVote = db.castVote
        /\ \A m \in ActiveCandidates(db) :
              GivenStatus(db.candidate[m], e.candidate[m], "FAILED")
        /\ \A m \in Members \ ActiveCandidates(db) : e.candidate[m] = db.candidate[m]
    BY <1>1, <1>2, <1>5, <1>8, <2>1, <2>2, RoundRestart
  <2>4. ElectionRight(e)'
    BY <1>1, <1>5, <1>8, <2>3, ActiveInRound, NewRoundElection
  <2> QED BY <1>6, <1>8, <2>3, <2>4 DEF RoundStarted
<1>9. CASE FinalizeAnnouncingPeriod(n)
  <2>1. /\ stage.tag = "Announcing" /\ stage.candidates_count \in Nat
        /\ stage' = Election(stage.candidates_count) /\ stage'.tag = "Election"
        /\ stage'.candidates_count = stage.candidates_count /\ stage' # stage
        /\ announcementPeriodNr' = announcementPeriodNr
        /\ refStage'.tag = "Voting" /\ refStage'.ends_at = n + VoteStageDuration
    BY <1>1, <1>9 DEF FinalizeAnnouncingPeriod, Election, CouncilStages, ForceStart, Voting
  <2>2. refStage'.winning_target_count \in Nat /\ refStage'.ends_at \in Nat
    BY <1>3, <2>1 DEF Inactive, VotingStages, RevealingStages
  <2>3. e = VotingPeriodStarted(
               ReferendumStartedForcefully(db, refStage'.winning_target_count, refStage'.ends_at),
               stage.candidates_count, n)
    BY <1>4, <2>1 DEF StageEvents
  <2>4. HasElectionRound(db)
    BY <1>2, <2>1 DEF StageRight, HasElectionRound
  <2>5. /\ Runs(e) /\ SameElections(db, e) /\ SameOffices(db, e)
        /\ e.electionRound = db.electionRound
        /\ e.stageUpdate = [stage |-> Election(stage.candidates_count), changedAt |-> n]
        /\ e.referendumStage = Voting(refStage'.winning_target_count,
                                      db.electionRound.cycleId, refStage'.ends_at)
    BY <1>1, <1>2, <2>1, <2>2, <2>3, <2>4, ElectionStart
  <2>6. ElectionRight(e)'
    BY <1>1, <2>1, <2>5, SameElectionRight
  <2>7. StageRight(e)'
    BY <1>1, <1>2, <2>1, <2>5 DEF StageRight, Voting, Election
  <2> QED BY <2>5, <2>6, <2>7
<1>10. CASE NoCouncilProgress(n)
  <2>1. e = db /\ UNCHANGED <<stage, announcementPeriodNr, refStage>>
    BY <1>4, <1>10 DEF NoCouncilProgress, StageEvents
  <2>2. ElectionRight(e)'
    BY <1>1, <2>1, SameElectionRight DEF SameElections
  <2>3. StageRight(e)'
    BY <1>1, <1>2, <2>1 DEF StageRight
  <2> QED BY <1>2, <2>1, <2>2, <2>3 DEF SameOffices
<1> QED BY <1>1, <1>7, <1>8, <1>9, <1>10 DEF TryProgressStage

(* The events of a payment reach the terms of office of the councilors,    *)
(* and add up to what the budget has paid.                                 *)
LEMMA RewardsShown ==
    ASSUME ChainInv, NEW d, Runs(d), OfficeRight(d), NEW b \in Nat, NEW n \in Nat, now <= n,
           NEW rem \in Remainders(b), PaysInOrder(b, n, rem),
           NEW e, e = RewardPayment(d, Payments(b, n), n)
    PROVE  /\ Runs(e) /\ SameStages(d, e) /\ SameElections(d, e)
           /\ e.electedAtBlock = d.electedAtBlock
           /\ e.isCouncilMember = d.isCouncilMember
           /\ e.accumulatedReward = d.accumulatedReward + (b - rem[Len(councilMembers)])
           /\ \A i \in 1 .. Len(councilMembers) :
                 PaidTerm(d.councilMember[councilMembers[i].membership_id],
                          e.councilMember[councilMembers[i].membership_id],
                          Owed(AfterPayment(councilMembers[i], n, rem[i - 1], rem[i]), n), n)
<1> DEFINE L == Len(councilMembers)
           p == Payments(b, n)
           bal == [i \in 1 .. L |-> p[i].paidBalance]
           none == [i \in 1 .. L |-> 0]
<1>1. BudgetTypeOK /\ L \in Nat /\ now \in Nat /\ rem \in [0 .. L -> 0 .. b]
  BY DEF ChainInv, IndInv, TypeOK, BudgetTypeOK, ReferendumTypeOK, Remainders
<1>2. \A i \in 1 .. L : councilMembers[i].last_payment_block <= n
  BY <1>1, CouncilPastBlocks DEF ChainInv, PaymentsPast
<1>3. /\ Len(p) = L
      /\ \A i \in 1 .. L :
            /\ p[i].memberId = councilMembers[i].membership_id
            /\ p[i].memberId \in Members
            /\ p[i].paidBalance = rem[i - 1] - rem[i]
            /\ p[i].missingBalance =
                  Owed(AfterPayment(councilMembers[i], n, rem[i - 1], rem[i]), n)
            /\ p[i].missingBalance \in Nat
  <2>1. p = Payments(b, n)
    OBVIOUS
  <2>2. BudgetTypeOK
    BY <1>1
  <2> HIDE DEF p
  <2> QED BY <1>2, <2>1, <2>2, PaymentEvents, SMTT(30)
<1> HIDE DEF p
<1>4. \A i \in 1 .. L : rem[i - 1] \in Int /\ rem[i] \in Int /\ p[i].paidBalance \in Int
  <2>1. \A i \in 1 .. L : rem[i - 1] \in Int /\ rem[i] \in Int
    BY <1>1
  <2>2. \A i \in 1 .. L : p[i].paidBalance = rem[i - 1] - rem[i]
    BY <1>3
  <2> QED BY <2>1, <2>2
<1>5. \A i, j \in 1 .. L : p[i].memberId = p[j].memberId => i = j
  <2>1. councilMembers # <<>> => L = CouncilSize /\ \A i, j \in 1 .. L :
           councilMembers[i].membership_id = councilMembers[j].membership_id => i = j
    BY DEF ChainInv, CouncilComplete
  <2>2. councilMembers = <<>> => 1 .. L = {}
    OBVIOUS
  <2> HIDE DEF L
  <2> QED BY <1>3, <2>1, <2>2
<1>6. \A i \in 1 .. L : d.councilMember[p[i].memberId] # None
  BY <1>3 DEF OfficeRight
<1>7. /\ Runs(e) /\ SameStages(d, e) /\ SameElections(d, e)
      /\ e.electedAtBlock = d.electedAtBlock /\ e.isCouncilMember = d.isCouncilMember
      /\ e.accumulatedReward = d.accumulatedReward
            + SumOver([i \in 1 .. Len(p) |-> p[i].paidBalance], 1 .. Len(p))
      /\ \A i \in 1 .. Len(p) :
            PaidTerm(d.councilMember[p[i].memberId], e.councilMember[p[i].memberId],
                     p[i].missingBalance, n)
  <2>1. e = RewardPayment(d, p, n) /\ Len(p) \in Nat
    BY <1>1, <1>3 DEF p
  <2>2. \A i \in 1 .. Len(p) : /\ p[i].memberId \in Members
                               /\ p[i].paidBalance \in Int
                               /\ p[i].missingBalance \in Nat
                               /\ d.councilMember[p[i].memberId] # None
    BY <1>3, <1>4, <1>6
  <2>3. \A i, j \in 1 .. Len(p) : p[i].memberId = p[j].memberId => i = j
    BY <1>3, <1>5
  <2> QED BY <2>1, <2>2, <2>3, PaymentsShown
<1>8. SumOver(bal, 1 .. L) = rem[0] - rem[L]
  <2>1. /\ \A i \in 1 .. L : bal[i] = rem[i - 1] - rem[i] /\ bal[i] \in Int /\ none[i] = 0
        /\ \A i \in 0 .. L : rem[i] \in Int
    BY <1>1, <1>3, <1>4
  <2> HIDE DEF bal, none, L
  <2>2. StepsDown(bal, none, rem, L)
    BY <2>1, <1>1 DEF StepsDown
  <2>3. SumOver(none, 1 .. L) = 0
    <3>1. IsFiniteSet(1 .. L)
      BY <1>1, FS_Interval
    <3> QED BY <2>1, <3>1, SumZero
  <2>4. SumOver(bal, 1 .. L) = (rem[0] - rem[L]) + SumOver(none, 1 .. L)
    BY <1>1, <2>2, SumTelescopes
  <2>5. rem[0] - rem[L] \in Int
    BY <1>1, <2>1
  <2> QED BY <2>3, <2>4, <2>5
<1>9. rem[0] = b
  BY DEF PaysInOrder
<1>10. e.accumulatedReward = d.accumulatedReward + (b - rem[L])
  BY <1>3, <1>7, <1>8, <1>9
<1> QED BY <1>3, <1>7, <1>10

(* What is right of a database is right when it is the new one. *)
LEMMA ViewInvOf ==
    ASSUME NEW f, db' = f, Runs(f), StageRight(f)', ElectionRight(f)', OfficeRight(f)'
    PROVE  ViewInv'
  BY DEF ViewInv, StageRight, ElectionRight, CandidacyRight, ActiveRight, Active, VoteRight,
         HasCandidate, HasCastVote, OfficeRight

(* The council's hook, with the payments when they fall due. *)
LEMMA CouncilHookView ==
    ASSUME ChainInv, ViewInv, CouncilHookShown
    PROVE  ViewInv'
<1> DEFINE n == now + 1
           b == BudgetAfterRefill(n)
<1>1. /\ CouncilOnInitialize /\ TryProcessBudget(n) /\ now' = n
      /\ n \in Nat /\ b \in Nat /\ now <= n /\ BudgetTypeOK
  BY DEF CouncilHookShown, CouncilOnInitialize, ChainInv, IndInv, TypeOK, ReferendumTypeOK,
         BudgetTypeOK, BudgetAfterRefill
<1>2. PICK e : e = StageEvents(db, now + 1)
  OBVIOUS
<1>3. Runs(e) /\ StageRight(e)' /\ ElectionRight(e)' /\ SameOffices(db, e)
  BY <1>1, <1>2, StageEventShown
<1>4. OfficeRight(e)
  BY <1>3 DEF ViewInv, OfficeRight, SameOffices
<1>5. SameCouncil
  BY <1>1, CouncilHookStakes DEF ChainInv
<1>6. db' = IF n = nextRewardPayments THEN RewardPayment(e, Payments(b, n), n) ELSE e
  BY <1>1, <1>2 DEF CouncilHookShown
<1> HIDE DEF n, b
<1>7. CASE n # nextRewardPayments
  <2>1. db' = e
    BY <1>6, <1>7
  <2>2. OfficeRight(e)'
    BY <1>4, <1>5 DEF OfficeRight, SameCouncil
  <2> QED BY <1>3, <2>1, <2>2, ViewInvOf
<1>8. CASE n = nextRewardPayments
  <2>1. PICK rem \in Remainders(b) : PaysInOrder(b, n, rem)
    BY <1>1, <1>8 DEF TryProcessBudget, PayElectedMemberRewards, b
  <2>2. PICK f : f = RewardPayment(e, Payments(b, n), n)
    OBVIOUS
  <2>3. /\ Runs(f) /\ SameStages(e, f) /\ SameElections(e, f)
        /\ f.electedAtBlock = e.electedAtBlock /\ f.isCouncilMember = e.isCouncilMember
        /\ \A i \in 1 .. Len(councilMembers) :
              PaidTerm(e.councilMember[councilMembers[i].membership_id],
                       f.councilMember[councilMembers[i].membership_id],
                       Owed(AfterPayment(councilMembers[i], n, rem[i - 1], rem[i]), n), n)
    BY <1>1, <1>3, <1>4, <2>1, <2>2, RewardsShown
  <2>4. OfficeRight(f)'
    <3>1. \A i \in 1 .. Len(councilMembers) :
             /\ f.councilMember[councilMembers[i].membership_id] # None
             /\ f.councilMember[councilMembers[i].membership_id].electedInCouncil
                   = f.electedAtBlock
             /\ f.councilMember[councilMembers[i].membership_id].stakingAccountId
                   = councilMembers[i].staking_account_id
             /\ f.councilMember[councilMembers[i].membership_id].stake
                   = councilMembers[i].stake
      BY <1>4, <2>3, NoneIsNoRecord DEF OfficeRight, PaidTerm
    <3> QED BY <1>4, <1>5, <2>3, <3>1 DEF OfficeRight, SameCouncil
  <2>5. StageRight(f)'
    BY <1>3, <2>3 DEF StageRight, SameStages
  <2>6. ElectionRight(f)'
    BY <1>3, <2>3 DEF ElectionRight, SameElections, CandidacyRight, ActiveRight, Active,
       VoteRight, HasCandidate, HasCastVote
  <2>7. db' = f
    BY <1>6, <1>8, <2>2
  <2> QED BY <2>3, <2>4, <2>5, <2>6, <2>7, ViewInvOf
<1> QED BY <1>7, <1>8

-----------------------------------------------------------------------------
(* The referendum's hook.                                                  *)

(* The terms of a council that takes office, with nothing paid or owed. *)
TermsStart(d) ==
    \A i \in 1 .. Len(councilMembers) :
        LET shown == d.councilMember[councilMembers[i].membership_id] IN
        /\ shown.unpaidReward = 0 /\ shown.lastPaymentBlock = now
        /\ councilMembers[i].unpaid_reward = 0 /\ councilMembers[i].last_payment_block = now

(* The election of a council, after the last payment of the old one. *)
LEMMA ElectionView ==
    ASSUME ChainInv, ViewInv, StageEnds, ConcludeReferendum, ElectNewCouncil, now' = now,
           UNCHANGED votes, NEW e, e = ElectionEvents
    PROVE  /\ Runs(e) /\ StageRight(e)' /\ ElectionRight(e)' /\ OfficeRight(e)'
           /\ TermsStart(e)'
           /\ e.accumulatedReward = db.accumulatedReward + (totalIssuance' - totalIssuance)
<1>1. /\ now \in Nat /\ budget \in Nat /\ BudgetTypeOK /\ IdlePeriodDuration \in Nat
      /\ refStage.tag = "Revealing" /\ refStage.ends_at = now /\ stage.tag = "Election"
      /\ stage' = Idle(now + IdlePeriodDuration) /\ refStage' = Inactive
      /\ announcementPeriodNr' = announcementPeriodNr /\ announcementPeriodNr \in Nat
  BY CouncilAssumption
  DEF ChainInv, IndInv, TypeOK, ReferendumTypeOK, BudgetTypeOK, StagesAgree, StageEnds,
      ConcludeReferendum, ElectNewCouncil
<1>2. Runs(db) /\ StageRight(db) /\ ElectionRight(db) /\ OfficeRight(db)
  BY DEF ViewInv
<1>3. PICK rem \in Remainders(budget) :
         /\ PaysInOrder(budget, now, rem)
         /\ totalIssuance' = totalIssuance + (budget - rem[Len(councilMembers)])
  BY DEF ElectNewCouncil, PayElectedMemberRewards
<1>4. PICK d : d = RewardPayment(db, Payments(budget, now), now)
  OBVIOUS
<1>5. /\ Runs(d) /\ SameStages(db, d) /\ SameElections(db, d)
      /\ d.accumulatedReward = db.accumulatedReward + (budget - rem[Len(councilMembers)])
  <2>1. now <= now
    BY <1>1
  <2> QED BY <1>1, <1>2, <1>3, <1>4, <2>1, RewardsShown
<1> DEFINE w(i) == Winners[i].option_id
           ids == {w(i) : i \in 1 .. CouncilSize}
<1>6. /\ Len(Winners) = CouncilSize /\ Len(councilMembers') = CouncilSize
      /\ \A i \in 1 .. CouncilSize :
            /\ w(i) \in Members /\ IsCurrentCandidate(w(i))
            /\ councilMembers'[i] = ElectedMember(w(i))
      /\ \A m \in Members : candidates'[m] = IF m \in ids THEN None ELSE candidates[m]
  <2>1. IndInv
    BY DEF ChainInv
  <2>2. \A m : m \in ids <=> \E i \in 1 .. CouncilSize : w(i) = m
    OBVIOUS
  <2> HIDE DEF ids
  <2> QED BY <2>1, <2>2, ElectionOutcome
<1>7. ElectedIds = ids
  <2>1. ElectedOptions = Winners
    BY <1>1, ElectedAll DEF ChainInv
  <2> QED BY <1>6, <2>1 DEF ElectedIds
<1>8. \A m \in Members : m \in ActiveCandidates(d) <=> Active(db, m)
  <2>1. ActiveCandidates(d) = ActiveCandidates(db)
    BY <1>5 DEF ActiveCandidates, HasCandidateInRound, HasCandidate, SameStages, SameElections
  <2> QED BY <2>1, ActiveInRound
<1>9. \A m \in ids : /\ m \in Members /\ IsCurrentCandidate(m) /\ Active(db, m)
                     /\ CandidacyRight(db, m) /\ candidates[m] # None
  <2>1. \A m \in ids : m \in Members /\ IsCurrentCandidate(m)
    BY <1>6
  <2> HIDE DEF ids
  <2> QED BY <1>1, <1>2, <2>1 DEF ElectionRight, ActiveRight, IsCurrentCandidate
<1>10. /\ HasElectionRound(d) /\ ids \subseteq ActiveCandidates(d)
       /\ now > d.stageUpdate.changedAt /\ now + IdlePeriodDuration \in Nat
  <2>1. HasElectionRound(d)
    BY <1>1, <1>2, <1>5 DEF StageRight, HasElectionRound, SameStages
  <2>2. ids \subseteq ActiveCandidates(d)
    <3> HIDE DEF ids
    <3> QED BY <1>8, <1>9
  <2>3. d.stageUpdate.changedAt \in Nat
    BY <1>5 DEF Runs, Db
  <2> QED BY <1>1, <1>2, <1>5, <2>1, <2>2, <2>3 DEF StageRight, SameStages
<1>11. e = NewCouncilElected(d, ids, now + IdlePeriodDuration, now)
  BY <1>4, <1>7 DEF ElectionEvents
<1> HIDE DEF ids
<1>12. /\ Runs(e) /\ e.castVote = d.castVote
       /\ e.electionRound = [cycleId |-> d.electionRound.cycleId, isFinished |-> TRUE]
       /\ e.stageUpdate = [stage |-> Idle(now + IdlePeriodDuration), changedAt |-> now]
       /\ e.isCouncilMember = ids /\ e.electedAtBlock = now
       /\ e.accumulatedReward = d.accumulatedReward
       /\ \A m \in ids : NewTerm(d.candidate[m], e.councilMember[m], now)
       /\ \A m \in ActiveCandidates(d) : \E status \in {"ELECTED", "FAILED"} :
             GivenStatus(d.candidate[m], e.candidate[m], status)
       /\ \A m \in Members \ ActiveCandidates(d) : e.candidate[m] = d.candidate[m]
  <2>1. PICK end \in Nat : end = now + IdlePeriodDuration
    BY <1>10
  <2>2. Runs(d) /\ HasElectionRound(d) /\ ids \subseteq ActiveCandidates(d)
        /\ now \in Nat /\ now > d.stageUpdate.changedAt
    BY <1>1, <1>5, <1>10
  <2>3. e = NewCouncilElected(d, ids, end, now)
    BY <1>11, <2>1
  <2>4. ElectedShown(d, e, ids, end, now)
    BY <2>2, <2>3, CouncilElected
  <2> QED BY <2>1, <2>4 DEF ElectedShown
<1>13. StageRight(e)'
  <2>1. e.electionRound.cycleId = announcementPeriodNr /\ e.electionRound.isFinished = TRUE
    BY <1>2, <1>5, <1>12 DEF StageRight, SameStages
  <2>2. e.stageUpdate.stage = stage' /\ e.stageUpdate.changedAt = now
    BY <1>1, <1>12
  <2>3. stage'.tag = "Idle" /\ refStage'.tag = "Inactive" /\ now <= now'
    BY <1>1 DEF Idle, Inactive
  <2> QED BY <1>1, <2>1, <2>2, <2>3 DEF StageRight
<1>14. ASSUME NEW m \in Members PROVE CandidacyRight(e, m)' /\ ActiveRight(e, m)'
  <2>0. CandidacyRight(db, m) /\ d.candidate[m] = db.candidate[m] /\ stage'.tag = "Idle"
    BY <1>1, <1>2, <1>5 DEF ElectionRight, SameElections, Idle
  <2>1. candidates'[m] # None => candidates'[m] = candidates[m]
    BY <1>6
  <2>2. CASE m \in ActiveCandidates(d)
    <3>1. PICK status \in {"ELECTED", "FAILED"} :
             GivenStatus(d.candidate[m], e.candidate[m], status)
      BY <1>12, <2>2
    <3>2. HasCandidate(e, m) /\ ~ Active(e, m)
      BY <3>1, NoneIsNoRecord DEF GivenStatus, HasCandidate, Active
    <3>3. CandidacyRight(e, m)'
      BY <2>0, <2>1, <3>1, <3>2 DEF CandidacyRight, GivenStatus, HasCandidate
    <3> QED BY <2>0, <3>2, <3>3 DEF ActiveRight, Active, HasCandidate
  <2>3. CASE m \notin ActiveCandidates(d)
    <3>1. e.candidate[m] = db.candidate[m] /\ ~ Active(db, m)
      BY <1>8, <1>12, <2>0, <2>3
    <3>2. ~ Active(e, m)
      BY <3>1 DEF Active, HasCandidate
    <3>3. CandidacyRight(e, m)'
      BY <2>0, <2>1, <3>1 DEF CandidacyRight, HasCandidate
    <3> QED BY <2>0, <3>2, <3>3 DEF ActiveRight, Active, HasCandidate
  <2> QED BY <2>2, <2>3
<1>15. ASSUME NEW a \in Accounts PROVE VoteRight(e, a)'
  BY <1>2, <1>5, <1>12 DEF ElectionRight, VoteRight, HasCastVote, SameElections
<1>16. OfficeRight(e)'
  <2>1. \A i \in 1 .. CouncilSize :
           /\ councilMembers'[i].membership_id = w(i) /\ w(i) \in ids
           /\ councilMembers'[i].staking_account_id = candidates[w(i)].staking_account_id
           /\ councilMembers'[i].stake = candidates[w(i)].stake
    BY <1>6 DEF ElectedMember, ids
  <2>2. ids = {councilMembers'[i].membership_id : i \in 1 .. Len(councilMembers')}
    <3> DEFINE S == {councilMembers'[i].membership_id : i \in 1 .. CouncilSize}
    <3>1. ids = S
      <4>1. \A x \in ids : \E i \in 1 .. CouncilSize : x = w(i)
        BY DEF ids
      <4>2. \A x \in S : x \in ids
        BY <2>1
      <4>3. \A x \in ids : x \in S
        <5> HIDE DEF w
        <5> QED BY <2>1, <4>1
      <4> QED BY <4>2, <4>3
    <3> QED BY <1>6, <3>1
  <2>3. \A m \in ids : LET shown == e.councilMember[m] IN
           /\ shown # None /\ shown.electedInCouncil = now
           /\ shown.stakingAccountId = candidates[m].staking_account_id
           /\ shown.stake = candidates[m].stake
    <3>1. \A m \in ids : e.councilMember[m] # None
      BY <1>12, NoneIsNoRecord DEF NewTerm
    <3>2. \A m \in ids : d.candidate[m] = db.candidate[m]
      BY <1>5 DEF SameElections
    <3> QED BY <1>9, <1>12, <3>1, <3>2 DEF NewTerm, CandidacyRight
  <2> HIDE DEF w
  <2>4. ASSUME NEW i \in 1 .. CouncilSize
        PROVE  LET shown == e.councilMember[councilMembers'[i].membership_id] IN
               /\ shown # None /\ shown.electedInCouncil = now
               /\ shown.stakingAccountId = councilMembers'[i].staking_account_id
               /\ shown.stake = councilMembers'[i].stake
    BY <2>1, <2>3
  <2> QED BY <1>6, <1>12, <2>2, <2>4 DEF OfficeRight
<1>17. TermsStart(e)'
  <2>1. \A i \in 1 .. CouncilSize :
           /\ councilMembers'[i].membership_id = w(i) /\ w(i) \in ids
           /\ councilMembers'[i].unpaid_reward = 0
           /\ councilMembers'[i].last_payment_block = now
    BY <1>6 DEF ElectedMember, ids
  <2>2. \A m \in ids : e.councilMember[m].unpaidReward = 0
                       /\ e.councilMember[m].lastPaymentBlock = now
    BY <1>12 DEF NewTerm
  <2> HIDE DEF w
  <2> QED BY <1>6, <2>1, <2>2 DEF TermsStart
<1>18. e.accumulatedReward = db.accumulatedReward + (totalIssuance' - totalIssuance)
  <2>1. totalIssuance \in Nat /\ budget \in Nat /\ rem[Len(councilMembers)] \in Nat
    BY <1>1, <1>3 DEF BudgetTypeOK, Remainders
  <2> QED BY <1>3, <1>5, <1>12, <2>1
<1> QED BY <1>12, <1>13, <1>14, <1>15, <1>16, <1>17, <1>18 DEF ElectionRight

(* The referendum's hook, with its four outcomes. *)
LEMMA ReferendumHookView ==
    ASSUME ChainInv, ViewInv, ReferendumHookShown
    PROVE  /\ ViewInv'
           /\ \/ ConcludeReferendum /\ ElectNewCouncil
              \/ SameOffices(db, db')
<1>1. /\ ReferendumOnInitialize /\ now' = now /\ UNCHANGED votes
      /\ now \in Nat /\ announcementPeriodNr \in Nat
      /\ RevealStageDuration \in Nat \ {0} /\ AnnouncingPeriodDuration \in Nat \ {0}
      /\ StagesAgree /\ DeadlinesAhead
  BY CouncilAssumption, ReferendumAssumption
  DEF ReferendumHookShown, ReferendumOnInitialize, ChainInv, IndInv, TypeOK, ReferendumTypeOK
<1>2. Runs(db) /\ StageRight(db) /\ ElectionRight(db) /\ OfficeRight(db)
      /\ db.stageUpdate.changedAt \in Nat
  BY DEF ViewInv, Runs, Db
<1>3. PICK e : e = db'
  OBVIOUS
<1>4. ASSUME StageEnds
      PROVE  /\ HasElectionRound(db) /\ now > db.stageUpdate.changedAt /\ stage.tag = "Election"
  BY <1>1, <1>2, <1>4 DEF StageEnds, StagesAgree, StageRight, HasElectionRound
<1>5. CASE EndVotingPeriod /\ UNCHANGED <<councilVars, councilMembers, locks, budgetVars>>
  <2>1. /\ StageEnds /\ refStage.tag = "Voting" /\ refStage'.tag = "Revealing"
        /\ refStage'.ends_at = now + RevealStageDuration
        /\ refStage'.winning_target_count = refStage.winning_target_count
        /\ UNCHANGED <<stage, candidates, announcementPeriodNr, councilMembers>>
        /\ refStage'.ends_at \in Nat /\ refStage'.ends_at > now
    BY <1>1, <1>5 DEF EndVotingPeriod, Revealing, councilVars
  <2>2. e = RevealingStageStarted(db, refStage'.ends_at)
    BY <1>3, <2>1 DEF ReferendumHookShown
  <2>3. db.referendumStage.tag = "Voting"
        /\ db.referendumStage.winning_target_count = refStage.winning_target_count
    BY <1>2, <2>1 DEF StageRight
  <2>4. /\ Runs(e) /\ SameElections(db, e) /\ SameOffices(db, e)
        /\ e.electionRound = db.electionRound /\ e.stageUpdate = db.stageUpdate
        /\ e.referendumStage.tag = "Revealing"
        /\ e.referendumStage.winning_target_count = db.referendumStage.winning_target_count
        /\ e.referendumStage.ends_at = refStage'.ends_at
    BY <1>2, <1>4, <2>1, <2>2, <2>3, RevealingStart
  <2>5. StageRight(e)'
    BY <1>1, <1>2, <2>1, <2>3, <2>4 DEF StageRight
  <2>6. ElectionRight(e)'
    BY <1>1, <2>1, <2>4, SameElectionRight
  <2>7. OfficeRight(e)'
    BY <1>2, <2>1, <2>4 DEF OfficeRight, SameOffices
  <2> QED BY <1>3, <2>4, <2>5, <2>6, <2>7, ViewInvOf
<1>6. CASE ConcludeReferendum /\ ElectNewCouncil
  <2>1. StageEnds /\ refStage.tag # "Voting" /\ stage'.tag = "Idle"
    BY <1>6 DEF ConcludeReferendum, ElectNewCouncil, Idle
  <2>2. e = ElectionEvents
    BY <1>3, <2>1 DEF ReferendumHookShown
  <2>3. Runs(e) /\ StageRight(e)' /\ ElectionRight(e)' /\ OfficeRight(e)'
    BY <1>1, <1>6, <2>1, <2>2, ElectionView
  <2> QED BY <1>3, <1>6, <2>2, <2>3, ViewInvOf
<1>7. CASE ConcludeReferendum /\ NewCouncilNotElected
  <2>1. /\ StageEnds /\ refStage.tag # "Voting" /\ refStage'.tag = "Inactive"
        /\ stage' = Announcing(0, now + AnnouncingPeriodDuration)
        /\ stage'.tag = "Announcing" /\ stage'.ends_at = now + AnnouncingPeriodDuration
        /\ stage'.ends_at \in Nat
        /\ announcementPeriodNr' = announcementPeriodNr + 1
        /\ UNCHANGED <<candidates, councilMembers>>
    BY <1>1, <1>7 DEF ConcludeReferendum, NewCouncilNotElected, StartAnnouncingPeriod,
                      Announcing, Inactive
  <2>2. e = ElectionRestarted(db, stage'.ends_at, now)
    BY <1>3, <2>1 DEF ReferendumHookShown
  <2>3. /\ Runs(e) /\ RoundStarted(db, e, stage'.ends_at, now) /\ e.castVote = db.castVote
        /\ \A m \in ActiveCandidates(db) :
              GivenStatus(db.candidate[m], e.candidate[m], "FAILED")
        /\ \A m \in Members \ ActiveCandidates(db) : e.candidate[m] = db.candidate[m]
    BY <1>1, <1>2, <1>4, <2>1, <2>2, RoundRestart
  <2>4. ElectionRight(e)'
    BY <1>1, <2>1, <2>3, ActiveInRound, NewRoundElection
  <2>5. /\ e.electionRound.cycleId = announcementPeriodNr + 1 /\ e.electionRound.isFinished = FALSE
        /\ e.stageUpdate.stage = stage' /\ e.stageUpdate.changedAt = now
    BY <1>2, <2>1, <2>3 DEF RoundStarted, StageRight
  <2>6. StageRight(e)'
    BY <1>1, <2>1, <2>5 DEF StageRight
  <2>7. OfficeRight(e)'
    BY <1>2, <2>1, <2>3 DEF OfficeRight, SameOffices, RoundStarted
  <2> QED BY <1>3, <2>3, <2>4, <2>6, <2>7, ViewInvOf DEF RoundStarted
<1>8. CASE NoReferendumProgress
  <2>1. e = db /\ UNCHANGED <<refStage, stage, candidates, announcementPeriodNr, councilMembers>>
    BY <1>3, <1>8 DEF NoReferendumProgress, ReferendumHookShown, councilVars
  <2>2. StageRight(e)'
    BY <1>1, <1>2, <2>1 DEF StageRight
  <2>3. ElectionRight(e)'
    BY <1>1, <2>1, SameElectionRight DEF SameElections
  <2>4. OfficeRight(e)'
    BY <1>2, <2>1 DEF OfficeRight
  <2> QED BY <1>2, <1>3, <2>1, <2>2, <2>3, <2>4, ViewInvOf DEF SameOffices
<1> QED BY <1>1, <1>5, <1>6, <1>7, <1>8 DEF ReferendumOnInitialize

-----------------------------------------------------------------------------
(* Extrinsics.                                                             *)

(* An extrinsic changes neither the stages, but for the number of          *)
(* candidates and the list of winners, nor the council.                    *)
SameChainStages ==
    /\ UNCHANGED <<announcementPeriodNr, councilMembers, now>>
    /\ stage'.tag = stage.tag
    /\ stage.tag \in {"Idle", "Announcing"} => stage'.ends_at = stage.ends_at
    /\ refStage'.tag = refStage.tag
    /\ refStage.tag # "Inactive" =>
          /\ refStage'.winning_target_count = refStage.winning_target_count
          /\ refStage'.ends_at = refStage.ends_at

(* Every extrinsic keeps them. *)
LEMMA ExtrinsicKeepsStages ==
    ASSUME ChainInv, ExtrinsicShown
    PROVE  SameChainStages
<1>1. /\ stage \in CouncilStages /\ now' = now
      /\ refStage \in {Inactive} \cup VotingStages \cup RevealingStages
  BY DEF ChainInv, IndInv, TypeOK, ReferendumTypeOK, ExtrinsicShown
<1>2. ASSUME UNCHANGED <<stage, refStage, announcementPeriodNr, councilMembers>>
      PROVE  SameChainStages
  BY <1>1, <1>2 DEF SameChainStages
<1>3. ASSUME NEW k, stage' = [stage EXCEPT !.candidates_count = k], stage.tag = "Announcing",
             UNCHANGED <<refStage, announcementPeriodNr, councilMembers>>
      PROVE  SameChainStages
  BY <1>1, <1>3 DEF SameChainStages, CouncilStages
<1>4. ASSUME NEW m \in Members, NEW a \in Accounts, NEW s \in CandidateStakes,
             AnnounceCandidacy(m, a, s)
      PROVE  SameChainStages
  BY <1>3, <1>4 DEF AnnounceCandidacy, CanAnnounceCandidacy, refVars
<1>5. ASSUME NEW m \in Members, WithdrawCandidacy(m) PROVE SameChainStages
  BY <1>3, <1>5 DEF WithdrawCandidacy, refVars
<1>6. ASSUME NEW a \in Voters, NEW m \in Members, RevealVote(a, m) PROVE SameChainStages
  <2>1. PICK w : refStage' = [refStage EXCEPT !.intermediate_winners = w]
    BY <1>6 DEF RevealVote, ReferendumRevealVote
  <2>2. refStage \in RevealingStages
    BY <1>1, <1>6 DEF RevealVote, ReferendumRevealVote, CanRevealVote, Inactive, VotingStages
  <2>3. /\ refStage'.tag = refStage.tag /\ refStage'.ends_at = refStage.ends_at
        /\ refStage'.winning_target_count = refStage.winning_target_count
    BY <2>1, <2>2 DEF RevealingStages
  <2> QED BY <1>1, <1>6, <2>3 DEF RevealVote, SameChainStages
<1> QED BY <1>2, <1>4, <1>5, <1>6
        DEF ExtrinsicShown, ReleaseCandidacyStake, SetCandidacyNote, Vote, ReferendumVote,
            ReleaseVoteStake, ReferendumReleaseVoteStake, refVars, councilVars

(* So only candidacies and votes have to be looked at. *)
LEMMA ExtrinsicRest ==
    ASSUME ChainInv, ViewInv, ExtrinsicShown, NEW e, db' = e, Runs(e), SameOffices(db, e),
           e.electionRound = db.electionRound, e.referendumStage = db.referendumStage,
           e.stageUpdate.changedAt = db.stageUpdate.changedAt,
           e.stageUpdate.stage.tag = db.stageUpdate.stage.tag,
           stage.tag \in {"Idle", "Announcing"} =>
               e.stageUpdate.stage.ends_at = db.stageUpdate.stage.ends_at,
           ElectionRight(e)'
    PROVE  ViewInv' /\ SameOffices(db, db')
<1>1. SameChainStages
  BY ExtrinsicKeepsStages
<1>2. StageRight(e)'
  BY <1>1 DEF ViewInv, StageRight, SameChainStages
<1>3. OfficeRight(e)'
  BY <1>1 DEF ViewInv, OfficeRight, SameOffices, SameChainStages
<1> QED BY <1>2, <1>3, ViewInvOf

(* One candidacy changes. *)
LEMMA OneCandidacy ==
    ASSUME ViewInv, SameChainStages, NEW m \in Members, NEW e, e.castVote = db.castVote,
           \A k \in Members \ {m} : e.candidate[k] = db.candidate[k],
           \A k \in Members \ {m} : candidates'[k] = candidates[k],
           UNCHANGED votes, CandidacyRight(e, m)', ActiveRight(e, m)'
    PROVE  ElectionRight(e)'
<1>1. ASSUME NEW k \in Members \ {m} PROVE CandidacyRight(e, k)' /\ ActiveRight(e, k)'
  <2>1. CandidacyRight(db, k) /\ ActiveRight(db, k) /\ e.candidate[k] = db.candidate[k]
        /\ candidates'[k] = candidates[k]
    BY DEF ViewInv, ElectionRight
  <2>2. CandidacyRight(e, k)'
    BY <2>1 DEF CandidacyRight, HasCandidate
  <2>3. ActiveRight(e, k)'
    BY <2>1 DEF ActiveRight, Active, HasCandidate, IsCurrentCandidate, SameChainStages
  <2> QED BY <2>2, <2>3
<1>2. ASSUME NEW a \in Accounts PROVE VoteRight(e, a)'
  BY DEF ViewInv, ElectionRight, VoteRight, HasCastVote
<1> QED BY <1>1, <1>2 DEF ElectionRight

(* One vote changes. *)
LEMMA OneVote ==
    ASSUME ViewInv, SameChainStages, NEW a \in Accounts, NEW e, e.candidate = db.candidate,
           UNCHANGED candidates,
           \A b \in Accounts \ {a} : e.castVote[b] = db.castVote[b],
           \A b \in Accounts \ {a} : votes'[b] = votes[b],
           VoteRight(e, a)'
    PROVE  ElectionRight(e)'
<1>1. ASSUME NEW m \in Members PROVE CandidacyRight(e, m)' /\ ActiveRight(e, m)'
  <2>1. CandidacyRight(db, m) /\ ActiveRight(db, m)
    BY DEF ViewInv, ElectionRight
  <2>2. CandidacyRight(e, m)'
    BY <2>1 DEF CandidacyRight, HasCandidate
  <2>3. ActiveRight(e, m)'
    BY <2>1 DEF ActiveRight, Active, HasCandidate, IsCurrentCandidate, SameChainStages
  <2> QED BY <2>2, <2>3
<1>2. ASSUME NEW b \in Accounts \ {a} PROVE VoteRight(e, b)'
  BY DEF ViewInv, ElectionRight, VoteRight, HasCastVote
<1> QED BY <1>1, <1>2 DEF ElectionRight

(* A candidacy is announced. *)
LEMMA AnnounceView ==
    ASSUME ChainInv, ViewInv, ExtrinsicShown, NEW m \in Members, NEW a \in Accounts,
           NEW s \in CandidateStakes, AnnounceCandidacy(m, a, s),
           db' = NewCandidate(db, m, a, s)
    PROVE  ViewInv' /\ SameOffices(db, db')
<1>1. PICK e : e = NewCandidate(db, m, a, s)
  OBVIOUS
<1>2. SameChainStages
  BY ExtrinsicKeepsStages
<1>3. /\ stage.tag = "Announcing" /\ s \in Nat /\ announcementPeriodNr \in Nat
      /\ db.stageUpdate.stage.tag = "Announcing"
      /\ db.electionRound.cycleId = announcementPeriodNr /\ HasElectionRound(db)
      /\ Runs(db) /\ candidates \in [Members -> Candidate \cup {None}]
  BY CouncilAssumption DEF AnnounceCandidacy, CanAnnounceCandidacy, ViewInv, StageRight,
     HasElectionRound, ChainInv, IndInv, TypeOK
<1>4. /\ Runs(e) /\ SameOffices(db, e) /\ e.castVote = db.castVote
      /\ e.electionRound = db.electionRound /\ e.referendumStage = db.referendumStage
      /\ e.stageUpdate.changedAt = db.stageUpdate.changedAt
      /\ e.stageUpdate.stage.tag = "Announcing"
      /\ e.stageUpdate.stage.ends_at = db.stageUpdate.stage.ends_at
      /\ e.candidate[m] = [electionRound |-> db.electionRound.cycleId, status |-> "ACTIVE",
                           stakingAccountId |-> a, stake |-> s,
                           stakeLocked |-> TRUE, votePower |-> 0]
      /\ e.candidate[m] \in ShownCandidate
      /\ \A k \in Members \ {m} : e.candidate[k] = db.candidate[k]
  BY <1>1, <1>3, CandidacyShown
<1> DEFINE rec == [staking_account_id |-> a, stake |-> s, cycle_id |-> announcementPeriodNr,
                   vote_power |-> 0, note_hash |-> None]
<1>5. candidates' = [candidates EXCEPT ![m] = rec] /\ UNCHANGED votes
  BY DEF AnnounceCandidacy, refVars
<1>6. rec \in Candidate /\ rec # None
  BY <1>3, NoneIsNoCandidate DEF Candidate
<1>7. candidates'[m] = rec /\ \A k \in Members \ {m} : candidates'[k] = candidates[k]
  <2> HIDE DEF rec
  <2> QED BY <1>3, <1>5
<1>8. HasCandidate(e, m)
  BY <1>4, NoneIsNoRecord DEF HasCandidate
<1>9. CandidacyRight(e, m)'
  BY <1>3, <1>4, <1>7, <1>8 DEF CandidacyRight, HasCandidate
<1>10. ActiveRight(e, m)'
  BY <1>2, <1>3, <1>4, <1>6, <1>7, <1>8
  DEF ActiveRight, Active, HasCandidate, IsCurrentCandidate, SameChainStages
<1>11. ElectionRight(e)'
  BY <1>2, <1>4, <1>5, <1>7, <1>9, <1>10, OneCandidacy
<1> QED BY <1>1, <1>3, <1>4, <1>11, ExtrinsicRest

(* A candidacy ends before the election: its stake is released, or it is   *)
(* withdrawn.                                                              *)
LEMMA CandidacyEndView ==
    ASSUME ChainInv, ViewInv, ExtrinsicShown, NEW m \in Members,
           \/ ReleaseCandidacyStake(m) /\ db' = CandidacyStakeRelease(db, m)
           \/ WithdrawCandidacy(m) /\ db' = CandidacyWithdraw(db, m)
    PROVE  ViewInv' /\ SameOffices(db, db')
<1>1. PICK e : e = db'
  OBVIOUS
<1>2. SameChainStages
  BY ExtrinsicKeepsStages
<1>3. /\ candidates[m] # None /\ CandidacyRight(db, m) /\ ActiveRight(db, m)
      /\ Runs(db) /\ candidates \in [Members -> Candidate \cup {None}]
  BY DEF ReleaseCandidacyStake, WithdrawCandidacy, IsCurrentCandidate, ViewInv, ElectionRight,
     ChainInv, IndInv, TypeOK
<1>4. HasCandidate(db, m)
  BY <1>3 DEF CandidacyRight
<1>5. /\ Runs(e) /\ SameStages(db, e) /\ SameOffices(db, e) /\ e.castVote = db.castVote
      /\ HasCandidate(e, m)
      /\ e = CandidacyStakeRelease(db, m) => e.candidate[m].status = db.candidate[m].status
      /\ e = CandidacyWithdraw(db, m) => e.candidate[m].status = "WITHDRAWN"
      /\ \A k \in Members \ {m} : e.candidate[k] = db.candidate[k]
  BY <1>1, <1>3, <1>4, CandidacyEndShown
<1>6. candidates' = [candidates EXCEPT ![m] = None] /\ UNCHANGED votes
  BY DEF ReleaseCandidacyStake, WithdrawCandidacy, RemoveCandidacy, refVars
<1>7. candidates'[m] = None /\ \A k \in Members \ {m} : candidates'[k] = candidates[k]
  BY <1>3, <1>6
<1>8. ~ Active(e, m)
  <2>1. CASE ReleaseCandidacyStake(m) /\ db' = CandidacyStakeRelease(db, m)
    <3>1. ~ Active(db, m)
      BY <1>3, <2>1 DEF ReleaseCandidacyStake, ActiveRight
    <3> QED BY <1>1, <1>4, <1>5, <2>1, <3>1 DEF Active
  <2>2. CASE WithdrawCandidacy(m) /\ db' = CandidacyWithdraw(db, m)
    BY <1>1, <1>5, <2>2 DEF Active
  <2> QED BY <2>1, <2>2
<1>9. CandidacyRight(e, m)' /\ ActiveRight(e, m)'
  BY <1>7, <1>8 DEF CandidacyRight, ActiveRight, Active, HasCandidate, IsCurrentCandidate
<1>10. ElectionRight(e)'
  BY <1>2, <1>5, <1>6, <1>7, <1>9, OneCandidacy
<1> QED BY <1>1, <1>5, <1>10, ExtrinsicRest DEF SameStages

(* The note of a candidacy is not shown. *)
LEMMA NoteView ==
    ASSUME ChainInv, ViewInv, ExtrinsicShown, NEW m \in Members, NEW note \in Notes,
           SetCandidacyNote(m, note), db' = CandidacyNoteSet(db, m)
    PROVE  ViewInv' /\ SameOffices(db, db')
<1>1. /\ SameCandidacies /\ UNCHANGED votes
      /\ \A k \in Members : candidates[k] # None =>
            candidates'[k].vote_power = candidates[k].vote_power
  BY NoteStep DEF ChainInv
<1>2. SameChainStages
  BY ExtrinsicKeepsStages
<1>3. Runs(db) /\ db' = db
  <2>1. /\ IsCurrentCandidate(m) /\ stage.tag # "Idle" /\ CandidacyRight(db, m)
        /\ Runs(db) /\ StageRight(db)
    BY DEF SetCandidacyNote, ViewInv, ElectionRight
  <2>2. HasElectionRound(db) /\ HasCandidateInRound(db, m)
    BY <2>1 DEF IsCurrentCandidate, CandidacyRight, StageRight, HasElectionRound,
       HasCandidateInRound
  <2> QED BY <2>1, <2>2 DEF CandidacyNoteSet, Handled, Runs
<1>4. PICK e : e = db
  OBVIOUS
<1>5. ASSUME NEW k \in Members PROVE CandidacyRight(e, k)' /\ ActiveRight(e, k)'
  <2>1. CandidacyRight(db, k) /\ ActiveRight(db, k)
    BY DEF ViewInv, ElectionRight
  <2>2. CandidacyRight(e, k)'
    BY <1>1, <1>4, <2>1 DEF CandidacyRight, HasCandidate, SameCandidacies
  <2>3. ActiveRight(e, k)'
    BY <1>1, <1>2, <1>4, <2>1 DEF ActiveRight, Active, HasCandidate, IsCurrentCandidate,
       SameChainStages, SameCandidacies
  <2> QED BY <2>2, <2>3
<1>6. ASSUME NEW b \in Accounts PROVE VoteRight(e, b)'
  BY <1>1, <1>4 DEF ViewInv, ElectionRight, VoteRight, HasCastVote
<1>7. ElectionRight(e)'
  BY <1>5, <1>6 DEF ElectionRight
<1> QED BY <1>3, <1>4, <1>7, ExtrinsicRest DEF SameOffices

(* A vote is cast. *)
LEMMA VoteView ==
    ASSUME ChainInv, ViewInv, ExtrinsicShown, NEW a \in Voters, NEW c \in Members \cup {None},
           NEW s \in VoteStakes, Vote(a, c, s), db' = VoteCast(db, a, s)
    PROVE  ViewInv' /\ SameOffices(db, db')
<1>1. PICK e : e = VoteCast(db, a, s)
  OBVIOUS
<1>2. SameChainStages
  BY ExtrinsicKeepsStages
<1>3. /\ a \in Accounts /\ s \in Nat /\ announcementPeriodNr \in Nat
      /\ stage.tag = "Election" /\ refStage.current_cycle_id = announcementPeriodNr
      /\ db.electionRound.cycleId = announcementPeriodNr /\ HasElectionRound(db)
      /\ Runs(db) /\ votes \in [Accounts -> CastVote \cup {None}]
  BY CouncilAssumption DEF Vote, ReferendumVote, CanVote, ViewInv, StageRight,
     HasElectionRound, ChainInv, IndInv, TypeOK, ReferendumTypeOK, StagesAgree
<1>4. /\ Runs(e) /\ SameStages(db, e) /\ SameOffices(db, e) /\ e.candidate = db.candidate
      /\ VoteSet(db, e, a, [electionRound |-> db.electionRound.cycleId, stake |-> s,
                            stakeLocked |-> TRUE, voteFor |-> None])
  BY <1>1, <1>3, VoteCastShown
<1> DEFINE rec == [commitment |-> c, stake |-> s, cycle_id |-> refStage.current_cycle_id,
                   vote_for |-> None]
<1>5. votes' = [votes EXCEPT ![a] = rec] /\ UNCHANGED candidates
  BY DEF Vote, ReferendumVote, councilVars
<1>6. rec \in CastVote /\ rec # None
  BY <1>3, NoneIsNoVote DEF CastVote
<1>7. votes'[a] = rec /\ \A b \in Accounts \ {a} : votes'[b] = votes[b]
  <2> HIDE DEF rec
  <2> QED BY <1>3, <1>5
<1>8. HasCastVote(e, a)
  BY <1>4, NoneIsNoRecord DEF HasCastVote, VoteSet
<1>9. VoteRight(e, a)'
  BY <1>3, <1>4, <1>6, <1>7, <1>8 DEF VoteRight, HasCastVote, VoteSet
<1>10. ElectionRight(e)'
  <2>1. \A b \in Accounts \ {a} : e.castVote[b] = db.castVote[b]
    BY <1>4 DEF VoteSet
  <2> QED BY <1>2, <1>3, <1>4, <1>5, <1>7, <1>9, <2>1, OneVote
<1> QED BY <1>1, <1>4, <1>10, ExtrinsicRest DEF SameStages

(* The stake of a vote is released. *)
LEMMA VoteReleaseView ==
    ASSUME ChainInv, ViewInv, ExtrinsicShown, NEW a \in Voters, ReleaseVoteStake(a),
           db' = StakeReleased(db, a)
    PROVE  ViewInv' /\ SameOffices(db, db')
<1>1. PICK e : e = StakeReleased(db, a)
  OBVIOUS
<1>2. SameChainStages
  BY ExtrinsicKeepsStages
<1>3. /\ a \in Accounts /\ votes[a] # None
      /\ Runs(db) /\ votes \in [Accounts -> CastVote \cup {None}]
  BY CouncilAssumption DEF ReleaseVoteStake, ViewInv, ChainInv, IndInv, TypeOK, ReferendumTypeOK
<1>4. HasCastVote(db, a)
  BY <1>3 DEF ViewInv, ElectionRight, VoteRight
<1>5. /\ Runs(e) /\ SameStages(db, e) /\ SameOffices(db, e) /\ e.candidate = db.candidate
      /\ VoteSet(db, e, a, [db.castVote[a] EXCEPT !.stakeLocked = FALSE])
      /\ e.castVote[a].stakeLocked = FALSE
  BY <1>1, <1>3, <1>4, VoteReleaseShown
<1>6. votes' = [votes EXCEPT ![a] = None] /\ UNCHANGED candidates
  BY DEF ReleaseVoteStake, ReferendumReleaseVoteStake, councilVars
<1>7. votes'[a] = None /\ \A b \in Accounts \ {a} : votes'[b] = votes[b]
  BY <1>3, <1>6
<1>8. VoteRight(e, a)'
  BY <1>5, <1>7 DEF VoteRight, HasCastVote
<1>9. ElectionRight(e)'
  <2>1. \A b \in Accounts \ {a} : e.castVote[b] = db.castVote[b]
    BY <1>5 DEF VoteSet
  <2> QED BY <1>2, <1>3, <1>5, <1>6, <1>7, <1>8, <2>1, OneVote
<1> QED BY <1>1, <1>5, <1>9, ExtrinsicRest DEF SameStages

(* A vote is revealed: the power of the candidate shown grows with the     *)
(* power of the candidate on the chain.                                    *)
LEMMA RevealView ==
    ASSUME ChainInv, ViewInv, ExtrinsicShown, NEW a \in Voters, NEW m \in Members,
           RevealVote(a, m), db' = VoteRevealed(db, a, m)
    PROVE  ViewInv' /\ SameOffices(db, db')
<1>1. PICK e : e = VoteRevealed(db, a, m)
  OBVIOUS
<1>2. SameChainStages
  BY ExtrinsicKeepsStages
<1>3. /\ SameCandidacies /\ SameVotes /\ IsCurrentCandidate(m) /\ a \in Accounts
      /\ votes[a] \in CastVote /\ votes[a].cycle_id = announcementPeriodNr
      /\ \A k \in Members : candidates[k] # None =>
            candidates'[k].vote_power =
               IF k = m THEN candidates[k].vote_power + votes[a].stake
               ELSE candidates[k].vote_power
      /\ \A b \in Accounts : b # a => votes'[b] = votes[b]
      /\ votes'[a].vote_for = m
  BY RevealStep DEF ChainInv
<1>4. /\ Runs(db) /\ db.electionRound.cycleId = announcementPeriodNr /\ votes[a] # None
      /\ CandidacyRight(db, m) /\ ActiveRight(db, m) /\ VoteRight(db, a)
  BY <1>3, NoneIsNoVote DEF ViewInv, StageRight, ElectionRight
<1>5. HasCandidateInRound(db, m) /\ HasCastVoteInRound(db, a)
  BY <1>3, <1>4 DEF HasCandidateInRound, HasCastVoteInRound, CandidacyRight, VoteRight,
     IsCurrentCandidate
<1>6. /\ Runs(e) /\ SameStages(db, e) /\ SameOffices(db, e)
      /\ VoteSet(db, e, a, [db.castVote[a] EXCEPT !.voteFor = m])
      /\ e.candidate[m] = [db.candidate[m] EXCEPT !.votePower = @ + db.castVote[a].stake]
      /\ e.candidate[m] \in ShownCandidate
      /\ \A k \in Members \ {m} : e.candidate[k] = db.candidate[k]
  BY <1>1, <1>3, <1>4, <1>5, RevealShown
<1>7. db.candidate[m] \in ShownCandidate /\ db.castVote[a] \in ShownVote
  BY <1>3, <1>4, <1>5 DEF Runs, Db, HasCandidateInRound, HasCastVoteInRound, HasCandidate,
     HasCastVote
<1>8. ASSUME NEW k \in Members PROVE CandidacyRight(e, k)' /\ ActiveRight(e, k)'
  <2>1. CASE k = m
    <3>1. /\ e.candidate[m].electionRound = db.candidate[m].electionRound
          /\ e.candidate[m].status = db.candidate[m].status
          /\ e.candidate[m].stakingAccountId = db.candidate[m].stakingAccountId
          /\ e.candidate[m].stake = db.candidate[m].stake
          /\ e.candidate[m].stakeLocked = db.candidate[m].stakeLocked
          /\ e.candidate[m].votePower = db.candidate[m].votePower + db.castVote[a].stake
      BY <1>6, <1>7 DEF ShownCandidate
    <3>2. HasCandidate(e, m) /\ HasCandidate(db, m)
      BY <1>5, <1>6, NoneIsNoRecord DEF HasCandidate, HasCandidateInRound
    <3>3. db.castVote[a].stake = votes[a].stake
      BY <1>4 DEF VoteRight
    <3>4. candidates[m] # None /\ candidates'[m].vote_power = candidates[m].vote_power + votes[a].stake
      BY <1>3 DEF IsCurrentCandidate
    <3>5. CandidacyRight(e, m)'
      BY <1>3, <1>4, <3>1, <3>2, <3>3, <3>4 DEF CandidacyRight, HasCandidate, SameCandidacies
    <3>6. ActiveRight(e, m)'
      BY <1>2, <1>3, <1>4, <3>1, <3>2 DEF ActiveRight, Active, HasCandidate,
         IsCurrentCandidate, SameChainStages, SameCandidacies
    <3> QED BY <2>1, <3>5, <3>6
  <2>2. CASE k # m
    <3>1. CandidacyRight(db, k) /\ ActiveRight(db, k) /\ e.candidate[k] = db.candidate[k]
      BY <1>6, <2>2 DEF ViewInv, ElectionRight
    <3>2. CandidacyRight(e, k)'
      BY <1>3, <2>2, <3>1 DEF CandidacyRight, HasCandidate, SameCandidacies
    <3>3. ActiveRight(e, k)'
      BY <1>2, <1>3, <3>1 DEF ActiveRight, Active, HasCandidate,
         IsCurrentCandidate, SameChainStages, SameCandidacies
    <3> QED BY <3>2, <3>3
  <2> QED BY <2>1, <2>2
<1>9. ASSUME NEW b \in Accounts PROVE VoteRight(e, b)'
  <2>1. CASE b = a
    <3>1. /\ e.castVote[a].electionRound = db.castVote[a].electionRound
          /\ e.castVote[a].stake = db.castVote[a].stake
          /\ e.castVote[a].stakeLocked = db.castVote[a].stakeLocked
          /\ e.castVote[a].voteFor = m
      BY <1>6, <1>7 DEF VoteSet, ShownVote
    <3>2. HasCastVote(e, a) /\ HasCastVote(db, a)
      BY <1>5, <1>6, NoneIsNoRecord DEF HasCastVote, HasCastVoteInRound, VoteSet
    <3> QED BY <1>3, <1>4, <2>1, <3>1, <3>2 DEF VoteRight, HasCastVote, SameVotes
  <2>2. CASE b # a
    <3>1. VoteRight(db, b) /\ e.castVote[b] = db.castVote[b]
      BY <1>6, <2>2 DEF ViewInv, ElectionRight, VoteSet
    <3> QED BY <1>3, <2>2, <3>1 DEF VoteRight, HasCastVote
  <2> QED BY <2>1, <2>2
<1>10. ElectionRight(e)'
  BY <1>8, <1>9 DEF ElectionRight
<1> QED BY <1>1, <1>6, <1>10, ExtrinsicRest DEF SameStages

(* The extrinsics of the budget show nothing of what is modelled. *)
LEMMA BudgetView ==
    ASSUME ChainInv, ViewInv, ExtrinsicShown,
           UNCHANGED <<refVars, locks, councilMembers, councilVars, db>>
    PROVE  ViewInv' /\ SameOffices(db, db')
<1>1. PICK e : e = db
  OBVIOUS
<1>2. ElectionRight(e)'
  BY <1>1, SameElectionRight DEF SameElections, refVars, councilVars
<1> QED BY <1>1, <1>2, ExtrinsicRest DEF SameOffices, ViewInv

(* Every extrinsic is shown. *)
LEMMA ExtrinsicView ==
    ASSUME ChainInv, ViewInv, ExtrinsicShown
    PROVE  ViewInv' /\ SameOffices(db, db')
<1>1. ASSUME NEW m \in Members, NEW a \in Accounts, NEW s \in CandidateStakes,
             AnnounceCandidacy(m, a, s), db' = NewCandidate(db, m, a, s)
      PROVE  ViewInv' /\ SameOffices(db, db')
  BY <1>1, AnnounceView
<1>2. ASSUME NEW m \in Members, ReleaseCandidacyStake(m), db' = CandidacyStakeRelease(db, m)
      PROVE  ViewInv' /\ SameOffices(db, db')
  BY <1>2, CandidacyEndView
<1>3. ASSUME NEW m \in Members, WithdrawCandidacy(m), db' = CandidacyWithdraw(db, m)
      PROVE  ViewInv' /\ SameOffices(db, db')
  BY <1>3, CandidacyEndView
<1>4. ASSUME NEW m \in Members, NEW note \in Notes, SetCandidacyNote(m, note),
             db' = CandidacyNoteSet(db, m)
      PROVE  ViewInv' /\ SameOffices(db, db')
  BY <1>4, NoteView
<1>5. ASSUME NEW a \in Voters, NEW c \in Members \cup {None}, NEW s \in VoteStakes,
             Vote(a, c, s), db' = VoteCast(db, a, s)
      PROVE  ViewInv' /\ SameOffices(db, db')
  BY <1>5, VoteView
<1>6. ASSUME NEW a \in Voters, NEW m \in Members, RevealVote(a, m),
             db' = VoteRevealed(db, a, m)
      PROVE  ViewInv' /\ SameOffices(db, db')
  BY <1>6, RevealView
<1>7. ASSUME NEW a \in Voters, ReleaseVoteStake(a), db' = StakeReleased(db, a)
      PROVE  ViewInv' /\ SameOffices(db, db')
  BY <1>7, VoteReleaseView
<1>8. ASSUME UNCHANGED <<refVars, locks, councilMembers, councilVars, db>> PROVE ViewInv' /\ SameOffices(db, db')
  BY <1>8, BudgetView
<1> QED BY <1>1, <1>2, <1>3, <1>4, <1>5, <1>6, <1>7, <1>8 DEF ExtrinsicShown

-----------------------------------------------------------------------------
(* The theorems.                                                           *)

(* Every step is shown. *)
LEMMA NextViewInv ==
    ChainInv /\ ViewInv /\ [ViewNext]_viewVars => ChainInv' /\ ViewInv'
<1> SUFFICES ASSUME ChainInv, ViewInv, [ViewNext]_viewVars PROVE ChainInv' /\ ViewInv'
  OBVIOUS
<1>1. ChainInv'
  BY NextChainInv
<1>2. ASSUME UNCHANGED <<vars, db>> PROVE ViewInv'
  BY <1>2 DEF vars, ViewInv, Runs, StageRight, ElectionRight, CandidacyRight, ActiveRight,
     Active, VoteRight, HasCandidate, HasCastVote, IsCurrentCandidate, OfficeRight
<1>3. ViewInv'
  BY <1>2, CouncilHookView, ReferendumHookView, ExtrinsicView DEF ViewNext, Horizon, viewVars
<1> QED BY <1>1, <1>3

(* The chain's invariants and the agreement of the database with the chain *)
(* hold together: a handler finds its record because the chain's guards    *)
(* and the records shown agree.                                            *)
THEOREM ViewCorrect == ViewSpec => [](ChainInv /\ ViewInv)
<1>1. ViewInit => ChainInv /\ ViewInv
  BY InitViewInv
<1>2. ChainInv /\ ViewInv /\ [ViewNext]_viewVars => (ChainInv /\ ViewInv)'
  BY NextViewInv
<1> QED BY <1>1, <1>2, PTL DEF ViewSpec

(* No handler ever misses a record and stops the processor, for any number *)
(* of members, votes, rounds and withdrawals.                              *)
THEOREM ProcessorNeverHalts == ViewSpec => []ProcessorRuns
<1>1. ViewInv => ProcessorRuns
  BY DEF ViewInv, Runs, ProcessorRuns
<1> QED BY <1>1, ViewCorrect, PTL

(* The round and the stages shown are the ones the chain is in, although   *)
(* the handlers count the rounds themselves and pick the last update by    *)
(* its block.                                                              *)
THEOREM StagesShownRight == ViewSpec => []StageShown
<1>1. ViewInv => StageShown
  BY DEF ViewInv, StageRight, StageShown
<1> QED BY <1>1, ViewCorrect, PTL

(* The candidacies and votes shown are those of the chain, with their      *)
(* stakes, powers and locks.                                               *)
THEOREM ElectionsShownRight == ViewSpec => []ElectionShown
<1>1. ViewInv => ElectionShown
  <2> SUFFICES ASSUME ViewInv PROVE ElectionShown
    OBVIOUS
  <2>1. \A m \in Members : CandidacyRight(db, m) /\ ActiveRight(db, m)
    BY DEF ViewInv, ElectionRight
  <2>2. \A a \in Accounts : VoteRight(db, a)
    BY DEF ViewInv, ElectionRight
  <2> QED BY <2>1, <2>2 DEF ElectionShown, CandidacyRight, ActiveRight, Active, VoteRight
<1> QED BY <1>1, ViewCorrect, PTL

-----------------------------------------------------------------------------
(* What the councilors are owed.  A handler learns of a payment from its   *)
(* event, which the chain emits even where it leaves the councilor's       *)
(* record as it was (AfterPayment): the two then count from different      *)
(* blocks, and agree as long as the reward of a block is the same in both. *)

(* What is owed in block n, with u unpaid in block k. *)
Debt(u, k, n) == u + (n - k) * councilorReward

ShownDebt(shown, n) == Debt(shown.unpaidReward, shown.lastPaymentBlock, n)

(* One more block is one more reward. *)
LEMMA OneMoreBlock ==
    ASSUME NEW u \in Int, NEW n \in Int, NEW k \in Int, councilorReward \in Nat
    PROVE  Debt(u, k, n + 1) = Debt(u, k, n) + councilorReward
<1>0. PICK r \in Int : r = councilorReward
  OBVIOUS
<1>1. PICK t \in Int : t = n - k
  OBVIOUS
<1>2. (t + 1) * r = t * r + r /\ t * r \in Int
  OBVIOUS
<1>3. (n + 1) - k = t + 1
  BY <1>1
<1>4. Debt(u, k, n) = u + t * r
  BY <1>0, <1>1 DEF Debt
<1>5. Debt(u, k, n + 1) = u + (t + 1) * r
  BY <1>0, <1>3 DEF Debt
<1> QED BY <1>0, <1>2, <1>4, <1>5

(* The debts are right when the terms shown and the councilors' records    *)
(* come to the same.                                                       *)
LEMMA DebtIsOwed ==
    ASSUME ChainInv', NEW e, NEW n, n = now', councilorReward' = councilorReward,
           NEW council, council = councilMembers',
           \A i \in 1 .. Len(council) :
               ShownDebt(e.councilMember[council[i].membership_id], n) = Owed(council[i], n),
           e.accumulatedReward = totalIssuance' - InitialIssuance
    PROVE  DebtRight(e)'
<1>1. /\ n \in Nat /\ \A i \in 1 .. Len(council) :
            council[i] \in CouncilMember /\ council[i].last_payment_block <= n
  BY DEF ChainInv, IndInv, TypeOK, ReferendumTypeOK, BudgetTypeOK, PaymentsPast
<1>2. \A i \in 1 .. Len(council) : CurrentReward(council[i], n) = Owed(council[i], n)
  BY <1>1, RewardIsOwed
<1>3. \A i \in 1 .. Len(council) : CurrentReward(council[i], n)' = CurrentReward(council[i], n)
  BY DEF CurrentReward
<1>4. \A i \in 1 .. Len(council) :
         ShownDebt(e.councilMember[council[i].membership_id], n) = CurrentReward(council[i], n)'
  BY <1>2, <1>3
<1> QED BY <1>4 DEF DebtRight, ShownDebt, Debt, CurrentReward

(* The council's hook adds a block, and pays when payments are due. *)
LEMMA CouncilHookDebt ==
    ASSUME ChainInv, ChainInv', ViewInv, DebtRight(db), CouncilHookShown,
           NEW e, e = db'
    PROVE  DebtRight(e)'
<1> DEFINE n == now + 1
           b == BudgetAfterRefill(n)
           L == Len(councilMembers)
<1>1. /\ CouncilOnInitialize /\ TryProcessBudget(n) /\ now' = n /\ now \in Nat
      /\ n \in Nat /\ b \in Nat /\ now <= n /\ BudgetTypeOK /\ L \in Nat
      /\ councilorReward \in Nat /\ councilorReward' = councilorReward
      /\ totalIssuance \in Nat /\ InitialIssuance \in Nat
  BY BudgetAssumption DEF CouncilHookShown, CouncilOnInitialize, TryProcessBudget, ChainInv,
     IndInv, TypeOK, ReferendumTypeOK, BudgetTypeOK, BudgetAfterRefill
<1>2. /\ \A i \in 1 .. L : ShownDebt(db.councilMember[councilMembers[i].membership_id], now)
                              = Owed(councilMembers[i], now)
      /\ db.accumulatedReward = totalIssuance - InitialIssuance
  <2>1. \A i \in 1 .. L : councilMembers[i] \in CouncilMember
                          /\ councilMembers[i].last_payment_block <= now
    BY <1>1 DEF ChainInv, BudgetTypeOK, PaymentsPast
  <2>2. \A i \in 1 .. L : CurrentReward(councilMembers[i], now) = Owed(councilMembers[i], now)
    BY <1>1, <2>1, RewardIsOwed
  <2> QED BY <2>2 DEF DebtRight, ShownDebt, Debt
<1>3. PICK f : f = StageEvents(db, now + 1)
  OBVIOUS
<1>4. Runs(f) /\ SameOffices(db, f)
  BY <1>1, <1>3, StageEventShown
<1>5. e = IF n = nextRewardPayments THEN RewardPayment(f, Payments(b, n), n) ELSE f
  BY <1>1, <1>3 DEF CouncilHookShown
<1>6. OfficeRight(f) /\ OfficeRight(db)
  BY <1>4 DEF ViewInv, OfficeRight, SameOffices
<1> HIDE DEF n, b
<1>7. CASE n # nextRewardPayments
  <2>1. e = f /\ councilMembers' = councilMembers /\ totalIssuance' = totalIssuance
    BY <1>1, <1>5, <1>7 DEF TryProcessBudget
  <2>2. e.councilMember = db.councilMember /\ e.accumulatedReward = db.accumulatedReward
    BY <1>4, <2>1 DEF SameOffices
  <2>3. ASSUME NEW i \in 1 .. L
        PROVE  ShownDebt(e.councilMember[councilMembers[i].membership_id], n)
                  = Owed(councilMembers[i], n)
    <3> DEFINE s == e.councilMember[councilMembers[i].membership_id]
               cm == councilMembers[i]
    <3>1. cm \in CouncilMember
      BY <1>1 DEF BudgetTypeOK
    <3>2. cm.unpaid_reward \in Int /\ cm.last_payment_block \in Int
          /\ cm.membership_id \in Members
      BY <3>1 DEF CouncilMember
    <3>3. s \in ShownCouncilMember
      BY <1>4, <1>6, <2>1, <3>2 DEF OfficeRight, Runs, Db
    <3>4. s.unpaidReward \in Int /\ s.lastPaymentBlock \in Int
      BY <3>3 DEF ShownCouncilMember
    <3>5. ShownDebt(s, now) = Owed(cm, now)
      BY <1>2, <2>2
    <3> HIDE DEF s, cm
    <3>6. /\ ShownDebt(s, n) = ShownDebt(s, now) + councilorReward
          /\ Owed(cm, n) = Owed(cm, now) + councilorReward
      <4>0. now \in Int /\ councilorReward \in Int /\ n = now + 1
        BY <1>1 DEF n
      <4>1. Debt(s.unpaidReward, s.lastPaymentBlock, now + 1)
               = Debt(s.unpaidReward, s.lastPaymentBlock, now) + councilorReward
        BY <1>1, <3>4, <4>0, OneMoreBlock
      <4>2. Debt(cm.unpaid_reward, cm.last_payment_block, now + 1)
               = Debt(cm.unpaid_reward, cm.last_payment_block, now) + councilorReward
        BY <1>1, <3>2, <4>0, OneMoreBlock
      <4>3. \A k : Owed(cm, k) = Debt(cm.unpaid_reward, cm.last_payment_block, k)
        BY DEF Owed, Debt
      <4> QED BY <4>0, <4>1, <4>2, <4>3 DEF ShownDebt
    <3>7. ShownDebt(s, n) = Owed(cm, n)
      BY <3>5, <3>6
    <3> QED BY <3>7 DEF s, cm
  <2>4. PICK council : council = councilMembers'
    OBVIOUS
  <2>5. /\ e.accumulatedReward = totalIssuance' - InitialIssuance
        /\ \A i \in 1 .. Len(council) :
              ShownDebt(e.councilMember[council[i].membership_id], n) = Owed(council[i], n)
    BY <1>2, <2>1, <2>2, <2>3, <2>4
  <2> QED BY <1>1, <2>4, <2>5, DebtIsOwed
<1>8. CASE n = nextRewardPayments
  <2>1. PICK rem \in Remainders(b) :
           /\ PaysInOrder(b, n, rem) /\ councilMembers' = PaidCouncil(n, rem)
           /\ totalIssuance' = totalIssuance + (b - rem[L])
    BY <1>1, <1>8 DEF TryProcessBudget, PayElectedMemberRewards, b
  <2>2. e = RewardPayment(f, Payments(b, n), n)
    BY <1>5, <1>8
  <2>3. /\ e.accumulatedReward = f.accumulatedReward + (b - rem[L])
        /\ \A i \in 1 .. L :
              PaidTerm(f.councilMember[councilMembers[i].membership_id],
                       e.councilMember[councilMembers[i].membership_id],
                       Owed(AfterPayment(councilMembers[i], n, rem[i - 1], rem[i]), n), n)
    BY <1>1, <1>4, <1>6, <2>1, <2>2, RewardsShown
  <2>4. e.accumulatedReward = totalIssuance' - InitialIssuance
    <3>1. rem[L] \in Nat /\ f.accumulatedReward = db.accumulatedReward
      BY <1>1, <1>4, <2>1 DEF Remainders, SameOffices
    <3> QED BY <1>1, <1>2, <2>1, <2>3, <3>1
  <2>5. SameCouncil
    BY <1>1, CouncilHookStakes DEF ChainInv
  <2>6. ASSUME NEW i \in 1 .. L
        PROVE  ShownDebt(e.councilMember[councilMembers[i].membership_id], n)
                  = Owed(councilMembers'[i], n)
    <3> DEFINE s == e.councilMember[councilMembers[i].membership_id]
    <3>1. councilMembers'[i] = AfterPayment(councilMembers[i], n, rem[i - 1], rem[i])
      BY <2>1 DEF PaidCouncil
    <3>2. s.unpaidReward = Owed(councilMembers'[i], n) /\ s.lastPaymentBlock = n
          /\ s \in ShownCouncilMember
      BY <2>3, <3>1 DEF PaidTerm
    <3>3. s.unpaidReward \in Int
      BY <3>2 DEF ShownCouncilMember
    <3> HIDE DEF s
    <3>4. (n - s.lastPaymentBlock) * councilorReward = 0
      BY <1>1, <3>2
    <3>5. ShownDebt(s, n) = Owed(councilMembers'[i], n)
      BY <3>2, <3>3, <3>4 DEF ShownDebt, Debt
    <3> QED BY <3>5 DEF s
  <2>7. PICK council : council = councilMembers'
    OBVIOUS
  <2>8. \A i \in 1 .. Len(council) :
           ShownDebt(e.councilMember[council[i].membership_id], n) = Owed(council[i], n)
    BY <2>5, <2>6, <2>7 DEF SameCouncil
  <2> QED BY <1>1, <2>4, <2>7, <2>8, DebtIsOwed
<1> QED BY <1>7, <1>8

(* The referendum's hook leaves the debts alone, or pays the old council   *)
(* and starts the terms of the new one.                                    *)
LEMMA ReferendumHookDebt ==
    ASSUME ChainInv, ChainInv', ViewInv, DebtRight(db), ReferendumHookShown,
           NEW e, e = db'
    PROVE  DebtRight(e)'
<1>1. /\ ReferendumOnInitialize /\ now' = now /\ UNCHANGED votes /\ now \in Nat
      /\ councilorReward \in Nat /\ totalIssuance \in Nat /\ totalIssuance' \in Nat
      /\ InitialIssuance \in Nat
  BY BudgetAssumption DEF ReferendumHookShown, ReferendumOnInitialize, ChainInv, IndInv, TypeOK,
     ReferendumTypeOK, BudgetTypeOK
<1>2. CASE ConcludeReferendum /\ ElectNewCouncil
  <2>1. /\ StageEnds /\ refStage.tag # "Voting" /\ stage'.tag = "Idle"
        /\ councilorReward' = councilorReward
    BY <1>2 DEF ConcludeReferendum, ElectNewCouncil, Idle
  <2>2. e = ElectionEvents
    BY <2>1 DEF ReferendumHookShown
  <2>3. /\ TermsStart(e)'
        /\ e.accumulatedReward = db.accumulatedReward + (totalIssuance' - totalIssuance)
    BY <1>1, <1>2, <2>1, <2>2, ElectionView
  <2>4. e.accumulatedReward = totalIssuance' - InitialIssuance
    BY <1>1, <2>3 DEF DebtRight
  <2>5. now - now = 0 /\ 0 * councilorReward = 0 /\ ~ (now > now) /\ 0 + 0 = 0
    BY <1>1
  <2>6. ASSUME NEW i \in 1 .. Len(councilMembers')
        PROVE  LET shown == e.councilMember[councilMembers'[i].membership_id] IN
               shown.unpaidReward + (now - shown.lastPaymentBlock) * councilorReward
                  = CurrentReward(councilMembers[i], now)'
    <3>1. /\ e.councilMember[councilMembers'[i].membership_id].unpaidReward = 0
          /\ e.councilMember[councilMembers'[i].membership_id].lastPaymentBlock = now
          /\ councilMembers'[i].unpaid_reward = 0
          /\ councilMembers'[i].last_payment_block = now
      BY <1>1, <2>3 DEF TermsStart
    <3>2. CurrentReward(councilMembers[i], now)' = 0
      BY <1>1, <2>1, <2>5, <3>1 DEF CurrentReward
    <3> QED BY <2>5, <3>1, <3>2
  <2> QED BY <1>1, <2>1, <2>4, <2>6 DEF DebtRight
<1>3. CASE ~ (ConcludeReferendum /\ ElectNewCouncil)
  <2>1. UNCHANGED <<councilMembers, councilorReward, totalIssuance>>
    BY <1>1, <1>3 DEF ReferendumOnInitialize, NewCouncilNotElected, NoReferendumProgress,
       budgetVars
  <2>2. SameOffices(db, e)
    BY <1>3, ReferendumHookView
  <2> QED BY <1>1, <2>1, <2>2 DEF DebtRight, CurrentReward, SameOffices
<1> QED BY <1>2, <1>3

(* Behaviours in which no call changes the reward of a block or moves      *)
(* tokens between the budget and the accounts: what is shown as paid is    *)
(* then all that has been minted.                                          *)
SteadyRewards ==
    [][ExtrinsicShown => UNCHANGED <<councilorReward, totalIssuance>>]_viewVars

(* A step of such a behaviour keeps the debts right. *)
LEMMA NextDebtRight ==
    ASSUME ChainInv, ViewInv, DebtRight(db), [ViewNext]_viewVars,
           [ExtrinsicShown => UNCHANGED <<councilorReward, totalIssuance>>]_viewVars
    PROVE  DebtRight(db)'
<1>1. PICK e : e = db'
  OBVIOUS
<1>2. ChainInv'
  BY NextChainInv
<1>3. ASSUME SameOffices(db, e),
             UNCHANGED <<councilMembers, now, councilorReward, totalIssuance>>
      PROVE  DebtRight(e)'
  BY <1>3 DEF DebtRight, CurrentReward, SameOffices
<1>4. ASSUME UNCHANGED <<vars, db>> PROVE DebtRight(e)'
  BY <1>1, <1>3, <1>4 DEF vars, budgetVars, SameOffices
<1>5. ASSUME ExtrinsicShown /\ ~ UNCHANGED <<vars, db>> PROVE DebtRight(e)'
  <2>1. UNCHANGED <<councilorReward, totalIssuance>>
    BY <1>5 DEF viewVars
  <2>2. UNCHANGED <<councilMembers, now>>
    BY <1>5, ExtrinsicKeepsStages DEF SameChainStages
  <2>3. SameOffices(db, e)
    BY <1>1, <1>5, ExtrinsicView
  <2> QED BY <1>3, <2>1, <2>2, <2>3
<1>6. ASSUME CouncilHookShown PROVE DebtRight(e)'
  BY <1>1, <1>2, <1>6, CouncilHookDebt
<1>7. ASSUME ReferendumHookShown PROVE DebtRight(e)'
  BY <1>1, <1>2, <1>7, ReferendumHookDebt
<1>8. DebtRight(e)'
  BY <1>4, <1>5, <1>6, <1>7 DEF ViewNext, Horizon, viewVars
<1> QED BY <1>1, <1>8 DEF DebtRight

(* The members marked as councilors are the council, with their stakes and *)
(* in their current term of office, whatever root does to the budget.      *)
THEOREM CouncilorsShownRight == ViewSpec => []OfficeRight(db)
<1>1. ViewInv => OfficeRight(db)
  BY DEF ViewInv
<1> QED BY <1>1, ViewCorrect, PTL

(* Each councilor is moreover shown to be owed what the chain owes them,   *)
(* and the payments shown add up, as long as the reward of a block is not  *)
(* changed: payments the chain has put off included.                       *)
THEOREM CouncilShownRight == ViewSpec /\ SteadyRewards => []CouncilShown
<1>1. ViewInit => DebtRight(db)
  BY BudgetAssumption DEF ViewInit, Init, BudgetInit, InitialDb, DebtRight
<1>2. /\ ChainInv /\ ViewInv /\ DebtRight(db) /\ [ViewNext]_viewVars
      /\ [ExtrinsicShown => UNCHANGED <<councilorReward, totalIssuance>>]_viewVars
      => DebtRight(db)'
  BY NextDebtRight
<1>3. ViewInv /\ DebtRight(db) => CouncilShown
  BY DEF ViewInv, OfficeRight, DebtRight, CouncilShown
<1> QED BY <1>1, <1>2, <1>3, ViewCorrect, PTL DEF ViewSpec, SteadyRewards
=============================================================================
