----------------------- MODULE CouncilElection_proofs -----------------------
(***************************************************************************)
(* Theorems about the stakes and the outcome of council elections: what is *)
(* locked is what a record justifies, the candidates are counted, the      *)
(* winners are the top of the ranking, the council is complete.  They rest *)
(* on the invariant of the stage machine proved in Council_proofs.         *)
(***************************************************************************)
EXTENDS Council_proofs

-----------------------------------------------------------------------------
(* What the steps do to the records that carry a stake.                    *)

(* The same councilors, but for what they are owed. *)
SameCouncil ==
    /\ Len(councilMembers') = Len(councilMembers)
    /\ \A i \in 1 .. Len(councilMembers) :
          /\ councilMembers'[i].staking_account_id = councilMembers[i].staking_account_id
          /\ councilMembers'[i].membership_id = councilMembers[i].membership_id
          /\ councilMembers'[i].stake = councilMembers[i].stake

(* The same candidacies, but for their note and power. *)
SameCandidacies ==
    \A m \in Members :
        /\ candidates'[m] = None <=> candidates[m] = None
        /\ candidates[m] # None =>
              /\ candidates'[m].staking_account_id = candidates[m].staking_account_id
              /\ candidates'[m].stake = candidates[m].stake
              /\ candidates'[m].cycle_id = candidates[m].cycle_id

(* The same votes, but for what they reveal. *)
SameVotes ==
    \A a \in Accounts :
        /\ votes'[a] = None <=> votes[a] = None
        /\ votes[a] # None =>
              /\ votes'[a].stake = votes[a].stake
              /\ votes'[a].cycle_id = votes[a].cycle_id

(* A payment changes only what a councilor is owed. *)
LEMMA PaymentsKeepCouncil ==
    ASSUME BudgetTypeOK, NEW n, NEW rem, councilMembers' = PaidCouncil(n, rem)
    PROVE  SameCouncil
<1>1. councilMembers \in [1 .. Len(councilMembers) -> CouncilMember]
  BY DEF BudgetTypeOK
<1>2. /\ Len(councilMembers') = Len(councilMembers)
      /\ \A i \in 1 .. Len(councilMembers) :
            councilMembers'[i] = AfterPayment(councilMembers[i], n, rem[i - 1], rem[i])
  BY <1>1 DEF PaidCouncil, BudgetTypeOK
<1>3. ASSUME NEW cm \in CouncilMember, NEW x, NEW y, NEW new, new = AfterPayment(cm, n, x, y)
      PROVE  /\ new.staking_account_id = cm.staking_account_id
             /\ new.membership_id = cm.membership_id
             /\ new.stake = cm.stake
  BY <1>3 DEF AfterPayment, CouncilMember
<1> QED BY <1>1, <1>2, <1>3 DEF SameCouncil

(* The council's hook touches no stake. *)
LEMMA CouncilHookStakes ==
    ASSUME IndInv, CouncilOnInitialize
    PROVE  SameCouncil /\ UNCHANGED <<votes, locks, candidates>>
<1>1. UNCHANGED <<votes, locks, candidates>> /\ TryProcessBudget(now + 1)
  BY DEF CouncilOnInitialize
<1>2. BudgetTypeOK
  BY DEF IndInv, TypeOK
<1>3. CASE councilMembers' = councilMembers
  BY <1>1, <1>3 DEF SameCouncil
<1>4. CASE \E rem : councilMembers' = PaidCouncil(now + 1, rem)
  BY <1>1, <1>2, <1>4, PaymentsKeepCouncil
<1> QED BY <1>1, <1>3, <1>4 DEF TryProcessBudget

(* A note changes nothing else of a candidacy. *)
LEMMA NoteStep ==
    ASSUME IndInv, NEW m \in Members, NEW note \in Notes, SetCandidacyNote(m, note)
    PROVE  /\ SameCandidacies
           /\ \A k \in Members : candidates[k] # None =>
                 candidates'[k].vote_power = candidates[k].vote_power
           /\ UNCHANGED <<councilMembers, votes, locks, refStage, stage,
                          announcementPeriodNr>>
<1>1. candidates \in [Members -> Candidate \cup {None}] /\ candidates[m] \in Candidate
  BY DEF SetCandidacyNote, IsCurrentCandidate, IndInv, TypeOK
<1> DEFINE upd == [candidates[m] EXCEPT !.note_hash = note]
<1>2. candidates' = [candidates EXCEPT ![m] = upd]
  BY <1>1 DEF SetCandidacyNote
<1>3. /\ upd \in Candidate
      /\ upd.staking_account_id = candidates[m].staking_account_id
      /\ upd.stake = candidates[m].stake /\ upd.cycle_id = candidates[m].cycle_id
      /\ upd.vote_power = candidates[m].vote_power
  BY <1>1 DEF Candidate
<1> HIDE DEF upd
<1>4. \A k \in Members : candidates'[k] = IF k = m THEN upd ELSE candidates[k]
  BY <1>1, <1>2
<1>5. SameCandidacies
  BY <1>1, <1>3, <1>4, NoneIsNoCandidate DEF SameCandidacies
<1> QED BY <1>3, <1>4, <1>5 DEF SetCandidacyNote, refVars

(* A revealed vote moves its stake into the power of one candidacy. *)
LEMMA RevealStep ==
    ASSUME IndInv, NEW a \in Voters, NEW m \in Members, RevealVote(a, m)
    PROVE  /\ SameCandidacies /\ SameVotes
           /\ refStage.tag = "Revealing" /\ IsCurrentCandidate(m)
           /\ a \in Accounts /\ votes[a] \in CastVote
           /\ votes[a].cycle_id = announcementPeriodNr
           /\ votes[a].vote_for = None /\ votes[a].commitment = m
           /\ \A k \in Members : candidates[k] # None =>
                 candidates'[k].vote_power =
                    IF k = m THEN candidates[k].vote_power + votes[a].stake
                    ELSE candidates[k].vote_power
           /\ \A b \in Accounts : b # a => votes'[b] = votes[b]
           /\ votes'[a].vote_for = m
           /\ UNCHANGED <<councilMembers, locks, stage, announcementPeriodNr>>
<1>1. /\ candidates \in [Members -> Candidate \cup {None}] /\ candidates[m] \in Candidate
      /\ votes \in [Accounts -> CastVote \cup {None}] /\ votes[a] \in CastVote
      /\ a \in Accounts /\ refStage.tag = "Revealing" /\ IsCurrentCandidate(m)
      /\ refStage.current_cycle_id = announcementPeriodNr
  BY CouncilAssumption
  DEF RevealVote, ReferendumRevealVote, CanRevealVote, IsCurrentCandidate, IndInv,
      TypeOK, ReferendumTypeOK, StagesAgree
<1> DEFINE upd == [candidates[m] EXCEPT !.vote_power = @ + votes[a].stake]
           vote == [votes[a] EXCEPT !.vote_for = m]
<1>2. /\ candidates' = [candidates EXCEPT ![m] = upd]
      /\ votes' = [votes EXCEPT ![a] = vote]
      /\ UNCHANGED <<councilMembers, locks, stage, announcementPeriodNr>>
      /\ votes[a].cycle_id = announcementPeriodNr
      /\ votes[a].vote_for = None /\ votes[a].commitment = m
  BY <1>1 DEF RevealVote, ReferendumRevealVote, CanRevealVote
<1>3. /\ upd \in Candidate
      /\ upd.staking_account_id = candidates[m].staking_account_id
      /\ upd.stake = candidates[m].stake /\ upd.cycle_id = candidates[m].cycle_id
      /\ upd.vote_power = candidates[m].vote_power + votes[a].stake
  BY <1>1 DEF Candidate, CastVote
<1>4. /\ vote \in CastVote /\ vote.stake = votes[a].stake
      /\ vote.cycle_id = votes[a].cycle_id /\ vote.vote_for = m
  BY <1>1 DEF CastVote
<1> HIDE DEF upd, vote
<1>5. /\ \A k \in Members : candidates'[k] = IF k = m THEN upd ELSE candidates[k]
      /\ \A b \in Accounts : votes'[b] = IF b = a THEN vote ELSE votes[b]
  BY <1>1, <1>2
<1>6. SameCandidacies
  BY <1>1, <1>3, <1>5, NoneIsNoCandidate DEF SameCandidacies
<1>7. SameVotes
  BY <1>1, <1>4, <1>5, NoneIsNoVote DEF SameVotes
<1> QED BY <1>1, <1>2, <1>3, <1>4, <1>5, <1>6, <1>7

(* The six ways a step can treat the stakes.                               *)
StakesUntouched ==
    SameCouncil /\ SameCandidacies /\ SameVotes /\ UNCHANGED locks

CandidacyRemoved(m) ==
    /\ candidates[m] # None
    /\ RemoveCandidacy(m)
    /\ UNCHANGED <<votes, councilMembers>>

(* Every step of the chain is one of them. *)
LEMMA StakeSteps ==
    ASSUME IndInv, [Next]_vars
    PROVE  \/ StakesUntouched
           \/ \E m \in Members, a \in Accounts, s \in CandidateStakes :
                 AnnounceCandidacy(m, a, s)
           \/ \E m \in Members : CandidacyRemoved(m)
           \/ \E a \in Voters, c \in Members \cup {None}, s \in VoteStakes : Vote(a, c, s)
           \/ \E a \in Voters : ReleaseVoteStake(a)
           \/ ConcludeReferendum /\ ElectNewCouncil /\ UNCHANGED votes
<1> USE DEF StakesUntouched
<1>1. ASSUME UNCHANGED <<councilMembers, candidates, votes, locks>> PROVE StakesUntouched
  BY <1>1 DEF SameCouncil, SameCandidacies, SameVotes
<1>2. CASE UNCHANGED vars \/ Horizon
  BY <1>1, <1>2 DEF vars, Horizon
<1>3. CASE CouncilOnInitialize
  BY <1>3, CouncilHookStakes DEF SameCandidacies, SameVotes
<1>4. CASE ReferendumOnInitialize
  <2>1. votes' = votes
    BY <1>4 DEF ReferendumOnInitialize
  <2>2. CASE ConcludeReferendum /\ ElectNewCouncil
    BY <2>1, <2>2
  <2>3. CASE ~ (ConcludeReferendum /\ ElectNewCouncil)
    BY <1>1, <1>4, <2>1, <2>3
    DEF ReferendumOnInitialize, NewCouncilNotElected, NoReferendumProgress, councilVars
  <2> QED BY <2>2, <2>3
<1>5. CASE Extrinsic
  <2>1. ASSUME NEW m \in Members, ReleaseCandidacyStake(m) \/ WithdrawCandidacy(m)
        PROVE  CandidacyRemoved(m)
    BY <2>1 DEF ReleaseCandidacyStake, WithdrawCandidacy, IsCurrentCandidate,
                CandidacyRemoved, refVars
  <2>2. ASSUME NEW m \in Members, NEW note \in Notes, SetCandidacyNote(m, note)
        PROVE  StakesUntouched
    BY <2>2, NoteStep DEF SameCouncil, SameVotes
  <2>3. ASSUME NEW a \in Voters, NEW m \in Members, RevealVote(a, m)
        PROVE  StakesUntouched
    BY <2>3, RevealStep DEF SameCouncil, SameVotes
  <2>4. ASSUME UNCHANGED <<refVars, locks, councilMembers, councilVars>>
        PROVE  StakesUntouched
    BY <1>1, <2>4 DEF refVars, councilVars
  <2> QED BY <1>5, <2>1, <2>2, <2>3, <2>4 DEF Extrinsic
<1> QED BY <1>2, <1>3, <1>4, <1>5 DEF Next

-----------------------------------------------------------------------------
(* The election.                                                           *)

(* A concluded referendum turns each winner's candidacy into a seat, and   *)
(* leaves the other candidacies alone.                                     *)
LEMMA ElectionOutcome ==
    ASSUME IndInv, ConcludeReferendum, ElectNewCouncil
    PROVE  /\ Len(Winners) = CouncilSize /\ Len(councilMembers') = CouncilSize
           /\ \A i, j \in 1 .. CouncilSize :
                 Winners[i].option_id = Winners[j].option_id => i = j
           /\ \A i \in 1 .. CouncilSize :
                 /\ Winners[i].option_id \in Members
                 /\ candidates[Winners[i].option_id] \in Candidate
                 /\ IsCurrentCandidate(Winners[i].option_id)
                 /\ councilMembers'[i] = ElectedMember(Winners[i].option_id)
           /\ \A m \in Members :
                 candidates'[m] = IF \E i \in 1 .. CouncilSize : Winners[i].option_id = m
                                  THEN None ELSE candidates[m]
<1>1. refStage.tag = "Revealing" /\ Len(Winners) = CouncilSize
  BY DEF ConcludeReferendum, ElectNewCouncil
<1>2. /\ Winners \in Seq(OptionResult) /\ ElectedOptions = Winners
      /\ \A i \in 1 .. Len(Winners) :
            /\ Winners[i].option_id \in Members
            /\ candidates[Winners[i].option_id] \in Candidate
      /\ Len(ElectedMembers) = Len(Winners)
  BY <1>1, ElectedAll
<1>3. /\ Distinct(Winners)
      /\ \A i \in 1 .. Len(Winners) : IsCurrentCandidate(Winners[i].option_id)
  BY <1>1 DEF IndInv, WinnersCurrent
<1>4. councilMembers' = [i \in 1 .. CouncilSize |-> ElectedMember(Winners[i].option_id)]
  BY <1>1, <1>2 DEF ElectNewCouncil, ElectedMembers
<1>5. Len(councilMembers') = CouncilSize
  BY <1>4, CouncilAssumption
<1>6. ElectedIds = {Winners[i].option_id : i \in 1 .. CouncilSize}
  BY <1>1, <1>2 DEF ElectedIds
<1>7. \A m \in Members :
         candidates'[m] = IF \E i \in 1 .. CouncilSize : Winners[i].option_id = m
                          THEN None ELSE candidates[m]
  BY <1>6 DEF ElectNewCouncil
<1> QED BY <1>1, <1>2, <1>3, <1>4, <1>5, <1>7 DEF Distinct

(* The invariant of the stakes. *)
StakeInv == StakesMatchRecords /\ StakesExclusive

(* The locks after an election: the winners' candidacy locks have become   *)
(* councilor locks, and the old council's are gone.                        *)
LEMMA ElectionLocks ==
    ASSUME IndInv, StakeInv, ConcludeReferendum, ElectNewCouncil
    PROVE  /\ locks' \in LockTables
           /\ \A i \in 1 .. CouncilSize :
                 LET c == candidates[Winners[i].option_id] IN
                 /\ locks'["councilor"][c.staking_account_id] = c.stake
                 /\ locks'["candidacy"][c.staking_account_id] = 0
           /\ \A a \in Accounts :
                 (\A i \in 1 .. CouncilSize :
                     candidates[Winners[i].option_id].staking_account_id # a) =>
                 /\ locks'["councilor"][a] = 0
                 /\ locks'["candidacy"][a] = locks["candidacy"][a]
           /\ \A j \in LockIds \ {"candidacy", "councilor"} : \A a \in Accounts :
                 locks'[j][a] = locks[j][a]
<1> DEFINE winnersStake == {candidates[m].staking_account_id : m \in ElectedIds}
           oldCouncil == {councilMembers[i].staking_account_id :
                             i \in 1 .. Len(councilMembers)}
           first == RemoveLocks(locks, "candidacy", winnersStake)
           freed == RemoveLocks(first, "councilor", oldCouncil)
           staked(a) == CHOOSE m \in ElectedIds : candidates[m].staking_account_id = a
           value(a) == IF a \in winnersStake /\ candidates[staked(a)].stake # 0
                       THEN candidates[staked(a)].stake ELSE freed["councilor"][a]
<1>1. /\ Len(Winners) = CouncilSize
      /\ \A i \in 1 .. CouncilSize :
            /\ Winners[i].option_id \in Members
            /\ candidates[Winners[i].option_id] \in Candidate
            /\ IsCurrentCandidate(Winners[i].option_id)
  BY ElectionOutcome
<1>2. ElectedIds = {Winners[i].option_id : i \in 1 .. CouncilSize}
  <2>1. ElectedOptions = Winners
    BY ElectedAll DEF ConcludeReferendum
  <2> QED BY <1>1, <2>1 DEF ElectedIds
<1>3. \A m \in ElectedIds :
         /\ m \in Members /\ candidates[m] \in Candidate
         /\ Owner[candidates[m].staking_account_id] = m
         /\ candidates[m].stake # 0
  BY <1>1, <1>2, CouncilAssumption
  DEF IsCurrentCandidate, StakeInv, StakesMatchRecords, CandidacyStakesLocked, Candidate
<1>4. \A m \in ElectedIds : staked(candidates[m].staking_account_id) = m
  BY <1>3
<1>5. locks \in LockTables /\ first \in LockTables /\ freed \in LockTables
  <2>1. locks \in LockTables
    BY DEF IndInv, TypeOK, ReferendumTypeOK
  <2> HIDE DEF winnersStake, oldCouncil
  <2>2. first \in LockTables
    BY <2>1, RemoveLocksType, CouncilAssumption
  <2> HIDE DEF first
  <2> QED BY <2>1, <2>2, RemoveLocksType, CouncilAssumption
<1>6. locks' = [freed EXCEPT !["councilor"] = [a \in Accounts |-> value(a)]]
  BY <1>5, CouncilAssumption DEF ElectNewCouncil, LocksAfterElection, LockTables
<1>7. \A j \in LockIds, a \in Accounts :
         freed[j][a] = IF \/ j = "candidacy" /\ a \in winnersStake
                          \/ j = "councilor" /\ a \in oldCouncil
                       THEN 0 ELSE locks[j][a]
  <2> HIDE DEF winnersStake, oldCouncil
  <2> TAKE j \in LockIds, a \in Accounts
  <2>1. first[j][a] = IF j = "candidacy" /\ a \in winnersStake THEN 0 ELSE locks[j][a]
    BY <1>5, LockTableValue, CouncilAssumption
  <2> HIDE DEF first
  <2>2. freed[j][a] = IF j = "councilor" /\ a \in oldCouncil THEN 0 ELSE first[j][a]
    BY <1>5, LockTableValue, CouncilAssumption
  <2> QED BY <2>1, <2>2
<1>8. \A a \in Accounts : freed["councilor"][a] = 0
  <2> SUFFICES ASSUME NEW a \in Accounts, a \notin oldCouncil
               PROVE  locks["councilor"][a] = 0
    BY <1>7, CouncilAssumption
  <2> QED BY DEF StakeInv, StakesMatchRecords, CouncilorStakesLocked
<1> HIDE DEF freed, staked
<1>9. \A m \in ElectedIds : value(candidates[m].staking_account_id) = candidates[m].stake
  BY <1>3, <1>4
<1>10. \A a \in Accounts : a \notin winnersStake => value(a) = 0
  BY <1>8
<1> HIDE DEF value
<1>11. \A a \in Accounts : locks'["councilor"][a] = value(a)
  BY <1>5, <1>6, CouncilAssumption DEF LockTables
<1>12. \A j \in LockIds : j # "councilor" => locks'[j] = freed[j]
  BY <1>5, <1>6 DEF LockTables
<1>13. \A m \in ElectedIds :
          /\ locks'["councilor"][candidates[m].staking_account_id] = candidates[m].stake
          /\ locks'["candidacy"][candidates[m].staking_account_id] = 0
  <2> TAKE m \in ElectedIds
  <2>1. candidates[m].staking_account_id \in Accounts
    BY <1>3 DEF Candidate
  <2>2. candidates[m].staking_account_id \in winnersStake
    OBVIOUS
  <2> HIDE DEF winnersStake
  <2> QED BY <1>7, <1>9, <1>11, <1>12, <2>1, <2>2, CouncilAssumption
<1>14. \A a \in Accounts : a \notin winnersStake =>
          /\ locks'["councilor"][a] = 0
          /\ locks'["candidacy"][a] = locks["candidacy"][a]
  <2> HIDE DEF winnersStake
  <2> QED BY <1>7, <1>10, <1>11, <1>12, CouncilAssumption
<1>15. \A j \in LockIds \ {"candidacy", "councilor"} : \A a \in Accounts :
          locks'[j][a] = locks[j][a]
  BY <1>7, <1>12
<1>16. locks' \in LockTables
  BY ElectionLocksType DEF ConcludeReferendum, ElectNewCouncil
<1> QED BY <1>2, <1>13, <1>14, <1>15, <1>16

-----------------------------------------------------------------------------
(* Stakes and records.                                                     *)

(* What the conflict check grants: an account that may take a stake which  *)
(* is not meant to be shared carries no other such stake.                  *)
LEMMA FreeOfRivals ==
    ASSUME NEW lk, NEW id, id \notin NonRivalrousLocks, NEW a,
           IsAccountFreeOfConflictingStakes(lk, id, a)
    PROVE  \A j \in LockIds \ NonRivalrousLocks : lk[j][a] = 0
  BY DEF IsAccountFreeOfConflictingStakes, AreLocksConflicting, LocksOf

(* No account carries two unshared stakes, cell by cell of the table. *)
LEMMA ExclusiveCells ==
    ASSUME NEW lk
    PROVE  RivalrousLocksExclusive(lk) <=>
              \A a \in Accounts : \A i, j \in LockIds \ NonRivalrousLocks :
                  lk[i][a] # 0 /\ lk[j][a] # 0 => i = j
  BY DEF RivalrousLocksExclusive, LocksOf

(* Every seat of the council has a complete record. *)
LEMMA CouncilorRecords ==
    ASSUME IndInv
    PROVE  \A i \in 1 .. Len(councilMembers) : councilMembers[i] \in CouncilMember
<1>1. councilMembers \in Seq(CouncilMember)
  BY DEF IndInv, TypeOK, BudgetTypeOK
<1> QED BY <1>1

(* Genesis: nothing is locked and nobody holds a stake. *)
LEMMA InitStakeInv == Init => StakeInv
<1> SUFFICES ASSUME Init PROVE StakeInv
  OBVIOUS
<1>1. \A j \in LockIds, a \in Accounts : locks[j][a] = 0
  BY DEF Init, ReferendumInit, NoLocks
<1>2. StakesExclusive
  BY <1>1, ExclusiveCells DEF StakesExclusive
<1> QED BY <1>1, <1>2, CouncilAssumption, ReferendumAssumption
        DEF Init, ReferendumInit, BudgetInit, StakeInv, StakesMatchRecords,
            CandidacyStakesLocked, CouncilorStakesLocked, VoteStakesLocked

(* A candidacy takes over the member's stake: the old one is released, the *)
(* new account carried no unshared stake.                                  *)
LEMMA AnnounceStakes ==
    ASSUME IndInv, StakeInv, NEW m \in Members, NEW a \in Accounts, NEW s \in CandidateStakes,
           AnnounceCandidacy(m, a, s)
    PROVE  StakeInv'
<1> DEFINE rec == [staking_account_id |-> a, stake |-> s,
                   cycle_id |-> announcementPeriodNr,
                   vote_power |-> 0, note_hash |-> None]
           released == IF candidates[m] = None THEN locks
                       ELSE RemoveLock(locks, "candidacy",
                                       candidates[m].staking_account_id)
<1>1. /\ Owner[a] = m /\ s >= MinCandidateStake
      /\ \A j \in LockIds \ NonRivalrousLocks : locks[j][a] = 0
  BY FreeOfRivals, CouncilAssumption DEF AnnounceCandidacy, CanAnnounceCandidacy
<1>2. /\ locks' = SetLock(released, "candidacy", a, s)
      /\ candidates' = [candidates EXCEPT ![m] = rec]
      /\ votes' = votes /\ councilMembers' = councilMembers
  BY DEF AnnounceCandidacy, refVars
<1>3. /\ locks \in LockTables /\ candidates \in [Members -> Candidate \cup {None}]
      /\ candidates[m] # None => candidates[m].staking_account_id \in Accounts
  BY DEF IndInv, TypeOK, ReferendumTypeOK, Candidate
<1>4. s \in Nat \ {0}
  BY <1>1, CouncilAssumption
<1>5. released \in LockTables
  BY <1>3, <1>4, LockTableType, CouncilAssumption
<1>6. \A j \in LockIds, b \in Accounts :
         released[j][b] = IF /\ j = "candidacy" /\ candidates[m] # None
                             /\ b = candidates[m].staking_account_id
                          THEN 0 ELSE locks[j][b]
  BY <1>3, CouncilAssumption DEF RemoveLock, LockTables
<1> HIDE DEF released
<1>7. \A j \in LockIds, b \in Accounts :
         locks'[j][b] = IF j = "candidacy" /\ b = a THEN s ELSE released[j][b]
  BY <1>2, <1>4, <1>5, CouncilAssumption DEF SetLock, LockTables
<1>8. \A k \in Members : candidates'[k] = IF k = m THEN rec ELSE candidates[k]
  BY <1>2, <1>3
<1>9. rec.staking_account_id = a /\ rec.stake = s /\ rec # None
  <2>1. rec \in Candidate
    BY <1>4 DEF Candidate, IndInv, TypeOK
  <2> QED BY <2>1, NoneIsNoCandidate
<1> HIDE DEF rec
<1>10. CandidacyStakesLocked
  BY DEF StakeInv, StakesMatchRecords
<1>11. \A k \in Members : candidates[k] # None => candidates[k].staking_account_id \in Accounts
  BY <1>3 DEF Candidate
<1>12. \A k \in Members : candidates'[k] # None =>
          /\ Owner[candidates'[k].staking_account_id] = k
          /\ candidates'[k].stake >= MinCandidateStake
          /\ locks'["candidacy"][candidates'[k].staking_account_id] = candidates'[k].stake
  <2> SUFFICES ASSUME NEW k \in Members, candidates'[k] # None
               PROVE  /\ Owner[candidates'[k].staking_account_id] = k
                      /\ candidates'[k].stake >= MinCandidateStake
                      /\ locks'["candidacy"][candidates'[k].staking_account_id]
                            = candidates'[k].stake
    OBVIOUS
  <2>1. CASE k = m
    BY <1>1, <1>7, <1>8, <1>9, <2>1, CouncilAssumption
  <2>2. CASE k # m
    <3>1. candidates'[k] = candidates[k] /\ candidates[k] # None
      BY <1>8, <2>2
    <3>2. /\ Owner[candidates[k].staking_account_id] = k
          /\ candidates[k].stake >= MinCandidateStake
          /\ locks["candidacy"][candidates[k].staking_account_id] = candidates[k].stake
          /\ candidates[k].staking_account_id \in Accounts
          /\ candidates[m] # None => Owner[candidates[m].staking_account_id] = m
      BY <1>10, <1>11, <3>1 DEF CandidacyStakesLocked
    <3> QED BY <1>1, <1>6, <1>7, <2>2, <3>1, <3>2, CouncilAssumption
  <2> QED BY <2>1, <2>2
<1>13. \A b \in Accounts : locks'["candidacy"][b] # 0 =>
          \E k \in Members : candidates'[k] # None /\ candidates'[k].staking_account_id = b
  <2> SUFFICES ASSUME NEW b \in Accounts, locks'["candidacy"][b] # 0
               PROVE  \E k \in Members : candidates'[k] # None
                                         /\ candidates'[k].staking_account_id = b
    OBVIOUS
  <2>1. CASE b = a
    BY <1>8, <1>9, <2>1
  <2>2. CASE b # a
    <3>1. /\ locks["candidacy"][b] # 0
          /\ candidates[m] # None => b # candidates[m].staking_account_id
      BY <1>6, <1>7, <2>2, CouncilAssumption
    <3>2. PICK k \in Members : candidates[k] # None /\ candidates[k].staking_account_id = b
      BY <1>10, <3>1 DEF CandidacyStakesLocked
    <3> QED BY <1>8, <3>1, <3>2
  <2> QED BY <2>1, <2>2
<1>14. CandidacyStakesLocked'
  BY <1>12, <1>13 DEF CandidacyStakesLocked
<1>15. \A j \in LockIds : j # "candidacy" => \A b \in Accounts : locks'[j][b] = locks[j][b]
  BY <1>6, <1>7
<1>16. CouncilorStakesLocked'
  <2>1. \A i \in 1 .. Len(councilMembers) : councilMembers[i].staking_account_id \in Accounts
    BY CouncilorRecords DEF CouncilMember
  <2> QED BY <1>2, <1>15, <2>1, CouncilAssumption
          DEF StakeInv, StakesMatchRecords, CouncilorStakesLocked
<1>17. VoteStakesLocked'
  BY <1>2, <1>15, ReferendumAssumption DEF StakeInv, StakesMatchRecords, VoteStakesLocked
<1>18. StakesExclusive'
  <2>1. \A b \in Accounts : \A i, j \in LockIds \ NonRivalrousLocks :
           locks[i][b] # 0 /\ locks[j][b] # 0 => i = j
    BY ExclusiveCells DEF StakeInv, StakesExclusive
  <2>2. \A b \in Accounts : \A i, j \in LockIds \ NonRivalrousLocks :
           locks'[i][b] # 0 /\ locks'[j][b] # 0 => i = j
    BY <1>1, <1>6, <1>7, <2>1
  <2> QED BY <2>2, ExclusiveCells DEF StakesExclusive
<1> QED BY <1>14, <1>16, <1>17, <1>18 DEF StakeInv, StakesMatchRecords

(* A candidacy that ends gives its stake back, and no other. *)
LEMMA RemovalStakes ==
    ASSUME IndInv, StakeInv, NEW m \in Members, CandidacyRemoved(m)
    PROVE  StakeInv'
<1> DEFINE acct == candidates[m].staking_account_id
<1>1. /\ locks \in LockTables /\ candidates \in [Members -> Candidate \cup {None}]
      /\ \A k \in Members : candidates[k] # None =>
            candidates[k].staking_account_id \in Accounts
      /\ acct \in Accounts
  BY DEF IndInv, TypeOK, ReferendumTypeOK, Candidate, CandidacyRemoved
<1>2. /\ locks' = RemoveLock(locks, "candidacy", acct)
      /\ candidates' = [candidates EXCEPT ![m] = None]
      /\ votes' = votes /\ councilMembers' = councilMembers
  BY DEF CandidacyRemoved, RemoveCandidacy
<1> HIDE DEF acct
<1>3. \A j \in LockIds, b \in Accounts :
         locks'[j][b] = IF j = "candidacy" /\ b = acct THEN 0 ELSE locks[j][b]
  BY <1>1, <1>2, CouncilAssumption DEF RemoveLock, LockTables
<1>4. \A k \in Members : candidates'[k] = IF k = m THEN None ELSE candidates[k]
  BY <1>1, <1>2
<1>5. CandidacyStakesLocked /\ candidates[m] # None
  BY DEF StakeInv, StakesMatchRecords, CandidacyRemoved
<1>6. CandidacyStakesLocked'
  <2>1. \A k \in Members : candidates'[k] # None =>
           /\ candidates'[k] = candidates[k] /\ candidates[k].staking_account_id # acct
    BY <1>4, <1>5 DEF CandidacyStakesLocked, acct
  <2>2. \A k \in Members : candidates'[k] # None =>
           /\ Owner[candidates'[k].staking_account_id] = k
           /\ candidates'[k].stake >= MinCandidateStake
           /\ locks'["candidacy"][candidates'[k].staking_account_id] = candidates'[k].stake
    BY <1>1, <1>3, <1>5, <2>1, CouncilAssumption DEF CandidacyStakesLocked
  <2>3. \A b \in Accounts : locks'["candidacy"][b] # 0 =>
           \E k \in Members : candidates'[k] # None /\ candidates'[k].staking_account_id = b
    <3> SUFFICES ASSUME NEW b \in Accounts, locks'["candidacy"][b] # 0
                 PROVE  \E k \in Members : candidates'[k] # None
                                           /\ candidates'[k].staking_account_id = b
      OBVIOUS
    <3>1. b # acct /\ locks["candidacy"][b] # 0
      BY <1>3, CouncilAssumption
    <3>2. PICK k \in Members : candidates[k] # None /\ candidates[k].staking_account_id = b
      BY <1>5, <3>1 DEF CandidacyStakesLocked
    <3> QED BY <1>4, <3>1, <3>2 DEF acct
  <2> QED BY <2>2, <2>3 DEF CandidacyStakesLocked
<1>7. CouncilorStakesLocked'
  <2>1. \A i \in 1 .. Len(councilMembers) : councilMembers[i].staking_account_id \in Accounts
    BY CouncilorRecords DEF CouncilMember
  <2> QED BY <1>2, <1>3, <2>1, CouncilAssumption
          DEF StakeInv, StakesMatchRecords, CouncilorStakesLocked
<1>8. VoteStakesLocked'
  BY <1>2, <1>3, ReferendumAssumption DEF StakeInv, StakesMatchRecords, VoteStakesLocked
<1>9. StakesExclusive'
  <2>1. \A b \in Accounts : \A i, j \in LockIds \ NonRivalrousLocks :
           locks[i][b] # 0 /\ locks[j][b] # 0 => i = j
    BY ExclusiveCells DEF StakeInv, StakesExclusive
  <2>2. \A b \in Accounts : \A i, j \in LockIds \ NonRivalrousLocks :
           locks'[i][b] # 0 /\ locks'[j][b] # 0 => i = j
    BY <1>3, <2>1
  <2> QED BY <2>2, ExclusiveCells DEF StakesExclusive
<1> QED BY <1>6, <1>7, <1>8, <1>9 DEF StakeInv, StakesMatchRecords

(* A vote locks its stake in place of the one it replaces, a released vote *)
(* none; the other stakes stay.                                            *)
LEMMA VotingStakes ==
    ASSUME IndInv, StakeInv, NEW a \in Accounts, NEW amount \in Nat,
           \A b \in Accounts : b # a => votes'[b] = votes[b],
           amount = IF votes'[a] = None THEN 0 ELSE votes'[a].stake,
           \A j \in LockIds, b \in Accounts :
               locks'[j][b] = IF j = "voting" /\ b = a THEN amount ELSE locks[j][b],
           \/ amount = 0
           \/ IsAccountFreeOfConflictingStakes(locks, "voting", a),
           UNCHANGED <<candidates, councilMembers>>
    PROVE  StakeInv'
<1>1. \A j \in LockIds : j # "voting" => \A b \in Accounts : locks'[j][b] = locks[j][b]
  OBVIOUS
<1>2. VoteStakesLocked'
  BY ReferendumAssumption DEF StakeInv, StakesMatchRecords, VoteStakesLocked
<1>3. CandidacyStakesLocked'
  <2>1. \A m \in Members : candidates[m] # None =>
           candidates[m].staking_account_id \in Accounts
    BY DEF IndInv, TypeOK, Candidate
  <2> QED BY <1>1, <2>1, CouncilAssumption
          DEF StakeInv, StakesMatchRecords, CandidacyStakesLocked
<1>4. CouncilorStakesLocked'
  <2>1. \A i \in 1 .. Len(councilMembers) : councilMembers[i].staking_account_id \in Accounts
    BY CouncilorRecords DEF CouncilMember
  <2> QED BY <1>1, <2>1, CouncilAssumption
          DEF StakeInv, StakesMatchRecords, CouncilorStakesLocked
<1>5. StakesExclusive'
  <2>1. \A b \in Accounts : \A i, j \in LockIds \ NonRivalrousLocks :
           locks[i][b] # 0 /\ locks[j][b] # 0 => i = j
    BY ExclusiveCells DEF StakeInv, StakesExclusive
  <2>2. \/ amount = 0 \/ "voting" \in NonRivalrousLocks
        \/ \A j \in LockIds \ NonRivalrousLocks : locks[j][a] = 0
    BY FreeOfRivals
  <2>3. \A b \in Accounts : \A i, j \in LockIds \ NonRivalrousLocks :
           locks'[i][b] # 0 /\ locks'[j][b] # 0 => i = j
    BY <2>1, <2>2
  <2> QED BY <2>3, ExclusiveCells DEF StakesExclusive
<1> QED BY <1>2, <1>3, <1>4, <1>5 DEF StakeInv, StakesMatchRecords

(* The election turns the winners' stakes into councilors' stakes. *)
LEMMA ElectionStakes ==
    ASSUME IndInv, StakeInv, ConcludeReferendum, ElectNewCouncil, UNCHANGED votes
    PROVE  StakeInv'
<1> DEFINE w(i) == Winners[i].option_id
           acct(i) == candidates[w(i)].staking_account_id
<1>1. /\ Len(councilMembers') = CouncilSize
      /\ \A i \in 1 .. CouncilSize :
            /\ w(i) \in Members /\ candidates[w(i)] \in Candidate /\ candidates[w(i)] # None
            /\ councilMembers'[i] = ElectedMember(w(i))
      /\ \A m \in Members :
            candidates'[m] = IF \E i \in 1 .. CouncilSize : w(i) = m
                             THEN None ELSE candidates[m]
  BY ElectionOutcome DEF IsCurrentCandidate
<1>2. /\ \A i \in 1 .. CouncilSize :
            /\ locks'["councilor"][acct(i)] = candidates[w(i)].stake
            /\ locks'["candidacy"][acct(i)] = 0
      /\ \A a \in Accounts : (\A i \in 1 .. CouncilSize : acct(i) # a) =>
            /\ locks'["councilor"][a] = 0
            /\ locks'["candidacy"][a] = locks["candidacy"][a]
      /\ \A j \in LockIds \ {"candidacy", "councilor"} : \A a \in Accounts :
            locks'[j][a] = locks[j][a]
  BY ElectionLocks
<1>3. \A m \in Members : candidates[m] # None =>
         /\ Owner[candidates[m].staking_account_id] = m
         /\ candidates[m].stake >= MinCandidateStake
         /\ candidates[m].stake \in Nat
         /\ locks["candidacy"][candidates[m].staking_account_id] = candidates[m].stake
         /\ candidates[m].staking_account_id \in Accounts
  BY DEF StakeInv, StakesMatchRecords, CandidacyStakesLocked, IndInv, TypeOK, Candidate
<1> HIDE DEF w
<1>4. CandidacyStakesLocked'
  <2>1. \A m \in Members : candidates'[m] # None =>
           /\ candidates'[m] = candidates[m]
           /\ \A i \in 1 .. CouncilSize : acct(i) # candidates[m].staking_account_id
    <3> SUFFICES ASSUME NEW m \in Members, candidates'[m] # None
                 PROVE  /\ candidates'[m] = candidates[m]
                        /\ \A i \in 1 .. CouncilSize :
                              acct(i) # candidates[m].staking_account_id
      OBVIOUS
    <3>1. candidates'[m] = candidates[m] /\ \A i \in 1 .. CouncilSize : w(i) # m
      BY <1>1
    <3> QED BY <1>1, <1>3, <3>1
  <2>2. \A m \in Members : candidates'[m] # None =>
           /\ Owner[candidates'[m].staking_account_id] = m
           /\ candidates'[m].stake >= MinCandidateStake
           /\ locks'["candidacy"][candidates'[m].staking_account_id] = candidates'[m].stake
    BY <1>2, <1>3, <2>1
  <2>3. \A a \in Accounts : locks'["candidacy"][a] # 0 =>
           \E m \in Members : candidates'[m] # None /\ candidates'[m].staking_account_id = a
    <3> SUFFICES ASSUME NEW a \in Accounts, locks'["candidacy"][a] # 0
                 PROVE  \E m \in Members : candidates'[m] # None
                                           /\ candidates'[m].staking_account_id = a
      OBVIOUS
    <3>1. \A i \in 1 .. CouncilSize : acct(i) # a
      BY <1>2
    <3>2. locks["candidacy"][a] # 0
      BY <1>2, <3>1
    <3>3. PICK m \in Members : candidates[m] # None /\ candidates[m].staking_account_id = a
      BY <3>2 DEF StakeInv, StakesMatchRecords, CandidacyStakesLocked
    <3> QED BY <1>1, <3>1, <3>3
  <2> QED BY <2>2, <2>3 DEF CandidacyStakesLocked
<1>5. CouncilorStakesLocked'
  <2>1. \A i \in 1 .. CouncilSize :
           /\ councilMembers'[i].staking_account_id = acct(i)
           /\ councilMembers'[i].stake = candidates[w(i)].stake
    BY <1>1 DEF ElectedMember
  <2> QED BY <1>1, <1>2, <1>3, <2>1 DEF CouncilorStakesLocked
<1>6. VoteStakesLocked'
  BY <1>2, ReferendumAssumption DEF StakeInv, StakesMatchRecords, VoteStakesLocked
<1>7. StakesExclusive'
  <2>1. \A a \in Accounts : \A i, j \in LockIds \ NonRivalrousLocks :
           locks[i][a] # 0 /\ locks[j][a] # 0 => i = j
    BY ExclusiveCells DEF StakeInv, StakesExclusive
  <2>2. \A a \in Accounts : \A i, j \in LockIds \ NonRivalrousLocks :
           locks'[i][a] # 0 /\ locks'[j][a] # 0 => i = j
    <3> SUFFICES ASSUME NEW a \in Accounts, NEW i \in LockIds \ NonRivalrousLocks,
                        NEW j \in LockIds \ NonRivalrousLocks,
                        locks'[i][a] # 0, locks'[j][a] # 0
                 PROVE  i = j
      OBVIOUS
    <3>1. CASE \E k \in 1 .. CouncilSize : acct(k) = a
      <4>1. locks["candidacy"][a] # 0 /\ locks'["candidacy"][a] = 0
        BY <1>1, <1>2, <1>3, <3>1, CouncilAssumption
      <4>2. \A id \in LockIds \ NonRivalrousLocks : locks'[id][a] # 0 => id = "councilor"
        BY <1>2, <2>1, <4>1, CouncilAssumption
      <4> QED BY <4>2
    <3>2. CASE \A k \in 1 .. CouncilSize : acct(k) # a
      <4>1. \A id \in LockIds : locks'[id][a] # 0 => locks'[id][a] = locks[id][a]
        BY <1>2, <3>2
      <4> QED BY <2>1, <4>1
    <3> QED BY <3>1, <3>2
  <2> QED BY <2>2, ExclusiveCells DEF StakesExclusive
<1> QED BY <1>4, <1>5, <1>6, <1>7 DEF StakeInv, StakesMatchRecords

(* Every step keeps the stakes and their records together. *)
LEMMA NextStakeInv == IndInv /\ StakeInv /\ [Next]_vars => StakeInv'
<1> SUFFICES ASSUME IndInv, StakeInv, [Next]_vars PROVE StakeInv'
  OBVIOUS
<1>1. CASE StakesUntouched
  <2>1. CandidacyStakesLocked'
    BY <1>1 DEF StakesUntouched, SameCandidacies, StakeInv, StakesMatchRecords,
                CandidacyStakesLocked
  <2>2. CouncilorStakesLocked'
    BY <1>1 DEF StakesUntouched, SameCouncil, StakeInv, StakesMatchRecords,
                CouncilorStakesLocked
  <2>3. VoteStakesLocked'
    BY <1>1 DEF StakesUntouched, SameVotes, StakeInv, StakesMatchRecords, VoteStakesLocked
  <2>4. StakesExclusive'
    BY <1>1 DEF StakesUntouched, StakeInv, StakesExclusive, RivalrousLocksExclusive, LocksOf
  <2> QED BY <2>1, <2>2, <2>3, <2>4 DEF StakeInv, StakesMatchRecords
<1>2. ASSUME NEW a \in Voters, NEW c \in Members \cup {None}, NEW s \in VoteStakes,
             Vote(a, c, s)
      PROVE  StakeInv'
  <2> DEFINE vote == [commitment |-> c, stake |-> s,
                      cycle_id |-> refStage.current_cycle_id, vote_for |-> None]
  <2>1. /\ a \in Accounts /\ s \in Nat \ {0}
        /\ IsAccountFreeOfConflictingStakes(locks, "voting", a)
        /\ locks' = SetLock(locks, "voting", a, s) /\ votes' = [votes EXCEPT ![a] = vote]
        /\ UNCHANGED <<candidates, councilMembers>>
    BY <1>2, CouncilAssumption, ReferendumAssumption
    DEF Vote, ReferendumVote, CanVote, councilVars
  <2>2. locks \in LockTables /\ votes \in [Accounts -> CastVote \cup {None}]
    BY DEF IndInv, TypeOK, ReferendumTypeOK
  <2>3. \A j \in LockIds, b \in Accounts :
           locks'[j][b] = IF j = "voting" /\ b = a THEN s ELSE locks[j][b]
    BY <2>1, <2>2, ReferendumAssumption DEF SetLock, LockTables
  <2>4. vote.stake = s /\ vote # None
    <3>1. refStage.current_cycle_id \in Nat
      BY <1>2 DEF Vote, ReferendumVote, CanVote, IndInv, TypeOK, ReferendumTypeOK,
                  Inactive, VotingStages, RevealingStages
    <3>2. vote \in CastVote
      BY <2>1, <3>1 DEF CastVote
    <3> QED BY <3>2, NoneIsNoVote
  <2> HIDE DEF vote
  <2>5. \A b \in Accounts : votes'[b] = IF b = a THEN vote ELSE votes[b]
    BY <2>1, <2>2
  <2> QED BY <2>1, <2>3, <2>4, <2>5, VotingStakes
<1>3. ASSUME NEW a \in Voters, ReleaseVoteStake(a) PROVE StakeInv'
  <2>1. /\ a \in Accounts /\ locks' = RemoveLock(locks, "voting", a)
        /\ votes' = [votes EXCEPT ![a] = None]
        /\ UNCHANGED <<candidates, councilMembers>>
    BY <1>3, CouncilAssumption DEF ReleaseVoteStake, ReferendumReleaseVoteStake, councilVars
  <2>2. locks \in LockTables /\ votes \in [Accounts -> CastVote \cup {None}]
    BY DEF IndInv, TypeOK, ReferendumTypeOK
  <2>3. \A j \in LockIds, b \in Accounts :
           locks'[j][b] = IF j = "voting" /\ b = a THEN 0 ELSE locks[j][b]
    BY <2>1, <2>2, ReferendumAssumption DEF RemoveLock, LockTables
  <2>4. \A b \in Accounts : votes'[b] = IF b = a THEN None ELSE votes[b]
    BY <2>1, <2>2
  <2> QED BY <2>1, <2>3, <2>4, VotingStakes
<1> QED BY <1>1, <1>2, <1>3, StakeSteps, AnnounceStakes, RemovalStakes, ElectionStakes

(* The invariants of the stage machine and of the stakes, together. *)
THEOREM StakesInvariant == Spec => [](IndInv /\ StakeInv)
<1>1. Init => IndInv /\ StakeInv
  BY InitIndInv, InitStakeInv
<1>2. (IndInv /\ StakeInv) /\ [Next]_vars => (IndInv /\ StakeInv)'
  BY NextIndInv, NextStakeInv
<1> QED BY <1>1, <1>2, PTL DEF Spec

(* What is locked is what a candidacy, a seat or a vote justifies, and for *)
(* its amount: no stake is lost, left behind or counted twice.             *)
THEOREM StakesAreJustified == Spec => []StakesMatchRecords
<1>1. IndInv /\ StakeInv => StakesMatchRecords
  BY DEF StakeInv
<1> QED BY <1>1, StakesInvariant, PTL

(* No account ever backs two stakes that are not meant to be shared. *)
THEOREM StakesNeverShared == Spec => []StakesExclusive
<1>1. IndInv /\ StakeInv => StakesExclusive
  BY DEF StakeInv
<1> QED BY <1>1, StakesInvariant, PTL

-----------------------------------------------------------------------------
(* The council.                                                            *)

(* A full list of distinct winners fills every seat once, and payments     *)
(* keep the seats.                                                         *)
LEMMA NextCouncilComplete == IndInv /\ CouncilComplete /\ [Next]_vars => CouncilComplete'
<1> SUFFICES ASSUME IndInv, CouncilComplete, [Next]_vars PROVE CouncilComplete'
  OBVIOUS
<1>1. ASSUME SameCouncil PROVE CouncilComplete'
  <2>1. CASE Len(councilMembers) = 0
    <3>1. councilMembers' \in Seq(CouncilMember)
      BY NextIndInv DEF IndInv, TypeOK, BudgetTypeOK
    <3>2. councilMembers' = <<>>
      BY <1>1, <2>1, <3>1 DEF SameCouncil
    <3> QED BY <3>2 DEF CouncilComplete
  <2>2. CASE Len(councilMembers) # 0
    BY <1>1, <2>2 DEF SameCouncil, CouncilComplete
  <2> QED BY <2>1, <2>2
<1>2. ASSUME ConcludeReferendum, ElectNewCouncil PROVE CouncilComplete'
  <2>1. \A i \in 1 .. CouncilSize :
           councilMembers'[i].membership_id = Winners[i].option_id
    BY <1>2, ElectionOutcome DEF ElectedMember
  <2> QED BY <1>2, <2>1, ElectionOutcome DEF CouncilComplete
<1>3. ASSUME councilMembers' = councilMembers PROVE CouncilComplete'
  BY <1>3 DEF CouncilComplete
<1> QED BY <1>1, <1>2, <1>3, StakeSteps
        DEF StakesUntouched, AnnounceCandidacy, CandidacyRemoved, Vote, ReleaseVoteStake

(* Once there is a council, all its seats are filled, by distinct members. *)
THEOREM CouncilAlwaysComplete == Spec => []CouncilComplete
<1>1. Init => IndInv /\ CouncilComplete
  BY InitIndInv DEF Init, BudgetInit, CouncilComplete
<1>2. (IndInv /\ CouncilComplete) /\ [Next]_vars => (IndInv /\ CouncilComplete)'
  BY NextIndInv, NextCouncilComplete
<1>3. (IndInv /\ CouncilComplete) => CouncilComplete
  OBVIOUS
<1> QED BY <1>1, <1>2, <1>3, PTL DEF Spec

-----------------------------------------------------------------------------
(* The count of the candidates.                                            *)

CurrentCandidates == {m \in Members : IsCurrentCandidate(m)}

(* No candidacy is of a later cycle, so that a new cycle begins without    *)
(* candidates; a cycle has finitely many.                                  *)
CountInv ==
    /\ \A m \in Members : candidates[m] # None =>
          candidates[m].cycle_id <= announcementPeriodNr
    /\ IsFiniteSet(CurrentCandidates)
    /\ CandidatesCounted

(* Genesis: no candidacies. *)
LEMMA InitCountInv == Init => CountInv
<1> SUFFICES ASSUME Init PROVE CountInv
  OBVIOUS
<1>1. CurrentCandidates = {} /\ stage.tag = "Idle"
  BY DEF Init, CurrentCandidates, IsCurrentCandidate, Idle
<1> QED BY <1>1, FS_EmptySet DEF Init, CountInv, CandidatesCounted

(* A new announcing period counts from 0, with the candidacies of before.  *)
LEMMA NewPeriodCount ==
    ASSUME IndInv, CountInv, NEW n, StartAnnouncingPeriod(n), UNCHANGED candidates
    PROVE  CountInv'
<1>1. /\ stage'.tag = "Announcing" /\ stage'.candidates_count = 0
      /\ announcementPeriodNr' = announcementPeriodNr + 1
  BY DEF StartAnnouncingPeriod, Announcing
<1>2. \A m \in Members : candidates[m] # None =>
         /\ candidates[m].cycle_id < announcementPeriodNr'
         /\ candidates[m].cycle_id # announcementPeriodNr'
  BY <1>1 DEF CountInv, IndInv, TypeOK, Candidate
<1>3. CurrentCandidates' = {}
  BY <1>2 DEF CurrentCandidates, IsCurrentCandidate
<1>4. CandidatesCounted'
  BY <1>1, <1>3, FS_EmptySet DEF CandidatesCounted, CurrentCandidates
<1>5. \A m \in Members : candidates[m] # None =>
         candidates[m].cycle_id <= announcementPeriodNr'
  BY <1>1 DEF CountInv, IndInv, TypeOK, Candidate
<1> QED BY <1>3, <1>4, <1>5, FS_EmptySet DEF CountInv

(* A step that neither adds nor ends a candidacy keeps the count right. *)
LEMMA SameCount ==
    ASSUME CountInv, SameCandidacies, UNCHANGED announcementPeriodNr,
           stage'.tag = "Idle"
             \/ /\ stage.tag \in {"Announcing", "Election"}
                /\ stage'.candidates_count = stage.candidates_count
    PROVE  CountInv'
<1>1. CurrentCandidates' = CurrentCandidates
  BY DEF CurrentCandidates, IsCurrentCandidate, SameCandidacies
<1> QED BY <1>1 DEF CountInv, CandidatesCounted, CurrentCandidates, SameCandidacies

(* Announcing, withdrawing and releasing keep the count right. *)
LEMMA CandidacyCount ==
    ASSUME IndInv, CountInv, NEW m \in Members,
           \/ \E a \in Accounts, s \in CandidateStakes : AnnounceCandidacy(m, a, s)
           \/ WithdrawCandidacy(m)
           \/ ReleaseCandidacyStake(m)
    PROVE  CountInv'
<1>1. /\ candidates \in [Members -> Candidate \cup {None}]
      /\ announcementPeriodNr \in Nat /\ stage \in CouncilStages
  BY DEF IndInv, TypeOK
<1>2. /\ IsFiniteSet(CurrentCandidates)
      /\ stage.tag \in {"Announcing", "Election"} =>
            stage.candidates_count = Cardinality(CurrentCandidates)
  BY DEF CountInv, CandidatesCounted, CurrentCandidates
<1>3. ASSUME NEW a \in Accounts, NEW s \in CandidateStakes, AnnounceCandidacy(m, a, s)
      PROVE  CountInv'
  <2> DEFINE rec == [staking_account_id |-> a, stake |-> s,
                     cycle_id |-> announcementPeriodNr,
                     vote_power |-> 0, note_hash |-> None]
  <2>1. /\ m \notin CurrentCandidates /\ stage.tag = "Announcing"
        /\ candidates' = [candidates EXCEPT ![m] = rec]
        /\ stage' = [stage EXCEPT !.candidates_count = @ + 1]
        /\ UNCHANGED announcementPeriodNr
    BY <1>3 DEF AnnounceCandidacy, CanAnnounceCandidacy, CurrentCandidates
  <2>2. rec # None /\ rec.cycle_id = announcementPeriodNr
    <3>1. rec \in Candidate
      BY <1>1, CouncilAssumption DEF Candidate
    <3> QED BY <3>1, NoneIsNoCandidate
  <2> HIDE DEF rec
  <2>3. \A k \in Members : candidates'[k] = IF k = m THEN rec ELSE candidates[k]
    BY <1>1, <2>1
  <2>4. CurrentCandidates' = CurrentCandidates \cup {m}
    BY <2>1, <2>2, <2>3 DEF CurrentCandidates, IsCurrentCandidate
  <2>5. /\ IsFiniteSet(CurrentCandidates')
        /\ Cardinality(CurrentCandidates') = Cardinality(CurrentCandidates) + 1
    BY <1>2, <2>1, <2>4, FS_AddElement
  <2>6. stage'.candidates_count = stage.candidates_count + 1
    BY <1>1, <2>1 DEF CouncilStages
  <2>7. CandidatesCounted'
    BY <1>2, <2>1, <2>5, <2>6 DEF CandidatesCounted, CurrentCandidates
  <2>8. \A k \in Members : candidates'[k] # None =>
           candidates'[k].cycle_id <= announcementPeriodNr'
    BY <1>1, <2>1, <2>2, <2>3 DEF CountInv
  <2> QED BY <2>5, <2>7, <2>8 DEF CountInv
<1>4. ASSUME RemoveCandidacy(m), UNCHANGED announcementPeriodNr
      PROVE  /\ CurrentCandidates' = CurrentCandidates \ {m}
             /\ IsFiniteSet(CurrentCandidates')
             /\ \A k \in Members : candidates'[k] # None =>
                   candidates'[k].cycle_id <= announcementPeriodNr'
  <2>1. \A k \in Members : candidates'[k] = IF k = m THEN None ELSE candidates[k]
    BY <1>1, <1>4 DEF RemoveCandidacy
  <2>2. CurrentCandidates' = CurrentCandidates \ {m}
    BY <1>4, <2>1 DEF CurrentCandidates, IsCurrentCandidate
  <2>3. IsFiniteSet(CurrentCandidates')
    BY <1>2, <2>2, FS_Subset
  <2> QED BY <1>4, <2>1, <2>2, <2>3 DEF CountInv
<1>5. CASE WithdrawCandidacy(m)
  <2>1. /\ stage.tag = "Announcing" /\ m \in CurrentCandidates /\ RemoveCandidacy(m)
        /\ stage' = [stage EXCEPT !.candidates_count = IF @ = 0 THEN 0 ELSE @ - 1]
        /\ UNCHANGED announcementPeriodNr
    BY <1>5 DEF WithdrawCandidacy, CurrentCandidates
  <2>2. Cardinality(CurrentCandidates \ {m}) = Cardinality(CurrentCandidates) - 1
    BY <1>2, <2>1, FS_RemoveElement
  <2>3. Cardinality(CurrentCandidates \ {m}) \in Nat
    BY <1>2, FS_Subset, FS_CardinalityType
  <2>4. /\ stage'.tag = "Announcing"
        /\ stage'.candidates_count =
              IF stage.candidates_count = 0 THEN 0 ELSE stage.candidates_count - 1
        /\ stage.candidates_count \in Nat
    BY <1>1, <2>1 DEF CouncilStages
  <2>5. stage'.candidates_count = Cardinality(CurrentCandidates \ {m})
    BY <1>2, <2>1, <2>2, <2>3, <2>4
  <2>6. CandidatesCounted'
    BY <1>4, <2>1, <2>5 DEF CandidatesCounted, CurrentCandidates
  <2> QED BY <1>4, <2>1, <2>6 DEF CountInv
<1>6. CASE ReleaseCandidacyStake(m)
  <2>1. /\ m \in CurrentCandidates => stage.tag = "Idle"
        /\ RemoveCandidacy(m) /\ UNCHANGED <<stage, announcementPeriodNr>>
    BY <1>6 DEF ReleaseCandidacyStake, CurrentCandidates
  <2>2. CurrentCandidates' = CurrentCandidates \ {m}
    BY <1>4, <2>1
  <2>3. CandidatesCounted'
    <3>1. CASE stage.tag = "Idle"
      BY <2>1, <3>1 DEF CandidatesCounted
    <3>2. CASE m \notin CurrentCandidates
      <4>1. CurrentCandidates' = CurrentCandidates
        BY <2>2, <3>2
      <4> QED BY <2>1, <4>1 DEF CountInv, CandidatesCounted, CurrentCandidates
    <3> QED BY <2>1, <3>1, <3>2
  <2> QED BY <1>4, <2>1, <2>3 DEF CountInv
<1> QED BY <1>3, <1>5, <1>6

(* Every step keeps the count of the candidates. *)
LEMMA NextCountInv == IndInv /\ CountInv /\ [Next]_vars => CountInv'
<1> SUFFICES ASSUME IndInv, CountInv, [Next]_vars PROVE CountInv'
  OBVIOUS
<1>0. stage \in CouncilStages
  BY DEF IndInv, TypeOK
<1>1. ASSUME SameCandidacies, UNCHANGED <<stage, announcementPeriodNr>> PROVE CountInv'
  <2>1. stage.tag = "Idle" \/ stage.tag \in {"Announcing", "Election"}
    BY <1>0 DEF CouncilStages
  <2> QED BY <1>1, <2>1, SameCount
<1>2. ASSUME UNCHANGED <<candidates, stage, announcementPeriodNr>> PROVE CountInv'
  BY <1>1, <1>2 DEF SameCandidacies
<1>3. CASE UNCHANGED vars \/ Horizon
  BY <1>2, <1>3 DEF vars, Horizon
<1>4. CASE CouncilOnInitialize
  <2>1. candidates' = candidates /\ TryProgressStage(now + 1)
    BY <1>4 DEF CouncilOnInitialize
  <2>2. CASE EndIdlePeriod(now + 1) \/ RestartAnnouncing(now + 1)
    BY <2>1, <2>2, NewPeriodCount DEF EndIdlePeriod, RestartAnnouncing
  <2>3. CASE FinalizeAnnouncingPeriod(now + 1)
    <3>1. /\ stage.tag = "Announcing" /\ stage'.candidates_count = stage.candidates_count
          /\ announcementPeriodNr' = announcementPeriodNr
      BY <2>3 DEF FinalizeAnnouncingPeriod, Election
    <3> QED BY <2>1, <3>1, SameCount DEF SameCandidacies
  <2>4. CASE NoCouncilProgress(now + 1)
    BY <1>2, <2>1, <2>4 DEF NoCouncilProgress
  <2> QED BY <2>1, <2>2, <2>3, <2>4 DEF TryProgressStage
<1>5. CASE ReferendumOnInitialize
  <2>1. CASE ConcludeReferendum /\ ElectNewCouncil
    <3>1. /\ stage'.tag = "Idle" /\ announcementPeriodNr' = announcementPeriodNr
          /\ \A m \in Members : candidates'[m] \in {None, candidates[m]}
      BY <2>1, ElectionOutcome DEF ElectNewCouncil, Idle
    <3>2. CurrentCandidates' \subseteq CurrentCandidates
      BY <3>1 DEF CurrentCandidates, IsCurrentCandidate
    <3>3. IsFiniteSet(CurrentCandidates')
      BY <3>2, FS_Subset DEF CountInv
    <3> QED BY <3>1, <3>3 DEF CountInv, CandidatesCounted
  <2>2. CASE ConcludeReferendum /\ NewCouncilNotElected
    BY <2>2, NewPeriodCount DEF NewCouncilNotElected
  <2> QED BY <1>2, <1>5, <2>1, <2>2
          DEF ReferendumOnInitialize, NoReferendumProgress, councilVars
<1>6. CASE Extrinsic
  <2>1. ASSUME \/ \E m \in Members, note \in Notes : SetCandidacyNote(m, note)
               \/ \E a \in Voters, m \in Members : RevealVote(a, m)
        PROVE  CountInv'
    BY <1>1, <2>1, NoteStep, RevealStep
  <2>2. ASSUME \/ \E a \in Voters, c \in Members \cup {None}, s \in VoteStakes : Vote(a, c, s)
               \/ \E a \in Voters : ReleaseVoteStake(a)
               \/ UNCHANGED councilVars
        PROVE  CountInv'
    BY <1>2, <2>2 DEF Vote, ReleaseVoteStake, councilVars
  <2> QED BY <1>6, <2>1, <2>2, CandidacyCount DEF Extrinsic
<1> QED BY <1>3, <1>4, <1>5, <1>6 DEF Next

(* candidates_count, compared with the minimum at the end of announcing,   *)
(* is the number of candidacies of the cycle.                              *)
THEOREM CandidatesAreCounted == Spec => []CandidatesCounted
<1>1. Init => IndInv /\ CountInv
  BY InitIndInv, InitCountInv
<1>2. (IndInv /\ CountInv) /\ [Next]_vars => (IndInv /\ CountInv)'
  BY NextIndInv, NextCountInv
<1>3. IndInv /\ CountInv => CandidatesCounted
  BY DEF CountInv
<1> QED BY <1>1, <1>2, <1>3, PTL DEF Spec

-----------------------------------------------------------------------------
(* The ranking of the candidates.                                          *)

(* A result that is not weaker than the option's old entry keeps the list  *)
(* sorted, never shorter, and the last entry of a full list never weaker.  *)
LEMMA WinnerInsertSorted ==
    ASSUME NEW winners \in Seq(OptionResult), NEW result \in OptionResult,
           NEW target \in Nat \ {0}, Len(winners) <= target, Sorted(winners),
           \A k \in 1 .. Len(winners) :
               winners[k].option_id = result.option_id =>
                   winners[k].vote_power <= result.vote_power,
           NEW new, new = TryWinnerInsert(result, winners, target)
    PROVE  /\ Sorted(new)
           /\ Len(winners) = target =>
                 /\ Len(new) = target
                 /\ new[target].vote_power >= winners[target].vote_power
<1>0. /\ Len(winners) \in Nat /\ winners \in [1 .. Len(winners) -> OptionResult]
      /\ \A i \in 1 .. Len(winners) : winners[i].vote_power \in Nat
      /\ result.vote_power \in Nat
  <2>1. \A i \in 1 .. Len(winners) : winners[i] \in OptionResult
    OBVIOUS
  <2> QED BY <2>1 DEF OptionResult
<1>1. CASE winners = <<>>
  <2>1. new = <<result>> /\ Len(winners) = 0
    BY <1>1 DEF TryWinnerInsert
  <2> QED BY <2>1 DEF Sorted
<1>2. CASE winners # <<>>
  <2> DEFINE idx == PlaceRecord(result, winners, target)
             top == RisesTo(result, winners, idx)
             len == IF idx > Len(winners) THEN idx ELSE Len(winners)
  <2> HIDE DEF idx, top
  <2>1. /\ idx \in 0 .. Len(winners) + 1
        /\ idx \in 1 .. Len(winners) /\ winners[idx].option_id # result.option_id
             => idx = Len(winners) /\ Len(winners) = target
                /\ result.vote_power > winners[idx].vote_power
        /\ idx = Len(winners) + 1 => Len(winners) # target
    BY <1>2, PlaceRecordIndex DEF idx
  <2>2. CASE idx = 0
    <3>1. new = winners
      BY <1>2, <2>2 DEF TryWinnerInsert, idx
    <3>2. Len(winners) = target => winners[target].vote_power \in Nat
      BY <1>0
    <3> QED BY <3>1, <3>2
  <2>3. CASE idx # 0
    <3>1. /\ top \in 1 .. idx
          /\ \A j \in top .. (idx - 1) : winners[j].vote_power < result.vote_power
          /\ top > 1 => winners[top - 1].vote_power >= result.vote_power
      BY <2>1, <2>3, RisesToPlace DEF top
    <3>2. new = [i \in 1 .. len |->
                    IF i < top \/ i > idx THEN winners[i]
                    ELSE IF i = top THEN result ELSE winners[i - 1]]
      BY <1>2, <2>3 DEF TryWinnerInsert, idx, top
    <3>3. /\ len \in Nat /\ idx \in 1 .. len /\ Len(winners) <= len /\ top \in Nat
          /\ len <= Len(winners) + 1 /\ 1 <= top /\ top <= idx
          /\ Len(winners) = target => len = target
          /\ idx \in 1 .. Len(winners) \/ (idx = Len(winners) + 1 /\ len = idx)
          /\ idx <= Len(winners) => len = Len(winners)
      <4>1. Len(winners) \in Nat /\ idx \in Nat /\ 1 <= idx /\ idx <= Len(winners) + 1
        <5>1. Len(winners) \in Nat
          BY <1>0
        <5>2. idx \in 0 .. Len(winners) + 1
          BY <2>1
        <5> QED BY <2>3, <5>1, <5>2
      <4>2. top \in Nat /\ 1 <= top /\ top <= idx
        BY <3>1, <4>1
      <4>3. idx = Len(winners) + 1 => Len(winners) # target
        BY <2>1
      <4> HIDE DEF idx, top
      <4>4. CASE idx = Len(winners) + 1
        BY <4>1, <4>2, <4>3, <4>4
      <4>5. CASE idx <= Len(winners)
        BY <4>1, <4>2, <4>5
      <4> QED BY <4>1, <4>4, <4>5
    <3>a. idx \in 1 .. Len(winners) => winners[idx].vote_power <= result.vote_power
      <4> SUFFICES ASSUME idx \in 1 .. Len(winners)
                   PROVE  winners[idx].vote_power <= result.vote_power
        OBVIOUS
      <4>1. winners[idx].vote_power \in Nat
        BY <1>0
      <4>2. CASE winners[idx].option_id # result.option_id
        <5>1. result.vote_power > winners[idx].vote_power
          BY <2>1, <4>2
        <5>2. result.vote_power \in Nat
          BY <1>0
        <5> QED BY <4>1, <5>1, <5>2
      <4>3. CASE winners[idx].option_id = result.option_id
        BY <4>3
      <4> QED BY <4>2, <4>3
    <3>4. \A i \in idx + 1 .. len : winners[i].vote_power <= result.vote_power
      <4> SUFFICES ASSUME NEW i \in idx + 1 .. len
                   PROVE  winners[i].vote_power <= result.vote_power
        OBVIOUS
      <4>1. idx \in 1 .. Len(winners) /\ i \in 1 .. Len(winners) /\ idx < i
        <5>1. Len(winners) \in Nat
          BY <1>0
        <5> HIDE DEF len
        <5> QED BY <3>3, <5>1
      <4>2. winners[idx].vote_power <= result.vote_power
        BY <3>a, <4>1
      <4>3. winners[idx].vote_power >= winners[i].vote_power
        BY <4>1 DEF Sorted
      <4> QED BY <1>0, <4>1, <4>2, <4>3
    <3>5. \A i \in 1 .. top - 1 : winners[i].vote_power >= result.vote_power
      <4> SUFFICES ASSUME NEW i \in 1 .. top - 1
                   PROVE  winners[i].vote_power >= result.vote_power
        OBVIOUS
      <4>1. /\ i \in 1 .. Len(winners) /\ top - 1 \in 1 .. Len(winners) /\ top > 1
            /\ i = top - 1 \/ i < top - 1
        <5>1. Len(winners) \in Nat
          BY <1>0
        <5> HIDE DEF len
        <5> QED BY <3>3, <5>1
      <4>2. winners[top - 1].vote_power >= result.vote_power
        BY <3>1, <4>1
      <4>3. i < top - 1 => winners[i].vote_power >= winners[top - 1].vote_power
        BY <4>1 DEF Sorted
      <4> QED BY <1>0, <4>1, <4>2, <4>3
    <3>6. Len(new) = len
      BY <3>2, <3>3
    <3> HIDE DEF len
    <3> DEFINE old(i) == IF i < top \/ i > idx THEN i ELSE i - 1
    <3>7. \A i \in 1 .. len :
             new[i] = IF i = top THEN result ELSE winners[old(i)]
      BY <3>2, <3>3
    <3>8. \A i \in 1 .. len : i # top =>
             old(i) \in 1 .. Len(winners) /\ new[i].vote_power = winners[old(i)].vote_power
      BY <1>0, <3>3, <3>7
    <3>9. new[top].vote_power = result.vote_power
      BY <3>3, <3>7
    <3>10. Sorted(new)
      <4> SUFFICES ASSUME NEW i \in 1 .. len, NEW j \in 1 .. len, i < j
                   PROVE  new[i].vote_power >= new[j].vote_power
        BY <3>6 DEF Sorted
      <4>1. CASE i = top
        <5>1. j # top /\ (j <= idx => old(j) \in top .. idx - 1)
          BY <3>3, <4>1
        <5>2. new[j].vote_power <= result.vote_power
          <6>1. CASE j <= idx
            BY <1>0, <3>1, <3>8, <5>1, <6>1
          <6>2. CASE j > idx
            BY <3>3, <3>4, <3>8, <5>1, <6>2
          <6> QED BY <3>3, <6>1, <6>2
        <5> QED BY <1>0, <3>8, <3>9, <4>1, <5>1, <5>2
      <4>2. CASE j = top
        <5>1. i # top /\ old(i) = i /\ i \in 1 .. top - 1
          BY <3>3, <4>2
        <5> QED BY <3>5, <3>8, <3>9, <4>2, <5>1
      <4>3. CASE i # top /\ j # top
        <5>1. old(i) \in 1 .. Len(winners) /\ old(j) \in 1 .. Len(winners)
          BY <3>8, <4>3
        <5>2. old(i) < old(j)
          BY <3>3, <4>3
        <5>3. winners[old(i)].vote_power >= winners[old(j)].vote_power
          BY <5>1, <5>2 DEF Sorted
        <5> QED BY <3>8, <4>3, <5>3
      <4> QED BY <4>1, <4>2, <4>3
    <3>11. ASSUME Len(winners) = target
           PROVE  Len(new) = target /\ new[target].vote_power >= winners[target].vote_power
      <4>1. len = target /\ target \in 1 .. len /\ target \in 1 .. Len(winners)
            /\ idx \in 1 .. Len(winners)
        BY <1>0, <2>1, <3>3, <3>11
      <4>2. CASE top = target
        <5>1. idx = target
          BY <3>3, <4>1, <4>2
        <5>2. winners[idx].vote_power <= result.vote_power
          BY <3>a, <4>1
        <5> QED BY <1>0, <3>6, <3>9, <4>1, <4>2, <5>1, <5>2
      <4>3. CASE top # target
        <5>1. old(target) \in 1 .. Len(winners) /\ old(target) <= target
          BY <3>8, <4>1, <4>3
        <5>2. winners[old(target)].vote_power >= winners[target].vote_power
          BY <1>0, <4>1, <5>1 DEF Sorted
        <5> QED BY <3>6, <3>8, <4>1, <4>3, <5>2
      <4> QED BY <4>2, <4>3
    <3> QED BY <3>10, <3>11
  <2> QED BY <2>2, <2>3
<1> QED BY <1>1, <1>2

(* Nobody has power before votes are revealed. *)
NoPowerYet ==
    stage.tag = "Announcing" \/ refStage.tag = "Voting" =>
        \A m \in Members : IsCurrentCandidate(m) => candidates[m].vote_power = 0

TopInv == WinnersAreTheTop /\ NoPowerYet

(* Steps that keep the list, the candidates it ranks and their power. *)
LEMMA SameTop ==
    ASSUME IndInv, TopInv, UNCHANGED <<refStage, announcementPeriodNr>>,
           stage'.tag = stage.tag,
           \A m \in Members : IsCurrentCandidate(m)' =>
               /\ IsCurrentCandidate(m)
               /\ candidates'[m].vote_power = candidates[m].vote_power,
           refStage.tag = "Revealing" =>
               \A m \in Members : IsCurrentCandidate(m) => IsCurrentCandidate(m)'
    PROVE  TopInv'
<1>1. NoPowerYet'
  BY DEF TopInv, NoPowerYet
<1>2. CASE refStage.tag = "Revealing"
  <2>1. Winners' = Winners
    BY DEF Winners
  <2>2. \A i \in 1 .. Len(Winners) : Winners[i].option_id \in Members
    BY <1>2, ElectedAll
  <2>3. \A m \in Members : IsCurrentCandidate(m)' <=> IsCurrentCandidate(m)
    BY <1>2
  <2>4. \A i \in 1 .. Len(Winners) : \A m \in Members :
           m = Winners[i].option_id =>
              /\ IsCurrentCandidate(m)'
              /\ Winners[i].vote_power = candidates'[m].vote_power
    BY <1>2, <2>3 DEF TopInv, WinnersAreTheTop
  <2>5. \A i \in 1 .. Len(Winners) :
           /\ candidates'[Winners[i].option_id] # None
           /\ candidates'[Winners[i].option_id].cycle_id = announcementPeriodNr'
           /\ Winners[i].vote_power = candidates'[Winners[i].option_id].vote_power
    BY <2>2, <2>4 DEF IsCurrentCandidate
  <2>6. \A m \in Members :
           \/ ~ IsCurrentCandidate(m)'
           \/ \E i \in 1 .. Len(Winners) : Winners[i].option_id = m
           \/ candidates'[m].vote_power = 0
           \/ /\ Len(Winners) = refStage.winning_target_count
              /\ candidates'[m].vote_power <= Winners[Len(Winners)].vote_power
    BY <1>2 DEF TopInv, WinnersAreTheTop
  <2>7. /\ Len(Winners) <= refStage.winning_target_count
        /\ \A i, j \in 1 .. Len(Winners) : i < j =>
              /\ Winners[i].option_id # Winners[j].option_id
              /\ Winners[i].vote_power >= Winners[j].vote_power
    BY <1>2 DEF TopInv, WinnersAreTheTop
  <2>8. WinnersAreTheTop'
    BY <2>1, <2>5, <2>6, <2>7 DEF WinnersAreTheTop, IsCurrentCandidate
  <2> QED BY <1>1, <2>8 DEF TopInv
<1>3. CASE refStage.tag # "Revealing"
  BY <1>1, <1>3 DEF TopInv, WinnersAreTheTop
<1> QED BY <1>2, <1>3

(* A revealed vote: the ranking with the new power of its candidate. *)
LEMMA RevealTop ==
    ASSUME IndInv, TopInv, NEW a \in Voters, NEW m \in Members, RevealVote(a, m)
    PROVE  TopInv'
<1> DEFINE power == candidates[m].vote_power + votes[a].stake
           result == [option_id |-> m, vote_power |-> power]
           target == refStage.winning_target_count
           old == Winners
           new == TryWinnerInsert(result, old, target)
<1>1. /\ SameCandidacies /\ refStage.tag = "Revealing" /\ IsCurrentCandidate(m)
      /\ votes[a] \in CastVote
      /\ \A k \in Members : candidates[k] # None =>
            candidates'[k].vote_power = IF k = m THEN power ELSE candidates[k].vote_power
      /\ UNCHANGED <<stage, announcementPeriodNr>>
  BY RevealStep
<1>2. \A k \in Members : candidates[k] # None =>
         candidates[k] \in Candidate /\ candidates[k].vote_power \in Nat
  BY DEF IndInv, TypeOK, Candidate
<1>3. /\ result \in OptionResult /\ power \in Nat /\ candidates[m].vote_power <= power
      /\ candidates[m].vote_power \in Nat
  BY <1>1, <1>2 DEF OptionResult, CastVote, IsCurrentCandidate
<1>4. result.option_id = m /\ result.vote_power = power
  OBVIOUS
<1> HIDE DEF power, result
<1>5. refStage \in RevealingStages
  BY <1>1 DEF IndInv, TypeOK, ReferendumTypeOK, Inactive, VotingStages
<1>6. /\ old \in Seq(OptionResult) /\ Distinct(old) /\ target \in Nat \ {0}
      /\ Len(old) <= target
      /\ \A i \in 1 .. Len(old) : old[i].option_id \in Members
  BY <1>1, <1>5, ElectedAll DEF IndInv, WinnersCurrent, RevealingStages
<1>7. /\ \A i \in 1 .. Len(old) :
            /\ IsCurrentCandidate(old[i].option_id)
            /\ old[i].vote_power = candidates[old[i].option_id].vote_power
      /\ Sorted(old)
      /\ \A k \in Members :
            \/ ~ IsCurrentCandidate(k)
            \/ \E i \in 1 .. Len(old) : old[i].option_id = k
            \/ candidates[k].vote_power = 0
            \/ Len(old) = target /\ candidates[k].vote_power <= old[target].vote_power
  BY <1>1 DEF TopInv, WinnersAreTheTop, Sorted
<1> HIDE DEF old
<1>8. \A k \in 1 .. Len(old) :
         old[k].option_id = result.option_id => old[k].vote_power <= result.vote_power
  BY <1>3, <1>4, <1>7
<1>9. /\ new \in Seq(OptionResult) /\ Len(new) <= target /\ Distinct(new)
      /\ \A i \in 1 .. Len(new) :
            \/ new[i] = result
            \/ /\ new[i].option_id # result.option_id
               /\ \E k \in 1 .. Len(old) : new[i] = old[k]
      /\ \/ \E i \in 1 .. Len(new) : new[i] = result
         \/ /\ Len(new) = target
            /\ result.vote_power <= new[target].vote_power
      /\ \A k \in 1 .. Len(old) :
            \/ old[k].option_id = result.option_id
            \/ \E i \in 1 .. Len(new) : new[i] = old[k]
            \/ /\ k = target /\ Len(new) = target
               /\ result.vote_power > old[k].vote_power
  <2>1. Inserted(new, result, old, target)
    BY <1>3, <1>6, WinnerInsert
  <2> HIDE DEF new, target
  <2> QED BY <2>1 DEF Inserted
<1>10. /\ Sorted(new)
       /\ Len(old) = target =>
             Len(new) = target /\ new[target].vote_power >= old[target].vote_power
  BY <1>3, <1>6, <1>7, <1>8, WinnerInsertSorted
<1>11. /\ refStage' = [refStage EXCEPT !.intermediate_winners = new]
  BY DEF RevealVote, ReferendumRevealVote, Winners, old, result, power
<1> HIDE DEF new
<1>12. /\ Winners' = new /\ refStage'.tag = "Revealing"
       /\ refStage'.winning_target_count = target
  BY <1>5, <1>9, <1>11 DEF RevealingStages, Winners
<1>13. \A k \in Members : IsCurrentCandidate(k)' <=> IsCurrentCandidate(k)
  BY <1>1 DEF IsCurrentCandidate, SameCandidacies
<1>14. \A k \in Members : IsCurrentCandidate(k) =>
          candidates'[k].vote_power = IF k = m THEN power ELSE candidates[k].vote_power
  BY <1>1 DEF IsCurrentCandidate
<1>15. \A i \in 1 .. Len(new) :
          /\ new[i].option_id \in Members /\ IsCurrentCandidate(new[i].option_id)
          /\ new[i].vote_power = candidates'[new[i].option_id].vote_power
  <2> TAKE i \in 1 .. Len(new)
  <2>1. CASE new[i] = result
    BY <1>1, <1>4, <1>14, <2>1
  <2>2. CASE new[i].option_id # result.option_id /\ \E k \in 1 .. Len(old) : new[i] = old[k]
    BY <1>4, <1>6, <1>7, <1>14, <2>2
  <2> QED BY <1>9, <2>1, <2>2
<1>16. \A k \in Members :
          \/ ~ IsCurrentCandidate(k)
          \/ \E i \in 1 .. Len(new) : new[i].option_id = k
          \/ candidates'[k].vote_power = 0
          \/ Len(new) = target /\ candidates'[k].vote_power <= new[target].vote_power
  <2> SUFFICES ASSUME NEW k \in Members, IsCurrentCandidate(k),
                      ~ \E i \in 1 .. Len(new) : new[i].option_id = k,
                      candidates'[k].vote_power # 0
               PROVE  Len(new) = target /\ candidates'[k].vote_power <= new[target].vote_power
    OBVIOUS
  <2>0. Len(new) = target => target \in 1 .. Len(new) /\ new[target].vote_power \in Nat
    <3>1. Len(new) = target => target \in 1 .. Len(new)
      BY <1>6
    <3>2. \A i \in 1 .. Len(new) : new[i] \in OptionResult
      BY <1>9
    <3> QED BY <3>1, <3>2 DEF OptionResult
  <2>00. Len(old) = target => target \in 1 .. Len(old) /\ old[target].vote_power \in Nat
    <3>1. Len(old) = target => target \in 1 .. Len(old)
      BY <1>6
    <3>2. \A i \in 1 .. Len(old) : old[i] \in OptionResult
      BY <1>6
    <3> QED BY <3>1, <3>2 DEF OptionResult
  <2>1. CASE k = m
    <3>1. candidates'[k].vote_power = result.vote_power
      BY <1>4, <1>14, <2>1
    <3>2. ~ \E i \in 1 .. Len(new) : new[i] = result
      BY <1>4, <2>1
    <3> QED BY <1>9, <3>1, <3>2
  <2>2. CASE k # m
    <3>1. candidates'[k].vote_power = candidates[k].vote_power
          /\ candidates[k].vote_power \in Nat
      BY <1>2, <1>14, <2>2 DEF IsCurrentCandidate
    <3>2. CASE \E j \in 1 .. Len(old) : old[j].option_id = k
      <4>1. PICK j \in 1 .. Len(old) : old[j].option_id = k
        BY <3>2
      <4>2. ~ \E i \in 1 .. Len(new) : new[i] = old[j]
        BY <4>1
      <4>3. j = target /\ Len(new) = target /\ Len(old) = target
        BY <1>4, <1>6, <1>9, <2>2, <4>1, <4>2
      <4>4. candidates[k].vote_power = old[target].vote_power
        BY <1>7, <4>1, <4>3
      <4> QED BY <1>10, <2>0, <2>00, <3>1, <4>3, <4>4
    <3>3. CASE ~ \E j \in 1 .. Len(old) : old[j].option_id = k
      <4>1. Len(old) = target /\ candidates[k].vote_power <= old[target].vote_power
        BY <1>7, <3>1, <3>3
      <4> QED BY <1>10, <2>0, <2>00, <3>1, <4>1
    <3> QED BY <3>2, <3>3
  <2> QED BY <2>1, <2>2
<1>17. \A i, j \in 1 .. Len(new) : i < j =>
          /\ new[i].option_id # new[j].option_id
          /\ new[i].vote_power >= new[j].vote_power
  <2>1. \A i, j \in 1 .. Len(new) : i < j => i # j
    BY <1>9
  <2> QED BY <1>9, <1>10, <2>1 DEF Distinct, Sorted
<1>18. WinnersAreTheTop'
  <2>1. \A i \in 1 .. Len(new) :
           /\ candidates'[new[i].option_id] # None
           /\ candidates'[new[i].option_id].cycle_id = announcementPeriodNr'
    BY <1>13, <1>15 DEF IsCurrentCandidate
  <2>2. \A k \in Members :
           \/ ~ IsCurrentCandidate(k)'
           \/ \E i \in 1 .. Len(new) : new[i].option_id = k
           \/ candidates'[k].vote_power = 0
           \/ Len(new) = target /\ candidates'[k].vote_power <= new[target].vote_power
    BY <1>13, <1>16
  <2> QED BY <1>9, <1>12, <1>15, <1>17, <2>1, <2>2 DEF WinnersAreTheTop, IsCurrentCandidate
<1>19. NoPowerYet'
  <2>1. stage.tag = "Election"
    BY <1>1 DEF IndInv, StagesAgree
  <2> QED BY <1>1, <1>12, <2>1 DEF NoPowerYet
<1> QED BY <1>18, <1>19 DEF TopInv

(* A new announcing period has no candidates, and so none with power. *)
LEMMA NewPeriodTop ==
    ASSUME IndInv, CountInv, NEW n, StartAnnouncingPeriod(n), UNCHANGED candidates,
           refStage'.tag = "Inactive"
    PROVE  TopInv'
<1>1. \A m \in Members : candidates[m] # None =>
         candidates[m].cycle_id # announcementPeriodNr'
  BY DEF StartAnnouncingPeriod, CountInv, IndInv, TypeOK, Candidate
<1>2. \A m \in Members : ~ IsCurrentCandidate(m)'
  BY <1>1 DEF IsCurrentCandidate
<1> QED BY <1>2 DEF TopInv, NoPowerYet, WinnersAreTheTop

(* Every step keeps the list the top of the ranking. *)
LEMMA NextTopInv == IndInv /\ CountInv /\ TopInv /\ [Next]_vars => TopInv'
<1> SUFFICES ASSUME IndInv, CountInv, TopInv, [Next]_vars PROVE TopInv'
  OBVIOUS
<1>1. ASSUME UNCHANGED <<refStage, candidates, announcementPeriodNr>>, stage'.tag = stage.tag
      PROVE  TopInv'
  <2>1. \A m \in Members : IsCurrentCandidate(m)' <=> IsCurrentCandidate(m)
    BY <1>1 DEF IsCurrentCandidate
  <2> QED BY <1>1, <2>1, SameTop
<1>2. CASE UNCHANGED vars \/ Horizon
  BY <1>1, <1>2 DEF vars, Horizon
<1>3. CASE CouncilOnInitialize
  <2>1. candidates' = candidates /\ TryProgressStage(now + 1)
    BY <1>3 DEF CouncilOnInitialize
  <2>2. CASE EndIdlePeriod(now + 1) \/ RestartAnnouncing(now + 1)
    <3>1. StartAnnouncingPeriod(now + 1) /\ refStage' = refStage
          /\ stage.tag \in {"Idle", "Announcing"}
      BY <2>2 DEF EndIdlePeriod, RestartAnnouncing
    <3>2. refStage'.tag = "Inactive"
      BY <3>1 DEF IndInv, StagesAgree
    <3> QED BY <2>1, <3>1, <3>2, NewPeriodTop
  <2>3. CASE FinalizeAnnouncingPeriod(now + 1)
    <3>1. /\ stage.tag = "Announcing" /\ stage'.tag = "Election" /\ refStage'.tag = "Voting"
          /\ announcementPeriodNr' = announcementPeriodNr
      BY <2>3 DEF FinalizeAnnouncingPeriod, ForceStart, Voting, Election
    <3>2. \A m \in Members : IsCurrentCandidate(m)' => IsCurrentCandidate(m)
      BY <2>1, <3>1 DEF IsCurrentCandidate
    <3> QED BY <2>1, <3>1, <3>2 DEF TopInv, NoPowerYet, WinnersAreTheTop
  <2>4. CASE NoCouncilProgress(now + 1)
    BY <1>1, <2>1, <2>4 DEF NoCouncilProgress
  <2> QED BY <2>1, <2>2, <2>3, <2>4 DEF TryProgressStage
<1>4. CASE ReferendumOnInitialize
  <2>1. CASE EndVotingPeriod /\ UNCHANGED councilVars
    <3>1. /\ refStage.tag = "Voting" /\ refStage \in VotingStages
          /\ refStage' = Revealing(refStage.winning_target_count,
                                   refStage.current_cycle_id,
                                   now + RevealStageDuration, <<>>)
          /\ UNCHANGED <<candidates, announcementPeriodNr, stage>>
      BY <2>1 DEF EndVotingPeriod, councilVars, IndInv, TypeOK, ReferendumTypeOK,
                  Inactive, RevealingStages
    <3>2. /\ refStage'.tag = "Revealing" /\ Winners' = <<>> /\ Len(Winners') = 0
          /\ refStage'.winning_target_count \in Nat
      BY <3>1 DEF Revealing, Winners, VotingStages
    <3>3. stage.tag = "Election"
      BY <3>1 DEF IndInv, StagesAgree
    <3>4. \A m \in Members : IsCurrentCandidate(m)' => candidates'[m].vote_power = 0
      BY <3>1 DEF TopInv, NoPowerYet, IsCurrentCandidate
    <3>5. WinnersAreTheTop'
      BY <3>2, <3>4 DEF WinnersAreTheTop
    <3> QED BY <3>1, <3>2, <3>3, <3>5 DEF TopInv, NoPowerYet
  <2>2. CASE ConcludeReferendum /\ ElectNewCouncil
    BY <2>2 DEF ConcludeReferendum, ElectNewCouncil, Inactive, Idle, TopInv,
                NoPowerYet, WinnersAreTheTop
  <2>3. CASE ConcludeReferendum /\ NewCouncilNotElected
    BY <2>3, NewPeriodTop DEF ConcludeReferendum, NewCouncilNotElected, Inactive
  <2>4. CASE NoReferendumProgress
    BY <1>1, <2>4 DEF NoReferendumProgress, councilVars
  <2> QED BY <1>4, <2>1, <2>2, <2>3, <2>4 DEF ReferendumOnInitialize
<1>5. CASE Extrinsic
  <2>1. ASSUME NEW m \in Members, NEW a \in Accounts, NEW s \in CandidateStakes,
               AnnounceCandidacy(m, a, s)
        PROVE  TopInv'
    <3>1. /\ stage.tag = "Announcing" /\ refStage' = refStage
          /\ candidates' = [candidates EXCEPT ![m] =
                               [staking_account_id |-> a, stake |-> s,
                                cycle_id |-> announcementPeriodNr,
                                vote_power |-> 0, note_hash |-> None]]
          /\ announcementPeriodNr' = announcementPeriodNr
      BY <2>1 DEF AnnounceCandidacy, CanAnnounceCandidacy, refVars
    <3>2. refStage.tag = "Inactive"
      BY <3>1 DEF IndInv, StagesAgree
    <3>3. \A k \in Members : candidates'[k].vote_power = 0
                             \/ candidates'[k] = candidates[k]
      BY <3>1 DEF IndInv, TypeOK
    <3>4. \A k \in Members : IsCurrentCandidate(k)' => candidates'[k].vote_power = 0
      BY <3>1, <3>3 DEF TopInv, NoPowerYet, IsCurrentCandidate
    <3> QED BY <3>1, <3>2, <3>4 DEF TopInv, NoPowerYet, WinnersAreTheTop
  <2>2. ASSUME NEW m \in Members, ReleaseCandidacyStake(m) \/ WithdrawCandidacy(m)
        PROVE  TopInv'
    <3>1. /\ IsCurrentCandidate(m) => stage.tag # "Election"
          /\ candidates' = [candidates EXCEPT ![m] = None]
          /\ UNCHANGED <<refStage, announcementPeriodNr>>
      BY <2>2 DEF ReleaseCandidacyStake, WithdrawCandidacy, RemoveCandidacy, refVars
    <3>2. stage'.tag = stage.tag
      BY <2>2 DEF ReleaseCandidacyStake, WithdrawCandidacy, IndInv, TypeOK, CouncilStages
    <3>3. \A k \in Members : candidates'[k] = IF k = m THEN None ELSE candidates[k]
      BY <3>1 DEF IndInv, TypeOK
    <3>4. \A k \in Members : IsCurrentCandidate(k)' =>
             IsCurrentCandidate(k) /\ candidates'[k].vote_power = candidates[k].vote_power
      BY <3>1, <3>3 DEF IsCurrentCandidate
    <3>5. refStage.tag = "Revealing" =>
             \A k \in Members : IsCurrentCandidate(k) => IsCurrentCandidate(k)'
      BY <3>1, <3>3 DEF IsCurrentCandidate, IndInv, StagesAgree
    <3> QED BY <3>1, <3>2, <3>4, <3>5, SameTop
  <2>3. ASSUME NEW m \in Members, NEW note \in Notes, SetCandidacyNote(m, note)
        PROVE  TopInv'
    <3>1. \A k \in Members : /\ IsCurrentCandidate(k)' <=> IsCurrentCandidate(k)
                             /\ IsCurrentCandidate(k) =>
                                   candidates'[k].vote_power = candidates[k].vote_power
      BY <2>3, NoteStep DEF SameCandidacies, IsCurrentCandidate
    <3> QED BY <2>3, <3>1, NoteStep, SameTop
  <2>4. ASSUME \/ \E a \in Voters, c \in Members \cup {None}, s \in VoteStakes : Vote(a, c, s)
               \/ \E a \in Voters : ReleaseVoteStake(a)
               \/ BudgetExtrinsic /\ UNCHANGED <<refVars, locks, councilMembers, councilVars>>
        PROVE  TopInv'
    BY <1>1, <2>4 DEF Vote, ReleaseVoteStake, ReferendumVote, ReferendumReleaseVoteStake,
                      councilVars, refVars
  <2> QED BY <1>5, <2>1, <2>2, <2>3, <2>4, RevealTop DEF Extrinsic
<1> QED BY <1>2, <1>3, <1>4, <1>5 DEF Next

(* While votes are revealed, the intermediate winners are exactly the top  *)
(* of the ranking of the candidates, for every list length and any order   *)
(* of reveals.                                                             *)
THEOREM RankingIsRight == Spec => []WinnersAreTheTop
<1>1. Init => IndInv /\ CountInv /\ TopInv
  BY InitIndInv, InitCountInv
  DEF Init, ReferendumInit, Inactive, Idle, TopInv, NoPowerYet, WinnersAreTheTop
<1>2. (IndInv /\ CountInv /\ TopInv) /\ [Next]_vars => (IndInv /\ CountInv /\ TopInv)'
  BY NextIndInv, NextCountInv, NextTopInv
<1>3. IndInv /\ CountInv /\ TopInv => WinnersAreTheTop
  BY DEF TopInv
<1> QED BY <1>1, <1>2, <1>3, PTL DEF Spec

-----------------------------------------------------------------------------
(* What a step may never do.                                               *)

(* In an election, nobody who stands or has voted in this cycle backs out, *)
(* and a vote is revealed as it was cast.                                  *)
THEOREM ElectionsBind == Spec => ElectionBinding
<1> DEFINE Binding ==
        stage.tag = "Election" /\ announcementPeriodNr' = announcementPeriodNr =>
          /\ \A a \in Accounts :
                votes[a] # None /\ votes[a].cycle_id = announcementPeriodNr =>
                    /\ votes'[a] # None
                    /\ votes'[a].stake = votes[a].stake
                    /\ votes'[a].vote_for \in {votes[a].vote_for, votes[a].commitment}
          /\ \A m \in Members : IsCurrentCandidate(m) =>
                \/ candidates'[m] # None /\ candidates'[m].stake = candidates[m].stake
                \/ \E i \in 1 .. Len(councilMembers') :
                      /\ councilMembers'[i].membership_id = m
                      /\ councilMembers'[i].stake = candidates[m].stake
<1>1. IndInv /\ [Next]_vars => Binding
  <2> SUFFICES ASSUME IndInv, [Next]_vars, stage.tag = "Election",
                      announcementPeriodNr' = announcementPeriodNr
               PROVE  Binding
    OBVIOUS
  <2>1. ASSUME UNCHANGED votes, SameCandidacies PROVE Binding
    BY <2>1 DEF SameCandidacies, IsCurrentCandidate
  <2>2. ASSUME UNCHANGED <<votes, candidates>> PROVE Binding
    BY <2>1, <2>2 DEF SameCandidacies
  <2>3. CASE UNCHANGED vars \/ Horizon \/ CouncilOnInitialize
    BY <2>2, <2>3 DEF vars, Horizon, CouncilOnInitialize
  <2>4. CASE ReferendumOnInitialize
    <3>1. votes' = votes
      BY <2>4 DEF ReferendumOnInitialize
    <3>2. CASE ConcludeReferendum /\ ElectNewCouncil
      <4> SUFFICES ASSUME NEW m \in Members, IsCurrentCandidate(m), candidates'[m] = None
                   PROVE  \E i \in 1 .. Len(councilMembers') :
                             /\ councilMembers'[i].membership_id = m
                             /\ councilMembers'[i].stake = candidates[m].stake
        BY <3>1, <3>2, ElectionOutcome
      <4>1. PICK i \in 1 .. CouncilSize : Winners[i].option_id = m
        BY <3>2, ElectionOutcome DEF IsCurrentCandidate
      <4>2. /\ i \in 1 .. Len(councilMembers')
            /\ councilMembers'[i] = ElectedMember(m)
        BY <3>2, <4>1, ElectionOutcome
      <4> QED BY <4>2 DEF ElectedMember
    <3>3. CASE ~ (ConcludeReferendum /\ ElectNewCouncil)
      BY <2>2, <2>4, <3>1, <3>3
      DEF ReferendumOnInitialize, NewCouncilNotElected, NoReferendumProgress, councilVars
    <3> QED BY <3>2, <3>3
  <2>5. CASE Extrinsic
    <3>1. ASSUME NEW m \in Members, ReleaseCandidacyStake(m) PROVE Binding
      <4>1. ~ IsCurrentCandidate(m) /\ votes' = votes
            /\ candidates' = [candidates EXCEPT ![m] = None]
        BY <3>1 DEF ReleaseCandidacyStake, RemoveCandidacy, refVars
      <4>2. \A k \in Members : IsCurrentCandidate(k) => candidates'[k] = candidates[k]
        BY <4>1 DEF IndInv, TypeOK
      <4> QED BY <4>1, <4>2 DEF IsCurrentCandidate
    <3>2. ASSUME NEW a \in Voters, NEW c \in Members \cup {None}, NEW s \in VoteStakes,
                 Vote(a, c, s)
          PROVE  Binding
      <4>1. /\ votes[a] # None => votes[a].cycle_id # announcementPeriodNr
            /\ candidates' = candidates
            /\ \A b \in Accounts : b # a => votes'[b] = votes[b]
        BY <3>2 DEF Vote, ReferendumVote, CanVote, councilVars, IndInv, StagesAgree,
                    TypeOK, ReferendumTypeOK
      <4> QED BY <4>1 DEF IsCurrentCandidate
    <3>3. ASSUME NEW a \in Voters, NEW m \in Members, RevealVote(a, m) PROVE Binding
      <4>1. /\ SameCandidacies /\ SameVotes /\ votes[a].commitment = m
            /\ \A b \in Accounts : b # a => votes'[b] = votes[b]
            /\ votes'[a].vote_for = m
        BY <3>3, RevealStep
      <4> QED BY <4>1 DEF SameCandidacies, SameVotes, IsCurrentCandidate
    <3>4. ASSUME NEW a \in Voters, ReleaseVoteStake(a) PROVE Binding
      <4>1. /\ votes[a].cycle_id # announcementPeriodNr
            /\ candidates' = candidates
            /\ \A b \in Accounts : b # a => votes'[b] = votes[b]
        BY <3>4 DEF ReleaseVoteStake, ReferendumReleaseVoteStake, CanUnlockVoteStake,
                    councilVars, IndInv, TypeOK, ReferendumTypeOK
      <4> QED BY <4>1 DEF IsCurrentCandidate
    <3>5. ASSUME NEW m \in Members, NEW note \in Notes, SetCandidacyNote(m, note)
          PROVE  Binding
      BY <2>1, <3>5, NoteStep
    <3> HIDE DEF Binding
    <3> QED BY <2>2, <2>5, <3>1, <3>2, <3>3, <3>4, <3>5
            DEF Extrinsic, AnnounceCandidacy, CanAnnounceCandidacy, WithdrawCandidacy,
                refVars, councilVars
  <2> QED BY <2>3, <2>4, <2>5 DEF Next
<1>2. IndInv /\ [Next]_vars => [Binding]_vars
  BY <1>1
<1> QED BY <1>2, StageMachine, PTL DEF Spec, ElectionBinding

(* The voters behind a sitting councilor keep vote and stake until the     *)
(* next announcing period.                                                 *)
THEOREM WinningVotesKept == Spec => WinningVotesStay
<1> DEFINE Stays(a) ==
        (/\ votes[a] # None /\ votes[a].cycle_id = announcementPeriodNr
         /\ \E i \in 1 .. Len(councilMembers) :
               councilMembers[i].membership_id = votes[a].vote_for
         /\ announcementPeriodNr' = announcementPeriodNr)
           => votes'[a] = votes[a] /\ locks'["voting"][a] = locks["voting"][a]
<1>1. IndInv /\ StakeInv /\ [Next]_vars => \A a \in Accounts : Stays(a)
  <2> SUFFICES ASSUME IndInv, StakeInv, [Next]_vars, NEW a \in Accounts,
                      votes[a] # None, votes[a].cycle_id = announcementPeriodNr,
                      NEW i \in 1 .. Len(councilMembers),
                      councilMembers[i].membership_id = votes[a].vote_for
               PROVE  votes'[a] = votes[a] /\ locks'["voting"][a] = locks["voting"][a]
    OBVIOUS
  <2>0. /\ locks \in LockTables /\ votes \in [Accounts -> CastVote \cup {None}]
        /\ "voting" \in LockIds /\ "candidacy" \in LockIds
        /\ \A m \in Members : candidates[m] # None =>
              candidates[m].staking_account_id \in Accounts
    BY ReferendumAssumption, CouncilAssumption
    DEF IndInv, TypeOK, ReferendumTypeOK, Candidate
  <2>1. votes[a].vote_for # None
    <3>1. councilMembers[i].membership_id \in Members
      BY CouncilorRecords DEF CouncilMember
    <3> QED BY <3>1, ReferendumAssumption
  <2>2. CASE UNCHANGED vars \/ Horizon \/ CouncilOnInitialize
    BY <2>2 DEF vars, Horizon, CouncilOnInitialize
  <2>3. CASE ReferendumOnInitialize
    <3>1. votes' = votes
      BY <2>3 DEF ReferendumOnInitialize
    <3>2. CASE ConcludeReferendum /\ ElectNewCouncil
      BY <2>0, <3>1, <3>2, ElectionLocks
    <3>3. CASE ~ (ConcludeReferendum /\ ElectNewCouncil)
      BY <2>3, <3>1, <3>3 DEF ReferendumOnInitialize, NewCouncilNotElected,
                              NoReferendumProgress
    <3> QED BY <3>2, <3>3
  <2>4. CASE Extrinsic
    <3>1. ASSUME NEW m \in Members, NEW b \in Accounts, NEW s \in CandidateStakes,
                 AnnounceCandidacy(m, b, s)
          PROVE  votes'[a] = votes[a] /\ locks'["voting"][a] = locks["voting"][a]
      <4> DEFINE released == IF candidates[m] = None THEN locks
                             ELSE RemoveLock(locks, "candidacy",
                                             candidates[m].staking_account_id)
      <4>1. locks' = SetLock(released, "candidacy", b, s) /\ votes' = votes
        BY <3>1 DEF AnnounceCandidacy, refVars
      <4>2. released \in LockTables /\ released["voting"] = locks["voting"]
        BY <2>0 DEF RemoveLock, LockTables
      <4> HIDE DEF released
      <4> QED BY <2>0, <4>1, <4>2 DEF SetLock, LockTables
    <3>2. ASSUME NEW m \in Members, ReleaseCandidacyStake(m) \/ WithdrawCandidacy(m)
          PROVE  votes'[a] = votes[a] /\ locks'["voting"][a] = locks["voting"][a]
      BY <2>0, <3>2 DEF ReleaseCandidacyStake, WithdrawCandidacy, RemoveCandidacy, refVars,
                        RemoveLock, LockTables
    <3>3. ASSUME NEW b \in Voters, NEW c \in Members \cup {None}, NEW s \in VoteStakes,
                 Vote(b, c, s)
          PROVE  votes'[a] = votes[a] /\ locks'["voting"][a] = locks["voting"][a]
      <4>1. a # b
        BY <3>3 DEF Vote, ReferendumVote, CanVote, IndInv, StagesAgree
      <4> QED BY <2>0, <3>3, <4>1 DEF Vote, ReferendumVote, SetLock, LockTables
    <3>4. ASSUME NEW b \in Voters, NEW m \in Members, RevealVote(b, m)
          PROVE  votes'[a] = votes[a] /\ locks'["voting"][a] = locks["voting"][a]
      BY <2>1, <3>4, RevealStep
    <3>5. ASSUME NEW b \in Voters, ReleaseVoteStake(b)
          PROVE  votes'[a] = votes[a] /\ locks'["voting"][a] = locks["voting"][a]
      <4>1. a # b
        BY <3>5 DEF ReleaseVoteStake, ReferendumReleaseVoteStake, CanUnlockVoteStake
      <4> QED BY <2>0, <3>5, <4>1 DEF ReleaseVoteStake, ReferendumReleaseVoteStake,
                                      RemoveLock, LockTables
    <3>6. ASSUME NEW m \in Members, NEW note \in Notes, SetCandidacyNote(m, note)
          PROVE  votes'[a] = votes[a] /\ locks'["voting"][a] = locks["voting"][a]
      BY <3>6, NoteStep
    <3> QED BY <2>4, <3>1, <3>2, <3>3, <3>4, <3>5, <3>6 DEF Extrinsic, refVars
  <2> QED BY <2>2, <2>3, <2>4 DEF Next
<1>2. IndInv /\ StakeInv /\ [Next]_vars => [\A a \in Accounts : Stays(a)]_vars
  BY <1>1
<1> QED BY <1>2, StakesInvariant, PTL DEF Spec, WinningVotesStay

-----------------------------------------------------------------------------
(* The power of the candidates.                                            *)

(* The accounts whose votes have been revealed for a candidate. *)
Backers(m) ==
    {a \in Accounts : /\ votes[a] # None
                      /\ votes[a].cycle_id = announcementPeriodNr
                      /\ votes[a].vote_for = m}

(* No vote is of a later cycle, none of this cycle while candidates        *)
(* announce, and none is revealed while votes are cast.                    *)
VotesInTime ==
    /\ \A a \in Accounts : votes[a] # None => votes[a].cycle_id <= announcementPeriodNr
    /\ stage.tag = "Announcing" =>
          \A a \in Accounts : votes[a] # None => votes[a].cycle_id # announcementPeriodNr
    /\ refStage.tag = "Voting" =>
          \A a \in Accounts : votes[a] # None /\ votes[a].cycle_id = announcementPeriodNr
                               => votes[a].vote_for = None

PowerRevealed ==
    stage.tag = "Election" =>
        \A m \in Members : IsCurrentCandidate(m) =>
            /\ IsFiniteSet(Backers(m))
            /\ candidates[m].vote_power = SumOver(locks["voting"], Backers(m))

PowerInv == VotesInTime /\ PowerRevealed

(* PowerRevealed is the property, with finitely many backers. *)
LEMMA PowerRevealedSum == PowerRevealed => PowerIsRevealedStake
  BY DEF PowerRevealed, PowerIsRevealedStake, SumOver, Backers

(* While votes are cast, nobody has a backer, nor power. *)
LEMMA PowerWhileVoting ==
    ASSUME NoPowerYet, VotesInTime, refStage.tag = "Voting"
    PROVE  PowerRevealed
<1>1. \A m \in Members : Backers(m) = {}
  BY ReferendumAssumption DEF VotesInTime, Backers
<1>2. SumOver(locks["voting"], {}) = 0 /\ IsFiniteSet({})
  <2>1. Summable(locks["voting"], {})
    BY FS_EmptySet DEF Summable
  <2> QED BY <2>1, SumType, FS_EmptySet
<1> QED BY <1>1, <1>2 DEF NoPowerYet, PowerRevealed

(* Steps of an election that keep everybody's backers and power. *)
LEMMA SamePower ==
    ASSUME IndInv, PowerRevealed, UNCHANGED <<stage, announcementPeriodNr>>,
           \A m \in Members : IsCurrentCandidate(m)' =>
               /\ IsCurrentCandidate(m)
               /\ candidates'[m].vote_power = candidates[m].vote_power,
           stage.tag = "Election" =>
               \A m \in Members :
                   /\ Backers(m)' = Backers(m)
                   /\ \A a \in Backers(m) : locks'["voting"][a] = locks["voting"][a]
    PROVE  PowerRevealed'
<1> SUFFICES ASSUME stage.tag = "Election", NEW m \in Members, IsCurrentCandidate(m)'
             PROVE  /\ IsFiniteSet(Backers(m)')
                    /\ candidates'[m].vote_power = SumOver(locks'["voting"], Backers(m)')
  BY DEF PowerRevealed
<1>1. /\ IsFiniteSet(Backers(m)) /\ Backers(m)' = Backers(m)
      /\ candidates'[m].vote_power = SumOver(locks["voting"], Backers(m))
  BY DEF PowerRevealed
<1>2. \A a \in Backers(m) : locks["voting"][a] \in Int
  BY ReferendumAssumption DEF IndInv, TypeOK, ReferendumTypeOK, LockTables, Backers
<1>3. SumOver(locks["voting"], Backers(m)) = SumOver(locks'["voting"], Backers(m))
  BY <1>1, <1>2, SumSame DEF Summable
<1> QED BY <1>1, <1>3

(* A revealed vote adds its account to the backers and its stake to the    *)
(* power of one candidate.                                                 *)
LEMMA RevealPower ==
    ASSUME IndInv, StakeInv, PowerInv, NEW a \in Voters, NEW m \in Members, RevealVote(a, m)
    PROVE  PowerRevealed'
<1>1. /\ SameCandidacies /\ SameVotes /\ a \in Accounts
      /\ refStage.tag = "Revealing" /\ votes[a] \in CastVote
      /\ votes[a].cycle_id = announcementPeriodNr /\ votes[a].vote_for = None
      /\ \A k \in Members : candidates[k] # None =>
            candidates'[k].vote_power =
               IF k = m THEN candidates[k].vote_power + votes[a].stake
               ELSE candidates[k].vote_power
      /\ \A b \in Accounts : b # a => votes'[b] = votes[b]
      /\ votes'[a].vote_for = m
      /\ UNCHANGED <<locks, stage, announcementPeriodNr>>
  BY RevealStep
<1>2. stage.tag = "Election" /\ votes[a] # None
  BY <1>1, NoneIsNoVote DEF IndInv, StagesAgree
<1>3. \A k \in Members : Backers(k)' = IF k = m THEN Backers(k) \cup {a} ELSE Backers(k)
  <2> TAKE k \in Members
  <2>1. k # None
    BY ReferendumAssumption
  <2> QED BY <1>1, <1>2, <2>1 DEF Backers, SameVotes
<1>4. \A k \in Members : a \notin Backers(k)
  BY <1>1, ReferendumAssumption DEF Backers
<1>5. locks["voting"][a] = votes[a].stake /\ votes[a].stake \in Nat
  BY <1>1, <1>2 DEF StakeInv, StakesMatchRecords, VoteStakesLocked, CastVote
<1> SUFFICES ASSUME NEW k \in Members, IsCurrentCandidate(k)'
             PROVE  /\ IsFiniteSet(Backers(k)')
                    /\ candidates'[k].vote_power = SumOver(locks["voting"], Backers(k)')
  BY <1>1 DEF PowerRevealed
<1>6. IsCurrentCandidate(k) /\ candidates[k] # None
  BY <1>1 DEF IsCurrentCandidate, SameCandidacies
<1>7. /\ IsFiniteSet(Backers(k))
      /\ candidates[k].vote_power = SumOver(locks["voting"], Backers(k))
  BY <1>2, <1>6 DEF PowerInv, PowerRevealed
<1>8. \A b \in Accounts : locks["voting"][b] \in Int
  BY ReferendumAssumption DEF IndInv, TypeOK, ReferendumTypeOK, LockTables
<1>9. CASE k = m
  <2>1. Backers(k)' = Backers(k) \cup {a}
    BY <1>3, <1>9
  <2>2. IsFiniteSet(Backers(k) \cup {a})
    BY <1>7, FS_AddElement
  <2>3. \A b \in Backers(k) \cup {a} : locks["voting"][b] \in Int
    BY <1>1, <1>8 DEF Backers
  <2>4. SumOver(locks["voting"], Backers(k) \cup {a})
           = locks["voting"][a] + SumOver(locks["voting"], Backers(k))
    BY <1>4, <2>2, <2>3, SumAdd DEF Summable
  <2>5. candidates'[k].vote_power = candidates[k].vote_power + votes[a].stake
    BY <1>1, <1>6, <1>9
  <2>6. candidates[k].vote_power \in Nat
    BY <1>6 DEF IndInv, TypeOK, Candidate
  <2>7. candidates'[k].vote_power = locks["voting"][a] + SumOver(locks["voting"], Backers(k))
    BY <1>5, <1>7, <2>5, <2>6
  <2> QED BY <2>1, <2>2, <2>4, <2>7
<1>10. CASE k # m
  BY <1>1, <1>3, <1>6, <1>7, <1>10
<1> QED BY <1>9, <1>10

(* A new period begins after every vote. *)
LEMMA NewPeriodVotes ==
    ASSUME IndInv, VotesInTime, NEW n, StartAnnouncingPeriod(n), UNCHANGED votes,
           refStage'.tag = "Inactive"
    PROVE  VotesInTime'
<1>1. \A a \in Accounts : votes[a] # None =>
         /\ votes[a].cycle_id <= announcementPeriodNr'
         /\ votes[a].cycle_id # announcementPeriodNr'
  BY DEF StartAnnouncingPeriod, VotesInTime, IndInv, TypeOK, ReferendumTypeOK, CastVote
<1> QED BY <1>1 DEF VotesInTime

(* Votes are cast and revealed only in the stages meant for it. *)
LEMMA NextVotesInTime == IndInv /\ VotesInTime /\ [Next]_vars => VotesInTime'
<1> SUFFICES ASSUME IndInv, VotesInTime, [Next]_vars PROVE VotesInTime'
  OBVIOUS
<1>0. votes \in [Accounts -> CastVote \cup {None}] /\ announcementPeriodNr \in Nat
  BY DEF IndInv, TypeOK, ReferendumTypeOK
<1>1. ASSUME UNCHANGED <<refStage, votes, announcementPeriodNr>>, stage'.tag = stage.tag
      PROVE  VotesInTime'
  BY <1>1 DEF VotesInTime
<1>2. CASE UNCHANGED vars \/ Horizon
  BY <1>1, <1>2 DEF vars, Horizon
<1>3. CASE CouncilOnInitialize
  <2>1. votes' = votes /\ TryProgressStage(now + 1)
    BY <1>3 DEF CouncilOnInitialize
  <2>2. CASE EndIdlePeriod(now + 1) \/ RestartAnnouncing(now + 1)
    <3>1. StartAnnouncingPeriod(now + 1) /\ refStage' = refStage
          /\ stage.tag \in {"Idle", "Announcing"}
      BY <2>2 DEF EndIdlePeriod, RestartAnnouncing
    <3>2. refStage'.tag = "Inactive"
      BY <3>1 DEF IndInv, StagesAgree
    <3> QED BY <2>1, <3>1, <3>2, NewPeriodVotes
  <2>3. CASE FinalizeAnnouncingPeriod(now + 1)
    <3>1. /\ stage.tag = "Announcing" /\ stage'.tag = "Election"
          /\ announcementPeriodNr' = announcementPeriodNr
      BY <2>3 DEF FinalizeAnnouncingPeriod, Election
    <3> QED BY <2>1, <3>1 DEF VotesInTime
  <2>4. CASE NoCouncilProgress(now + 1)
    BY <1>1, <2>1, <2>4 DEF NoCouncilProgress
  <2> QED BY <2>1, <2>2, <2>3, <2>4 DEF TryProgressStage
<1>4. CASE ReferendumOnInitialize
  <2>0. votes' = votes
    BY <1>4 DEF ReferendumOnInitialize
  <2>1. CASE EndVotingPeriod /\ UNCHANGED councilVars
    BY <2>0, <2>1 DEF EndVotingPeriod, councilVars, Revealing, VotesInTime
  <2>2. CASE ConcludeReferendum /\ ElectNewCouncil
    BY <2>0, <2>2 DEF ConcludeReferendum, ElectNewCouncil, Inactive, Idle, VotesInTime
  <2>3. CASE ConcludeReferendum /\ NewCouncilNotElected
    BY <2>0, <2>3, NewPeriodVotes DEF ConcludeReferendum, NewCouncilNotElected, Inactive
  <2>4. CASE NoReferendumProgress
    BY <1>1, <2>0, <2>4 DEF NoReferendumProgress, councilVars
  <2> QED BY <1>4, <2>1, <2>2, <2>3, <2>4 DEF ReferendumOnInitialize
<1>5. CASE Extrinsic
  <2>1. ASSUME NEW m \in Members, NEW a \in Accounts, NEW s \in CandidateStakes,
               AnnounceCandidacy(m, a, s)
        PROVE  VotesInTime'
    BY <1>1, <2>1 DEF AnnounceCandidacy, CanAnnounceCandidacy, refVars, IndInv, TypeOK,
                      CouncilStages
  <2>2. ASSUME NEW m \in Members, ReleaseCandidacyStake(m) \/ WithdrawCandidacy(m)
        PROVE  VotesInTime'
    BY <1>1, <2>2 DEF ReleaseCandidacyStake, WithdrawCandidacy, refVars, IndInv, TypeOK,
                      CouncilStages
  <2>3. ASSUME NEW m \in Members, NEW note \in Notes, SetCandidacyNote(m, note)
        PROVE  VotesInTime'
    BY <1>1, <2>3 DEF SetCandidacyNote, refVars
  <2>4. ASSUME NEW a \in Voters, NEW c \in Members \cup {None}, NEW s \in VoteStakes,
               Vote(a, c, s)
        PROVE  VotesInTime'
    <3> DEFINE vote == [commitment |-> c, stake |-> s,
                        cycle_id |-> refStage.current_cycle_id, vote_for |-> None]
    <3>1. /\ refStage.tag = "Voting" /\ refStage' = refStage
          /\ votes' = [votes EXCEPT ![a] = vote]
          /\ UNCHANGED <<stage, announcementPeriodNr>>
      BY <2>4 DEF Vote, ReferendumVote, CanVote, councilVars
    <3>2. vote.cycle_id = announcementPeriodNr /\ vote.vote_for = None
      BY <3>1 DEF IndInv, StagesAgree
    <3> HIDE DEF vote
    <3>3. \A b \in Accounts : votes'[b] = IF b = a THEN vote ELSE votes[b]
      BY <1>0, <3>1
    <3>4. stage.tag # "Announcing"
      BY <3>1 DEF IndInv, StagesAgree
    <3> QED BY <1>0, <3>1, <3>2, <3>3, <3>4 DEF VotesInTime
  <2>5. ASSUME NEW a \in Voters, NEW m \in Members, RevealVote(a, m)
        PROVE  VotesInTime'
    <3>1. /\ SameVotes /\ UNCHANGED <<stage, announcementPeriodNr>>
          /\ refStage.tag = "Revealing"
      BY <2>5, RevealStep
    <3>2. refStage'.tag = "Revealing"
      BY <2>5, <3>1 DEF RevealVote, ReferendumRevealVote, IndInv, TypeOK, ReferendumTypeOK,
                        Inactive, VotingStages, RevealingStages
    <3> QED BY <3>1, <3>2 DEF VotesInTime, SameVotes
  <2>6. ASSUME NEW a \in Voters, ReleaseVoteStake(a)
        PROVE  VotesInTime'
    <3>1. /\ votes' = [votes EXCEPT ![a] = None]
          /\ UNCHANGED <<refStage, stage, announcementPeriodNr>>
      BY <2>6 DEF ReleaseVoteStake, ReferendumReleaseVoteStake, councilVars
    <3>2. \A b \in Accounts : votes'[b] = IF b = a THEN None ELSE votes[b]
      BY <1>0, <3>1
    <3> QED BY <3>1, <3>2 DEF VotesInTime
  <2>7. CASE BudgetExtrinsic /\ UNCHANGED <<refVars, locks, councilMembers, councilVars>>
    BY <1>1, <2>7 DEF refVars, councilVars
  <2> QED BY <1>5, <2>1, <2>2, <2>3, <2>4, <2>5, <2>6, <2>7 DEF Extrinsic
<1> QED BY <1>2, <1>3, <1>4, <1>5 DEF Next

(* The power of every candidate stays the sum of the stakes revealed for   *)
(* them: outside Voting by the steps that reveal, in Voting because nobody *)
(* has power yet.                                                          *)
LEMMA NextPowerInv ==
    IndInv /\ StakeInv /\ CountInv /\ TopInv /\ PowerInv /\ [Next]_vars => PowerInv'
<1> SUFFICES ASSUME IndInv, StakeInv, CountInv, TopInv, PowerInv, [Next]_vars
             PROVE  PowerInv'
  OBVIOUS
<1>0. VotesInTime' /\ NoPowerYet'
  BY NextVotesInTime, NextTopInv DEF PowerInv, TopInv
<1> SUFFICES PowerRevealed'
  BY <1>0 DEF PowerInv
<1>1. CASE refStage'.tag = "Voting"
  <2>1. (NoPowerYet /\ VotesInTime /\ refStage.tag = "Voting" => PowerRevealed)'
    BY PowerWhileVoting, PTL
  <2> QED BY <1>0, <1>1, <2>1
<1>2. ASSUME UNCHANGED <<stage, announcementPeriodNr, votes, locks, candidates>>
      PROVE  PowerRevealed'
  <2>1. \A m \in Members : /\ IsCurrentCandidate(m)' = IsCurrentCandidate(m)
                           /\ Backers(m)' = Backers(m)
    BY <1>2 DEF IsCurrentCandidate, Backers
  <2> QED BY <1>2, <2>1, SamePower DEF PowerInv
<1>3. CASE stage'.tag # "Election"
  BY <1>3 DEF PowerRevealed
<1>4. ASSUME refStage'.tag # "Voting", stage'.tag = "Election", ~ UNCHANGED vars
      PROVE  PowerRevealed'
  <2>0. Next
    BY <1>4
  <2>1. CASE Horizon
    BY <1>4, <2>1 DEF Horizon
  <2>2. CASE CouncilOnInitialize
    <3>1. UNCHANGED <<votes, locks, candidates>> /\ TryProgressStage(now + 1)
      BY <2>2 DEF CouncilOnInitialize
    <3>2. NoCouncilProgress(now + 1)
      BY <1>4, <3>1 DEF TryProgressStage, EndIdlePeriod, RestartAnnouncing,
         StartAnnouncingPeriod, Announcing, FinalizeAnnouncingPeriod, ForceStart, Voting
    <3> QED BY <1>2, <3>1, <3>2 DEF NoCouncilProgress
  <2>3. CASE ReferendumOnInitialize
    <3>1. CASE ConcludeReferendum /\ (ElectNewCouncil \/ NewCouncilNotElected)
      BY <1>4, <3>1 DEF ElectNewCouncil, NewCouncilNotElected, StartAnnouncingPeriod,
                        Idle, Announcing
    <3>2. CASE \/ EndVotingPeriod /\ UNCHANGED <<councilVars, councilMembers, locks, budgetVars>>
               \/ NoReferendumProgress
      BY <1>2, <2>3, <3>2 DEF ReferendumOnInitialize, NoReferendumProgress, councilVars
    <3> QED BY <2>3, <3>1, <3>2 DEF ReferendumOnInitialize
  <2>4. CASE Extrinsic
    <3>1. ASSUME NEW m \in Members, NEW a \in Accounts, NEW s \in CandidateStakes,
                 AnnounceCandidacy(m, a, s)
          PROVE  PowerRevealed'
      BY <1>4, <3>1 DEF AnnounceCandidacy, CanAnnounceCandidacy, IndInv, TypeOK, CouncilStages
    <3>2. ASSUME NEW m \in Members, ReleaseCandidacyStake(m)
          PROVE  PowerRevealed'
      <4>1. /\ ~ IsCurrentCandidate(m) /\ candidates[m] # None
            /\ candidates' = [candidates EXCEPT ![m] = None]
            /\ locks' = RemoveLock(locks, "candidacy", candidates[m].staking_account_id)
            /\ UNCHANGED <<stage, announcementPeriodNr, votes>>
        BY <1>4, <3>2 DEF ReleaseCandidacyStake, RemoveCandidacy, refVars
      <4>2. \A k \in Members : candidates'[k] = IF k = m THEN None ELSE candidates[k]
        BY <4>1 DEF IndInv, TypeOK
      <4>3. \A k \in Members : IsCurrentCandidate(k)' =>
               IsCurrentCandidate(k) /\ candidates'[k].vote_power = candidates[k].vote_power
        BY <4>1, <4>2 DEF IsCurrentCandidate
      <4>4. \A k \in Members : Backers(k)' = Backers(k)
        BY <4>1 DEF Backers
      <4>5. locks'["voting"] = locks["voting"]
        BY <4>1, ReferendumAssumption, CouncilAssumption
        DEF RemoveLock, LockTables, IndInv, TypeOK, ReferendumTypeOK
      <4> QED BY <4>1, <4>3, <4>4, <4>5, SamePower DEF PowerInv
    <3>3. ASSUME NEW m \in Members, WithdrawCandidacy(m)
          PROVE  PowerRevealed'
      BY <1>4, <3>3 DEF WithdrawCandidacy, IndInv, TypeOK, CouncilStages
    <3>4. ASSUME NEW m \in Members, NEW note \in Notes, SetCandidacyNote(m, note)
          PROVE  PowerRevealed'
      <4>1. \A k \in Members : /\ IsCurrentCandidate(k)' => IsCurrentCandidate(k)
                               /\ IsCurrentCandidate(k) =>
                                     candidates'[k].vote_power = candidates[k].vote_power
        BY <3>4, NoteStep DEF SameCandidacies, IsCurrentCandidate
      <4>2. \A k \in Members : Backers(k)' = Backers(k)
        BY <3>4, NoteStep DEF Backers
      <4> QED BY <3>4, <4>1, <4>2, NoteStep, SamePower DEF PowerInv
    <3>5. ASSUME NEW a \in Voters, NEW c \in Members \cup {None}, NEW s \in VoteStakes,
                 Vote(a, c, s)
          PROVE  PowerRevealed'
      BY <1>4, <3>5 DEF Vote, ReferendumVote, CanVote
    <3>6. ASSUME NEW a \in Voters, ReleaseVoteStake(a)
          PROVE  PowerRevealed'
      <4>1. /\ votes' = [votes EXCEPT ![a] = None]
            /\ locks' = RemoveLock(locks, "voting", a)
            /\ UNCHANGED <<stage, announcementPeriodNr, candidates>>
            /\ votes[a].cycle_id # announcementPeriodNr
        BY <1>4, <3>6
        DEF ReleaseVoteStake, ReferendumReleaseVoteStake, councilVars, CanUnlockVoteStake
      <4>2. \A b \in Accounts : votes'[b] = IF b = a THEN None ELSE votes[b]
        BY <4>1 DEF IndInv, TypeOK, ReferendumTypeOK
      <4>3. \A k \in Members : Backers(k)' = Backers(k)
        BY <4>1, <4>2 DEF Backers
      <4>4. \A k \in Members : \A b \in Backers(k) :
               locks'["voting"][b] = locks["voting"][b]
        <5>1. \A k \in Members : a \notin Backers(k) /\ Backers(k) \subseteq Accounts
          BY <4>1 DEF Backers
        <5>2. \A b \in Accounts : b # a => locks'["voting"][b] = locks["voting"][b]
          BY <4>1, ReferendumAssumption
          DEF RemoveLock, LockTables, IndInv, TypeOK, ReferendumTypeOK
        <5> QED BY <5>1, <5>2
      <4>5. \A k \in Members : IsCurrentCandidate(k)' => IsCurrentCandidate(k)
        BY <4>1 DEF IsCurrentCandidate
      <4> QED BY <4>1, <4>3, <4>4, <4>5, SamePower DEF PowerInv
    <3>7. CASE BudgetExtrinsic /\ UNCHANGED <<refVars, locks, councilMembers, councilVars>>
      BY <1>2, <3>7 DEF refVars, councilVars
    <3> QED BY <2>4, <3>1, <3>2, <3>3, <3>4, <3>5, <3>6, <3>7, RevealPower DEF Extrinsic
  <2> QED BY <2>0, <2>1, <2>2, <2>3, <2>4 DEF Next
<1>5. CASE UNCHANGED vars
  BY <1>2, <1>5 DEF vars
<1> QED BY <1>1, <1>3, <1>4, <1>5

(* Throughout an election a candidate's power is the sum of the stakes     *)
(* revealed for them that are still locked: increase_option_power is       *)
(* called once per vote, and no such stake is released meanwhile.          *)
THEOREM PowerIsTheStake == Spec => []PowerIsRevealedStake
<1> DEFINE Inv == IndInv /\ StakeInv /\ CountInv /\ TopInv /\ PowerInv
<1>1. Init => Inv
  <2>1. Init => TopInv /\ PowerInv
    BY DEF Init, ReferendumInit, Inactive, Idle, TopInv, NoPowerYet, WinnersAreTheTop,
           PowerInv, VotesInTime, PowerRevealed
  <2> QED BY <2>1, InitIndInv, InitStakeInv, InitCountInv
<1>2. Inv /\ [Next]_vars => Inv'
  BY NextIndInv, NextStakeInv, NextCountInv, NextTopInv, NextPowerInv
<1>3. Inv => PowerIsRevealedStake
  BY PowerRevealedSum DEF PowerInv
<1> QED BY <1>1, <1>2, <1>3, PTL DEF Spec
=============================================================================
