--------------------------- MODULE Knowledge_proofs ---------------------------
(***************************************************************************)
(* Proofs about the knowledge a project keeps, for every value of the      *)
(* constants: Instincts, and the map (Cartography).                        *)
(*                                                                         *)
(* Instincts.  PromotionIsStored is not inductive: a review that has yet   *)
(* to write its decision may write any.  The invariant follows the         *)
(* provenance of the content from the candidate through the job into the   *)
(* Instinct, and says who owns a torn file.  HeirIsActive needs that every *)
(* set of Instincts has one the set does not supersede.                    *)
(*                                                                         *)
(* The map.  What a refresh accounts for and what loads back holds for any *)
(* number of clients; what the three files say of one another holds for    *)
(* one client, because nothing locks them.                                 *)
(***************************************************************************)
EXTENDS Instincts, Cartography, SequenceTheorems, FiniteSetTheorems, TLAPS

Jobs ==
    {Idle} \cup [at : {"store", "fill"}, of : Ids, is : Contents]
           \cup [at : {"decide", "record"}, of : Ids, accepted : 0..N]

CandidateFiles == {None} \cup {Full(c) : c \in Contents}

TypeInv ==
    /\ candidates \in [Ids -> CandidateFiles]
    /\ decisions \in [Ids -> Files(Decision)]
    /\ intel \in [Ids -> Files(Contents)]
    /\ job \in [Reviewers -> Jobs]

\* A candidate and an Instinct lie under their own identifiers.
Filed ==
    /\ \A i \in Ids : candidates[i] # None => candidates[i].is.id = i /\ candidates[i].is.of = i
    /\ \A i \in Known : intel[i].is.id = i
    /\ \A i \in Ids : decisions[i] # None => candidates[i] # None

\* The Instinct a stands for the candidate i.
StandsFor(a, i) == a = 0 \/ (a \in Known /\ intel[a].is.of = i)

\* What a review carries is about its candidate, and what it created is its own.
JobInv ==
    \A r \in Reviewers :
        /\ job[r] # Idle => candidates[job[r].of] # None
        /\ job[r].at \in {"store", "fill"} => job[r].is.of = job[r].of
        /\ job[r].at = "fill" => intel[job[r].is.id] = Torn
        /\ job[r].at \in {"decide", "record"} => StandsFor(job[r].accepted, job[r].of)

OwnerInv ==
    \A r, s \in Reviewers :
        job[r].at = "fill" /\ job[s].at = "fill" /\ job[r].is.id = job[s].is.id => r = s

DecisionInv == \A i \in Ids : Decided(i) => StandsFor(decisions[i].is.accepted, i)

Inv == TypeInv /\ Filed /\ JobInv /\ OwnerInv /\ DecisionInv

-----------------------------------------------------------------------------

LEMMA InitInv == Init => Inv
  BY SMT DEF Init, Inv, TypeInv, CandidateFiles, Files, Jobs, Filed, JobInv, OwnerInv,
     DecisionInv, Decided, Known, Idle, None, Torn

\* What the invariant implies: the two properties that the runs check.
LEMMA InvTypeOK == Inv => TypeOK
  BY SMT DEF Inv, TypeInv, Filed, TypeOK, CandidateFiles, Files

LEMMA InvPromotion == Inv => PromotionIsStored
  BY SMT DEF Inv, TypeInv, DecisionInv, PromotionIsStored, Promoted, Decided, StandsFor, Known

-----------------------------------------------------------------------------
(* The actions *)

LEMMA ProposeInv == ASSUME Inv, Propose PROVE Inv'
<1>1. PICK c \in Contents :
         /\ c.id = c.of /\ candidates[c.id] = None
         /\ candidates' = [candidates EXCEPT ![c.id] = Full(c)]
  BY DEF Propose, StoreCandidate
<1>2. UNCHANGED <<decisions, intel, job>>
  BY DEF Propose
<1>3. c.id \in Ids /\ Full(c) # None /\ Full(c).is = c /\ Full(c) \in CandidateFiles
  BY SMT DEF Contents, Full, None, CandidateFiles
<1>4. candidates'[c.id] = Full(c) /\ \A i \in Ids : i # c.id => candidates'[i] = candidates[i]
  BY <1>1, <1>3, SMT DEF Inv, TypeInv
<1>5. TypeInv'
  BY <1>1, <1>2, <1>3, SMT DEF Inv, TypeInv
<1>6. Filed'
  BY <1>1, <1>2, <1>3, <1>4, SMT DEF Inv, Filed, Known
<1>7. \A i \in Ids : candidates[i] # None => candidates'[i] # None
  BY <1>3, <1>4
<1>8. \A r \in Reviewers : job[r] # Idle => job[r].of \in Ids
  BY SMT DEF Inv, TypeInv, Jobs, Idle
<1>9. JobInv'
  BY <1>2, <1>7, <1>8, SMT DEF Inv, JobInv, StandsFor, Known
<1>10. OwnerInv' /\ DecisionInv'
  BY <1>2, SMT DEF Inv, OwnerInv, DecisionInv, Decided, StandsFor, Known
<1> QED BY <1>5, <1>6, <1>9, <1>10 DEF Inv

\* A review that begins carries a content of its own candidate.
LEMMA BeginsWith ==
  ASSUME NEW r \in Reviewers, Inv, UNCHANGED <<candidates, decisions, intel>>,
         NEW i \in Ids, candidates[i] # None, NEW j \in Jobs, j # Idle,
         job' = [job EXCEPT ![r] = j], j.of = i,
         (j.at = "store" /\ j.is.of = i) \/ (j.at = "decide" /\ j.accepted = 0)
  PROVE  Inv'
  BY SMT DEF Inv, TypeInv, Filed, JobInv, OwnerInv, DecisionInv, StandsFor, Known, Decided

LEMMA BeginInv ==
  ASSUME NEW r \in Reviewers, Inv, Accept(r) \/ EditThenAccept(r) \/ Reject(r) PROVE Inv'
<1>1. UNCHANGED <<candidates, decisions, intel>>
  BY DEF Accept, EditThenAccept, Reject
<1>2. ASSUME NEW i \in Ids, Undecided(i), NEW c \in Contents, c.of = i, Promoting(r, i, c)
      PROVE  Inv'
  <2> DEFINE j == [at |-> "store", of |-> i, is |-> c]
  <2>1. j \in Jobs /\ j # Idle /\ j.at = "store" /\ j.of = i /\ j.is.of = i
    BY <1>2, SMT DEF Jobs, Idle
  <2>2. candidates[i] # None /\ job' = [job EXCEPT ![r] = j]
    BY <1>2, SMT DEF Undecided, Promoting
  <2> HIDE DEF j
  <2>3. (j.at = "store" /\ j.is.of = i) \/ (j.at = "decide" /\ j.accepted = 0)
    BY <2>1, SMT
  <2>4. j \in Jobs /\ j # Idle /\ j.of = i
    BY <2>1, SMT
  <2> QED BY <1>1, <2>2, <2>3, <2>4, BeginsWith, Zenon
<1>3. ASSUME Accept(r) PROVE Inv'
  <2>1. PICK i \in Ids : Undecided(i) /\ Promoting(r, i, candidates[i].is)
    BY <1>3 DEF Accept
  <2>2. candidates[i].is \in Contents /\ candidates[i].is.of = i
    BY <2>1, SMT DEF Undecided, Inv, TypeInv, Filed, CandidateFiles, Full, None
  <2> QED BY <1>2, <2>1, <2>2
<1>4. ASSUME EditThenAccept(r) PROVE Inv'
  BY <1>2, <1>4 DEF EditThenAccept
<1>5. ASSUME Reject(r) PROVE Inv'
  <2> DEFINE j(i) == [at |-> "decide", of |-> i, accepted |-> 0]
  <2>1. PICK i \in Ids : Undecided(i) /\ job' = [job EXCEPT ![r] = j(i)]
    BY <1>5 DEF Reject
  <2>2. j(i) \in Jobs /\ j(i) # Idle /\ j(i).at = "decide" /\ j(i).of = i /\ j(i).accepted = 0
    BY InstinctBounds, SMT DEF Jobs, Idle
  <2>3. candidates[i] # None
    BY <2>1 DEF Undecided
  <2> HIDE DEF j
  <2> QED BY <1>1, <2>1, <2>2, <2>3, BeginsWith, Zenon
<1> QED BY <1>3, <1>4, <1>5

\* The file is there before it is filled: it is nobody's but the creator's.
LEMMA CreateInstinctInv == ASSUME NEW r \in Reviewers, Inv, CreateInstinct(r) PROVE Inv'
<1> DEFINE k == job[r].is.id
<1>1. /\ job[r] \in [at : {"store"}, of : Ids, is : Contents] /\ k \in Ids
      /\ intel[k] = None /\ intel' = [intel EXCEPT ![k] = Torn]
      /\ job' = [job EXCEPT ![r] = [at |-> "fill", of |-> job[r].of, is |-> job[r].is]]
      /\ UNCHANGED <<candidates, decisions>>
  <2>1. job[r] \in [at : {"store"}, of : Ids, is : Contents]
    BY SMT DEF CreateInstinct, Inv, TypeInv, Jobs, Idle
  <2>2. [job[r] EXCEPT !.at = "fill"] = [at |-> "fill", of |-> job[r].of, is |-> job[r].is]
    BY <2>1, SMT
  <2>3. k \in Ids
    BY <2>1, SMT DEF Contents
  <2> QED BY <2>1, <2>2, <2>3, Zenon DEF CreateInstinct
<1>2. Known' = Known /\ \A i \in Known : intel'[i] = intel[i]
  BY <1>1, SMT DEF Known, None, Torn, Inv, TypeInv
<1>3. TypeInv'
  BY <1>1, SMT DEF Inv, TypeInv, Jobs, Files, Torn
<1>4. Filed' /\ DecisionInv'
  BY <1>1, <1>2, SMT DEF Inv, Filed, DecisionInv, StandsFor, Decided
<1>5. JobInv' /\ OwnerInv'
  BY <1>1, <1>2, SMT DEF Inv, TypeInv, JobInv, OwnerInv, StandsFor, Idle, Jobs, None, Torn
<1> QED BY <1>3, <1>4, <1>5 DEF Inv

LEMMA FillInstinctInv == ASSUME NEW r \in Reviewers, Inv, FillInstinct(r) PROVE Inv'
<1> DEFINE k == job[r].is.id
<1>1. /\ job[r] \in [at : {"fill"}, of : Ids, is : Contents] /\ k \in Ids
      /\ intel[k] = Torn /\ intel' = [intel EXCEPT ![k] = Full(job[r].is)]
      /\ job' = [job EXCEPT ![r] = [at |-> "decide", of |-> job[r].of, accepted |-> k]]
      /\ job[r].is.of = job[r].of
      /\ UNCHANGED <<candidates, decisions>>
  BY SMT DEF FillInstinct, Inv, TypeInv, JobInv, Jobs, Idle, Contents
<1>2. Known' = Known \cup {k} /\ (\A i \in Known : intel'[i] = intel[i]) /\ intel'[k].is = job[r].is
  BY <1>1, SMT DEF Known, Torn, Full, Inv, TypeInv
<1>3. TypeInv'
  BY <1>1, SMT DEF Inv, TypeInv, Jobs, Files, Full, Ids
<1>4. Filed' /\ DecisionInv'
  <2>1. Filed'
    BY <1>1, <1>2, SMT DEF Inv, Filed
  <2>2. DecisionInv'
    BY <1>1, <1>2, SMT DEF Inv, DecisionInv, StandsFor, Decided
  <2> QED BY <2>1, <2>2
<1>5. JobInv' /\ OwnerInv'
  <2>1. job'[r].at = "decide" /\ \A s \in Reviewers : s # r => job'[s] = job[s]
    BY <1>1, SMT DEF Inv, TypeInv
  <2>2. OwnerInv'
    BY <2>1, SMT DEF Inv, OwnerInv
  <2>3. \A s \in Reviewers : s # r /\ job[s].at = "fill" => job[s].is.id # k
    BY <1>1, SMT DEF Inv, OwnerInv
  <2>4. JobInv'
    BY <1>1, <1>2, <2>3, SMT DEF Inv, TypeInv, JobInv, StandsFor, Idle, Jobs
  <2> QED BY <2>2, <2>4
<1> QED BY <1>3, <1>4, <1>5 DEF Inv

LEMMA CreateDecisionInv == ASSUME NEW r \in Reviewers, Inv, CreateDecision(r) PROVE Inv'
<1>1. /\ job[r] \in [at : {"decide"}, of : Ids, accepted : 0..N]
      /\ UNCHANGED <<candidates, intel>>
      /\ candidates[job[r].of] # None
  BY SMT DEF CreateDecision, Inv, TypeInv, JobInv, Jobs, Idle
<1>2. CASE decisions[job[r].of] = None
  <2>1. /\ decisions' = [decisions EXCEPT ![job[r].of] = Torn]
        /\ job' = [job EXCEPT ![r] = [at |-> "record", of |-> job[r].of,
                                       accepted |-> job[r].accepted]]
    BY <1>1, <1>2, SMT DEF CreateDecision, Inv, TypeInv
  <2>2. TypeInv'
    BY <1>1, <2>1, SMT DEF Inv, TypeInv, Jobs, Files, Torn
  <2>3. Filed'
    BY <1>1, <2>1, SMT DEF Inv, TypeInv, Filed, Known
  <2>4. DecisionInv'
    BY <1>1, <2>1, SMT DEF Inv, TypeInv, DecisionInv, Decided, StandsFor, Known, Torn
  <2>5. JobInv' /\ OwnerInv'
    BY <1>1, <2>1, SMT DEF Inv, TypeInv, JobInv, OwnerInv, StandsFor, Known, Idle
  <2> QED BY <2>2, <2>3, <2>4, <2>5 DEF Inv
<1>3. CASE decisions[job[r].of] # None
  <2>1. job' = [job EXCEPT ![r] = Idle] /\ decisions' = decisions
    BY <1>1, <1>3, SMT DEF CreateDecision
  <2>2. TypeInv'
    BY <1>1, <2>1, SMT DEF Inv, TypeInv, Jobs
  <2>3. Filed' /\ DecisionInv'
    BY <1>1, <2>1, SMT DEF Inv, Filed, DecisionInv, Decided, StandsFor, Known
  <2>4. JobInv' /\ OwnerInv'
    BY <1>1, <2>1, SMT DEF Inv, TypeInv, JobInv, OwnerInv, StandsFor, Known, Idle
  <2> QED BY <2>2, <2>3, <2>4 DEF Inv
<1> QED BY <1>2, <1>3

LEMMA RecordDecisionInv == ASSUME NEW r \in Reviewers, Inv, RecordDecision(r) PROVE Inv'
<1>1. /\ job[r] \in [at : {"record"}, of : Ids, accepted : 0..N]
      /\ candidates[job[r].of] # None /\ StandsFor(job[r].accepted, job[r].of)
      /\ decisions' = [decisions EXCEPT ![job[r].of] = Full([accepted |-> job[r].accepted])]
      /\ job' = [job EXCEPT ![r] = Idle]
      /\ UNCHANGED <<candidates, intel>>
  BY SMT DEF RecordDecision, Inv, TypeInv, JobInv, Jobs, Idle
<1>2. TypeInv'
  BY <1>1, SMT DEF Inv, TypeInv, Jobs, Files, Full, Decision
<1>3. Filed'
  BY <1>1, SMT DEF Inv, TypeInv, Filed, Known
<1>4. DecisionInv'
  BY <1>1, SMT DEF Inv, TypeInv, DecisionInv, Decided, StandsFor, Known, Full
<1>5. JobInv' /\ OwnerInv'
  BY <1>1, SMT DEF Inv, TypeInv, JobInv, OwnerInv, StandsFor, Known, Idle
<1> QED BY <1>2, <1>3, <1>4, <1>5 DEF Inv

\* A refusal and a death end the review and leave every file.
LEMMA EndInv == ASSUME NEW r \in Reviewers, Inv, RefuseInstinct(r) \/ Crash(r) PROVE Inv'
<1>1. job' = [job EXCEPT ![r] = Idle] /\ UNCHANGED <<candidates, decisions, intel>>
  BY DEF RefuseInstinct, Crash
<1>2. TypeInv'
  BY <1>1, SMT DEF Inv, TypeInv, Jobs
<1>3. Filed' /\ DecisionInv'
  BY <1>1, SMT DEF Inv, Filed, DecisionInv, Decided, StandsFor, Known
<1>4. JobInv' /\ OwnerInv'
  BY <1>1, SMT DEF Inv, TypeInv, JobInv, OwnerInv, StandsFor, Known, Idle
<1> QED BY <1>2, <1>3, <1>4 DEF Inv

LEMMA NextInv == Inv /\ [Next]_vars => Inv'
<1> SUFFICES ASSUME Inv, [Next]_vars PROVE Inv' OBVIOUS
<1>1. CASE Propose BY <1>1, ProposeInv
<1>2. ASSUME NEW r \in Reviewers, Accept(r) \/ EditThenAccept(r) \/ Reject(r) PROVE Inv'
  BY <1>2, BeginInv
<1>3. ASSUME NEW r \in Reviewers, CreateInstinct(r) PROVE Inv' BY <1>3, CreateInstinctInv
<1>4. ASSUME NEW r \in Reviewers, FillInstinct(r) PROVE Inv' BY <1>4, FillInstinctInv
<1>5. ASSUME NEW r \in Reviewers, CreateDecision(r) PROVE Inv' BY <1>5, CreateDecisionInv
<1>6. ASSUME NEW r \in Reviewers, RecordDecision(r) PROVE Inv' BY <1>6, RecordDecisionInv
<1>7. ASSUME NEW r \in Reviewers, RefuseInstinct(r) \/ Crash(r) PROVE Inv' BY <1>7, EndInv
<1>8. CASE UNCHANGED vars
  BY <1>8, SMT DEF vars, Inv, TypeInv, Filed, JobInv, OwnerInv, DecisionInv, StandsFor, Known,
     Decided
<1> QED BY <1>1, <1>2, <1>3, <1>4, <1>5, <1>6, <1>7, <1>8, Zenon DEF Next

-----------------------------------------------------------------------------

LEMMA InvAlways == Spec => []Inv
  BY InitInv, NextInv, PTL DEF Spec

\* Every file of the knowledge is of its kind and lies under its own identifier
\* (intel/candidates.py, review.py, repository.py).
THEOREM TypeCorrect == Spec => []TypeOK
  BY InvAlways, InvTypeOK, PTL

\* Whatever reviewers race and whoever dies between the two files of a review,
\* a recorded acceptance has its Instinct and shares it with no other
\* (intel/review.py).
THEOREM PromotionCorrect == Spec => []PromotionIsStored
  BY InvAlways, InvPromotion, PTL

-----------------------------------------------------------------------------
(* Supersession *)

\* Nothing supersedes what is not there, so that no chain of successors closes.
SupersedesKnown ==
    /\ \A i \in Known : intel[i].is.supersedes \in Known \cup {0}
    /\ \A r \in Reviewers : job[r].at = "fill" => job[r].is.supersedes \in Known \cup {0}

\* In every part of the knowledge something is superseded by no other part of it.
HasHeir ==
    \A S \in SUBSET Known : S # {} =>
        \E i \in S : \A k \in S : intel[k].is.supersedes # i

HeirInv == SupersedesKnown /\ HasHeir

LEMMA FilesStand ==
  ASSUME Inv, SupersedesKnown, HasHeir,
         \A i \in Known : intel'[i] = intel[i],
         Known' = Known,
         \A r \in Reviewers : job'[r].at = "fill" => job[r].at = "fill" /\ job'[r].is = job[r].is
  PROVE  HeirInv'
<1>1. SupersedesKnown' BY SMT DEF SupersedesKnown
<1>2. HasHeir' BY SMT DEF HasHeir
<1> QED BY <1>1, <1>2 DEF HeirInv

LEMMA CreateKeepsHeirs ==
  ASSUME NEW r \in Reviewers, Inv, HeirInv, CreateInstinct(r) PROVE HeirInv'
<1> DEFINE k == job[r].is.id
<1>1. /\ job[r] \in [at : {"store"}, of : Ids, is : Contents] /\ k \in Ids
      /\ intel[k] = None /\ intel' = [intel EXCEPT ![k] = Torn]
      /\ Predecessor(job[r].is)
  BY SMT DEF CreateInstinct, Inv, TypeInv, Jobs, Idle, Contents
<1>2. job' = [job EXCEPT ![r] = [at |-> "fill", of |-> job[r].of, is |-> job[r].is]]
  <2>1. [job[r] EXCEPT !.at = "fill"] = [at |-> "fill", of |-> job[r].of, is |-> job[r].is]
    BY <1>1, SMT
  <2> QED BY <2>1, Zenon DEF CreateInstinct
<1>3. Known' = Known /\ \A i \in Known : intel'[i] = intel[i]
  BY <1>1, SMT DEF Known, None, Torn, Inv, TypeInv
<1>4. SupersedesKnown'
  BY <1>1, <1>2, <1>3, SMT DEF HeirInv, SupersedesKnown, Predecessor, Inv, TypeInv
<1>5. HasHeir'
  BY <1>3, SMT DEF HeirInv, HasHeir
<1> QED BY <1>4, <1>5 DEF HeirInv

\* The new Instinct is the heir of every part it belongs to: what was there
\* supersedes only what was there.
LEMMA FillKeepsHeirs ==
  ASSUME NEW r \in Reviewers, Inv, HeirInv, FillInstinct(r) PROVE HeirInv'
<1> DEFINE k == job[r].is.id
<1>1. /\ job[r] \in [at : {"fill"}, of : Ids, is : Contents] /\ k \in Ids
      /\ intel[k] = Torn /\ intel' = [intel EXCEPT ![k] = Full(job[r].is)]
      /\ job' = [job EXCEPT ![r] = [at |-> "decide", of |-> job[r].of, accepted |-> k]]
  BY SMT DEF FillInstinct, Inv, TypeInv, JobInv, Jobs, Idle, Contents
<1>2. /\ Known' = Known \cup {k} /\ k \notin Known
      /\ \A i \in Known : intel'[i] = intel[i]
      /\ intel'[k].is = job[r].is
  BY <1>1, SMT DEF Known, Torn, Full, Inv, TypeInv
<1>3. /\ intel'[k].is.supersedes \in Known \cup {0} /\ intel'[k].is.supersedes # k
  BY <1>1, <1>2, SMT DEF HeirInv, SupersedesKnown, Contents
<1>4. SupersedesKnown'
  <2>1. SupersedesKnown
    BY DEF HeirInv
  <2>2. job'[r].at = "decide" /\ \A s \in Reviewers : s # r => job'[s] = job[s]
    BY <1>1, SMT DEF Inv, TypeInv
  <2>3. \A i \in Known' : intel'[i].is.supersedes \in Known' \cup {0}
    BY <1>2, <1>3, <2>1 DEF SupersedesKnown
  <2>4. \A s \in Reviewers : job'[s].at = "fill" => job'[s].is.supersedes \in Known' \cup {0}
    BY <1>2, <2>1, <2>2 DEF SupersedesKnown
  <2> QED BY <2>3, <2>4, Zenon DEF SupersedesKnown
<1>5. ASSUME NEW S \in SUBSET Known', S # {}
      PROVE  \E i \in S : \A l \in S : intel'[l].is.supersedes # i
  <2>0. 0 \notin Ids BY SMT DEF Ids
  <2>1. CASE k \in S
    <3>1. \A l \in S : intel'[l].is.supersedes # k
      BY <1>1, <1>2, <1>3, <2>0, SMT DEF HeirInv, SupersedesKnown
    <3> QED BY <2>1, <3>1
  <2>2. CASE k \notin S
    <3>1. S \in SUBSET Known BY <1>2, <2>2, SMT
    <3>2. PICK i \in S : \A l \in S : intel[l].is.supersedes # i
      BY <1>5, <3>1 DEF HeirInv, HasHeir
    <3> QED BY <1>2, <3>1, <3>2, SMT
  <2> QED BY <2>1, <2>2
<1>6. HasHeir' BY <1>5 DEF HasHeir
<1> QED BY <1>4, <1>6 DEF HeirInv

LEMMA NextKeepsHeirs == Inv /\ HeirInv /\ [Next]_vars => HeirInv'
<1> SUFFICES ASSUME Inv, HeirInv, [Next]_vars PROVE HeirInv' OBVIOUS
<1>1. ASSUME NEW r \in Reviewers, CreateInstinct(r) PROVE HeirInv'
  BY <1>1, CreateKeepsHeirs
<1>2. ASSUME NEW r \in Reviewers, FillInstinct(r) PROVE HeirInv'
  BY <1>2, FillKeepsHeirs
<1>3. ASSUME UNCHANGED intel,
             \A r \in Reviewers : job'[r].at = "fill" => job'[r] = job[r]
      PROVE  HeirInv'
  <2>1. Known' = Known BY <1>3 DEF Known
  <2> QED BY <1>3, <2>1, FilesStand, Zenon DEF HeirInv
<1>4. CASE Propose \/ UNCHANGED vars
  BY <1>3, <1>4, Zenon DEF Propose, vars
<1>5. ASSUME NEW r \in Reviewers,
             \/ Accept(r) \/ EditThenAccept(r) \/ Reject(r) \/ RefuseInstinct(r)
             \/ CreateDecision(r) \/ RecordDecision(r) \/ Crash(r)
      PROVE  HeirInv'
  <2>1. UNCHANGED intel
    BY <1>5 DEF Accept, EditThenAccept, Reject, RefuseInstinct, CreateDecision,
       RecordDecision, Crash
  <2>2. \A s \in Reviewers : job'[s].at = "fill" => job'[s] = job[s]
    <3>1. job \in [Reviewers -> Jobs] BY DEF Inv, TypeInv
    <3>2. CASE CreateDecision(r)
      BY <3>1, <3>2, SMT DEF CreateDecision, Jobs, Idle
    <3>3. CASE Accept(r) \/ EditThenAccept(r) \/ Reject(r)
      BY <3>1, <3>3, SMT DEF Accept, EditThenAccept, Reject, Promoting
    <3>4. CASE RefuseInstinct(r) \/ RecordDecision(r) \/ Crash(r)
      BY <3>1, <3>4, SMT DEF RefuseInstinct, RecordDecision, Crash, Idle
    <3> QED BY <1>5, <3>2, <3>3, <3>4
  <2> QED BY <1>3, <2>1, <2>2
<1> QED BY <1>1, <1>2, <1>4, <1>5, Zenon DEF Next

LEMMA HeirStands == HeirInv /\ Readable => Listable /\ (Known # {} => Active # {})
<1> SUFFICES ASSUME HeirInv, Readable PROVE Listable /\ (Known # {} => Active # {})
  OBVIOUS
<1>1. Listable
  BY SMT DEF HeirInv, SupersedesKnown, Listable, Superseded
<1>2. ASSUME Known # {} PROVE Active # {}
  <2>1. PICK i \in Known : \A k \in Known : intel[k].is.supersedes # i
    BY <1>2 DEF HeirInv, HasHeir
  <2> QED BY <1>1, <2>1, SMT DEF Active, Superseded
<1> QED BY <1>1, <1>2

LEMMA HeirAlways == Spec => []HeirInv
<1>1. Init => HeirInv
  BY SMT DEF Init, HeirInv, SupersedesKnown, HasHeir, Known, None, Idle
<1> QED BY <1>1, InitInv, NextInv, NextKeepsHeirs, PTL DEF Spec

\* Supersession never buries knowledge: however Instincts supersede one another,
\* while no file is torn listing does not raise and a task that fits all of them
\* is given one (intel/review.py, repository.py:63-99, retrieval.py:71).
THEOREM HeirCorrect == Spec => []HeirIsActive
<1>1. HeirInv => HeirIsActive
  <2> SUFFICES ASSUME HeirInv, Readable, Known # {}, NEW task \in Tasks,
                      \A i \in Known : task[i] # "excluded"
               PROVE  DOMAIN Retrieve(task) # {}
    BY DEF HeirIsActive
  <2>1. PICK i \in Active : TRUE
    BY HeirStands
  <2>2. DOMAIN Retrieve(task) = {k \in Active : task[k] # "excluded"}
    BY DEF Retrieve
  <2>3. Active \subseteq Known
    BY DEF Active
  <2> QED BY <2>1, <2>2, <2>3
<1> QED BY <1>1, HeirAlways, PTL

-----------------------------------------------------------------------------
(* The map *)

(* The map: identities across a refresh *)

\* What the candidates of a refresh may be, whatever identities exist.
LEMMA CandidatesAre ==
    ASSUME NEW prior, NEW cs \in Candidates(prior)
    PROVE  /\ IsFiniteSet(DOMAIN cs) /\ DOMAIN cs \subseteq Nat
           /\ \A i \in DOMAIN cs : cs[i].claims \subseteq prior /\ cs[i].strong \in BOOLEAN
<1>1. PICK n \in 0..2 : cs \in [1..n -> [claims : SUBSET prior, strong : BOOLEAN]]
    BY DEF Candidates
<1>2. DOMAIN cs = 1..n
    BY <1>1
<1>3. IsFiniteSet(1..n) BY FS_Interval
<1> QED BY <1>1, <1>2, <1>3

\* The concepts up to i that need a new identity.
NewUpTo(cs, i) == {j \in New(cs) : j <= i}

\* Their numbers grow with every such concept, and end at the count of all.
LEMMA NewCounted ==
    ASSUME NEW prior, NEW cs \in Candidates(prior), NEW i \in New(cs)
    PROVE  /\ Cardinality(NewUpTo(cs, i)) \in Nat \ {0}
           /\ Cardinality(New(cs)) \in Nat
           /\ Cardinality(NewUpTo(cs, i)) <= Cardinality(New(cs))
           /\ \A k \in New(cs) :
                Cardinality(NewUpTo(cs, i)) = Cardinality(NewUpTo(cs, k)) => i = k
<1>1. IsFiniteSet(DOMAIN cs) /\ DOMAIN cs \subseteq Nat
    BY CandidatesAre
<1>2. New(cs) \in SUBSET DOMAIN cs
    BY DEF New
<1>3. IsFiniteSet(New(cs))
    BY <1>1, <1>2, FS_Subset
<1>4. \A k : NewUpTo(cs, k) \in SUBSET New(cs)
    BY DEF NewUpTo
<1>5. \A k : IsFiniteSet(NewUpTo(cs, k)) /\ Cardinality(NewUpTo(cs, k)) \in Nat
    BY <1>3, <1>4, FS_Subset, FS_CardinalityType
<1>6. i \in NewUpTo(cs, i)
    BY <1>1, <1>2 DEF NewUpTo
<1>7. Cardinality(NewUpTo(cs, i)) # 0
    BY <1>5, <1>6, FS_EmptySet
<1>8. Cardinality(New(cs)) \in Nat /\ Cardinality(NewUpTo(cs, i)) <= Cardinality(New(cs))
    BY <1>3, <1>4, FS_Subset, FS_CardinalityType
<1>9. ASSUME NEW k \in New(cs), Cardinality(NewUpTo(cs, i)) = Cardinality(NewUpTo(cs, k))
      PROVE  i = k
    <2>1. i \in Nat /\ k \in Nat
        BY <1>1, <1>2
    <2>2. k \in NewUpTo(cs, k)
        BY <1>1, <1>2 DEF NewUpTo
    <2>3. CASE i <= k
        <3>1. NewUpTo(cs, i) \in SUBSET NewUpTo(cs, k)
            BY <1>1, <1>2, <2>1, <2>3 DEF NewUpTo
        <3>2. NewUpTo(cs, i) = NewUpTo(cs, k)
            BY <1>5, <1>9, <3>1, FS_Subset
        <3> QED BY <2>1, <2>2, <2>3, <3>2 DEF NewUpTo
    <2>4. CASE k <= i
        <3>1. NewUpTo(cs, k) \in SUBSET NewUpTo(cs, i)
            BY <1>1, <1>2, <2>1, <2>4 DEF NewUpTo
        <3>2. NewUpTo(cs, k) = NewUpTo(cs, i)
            BY <1>5, <1>9, <3>1, FS_Subset
        <3> QED BY <1>6, <2>1, <2>4, <3>2 DEF NewUpTo
    <2> QED BY <2>1, <2>3, <2>4
<1> QED BY <1>5, <1>7, <1>8, <1>9

\* A concept that continues an identity has that one, and nobody else claims it.
LEMMA ContinuesItsOwn ==
    ASSUME NEW prior, NEW cs \in Candidates(prior), NEW i \in DOMAIN cs, Continues(cs, i)
    PROVE  /\ Identity(cs, i) \in prior
           /\ cs[i].claims = {Identity(cs, i)}
           /\ \A j \in DOMAIN cs \ {i} : Identity(cs, i) \notin cs[j].claims
<1>1. PICK p \in cs[i].claims :
        cs[i].claims = {p} /\ \A j \in DOMAIN cs \ {i} : p \notin cs[j].claims
    BY DEF Continues
<1>2. Identity(cs, i) = (CHOOSE q \in cs[i].claims : TRUE)
    BY DEF Identity
<1>3. (CHOOSE q \in cs[i].claims : TRUE) \in cs[i].claims
    BY <1>1
<1> QED BY <1>1, <1>2, <1>3, CandidatesAre

\* A concept that continues none has one nobody had.
LEMMA NewIsBeyond ==
    ASSUME minted \in Nat, NEW prior, NEW cs \in Candidates(prior), NEW i \in New(cs)
    PROVE  /\ Identity(cs, i) = minted + Cardinality(NewUpTo(cs, i))
           /\ Identity(cs, i) \in (minted + 1)..(minted + Cardinality(New(cs)))
<1>1. Identity(cs, i) = minted + Cardinality(NewUpTo(cs, i))
    BY DEF Identity, NewUpTo, New
<1> QED BY <1>1, NewCounted

\* No two concepts of one refresh get one identity.
LEMMA IdentitiesDiffer ==
    ASSUME minted \in Nat, NEW prior \in SUBSET (1..minted), NEW cs \in Candidates(prior),
           NEW i \in DOMAIN cs, NEW k \in DOMAIN cs, Identity(cs, i) = Identity(cs, k)
    PROVE  i = k
<1>1. CASE Continues(cs, i) /\ Continues(cs, k)
    <2>1. /\ cs[k].claims = {Identity(cs, k)}
          /\ \A j \in DOMAIN cs \ {i} : Identity(cs, i) \notin cs[j].claims
        BY <1>1, ContinuesItsOwn
    <2> QED BY <2>1
<1>2. CASE i \in New(cs) /\ k \in New(cs)
    <2>1. /\ Cardinality(NewUpTo(cs, i)) \in Nat /\ Cardinality(NewUpTo(cs, k)) \in Nat
          /\ Cardinality(NewUpTo(cs, i)) = Cardinality(NewUpTo(cs, k)) => i = k
        BY <1>2, NewCounted
    <2>2. minted + Cardinality(NewUpTo(cs, i)) = minted + Cardinality(NewUpTo(cs, k))
        BY <1>2, NewIsBeyond
    <2> QED BY <2>1, <2>2
<1>3. CASE Continues(cs, i) /\ k \in New(cs)
    <2>1. Identity(cs, i) \in 1..minted
        BY <1>3, ContinuesItsOwn
    <2>2. Identity(cs, k) >= minted + 1 /\ Identity(cs, k) \in Nat
        BY <1>3, NewIsBeyond, NewCounted
    <2> QED BY <2>1, <2>2
<1>4. CASE i \in New(cs) /\ Continues(cs, k)
    <2>1. Identity(cs, k) \in 1..minted
        BY <1>4, ContinuesItsOwn
    <2>2. Identity(cs, i) >= minted + 1 /\ Identity(cs, i) \in Nat
        BY <1>4, NewIsBeyond, NewCounted
    <2> QED BY <2>1, <2>2
<1> QED BY <1>1, <1>2, <1>3, <1>4 DEF New

-----------------------------------------------------------------------------
(* The map: what a refresh reports *)

\* IdentitiesAccounted, of one report.
Accounted(report) ==
    LET found == report.found
        kept == {found[i].id : i \in DOMAIN found} \cap report.prior
        linked == UNION {found[i].links : i \in DOMAIN found}
    IN  /\ \A i, k \in DOMAIN found : found[i].id = found[k].id => i = k
        /\ report.prior = kept \cup linked \cup report.deleted
        /\ kept \cap linked = {} /\ (kept \cup linked) \cap report.deleted = {}

LEMMA ReportAccounts ==
    ASSUME minted \in Nat, NEW prior \in SUBSET (1..minted), NEW cs \in Candidates(prior)
    PROVE  Accounted(Reconcile(prior, cs))
<1> DEFINE report == Reconcile(prior, cs)
           found == report.found
           kept == {found[i].id : i \in DOMAIN found} \cap report.prior
           linked == UNION {found[i].links : i \in DOMAIN found}
<1>1. /\ report.prior = prior
      /\ report.deleted = prior \ UNION {cs[i].claims : i \in DOMAIN cs}
      /\ DOMAIN found = DOMAIN cs
    BY DEF Reconcile
<1>2. \A i \in DOMAIN cs : /\ found[i].id = Identity(cs, i)
                           /\ found[i].links = IF Continues(cs, i) THEN {} ELSE cs[i].claims
    BY DEF Reconcile
<1>3. \A i \in DOMAIN cs : cs[i].claims \subseteq prior
    BY CandidatesAre
<1> HIDE DEF report, found
<1>4. \A i, k \in DOMAIN found : found[i].id = found[k].id => i = k
    BY <1>1, <1>2, IdentitiesDiffer
<1>5. ASSUME NEW i \in DOMAIN cs, Identity(cs, i) \in prior
      PROVE  Continues(cs, i)
    <2>1. SUFFICES ASSUME i \in New(cs) PROVE FALSE
        BY <1>5 DEF New
    <2>2. Identity(cs, i) \in (minted + 1)..(minted + Cardinality(New(cs)))
        BY <2>1, NewIsBeyond
    <2>3. Cardinality(New(cs)) \in Nat
        BY <2>1, NewCounted
    <2> QED BY <1>5, <2>2, <2>3
<1>6. \A p \in kept : \E i \in DOMAIN cs : Continues(cs, i) /\ p = Identity(cs, i)
    BY <1>1, <1>2, <1>5
<1>7. \A i \in DOMAIN cs : Continues(cs, i) => /\ Identity(cs, i) \in kept
                                               /\ cs[i].claims = {Identity(cs, i)}
    BY <1>1, <1>2, ContinuesItsOwn
<1>8. \A p \in linked : \E i \in DOMAIN cs : ~Continues(cs, i) /\ p \in cs[i].claims
    BY <1>1, <1>2
<1>9. \A i \in DOMAIN cs : ~Continues(cs, i) => cs[i].claims \subseteq linked
    BY <1>1, <1>2
<1>10. linked \subseteq prior /\ kept \subseteq prior
    BY <1>1, <1>3, <1>8
<1>11. kept \cap linked = {}
    BY <1>6, <1>8, ContinuesItsOwn
<1>12. kept \cup linked = prior \cap UNION {cs[i].claims : i \in DOMAIN cs}
    <2>1. \A p \in kept \cup linked : \E i \in DOMAIN cs : p \in cs[i].claims
        BY <1>6, <1>7, <1>8
    <2>2. \A i \in DOMAIN cs : cs[i].claims \subseteq kept \cup linked
        BY <1>7, <1>9
    <2> HIDE DEF kept, linked
    <2> QED BY <1>10, <2>1, <2>2
<1>13. Accounted(report) = /\ \A i, k \in DOMAIN found : found[i].id = found[k].id => i = k
                           /\ report.prior = kept \cup linked \cup report.deleted
                           /\ kept \cap linked = {} /\ (kept \cup linked) \cap report.deleted = {}
    BY DEF Accounted, found
<1> HIDE DEF kept, linked
<1>14. /\ report.prior = kept \cup linked \cup report.deleted
       /\ (kept \cup linked) \cap report.deleted = {}
    BY <1>1, <1>12
<1>15. Accounted(report)
    BY <1>4, <1>11, <1>13, <1>14
<1> QED BY <1>15 DEF report

\* The identities of a refresh are ones that were handed out.
LEMMA IdentityMinted ==
    ASSUME minted \in Nat, NEW prior \in SUBSET (1..minted), NEW cs \in Candidates(prior)
    PROVE  /\ Cardinality(New(cs)) \in Nat
           /\ \A i \in DOMAIN cs : Identity(cs, i) \in 1..(minted + Cardinality(New(cs)))
<1>1. New(cs) \in SUBSET DOMAIN cs
    BY DEF New
<1>2. Cardinality(New(cs)) \in Nat
    BY <1>1, CandidatesAre, FS_Subset, FS_CardinalityType
<1>3. ASSUME NEW i \in DOMAIN cs
      PROVE  Identity(cs, i) \in 1..(minted + Cardinality(New(cs)))
    <2>1. CASE Continues(cs, i)
        <3>1. Identity(cs, i) \in 1..minted
            BY <2>1, ContinuesItsOwn
        <3> QED BY <1>2, <3>1
    <2>2. CASE i \in New(cs)
        <3>1. Identity(cs, i) \in (minted + 1)..(minted + Cardinality(New(cs)))
            BY <2>2, NewIsBeyond
        <3> QED BY <1>2, <3>1
    <2> QED BY <2>1, <2>2 DEF New
<1> QED BY <1>2, <1>3

-----------------------------------------------------------------------------
(* The map: types, for any number of clients *)

StoreOK(revisions) ==
    /\ revisions \in [RevisionIds -> Revisions \cup {Absent}]
    /\ \A i \in RevisionIds : revisions[i].entities \subseteq 1..minted

\* The identities a report finds.
Found(report) == {report.found[i].id : i \in DOMAIN report.found}

\* What a publication carries was read or handed out, and its report accounts.
PublicationOK(j) ==
    \/ j = AtRest
    \/ j \in [at : {"render", "status"}, id : RevisionIds]
    \/ /\ j.at = "reconciled" /\ j.id \in RevisionIds /\ j.on \in SUBSET Records
       /\ Accounted(j.report) /\ Found(j.report) \subseteq 1..minted
    \/ /\ j.at \in {"read", "write"} /\ j.id \in RevisionIds
       /\ j.is \in Revisions /\ j.is.entities \subseteq 1..minted
       /\ j.at = "write" => StoreOK(j.seen)

MapTyped ==
    /\ minted \in 0..MaxEntities
    /\ store \in [current : 0..MaxRevisions,
                  revisions : [RevisionIds -> Revisions \cup {Absent}]]
    /\ store.current # 0 => store.revisions[store.current] # Absent
    /\ StoreOK(store.revisions)
    /\ DOMAIN draft = Clients
    /\ \A c \in Clients : PublicationOK(draft[c])

LEMMA MapTypedInit == ASSUME MapBounds, MapInit PROVE MapTyped
<1>1. /\ store = [current |-> 0, revisions |-> [i \in RevisionIds |-> Absent]] /\ minted = 0
      /\ draft = [c \in Clients |-> AtRest]
    BY DEF MapInit
<1>2. MaxRevisions \in Nat /\ MaxEntities \in Nat
    BY DEF MapBounds
<1>3. StoreOK(store.revisions)
    BY <1>1 DEF StoreOK, Absent
<1>4. \A c \in Clients : PublicationOK(draft[c])
    BY <1>1 DEF PublicationOK
<1> QED BY <1>1, <1>2, <1>3, <1>4 DEF MapTyped

\* More identities handed out disturb nothing.
LEMMA StoreStays ==
    ASSUME minted \in Nat, minted' \in Nat, minted <= minted', NEW revisions, StoreOK(revisions)
    PROVE  StoreOK(revisions)'
<1>1. 1..minted \subseteq 1..minted'
    OBVIOUS
<1> QED BY <1>1 DEF StoreOK, RevisionIds, Revisions, Absent, Records, Kinds

LEMMA PublicationStays ==
    ASSUME minted \in Nat, minted' \in Nat, minted <= minted', NEW j, PublicationOK(j)
    PROVE  PublicationOK(j)'
<1>1. 1..minted \subseteq 1..minted'
    OBVIOUS
<1>2. StoreOK(j.seen) => StoreOK(j.seen)'
    BY StoreStays
<1>3. CASE j.at = "reconciled"
    BY <1>1, <1>3 DEF PublicationOK, AtRest, Accounted, Found, RevisionIds, Records, Kinds
<1>4. CASE j.at # "reconciled"
    BY <1>1, <1>2, <1>4 DEF PublicationOK, RevisionIds, Revisions, Records, Kinds
<1> QED BY <1>3, <1>4

\* One client moves, and the store stays as it is.
LEMMA MapMoves ==
    ASSUME MapBounds, MapTyped, NEW c \in Clients, store' = store,
           minted' \in 0..MaxEntities, minted <= minted',
           DOMAIN draft' = Clients, \A k \in Clients \ {c} : draft'[k] = draft[k],
           PublicationOK(draft[c])'
    PROVE  MapTyped'
<1>1. minted \in Nat /\ minted' \in Nat
    BY DEF MapTyped, MapBounds
<1>2. StoreOK(store.revisions)'
    <2>1. StoreOK(store.revisions) BY DEF MapTyped
    <2> QED BY <1>1, <2>1, StoreStays DEF StoreOK
<1>3. ASSUME NEW k \in Clients \ {c} PROVE PublicationOK(draft[k])'
    <2>1. PublicationOK(draft[k]) BY DEF MapTyped
    <2>2. PublicationOK(draft'[k])
        BY <2>1
    <2> QED BY <1>1, <2>2, PublicationStays DEF PublicationOK
<1> QED BY <1>2, <1>3 DEF MapTyped

LEMMA BaseIs ==
    ASSUME MapTyped
    PROVE  Base \in Revisions /\ Base.entities \subseteq 1..minted
<1>1. CASE store.current = 0
    BY <1>1 DEF Base, Revisions, Records
<1>2. CASE store.current # 0
    <2>1. store.current \in RevisionIds
        BY <1>2 DEF MapTyped, RevisionIds
    <2>2. store.revisions[store.current] \in Revisions
        BY <1>2, <2>1 DEF MapTyped
    <2>3. store.revisions[store.current].entities \subseteq 1..minted
        BY <2>1 DEF MapTyped, StoreOK
    <2> QED BY <1>2, <2>2, <2>3 DEF Base, Current
<1> QED BY <1>1, <1>2

\* What a refresh assembles may be stored.
LEMMA PreserveIs ==
    ASSUME NEW prior \in SUBSET Records, NEW g \in SUBSET Records
    PROVE  Preserve(prior, g) \in SUBSET Records
BY DEF Preserve

LEMMA RefreshStep ==
    ASSUME MapBounds, MapTyped, NEW c \in Clients, Refresh(c)
    PROVE  /\ MapTyped'
           /\ draft'[c].at = "reconciled" /\ draft'[c].on = Base.records
           /\ \A k \in Clients \ {c} : draft'[k] = draft[k]
<1>1. PICK i \in RevisionIds, cs \in Candidates(Base.entities) :
        /\ minted + Cardinality(New(cs)) <= MaxEntities
        /\ minted' = minted + Cardinality(New(cs))
        /\ draft' = [draft EXCEPT ![c] =
                        [at |-> "reconciled", id |-> i, on |-> Base.records,
                         report |-> Reconcile(Base.entities, cs)]]
    BY DEF Refresh
<1> DEFINE report == Reconcile(Base.entities, cs)
<1>2. minted \in Nat /\ minted <= MaxEntities /\ MaxEntities \in Nat /\ DOMAIN draft = Clients
    BY DEF MapTyped, MapBounds
<1>3. Base \in Revisions /\ Base.entities \in SUBSET (1..minted)
    BY BaseIs
<1>4. Accounted(report)
    BY <1>2, <1>3, ReportAccounts
<1>5. /\ Cardinality(New(cs)) \in Nat
      /\ \A j \in DOMAIN cs : Identity(cs, j) \in 1..minted'
    BY <1>1, <1>2, <1>3, IdentityMinted
<1>6. minted' \in 0..MaxEntities /\ minted <= minted'
    BY <1>1, <1>2, <1>5
<1>7. /\ DOMAIN report.found = DOMAIN cs
      /\ \A j \in DOMAIN cs : report.found[j].id = Identity(cs, j)
    BY DEF Reconcile
<1>8. Found(report) \subseteq 1..minted'
    BY <1>5, <1>7 DEF Found
<1> HIDE DEF report
<1>9. draft' = [draft EXCEPT ![c] = [at |-> "reconciled", id |-> i, on |-> Base.records,
                                     report |-> report]]
    BY <1>1 DEF report
<1>10. /\ draft'[c] = [at |-> "reconciled", id |-> i, on |-> Base.records, report |-> report]
       /\ \A k \in Clients \ {c} : draft'[k] = draft[k]
       /\ DOMAIN draft' = Clients
    BY <1>2, <1>9
<1>11. /\ draft'[c].at = "reconciled" /\ draft'[c].id = i
       /\ draft'[c].report = report /\ draft'[c].on = Base.records
    BY <1>10
<1>12. PublicationOK(draft[c])'
    <2>1. (draft[c].on \in SUBSET Records)'
        BY <1>3, <1>11 DEF Revisions, Records, Kinds
    <2>2. (Found(draft[c].report) \subseteq 1..minted)'
        BY <1>8, <1>11 DEF Found
    <2>3. Accounted(draft[c].report)'
        BY <1>4, <1>11 DEF Accounted
    <2>4. (draft[c].id \in RevisionIds)'
        BY <1>1, <1>11 DEF RevisionIds
    <2> QED BY <1>11, <2>1, <2>2, <2>3, <2>4, Zenon DEF PublicationOK
<1>13. MapTyped'
    BY <1>6, <1>10, <1>12, MapMoves DEF Refresh
<1> QED BY <1>10, <1>11, <1>13

\* A step that hands out nothing and writes no revision.
LEMMA QuietStep ==
    ASSUME MapBounds, MapTyped, NEW c \in Clients, store' = store, minted' = minted,
           NEW j, draft' = [draft EXCEPT ![c] = j], PublicationOK(j)
    PROVE  MapTyped'
<1>1. DOMAIN draft = Clients /\ minted \in 0..MaxEntities /\ minted \in Nat
    BY DEF MapTyped, MapBounds
<1>2. draft'[c] = j /\ DOMAIN draft' = Clients /\ \A k \in Clients \ {c} : draft'[k] = draft[k]
    BY <1>1
<1>3. PublicationOK(draft'[c])
    BY <1>2
<1>4. PublicationOK(draft[c])'
    BY <1>1, <1>3, PublicationStays DEF PublicationOK
<1> QED BY <1>1, <1>2, <1>4, MapMoves

LEMMA IdleIsOK == PublicationOK(AtRest)
BY DEF PublicationOK

\* A client reads what there is and hands a revision in.
LEMMA HandedIn ==
    ASSUME MapTyped, NEW i \in RevisionIds, NEW r \in Revisions, r.entities \subseteq 1..minted,
           NEW on
    PROVE  PublicationOK(Publishing(i, r, on))
BY DEF PublicationOK, Publishing

LEMMA AttributeStep ==
    ASSUME MapBounds, MapTyped, NEW c \in Clients, Attribute(c)
    PROVE  /\ MapTyped'
           /\ draft'[c].at = "read" /\ draft'[c].id \notin Published
           /\ draft'[c].on = Base.records /\ Base.records \subseteq draft'[c].is.records
<1>1. PICK i \in RevisionIds, x \in Records :
        /\ Unused(i)
        /\ draft' = [draft EXCEPT ![c] =
                        Publishing(i, [Base EXCEPT !.records = @ \cup {x}], Base.records)]
    BY DEF Attribute
<1> DEFINE r == [Base EXCEPT !.records = @ \cup {x}]
<1>2. Base \in Revisions /\ Base.entities \subseteq 1..minted
    BY BaseIs
<1>3. /\ r \in Revisions /\ r.entities = Base.entities
      /\ r.records = Base.records \cup {x}
    BY <1>2 DEF Revisions
<1> HIDE DEF r
<1>4. PublicationOK(Publishing(i, r, Base.records))
    BY <1>2, <1>3, HandedIn
<1>5. draft' = [draft EXCEPT ![c] = Publishing(i, r, Base.records)]
    BY <1>1 DEF r
<1>6. MapTyped'
    BY <1>4, <1>5, QuietStep DEF Attribute
<1>7. draft'[c] = [at |-> "read", id |-> i, is |-> r, on |-> Base.records]
    BY <1>5 DEF MapTyped, Publishing
<1>8. i \notin Published
    BY <1>1 DEF Unused
<1> QED BY <1>3, <1>6, <1>7, <1>8

LEMMA RepublishStep ==
    ASSUME MapBounds, MapTyped, NEW c \in Clients, Republish(c)
    PROVE  /\ MapTyped' /\ draft'[c].at = "read" /\ draft'[c].id \in Published
           /\ draft'[c].on \subseteq draft'[c].is.records
<1>0. PICK i \in Published : \E S \in {{}, store.revisions[i].records} :
        draft' = [draft EXCEPT ![c] =
                     Publishing(i, [store.revisions[i] EXCEPT !.records = S], S)]
    BY DEF Republish
<1>1. PICK S \in {{}, store.revisions[i].records} :
        draft' = [draft EXCEPT ![c] =
                     Publishing(i, [store.revisions[i] EXCEPT !.records = S], S)]
    BY <1>0
<1> DEFINE r == [store.revisions[i] EXCEPT !.records = S]
<1>2. i \in RevisionIds /\ store.revisions[i] \in Revisions
      /\ store.revisions[i].entities \subseteq 1..minted
    BY DEF Published, MapTyped, StoreOK
<1>3. r \in Revisions /\ r.entities = store.revisions[i].entities /\ r.records = S
    BY <1>2 DEF Revisions
<1> HIDE DEF r
<1>4. PublicationOK(Publishing(i, r, S))
    BY <1>2, <1>3, HandedIn
<1>5. draft' = [draft EXCEPT ![c] = Publishing(i, r, S)]
    BY <1>1 DEF r
<1>6. MapTyped'
    BY <1>4, <1>5, QuietStep DEF Republish
<1>7. draft'[c] = [at |-> "read", id |-> i, is |-> r, on |-> S]
    BY <1>5 DEF MapTyped, Publishing
<1> QED BY <1>3, <1>6, <1>7

LEMMA AssembledStep ==
    ASSUME MapBounds, MapTyped, NEW c \in Clients, Assembled(c)
    PROVE  /\ MapTyped'
           /\ draft[c].on \in SUBSET Records
           /\ \E g \in Valids, r \in Revisions :
                /\ r.records = Preserve(draft[c].on, g)
                /\ draft'[c] = [at |-> "read", id |-> draft[c].id, is |-> r, on |-> draft[c].on]
<1> DEFINE found == draft[c].report.found
<1>1. PICK g \in Valids :
        draft' = [draft EXCEPT ![c] =
                     Publishing(draft[c].id, [entities |-> {found[i].id : i \in DOMAIN found},
                                              records |-> Preserve(draft[c].on, g)],
                                draft[c].on)]
    BY DEF Assembled
<1> DEFINE r == [entities |-> Found(draft[c].report), records |-> Preserve(draft[c].on, g)]
<1>2. draft[c].at = "reconciled" /\ DOMAIN draft = Clients /\ PublicationOK(draft[c])
    BY DEF Assembled, MapTyped
<1>3. /\ draft[c].id \in RevisionIds /\ draft[c].on \in SUBSET Records
      /\ Found(draft[c].report) \subseteq 1..minted
    BY <1>2 DEF PublicationOK, AtRest
<1>4. Found(draft[c].report) \subseteq 1..MaxEntities
    <2>1. minted \in 0..MaxEntities /\ MaxEntities \in Nat
        BY DEF MapTyped, MapBounds
    <2> QED BY <1>3, <2>1
<1>5. r \in Revisions /\ r.entities \subseteq 1..minted
    <2>1. g \in SUBSET Records
        BY DEF Valids
    <2>2. Preserve(draft[c].on, g) \in SUBSET Records
        BY <1>3, <2>1, PreserveIs
    <2> QED BY <1>3, <1>4, <2>2 DEF Revisions
<1>6. draft' = [draft EXCEPT ![c] = Publishing(draft[c].id, r, draft[c].on)]
    BY <1>1 DEF Found
<1>7. r.records = Preserve(draft[c].on, g)
    OBVIOUS
<1> HIDE DEF r
<1>8. PublicationOK(Publishing(draft[c].id, r, draft[c].on))
    BY <1>3, <1>5, HandedIn
<1>9. MapTyped'
    BY <1>6, <1>8, QuietStep DEF Assembled
<1>10. draft'[c] = [at |-> "read", id |-> draft[c].id, is |-> r, on |-> draft[c].on]
    BY <1>2, <1>6 DEF Publishing
<1> QED BY <1>3, <1>5, <1>7, <1>9, <1>10

LEMMA ReadStoreStep ==
    ASSUME MapBounds, MapTyped, NEW c \in Clients, ReadStore(c)
    PROVE  /\ MapTyped'
           /\ store.revisions[draft[c].id] = Absent
           /\ draft'[c] = [at |-> "write", id |-> draft[c].id, is |-> draft[c].is,
                            on |-> draft[c].on, seen |-> store.revisions]
<1> DEFINE j == [at |-> "write", id |-> draft[c].id, is |-> draft[c].is,
                 on |-> draft[c].on, seen |-> store.revisions]
<1>1. draft[c].at = "read" /\ DOMAIN draft = Clients /\ draft' = [draft EXCEPT ![c] = j]
    BY DEF ReadStore, MapTyped
<1>2. PublicationOK(draft[c]) /\ StoreOK(store.revisions)
    BY DEF MapTyped
<1>3. PublicationOK(j)
    BY <1>1, <1>2 DEF PublicationOK, AtRest
<1> HIDE DEF j
<1>4. MapTyped'
    BY <1>1, <1>3, QuietStep DEF ReadStore
<1>5. draft'[c] = j
    BY <1>1
<1> QED BY <1>4, <1>5 DEF j, ReadStore, NoConflict

\* Whoever has read or written names a revision.
LEMMA NamesRevision ==
    ASSUME MapTyped, NEW c \in Clients, draft[c] # AtRest
    PROVE  draft[c].id \in RevisionIds
<1>1. PublicationOK(draft[c])
    BY DEF MapTyped
<1> QED BY <1>1 DEF PublicationOK

LEMMA AlreadyCurrentStep ==
    ASSUME MapBounds, MapTyped, NEW c \in Clients, AlreadyCurrent(c)
    PROVE  /\ MapTyped' /\ store.current = draft[c].id
           /\ draft'[c] = [at |-> "render", id |-> draft[c].id]
<1> DEFINE j == [at |-> "render", id |-> draft[c].id]
<1>1. draft[c].at = "read" /\ DOMAIN draft = Clients /\ draft' = [draft EXCEPT ![c] = j]
    BY DEF AlreadyCurrent, Render, MapTyped
<1>2. draft[c].id \in RevisionIds
    BY <1>1, NamesRevision DEF AtRest
<1>3. PublicationOK(j)
    BY <1>2 DEF PublicationOK
<1> HIDE DEF j
<1>4. MapTyped'
    BY <1>1, <1>3, QuietStep DEF AlreadyCurrent
<1>5. draft'[c] = j
    BY <1>1
<1> QED BY <1>4, <1>5 DEF j, AlreadyCurrent

\* A publication ends: it is refused, it is over, or its process died.
LEMMA EndStep ==
    ASSUME MapBounds, MapTyped, NEW c \in Clients,
           \/ Refused(c) \/ UnknownActor(c) \/ PublicationDies(c)
           \/ WriteStatus(c) \/ MarkStale(c)
    PROVE  MapTyped' /\ draft'[c] = AtRest
<1>1. /\ draft' = [draft EXCEPT ![c] = AtRest] /\ DOMAIN draft = Clients
      /\ store' = store /\ minted' = minted
    BY DEF Refused, UnknownActor, PublicationDies, WriteStatus, MarkStale, MapTyped
<1>2. MapTyped'
    BY <1>1, IdleIsOK, QuietStep
<1> QED BY <1>1, <1>2

LEMMA WriteMarkdownStep ==
    ASSUME MapBounds, MapTyped, NEW c \in Clients, WriteMarkdown(c)
    PROVE  /\ MapTyped' /\ draft[c].id \in RevisionIds
           /\ draft'[c] = [at |-> "status", id |-> draft[c].id]
<1> DEFINE j == [at |-> "status", id |-> draft[c].id]
<1>1. draft[c].at = "render" /\ DOMAIN draft = Clients
      /\ draft' = [draft EXCEPT ![c].at = "status"]
    BY DEF WriteMarkdown, MapTyped
<1>2. PublicationOK(draft[c])
    BY DEF MapTyped
<1>3. draft[c] \in [at : {"render", "status"}, id : RevisionIds]
    BY <1>1, <1>2 DEF PublicationOK, AtRest
<1>4. draft' = [draft EXCEPT ![c] = j]
    <2>1. [draft[c] EXCEPT !.at = "status"] = j
        BY <1>3
    <2> QED BY <1>1, <2>1
<1>5. PublicationOK(j)
    BY <1>3 DEF PublicationOK
<1> HIDE DEF j
<1>6. MapTyped'
    BY <1>4, <1>5, QuietStep DEF WriteMarkdown
<1>7. draft'[c] = j
    BY <1>1, <1>4
<1> QED BY <1>3, <1>6, <1>7 DEF j

LEMMA WriteStoreStep ==
    ASSUME MapBounds, MapTyped, NEW c \in Clients, WriteStore(c)
    PROVE  /\ MapTyped'
           /\ draft[c].id \in RevisionIds
           /\ draft'[c] = [at |-> "render", id |-> draft[c].id]
           /\ store'.current = draft[c].id
           /\ store'.revisions[draft[c].id] = draft[c].is
           /\ \A i \in RevisionIds \ {draft[c].id} : store'.revisions[i] = draft[c].seen[i]
<1> DEFINE j == draft[c]
           revisions == [j.seen EXCEPT ![j.id] = j.is]
<1>1. /\ j.at = "write" /\ DOMAIN draft = Clients
      /\ store' = [current |-> j.id, revisions |-> revisions]
      /\ draft' = [draft EXCEPT ![c] = [at |-> "render", id |-> j.id]]
      /\ minted' = minted
    BY DEF WriteStore, Render, MapTyped
<1>2. PublicationOK(j) /\ minted \in Nat /\ minted \in 0..MaxEntities
    BY DEF MapTyped, MapBounds
<1>3. /\ j.id \in RevisionIds /\ j.is \in Revisions /\ j.is.entities \subseteq 1..minted
      /\ StoreOK(j.seen)
    BY <1>1, <1>2 DEF PublicationOK, AtRest
<1> HIDE DEF j
<1>4. /\ revisions \in [RevisionIds -> Revisions \cup {Absent}]
      /\ revisions[j.id] = j.is /\ \A i \in RevisionIds \ {j.id} : revisions[i] = j.seen[i]
    BY <1>3 DEF StoreOK
<1> HIDE DEF revisions
<1>5. \A i \in RevisionIds : revisions[i].entities \subseteq 1..minted
    BY <1>3, <1>4 DEF StoreOK
<1>6. StoreOK(revisions)
    BY <1>4, <1>5 DEF StoreOK
<1>7. StoreOK(store.revisions)'
    BY <1>1, <1>4, <1>5 DEF StoreOK, RevisionIds, Revisions, Absent, Records, Kinds
<1>8. /\ draft'[c] = [at |-> "render", id |-> j.id]
      /\ DOMAIN draft' = Clients /\ \A k \in Clients \ {c} : draft'[k] = draft[k]
    BY <1>1
<1>9. PublicationOK(draft[c])'
    BY <1>3, <1>8 DEF PublicationOK, RevisionIds
<1>10. ASSUME NEW k \in Clients \ {c} PROVE PublicationOK(draft[k])'
    <2>1. PublicationOK(draft'[k])
        BY <1>8 DEF MapTyped
    <2> QED BY <1>1, <1>2, <2>1, PublicationStays DEF PublicationOK
<1>11. store'.revisions[store'.current] # Absent
    BY <1>1, <1>3, <1>4 DEF Absent, Revisions
<1>12. store' \in [current : 0..MaxRevisions,
                   revisions : [RevisionIds -> Revisions \cup {Absent}]]
    BY <1>1, <1>3, <1>4 DEF RevisionIds, MapBounds
<1>13. MapTyped'
    BY <1>1, <1>2, <1>7, <1>8, <1>9, <1>10, <1>11, <1>12
       DEF MapTyped, RevisionIds, Revisions, Absent, Records, Kinds
<1> QED BY <1>1, <1>3, <1>4, <1>8, <1>13 DEF j

LEMMA MapTypedStep == ASSUME MapBounds, MapTyped, [MapNext]_mapVars PROVE MapTyped'
<1>1. CASE UNCHANGED mapVars
    BY <1>1 DEF mapVars, MapTyped, StoreOK, PublicationOK
<1>2. ASSUME NEW c \in Clients,
             \/ Refresh(c) \/ Assembled(c) \/ Attribute(c) \/ Republish(c)
             \/ ReadStore(c) \/ AlreadyCurrent(c) \/ Refused(c)
             \/ UnknownActor(c) \/ WriteStore(c)
             \/ WriteMarkdown(c) \/ WriteStatus(c) \/ MarkStale(c) \/ PublicationDies(c)
      PROVE  MapTyped'
    BY <1>2, RefreshStep, AssembledStep, AttributeStep, RepublishStep, ReadStoreStep,
       AlreadyCurrentStep, EndStep, WriteStoreStep, WriteMarkdownStep
<1> QED BY <1>1, <1>2 DEF MapNext

\* The three files of the map and every publication under way stay well formed,
\* for any number of clients, and a refresh that has reconciled its identities
\* carries a report that accounts for each of them once (_reconcile_identities).
THEOREM MapTypeCorrect == MapSpec => []MapTyped
<1>1. MapInit => MapTyped
    BY MapBounds, MapTypedInit
<1>2. MapTyped /\ [MapNext]_mapVars => MapTyped'
    BY MapBounds, MapTypedStep
<1> QED BY <1>1, <1>2, PTL DEF MapSpec

\* Every refresh, at any number of clients, accounts for every identity once.
THEOREM IdentitiesCorrect == MapSpec => []IdentitiesAccounted
<1>1. ASSUME MapTyped PROVE IdentitiesAccounted
    <2>1. SUFFICES ASSUME NEW c \in Clients, draft[c].at = "reconciled"
                   PROVE  LET found == draft[c].report.found
                              kept == {found[i].id : i \in DOMAIN found} \cap draft[c].report.prior
                              linked == UNION {found[i].links : i \in DOMAIN found}
                          IN  /\ IsInjective([i \in DOMAIN found |-> found[i].id])
                              /\ draft[c].report.prior = kept \cup linked \cup draft[c].report.deleted
                              /\ kept \cap linked = {}
                              /\ (kept \cup linked) \cap draft[c].report.deleted = {}
        BY DEF IdentitiesAccounted
    <2>2. PublicationOK(draft[c])
        BY <1>1 DEF MapTyped
    <2>3. Accounted(draft[c].report)
        BY <2>1, <2>2 DEF PublicationOK, AtRest
    <2> QED BY <2>3 DEF Accounted, IsInjective
<1> QED BY <1>1, MapTypeCorrect, PTL

-----------------------------------------------------------------------------
(* The map: what was written is read back *)

\* No two records of one kind have one name.
Distinct(R) == \A x, y \in R : x.kind = y.kind /\ x.id = y.id => x = y

ValidStore(revisions) == \A i \in RevisionIds : Distinct(revisions[i].records)

LoadInv ==
    /\ ValidStore(store.revisions)
    /\ \A c \in Clients :
         /\ draft[c].at = "reconciled" => Distinct(draft[c].on)
         /\ draft[c].at \in {"read", "write"} => Distinct(draft[c].is.records)
         /\ draft[c].at = "write" => ValidStore(draft[c].seen)

\* What is generated under a protected name gives way to it.
LEMMA PreserveValid ==
    ASSUME NEW prior \in SUBSET Records, NEW g \in SUBSET Records,
           \A x, y \in prior : x.kind = y.kind /\ x.id = y.id => x = y,
           \A x, y \in g : x.id = y.id => x = y
    PROVE  \A x, y \in Preserve(prior, g) : x.kind = y.kind /\ x.id = y.id => x = y
BY DEF Preserve

LEMMA BaseValid == ASSUME MapTyped, LoadInv PROVE Distinct(Base.records)
<1>1. CASE store.current = 0
    BY <1>1 DEF Base, Distinct
<1>2. CASE store.current # 0
    <2>1. store.current \in RevisionIds
        BY <1>2 DEF MapTyped, RevisionIds
    <2> QED BY <1>2, <2>1 DEF Base, Current, LoadInv, ValidStore
<1> QED BY <1>1, <1>2

\* One client moves, and no file is written.
LEMMA LoadMoves ==
    ASSUME LoadInv, NEW c \in Clients, store' = store,
           \A k \in Clients \ {c} : draft'[k] = draft[k],
           draft'[c].at = "reconciled" => Distinct(draft'[c].on),
           draft'[c].at \in {"read", "write"} => Distinct(draft'[c].is.records),
           draft'[c].at = "write" => ValidStore(draft'[c].seen)
    PROVE  LoadInv'
<1>1. ASSUME NEW k \in Clients
      PROVE  /\ draft'[k].at = "reconciled" => Distinct(draft'[k].on)
             /\ draft'[k].at \in {"read", "write"} => Distinct(draft'[k].is.records)
             /\ draft'[k].at = "write" => ValidStore(draft'[k].seen)
    <2>1. CASE k = c
        BY <2>1
    <2>2. CASE k # c
        <3>1. draft'[k] = draft[k]
            BY <2>2
        <3> QED BY <3>1 DEF LoadInv
    <2> QED BY <2>1, <2>2
<1> QED BY <1>1 DEF LoadInv, ValidStore, Distinct, RevisionIds

LEMMA LoadedStep ==
    ASSUME MapBounds, MapTyped, LoadInv, [MapNext]_mapVars
    PROVE  LoadInv'
<1>1. CASE UNCHANGED mapVars
    BY <1>1 DEF mapVars, LoadInv, ValidStore, Distinct, RevisionIds
<1>2. ASSUME NEW c \in Clients, Refresh(c) PROVE LoadInv'
    <2>1. /\ draft'[c].at = "reconciled" /\ draft'[c].on = Base.records
          /\ \A k \in Clients \ {c} : draft'[k] = draft[k]
        BY <1>2, RefreshStep
    <2>2. Distinct(draft'[c].on)
        BY <2>1, BaseValid
    <2>3. store' = store
        BY <1>2 DEF Refresh
    <2> QED BY <2>1, <2>2, <2>3, LoadMoves
<1>3. ASSUME NEW c \in Clients, Attribute(c) PROVE LoadInv'
    <2>1. PICK i \in RevisionIds, x \in Records :
            /\ Valid([records |-> Base.records \cup {x}])
            /\ draft' = [draft EXCEPT ![c] =
                            Publishing(i, [Base EXCEPT !.records = @ \cup {x}], Base.records)]
        BY <1>3 DEF Attribute
    <2>2. [Base EXCEPT !.records = @ \cup {x}].records = Base.records \cup {x}
        BY BaseIs DEF Revisions
    <2>3. /\ draft'[c].at = "read"
          /\ draft'[c].is.records = Base.records \cup {x}
          /\ \A k \in Clients \ {c} : draft'[k] = draft[k]
        BY <2>1, <2>2 DEF MapTyped, Publishing
    <2>4. store' = store
        BY <1>3 DEF Attribute
    <2>5. Distinct(draft'[c].is.records)
        BY <2>1, <2>3 DEF Valid, Distinct
    <2> QED BY <2>3, <2>4, <2>5, LoadMoves
<1>4. ASSUME NEW c \in Clients, Republish(c) PROVE LoadInv'
    <2>1. PICK i \in Published : \E S \in {{}, store.revisions[i].records} :
            draft' = [draft EXCEPT ![c] =
                         Publishing(i, [store.revisions[i] EXCEPT !.records = S], S)]
        BY <1>4 DEF Republish
    <2>2. PICK S \in {{}, store.revisions[i].records} :
            draft' = [draft EXCEPT ![c] =
                         Publishing(i, [store.revisions[i] EXCEPT !.records = S], S)]
        BY <2>1
    <2>3. i \in RevisionIds /\ store.revisions[i] \in Revisions
        BY DEF Published, MapTyped
    <2>4. [store.revisions[i] EXCEPT !.records = S].records = S
        BY <2>3 DEF Revisions
    <2>5. /\ draft'[c].at = "read" /\ draft'[c].is.records = S
          /\ \A k \in Clients \ {c} : draft'[k] = draft[k]
        BY <2>2, <2>4 DEF MapTyped, Publishing
    <2>6. \A x, y \in store.revisions[i].records : x.kind = y.kind /\ x.id = y.id => x = y
        BY <2>3 DEF LoadInv, ValidStore, Distinct
    <2>7. Distinct(draft'[c].is.records)
        BY <2>5, <2>6 DEF Distinct
    <2>8. store' = store
        BY <1>4 DEF Republish
    <2> QED BY <2>5, <2>7, <2>8, LoadMoves
<1>5. ASSUME NEW c \in Clients, ReadStore(c) PROVE LoadInv'
    <2>1. /\ draft[c].at = "read" /\ store' = store /\ draft'[c].is = draft[c].is
          /\ draft'[c].at = "write" /\ draft'[c].seen = store.revisions
          /\ \A k \in Clients \ {c} : draft'[k] = draft[k]
        BY <1>5 DEF ReadStore, MapTyped
    <2>2. Distinct(draft[c].is.records) /\ ValidStore(store.revisions)
        BY <2>1 DEF LoadInv
    <2> QED BY <2>1, <2>2, LoadMoves
<1>6. ASSUME NEW c \in Clients, \/ AlreadyCurrent(c) \/ Refused(c) \/ UnknownActor(c)
                                \/ WriteMarkdown(c) \/ WriteStatus(c)
                                \/ MarkStale(c) \/ PublicationDies(c)
      PROVE  LoadInv'
    <2>1. draft'[c].at \in {"idle", "render", "status"}
        <3>1. CASE AlreadyCurrent(c)
            <4>1. draft'[c] = [at |-> "render", id |-> draft[c].id]
                BY <3>1, AlreadyCurrentStep
            <4>2. draft'[c].at = "render"
                BY <4>1
            <4> QED BY <4>2
        <3>2. CASE WriteMarkdown(c)
            <4>1. draft'[c] = [at |-> "status", id |-> draft[c].id]
                BY <3>2, WriteMarkdownStep
            <4>2. draft'[c].at = "status"
                BY <4>1
            <4> QED BY <4>2
        <3>3. CASE \/ Refused(c) \/ UnknownActor(c) \/ PublicationDies(c)
                   \/ WriteStatus(c) \/ MarkStale(c)
            BY <3>3, EndStep DEF AtRest
        <3> QED BY <1>6, <3>1, <3>2, <3>3
    <2>2. store' = store /\ \A k \in Clients \ {c} : draft'[k] = draft[k]
        BY <1>6 DEF AlreadyCurrent, Render, Refused, UnknownActor,
                    WriteMarkdown, WriteStatus, MarkStale, PublicationDies, MapTyped
    <2> QED BY <2>1, <2>2, LoadMoves
<1>7. ASSUME NEW c \in Clients, WriteStore(c) PROVE LoadInv'
    <2>1. /\ draft[c].id \in RevisionIds
          /\ draft'[c] = [at |-> "render", id |-> draft[c].id]
          /\ store'.revisions[draft[c].id] = draft[c].is
          /\ \A i \in RevisionIds \ {draft[c].id} : store'.revisions[i] = draft[c].seen[i]
        BY <1>7, WriteStoreStep
    <2>2. draft[c].at = "write" /\ \A k \in Clients \ {c} : draft'[k] = draft[k]
        BY <1>7 DEF WriteStore, Render, MapTyped
    <2>3. Distinct(draft[c].is.records) /\ \A i \in RevisionIds : Distinct(draft[c].seen[i].records)
        BY <2>2 DEF LoadInv, ValidStore
    <2>4. \A i \in RevisionIds : Distinct(store'.revisions[i].records)
        BY <2>1, <2>3
    <2>5. ASSUME NEW k \in Clients
          PROVE  /\ draft'[k].at = "reconciled" => Distinct(draft'[k].on)
                 /\ draft'[k].at \in {"read", "write"} => Distinct(draft'[k].is.records)
                 /\ draft'[k].at = "write" => ValidStore(draft'[k].seen)
        <3>1. CASE k = c
            BY <2>1, <3>1
        <3>2. CASE k # c
            <4>1. draft'[k] = draft[k]
                BY <2>2, <3>2
            <4> QED BY <4>1 DEF LoadInv
        <3> QED BY <3>1, <3>2
    <2> QED BY <2>4, <2>5 DEF LoadInv, ValidStore, Distinct, RevisionIds
<1>8. ASSUME NEW c \in Clients, Assembled(c) PROVE LoadInv'
    <2>1. /\ draft[c].at = "reconciled" /\ store' = store
          /\ \A k \in Clients \ {c} : draft'[k] = draft[k]
        BY <1>8 DEF Assembled, MapTyped
    <2>2. PICK g \in Valids, r \in Revisions :
            /\ r.records = Preserve(draft[c].on, g)
            /\ draft'[c] = [at |-> "read", id |-> draft[c].id, is |-> r, on |-> draft[c].on]
        BY <1>8, AssembledStep
    <2>3. draft[c].on \in SUBSET Records /\ Distinct(draft[c].on)
        BY <1>8, <2>1, AssembledStep DEF LoadInv
    <2>4. g \in SUBSET Records /\ \A x, y \in g : x.id = y.id => x = y
        BY DEF Valids, Valid
    <2>5. Distinct(r.records)
        BY <2>2, <2>3, <2>4, PreserveValid DEF Distinct
    <2>6. draft'[c].at = "read" /\ draft'[c].is = r
        BY <2>2
    <2> QED BY <2>1, <2>5, <2>6, LoadMoves
<1> QED BY <1>1, <1>2, <1>3, <1>4, <1>5, <1>6, <1>7, <1>8 DEF MapNext

\* A map that load refuses holds records of two kinds under one identifier, the
\* one thing assemble_generated_refresh leaves unchecked: for any number of
\* clients, publications never store two records of one kind under one name.
THEOREM LoadsCorrect == MapSpec => []LoadsUnlessKindsClash
<1>1. MapInit => LoadInv
    BY DEF MapInit, LoadInv, ValidStore, Distinct, Absent, AtRest
<1>2. MapTyped /\ LoadInv /\ [MapNext]_mapVars => LoadInv'
    BY MapBounds, LoadedStep
<1>3. LoadInv => LoadsUnlessKindsClash
    BY DEF LoadInv, ValidStore, Distinct, LoadsUnlessKindsClash, Valid, Published
<1> QED BY <1>1, <1>2, <1>3, MapTypeCorrect, PTL DEF MapSpec

-----------------------------------------------------------------------------
(* The map: what a publication takes from another *)

\* A publication carries what it was made from, and names a revision that was not
\* in the store it read.
Carries(c) ==
    /\ draft[c].at \in {"read", "write"} =>
         Protected(draft[c].on) \subseteq draft[c].is.records
    /\ draft[c].at = "write" => draft[c].seen[draft[c].id] = Absent

CarryInv == \A c \in Clients : Carries(c)

\* One client moves: the others carry what they carried.
LEMMA CarryMoves ==
    ASSUME CarryInv, NEW c \in Clients, Carries(c)', \A k \in Clients \ {c} : draft'[k] = draft[k]
    PROVE  CarryInv'
<1>1. ASSUME NEW k \in Clients \ {c} PROVE Carries(k)'
    <2>1. Carries(k) /\ draft'[k] = draft[k]
        BY DEF CarryInv
    <2> QED BY <2>1 DEF Carries, Protected, Absent
<1> QED BY <1>1 DEF CarryInv

LEMMA CarryStep ==
    ASSUME MapBounds, MapTyped, CarryInv, [MapNext]_mapVars PROVE CarryInv'
<1>1. CASE UNCHANGED mapVars
    BY <1>1 DEF mapVars, CarryInv, Carries, Protected, Absent
<1>2. ASSUME NEW c \in Clients, Refresh(c) \/ Attribute(c) \/ Republish(c) PROVE CarryInv'
    <2>1. /\ draft'[c].at \in {"reconciled", "read"}
          /\ draft'[c].at = "read" => Protected(draft'[c].on) \subseteq draft'[c].is.records
        <3>1. CASE Refresh(c)
            BY <3>1, RefreshStep
        <3>2. CASE Attribute(c)
            BY <3>2, AttributeStep DEF Protected
        <3>3. CASE Republish(c)
            BY <3>3, RepublishStep DEF Protected
        <3> QED BY <1>2, <3>1, <3>2, <3>3
    <2>2. \A k \in Clients \ {c} : draft'[k] = draft[k]
        BY <1>2, Zenon DEF Refresh, Attribute, Republish, MapTyped
    <2>3. Carries(c)'
        BY <2>1 DEF Carries, Protected
    <2> QED BY <2>2, <2>3, CarryMoves
<1>3. ASSUME NEW c \in Clients, Assembled(c) \/ ReadStore(c) PROVE CarryInv'
    <2>1. Carries(c)'
        <3>1. CASE Assembled(c)
            <4>1. PICK g \in Valids, r \in Revisions :
                    /\ r.records = Preserve(draft[c].on, g)
                    /\ draft'[c] = [at |-> "read", id |-> draft[c].id, is |-> r, on |-> draft[c].on]
                BY <3>1, AssembledStep
            <4>2. Protected(draft[c].on) \subseteq r.records
                BY <4>1 DEF Preserve, Protected
            <4>3. draft'[c].at = "read" /\ draft'[c].is = r /\ draft'[c].on = draft[c].on
                BY <4>1
            <4> QED BY <4>2, <4>3 DEF Carries, Protected
        <3>2. CASE ReadStore(c)
            <4>1. /\ store.revisions[draft[c].id] = Absent
                  /\ draft'[c] = [at |-> "write", id |-> draft[c].id, is |-> draft[c].is,
                                  on |-> draft[c].on, seen |-> store.revisions]
                BY <3>2, ReadStoreStep
            <4>2. /\ draft'[c].id = draft[c].id /\ draft'[c].is = draft[c].is
                  /\ draft'[c].on = draft[c].on /\ draft'[c].seen = store.revisions
                BY <4>1
            <4>3. Protected(draft[c].on) \subseteq draft[c].is.records
                BY <3>2 DEF ReadStore, CarryInv, Carries
            <4> QED BY <4>1, <4>2, <4>3 DEF Carries, Protected, Absent
        <3> QED BY <1>3, <3>1, <3>2
    <2>2. \A k \in Clients \ {c} : draft'[k] = draft[k]
        BY <1>3 DEF Assembled, ReadStore, MapTyped
    <2> QED BY <2>1, <2>2, CarryMoves
<1>4. ASSUME NEW c \in Clients, \/ AlreadyCurrent(c) \/ Refused(c) \/ UnknownActor(c)
                                \/ WriteStore(c) \/ WriteMarkdown(c) \/ WriteStatus(c)
                                \/ MarkStale(c) \/ PublicationDies(c)
      PROVE  CarryInv'
    <2>1. draft'[c].at \in {"idle", "render", "status"}
        <3>1. CASE AlreadyCurrent(c) \/ WriteStore(c) \/ WriteMarkdown(c)
            <4>1. \E at \in {"render", "status"} : draft'[c] = [at |-> at, id |-> draft[c].id]
                BY <3>1, AlreadyCurrentStep, WriteStoreStep, WriteMarkdownStep
            <4> QED BY <4>1
        <3>2. CASE \/ Refused(c) \/ UnknownActor(c) \/ PublicationDies(c)
                   \/ WriteStatus(c) \/ MarkStale(c)
            BY <3>2, EndStep DEF AtRest
        <3> QED BY <1>4, <3>1, <3>2
    <2>2. \A k \in Clients \ {c} : draft'[k] = draft[k]
        BY <1>4 DEF AlreadyCurrent, Render, Refused, UnknownActor, WriteStore,
                    WriteMarkdown, WriteStatus, MarkStale, PublicationDies, MapTyped
    <2>3. Carries(c)'
        BY <2>1 DEF Carries
    <2> QED BY <2>2, <2>3, CarryMoves
<1> QED BY <1>1, <1>2, <1>3, <1>4 DEF MapNext

\* The store is written by one publication, or not at all.
LEMMA StoreMoves ==
    ASSUME [MapNext]_mapVars PROVE store' = store \/ \E c \in Clients : WriteStore(c)
BY DEF MapNext, mapVars, Refresh, Assembled, Attribute, Republish, ReadStore, AlreadyCurrent,
       Refused, UnknownActor, WriteMarkdown, WriteStatus, MarkStale, PublicationDies

\* A publication that goes on from its read of the store to its rendering has
\* written the store.
LEMMA PublishesWrites ==
    ASSUME MapBounds, MapTyped, [MapNext]_mapVars, NEW c \in Clients, Publishes(c)
    PROVE  WriteStore(c)
<1>1. draft[c].at = "write" /\ draft'[c].at = "render"
    BY DEF Publishes
<1>2. ~UNCHANGED mapVars
    BY <1>1 DEF mapVars
<1>3. ASSUME NEW d \in Clients,
             \/ Refresh(d) \/ Assembled(d) \/ Attribute(d) \/ Republish(d)
             \/ ReadStore(d) \/ AlreadyCurrent(d) \/ Refused(d) \/ UnknownActor(d)
             \/ WriteMarkdown(d) \/ WriteStatus(d) \/ MarkStale(d) \/ PublicationDies(d)
      PROVE  FALSE
    <2>1. d = c
        <3>1. \A k \in Clients \ {d} : draft'[k] = draft[k]
            BY <1>3, Zenon DEF Refresh, Assembled, Attribute, Republish, ReadStore,
               AlreadyCurrent, Render, Refused, UnknownActor, WriteMarkdown, WriteStatus,
               MarkStale, PublicationDies, MapTyped
        <3>2. draft'[c] # draft[c]
            BY <1>1
        <3> QED BY <3>1, <3>2
    <2>2. ~PublicationDies(d)
        BY <1>1, <2>1, EndStep DEF AtRest
    <2>3. draft[d].at \in {"idle", "reconciled", "read", "render", "status"}
        BY <1>3, <2>2 DEF Refresh, Attribute, Republish, Starts, AtRest, Assembled, ReadStore,
           AlreadyCurrent, Refused, UnknownActor, WriteMarkdown, WriteStatus, MarkStale
    <2> QED BY <1>1, <2>1, <2>3
<1>4. ASSUME NEW d \in Clients, WriteStore(d) PROVE d = c
    <2>1. \A k \in Clients \ {d} : draft'[k] = draft[k]
        BY <1>4 DEF WriteStore, Render, MapTyped
    <2>2. draft'[c] # draft[c]
        BY <1>1
    <2> QED BY <2>1, <2>2
<1>5. MapNext
    BY <1>2
<1>6. PICK d \in Clients :
        \/ Refresh(d) \/ Assembled(d) \/ Attribute(d) \/ Republish(d)
        \/ ReadStore(d) \/ AlreadyCurrent(d) \/ Refused(d) \/ UnknownActor(d) \/ WriteStore(d)
        \/ WriteMarkdown(d) \/ WriteStatus(d) \/ MarkStale(d) \/ PublicationDies(d)
    BY <1>5 DEF MapNext
<1> QED BY <1>3, <1>4, <1>6

LEMMA StandsStep ==
    ASSUME MapBounds, MapTyped, CarryInv, [MapNext]_mapVars
    PROVE  /\ \A c \in Clients : Publishes(c) /\ store.current # 0 =>
                Protected(Current.records) \cap draft[c].on \subseteq Current'.records
           /\ \A i \in Published : store'.revisions[i] # store.revisions[i] =>
                \E c \in Clients : Publishes(c) /\ draft[c].seen[i] # store.revisions[i]
<1>1. ASSUME NEW c \in Clients, WriteStore(c)
      PROVE  /\ draft[c].at = "write" /\ draft[c].id \in RevisionIds /\ Publishes(c)
             /\ Current' = draft[c].is
             /\ \A i \in RevisionIds \ {draft[c].id} : store'.revisions[i] = draft[c].seen[i]
    <2>1. /\ draft[c].id \in RevisionIds
          /\ draft'[c] = [at |-> "render", id |-> draft[c].id]
          /\ store'.current = draft[c].id
          /\ store'.revisions[draft[c].id] = draft[c].is
          /\ \A i \in RevisionIds \ {draft[c].id} : store'.revisions[i] = draft[c].seen[i]
        BY <1>1, WriteStoreStep
    <2>2. draft[c].at = "write" /\ draft'[c].at = "render"
        BY <1>1, <2>1 DEF WriteStore
    <2> QED BY <2>1, <2>2 DEF Publishes, Current
<1>2. ASSUME NEW c \in Clients, Publishes(c)
      PROVE  Protected(Current.records) \cap draft[c].on \subseteq Current'.records
    <2>1. draft[c].at = "write" /\ Current' = draft[c].is
        BY <1>1, <1>2, PublishesWrites
    <2>2. Protected(draft[c].on) \subseteq draft[c].is.records
        BY <2>1 DEF CarryInv, Carries
    <2> QED BY <2>1, <2>2 DEF Protected
<1>3. ASSUME NEW i \in Published, store'.revisions[i] # store.revisions[i]
      PROVE  \E c \in Clients : Publishes(c) /\ draft[c].seen[i] # store.revisions[i]
    <2>1. PICK c \in Clients : WriteStore(c)
        BY <1>3, StoreMoves
    <2>2. draft[c].seen[draft[c].id] = Absent
        BY <1>1, <2>1 DEF CarryInv, Carries
    <2>3. i \in RevisionIds /\ store.revisions[i] # Absent
        BY DEF Published
    <2>4. draft[c].seen[i] # store.revisions[i]
        <3>1. CASE i = draft[c].id
            BY <2>2, <2>3, <3>1
        <3>2. CASE i # draft[c].id
            BY <1>1, <1>3, <2>1, <2>3, <3>2
        <3> QED BY <3>1, <3>2
    <2> QED BY <1>1, <2>1, <2>4
<1> QED BY <1>2, <1>3

LEMMA CarryAlways == MapSpec => []CarryInv
<1>1. MapInit => CarryInv
    BY DEF MapInit, CarryInv, Carries, AtRest
<1>2. MapTyped /\ CarryInv /\ [MapNext]_mapVars => CarryInv'
    BY MapBounds, CarryStep
<1> QED BY <1>1, <1>2, MapTypeCorrect, PTL DEF MapSpec

\* However many refreshes overlap, a protected record leaves the current map only
\* by a publication made without it, and a published revision leaves the store, or
\* changes, only by a publication that read the store before it was there
\* (repository.py:92-130, reconciliation.py).
THEOREM StandsCorrect == MapSpec => MapStands
<1>1. MapTyped /\ CarryInv /\ [MapNext]_mapVars =>
        /\ [\A c \in Clients : Publishes(c) /\ store.current # 0 =>
              Protected(Current.records) \cap draft[c].on \subseteq Current'.records]_mapVars
        /\ [\A i \in Published : store'.revisions[i] # store.revisions[i] =>
              \E c \in Clients : Publishes(c) /\ draft[c].seen[i] # store.revisions[i]]_mapVars
    BY MapBounds, StandsStep, Zenon
<1> QED BY <1>1, MapTypeCorrect, CarryAlways, PTL
        DEF MapSpec, MapStands, ProtectedStand, RevisionsStand

-----------------------------------------------------------------------------
(* The map: publications that do not overlap *)

\* What a publication knows of the store is still true, and what it renders is
\* current.
Holds(c) ==
    /\ draft[c].at = "write" => /\ draft[c].seen = store.revisions
                                /\ draft[c].id \notin Published
    /\ draft[c].at \in {"render", "status"} => draft[c].id = store.current
    /\ draft[c].at = "status" => markdown = draft[c].id

\* The status speaks of a revision that exists, and truly of the current one.
FilesAgree ==
    /\ markdown \in Published \cup {0}
    /\ status \in [of : Published \cup {0}, fresh : {"current", "stale", "unknown"}]
    /\ store.current # 0 /\ status.of = store.current /\ status.fresh = "current"
         => markdown = store.current

Quiet(c) == \A d \in Clients \ {c} : draft[d] = AtRest

AloneInv ==
    /\ FilesAgree /\ \A c \in Clients : Holds(c)
    /\ \A c \in Clients : draft[c] # AtRest => Quiet(c)

MapInv == MapTyped /\ (alone => AloneInv)

LEMMA MapInvInit == ASSUME MapBounds, MapInit PROVE MapInv
<1>1. /\ \A c \in Clients : draft[c] = AtRest
      /\ markdown = 0 /\ status = [of |-> 0, fresh |-> "unknown"]
      /\ store.current = 0
    BY DEF MapInit
<1>2. \A c \in Clients : Holds(c)
    BY <1>1 DEF Holds, AtRest
<1>3. FilesAgree
    BY <1>1 DEF FilesAgree
<1> QED BY <1>1, <1>2, <1>3, MapTypedInit DEF MapInv, AloneInv

\* A client at rest holds nothing that could fail.
LEMMA RestHolds ==
    ASSUME NEW c \in Clients, Quiet(c)', FilesAgree', Holds(c)'
    PROVE  AloneInv'
<1>1. ASSUME NEW d \in Clients PROVE Holds(d)'
    <2>1. CASE d = c BY <2>1
    <2>2. CASE d # c
        <3>1. draft'[d] = AtRest BY <2>2 DEF Quiet
        <3> QED BY <3>1 DEF Holds, AtRest
    <2> QED BY <2>1, <2>2
<1>2. ASSUME NEW d \in Clients, draft'[d] # AtRest PROVE Quiet(d)'
    <2>1. d = c BY <1>2 DEF Quiet
    <2> QED BY <2>1
<1> QED BY <1>1, <1>2 DEF AloneInv, Quiet, AtRest

\* A step that writes no file has only to say what its client holds.
LEMMA JobOnly ==
    ASSUME AloneInv, NEW c \in Clients, Quiet(c)',
           store' = store, markdown' = markdown, status' = status, Holds(c)'
    PROVE  AloneInv'
<1>1. FilesAgree'
    BY DEF AloneInv, FilesAgree, Published, RevisionIds, Absent
<1> QED BY <1>1, RestHolds

LEMMA MapInvReading ==
    ASSUME MapBounds, MapTyped, AloneInv, NEW c \in Clients, Quiet(c)',
           \/ Refresh(c) \/ Assembled(c) \/ Attribute(c) \/ Republish(c)
           \/ ReadStore(c)
    PROVE  AloneInv'
<1>1. Holds(c)
    BY DEF AloneInv
<1>2. /\ store' = store /\ markdown' = markdown /\ status' = status
    BY DEF Refresh, Assembled, Attribute, Republish, ReadStore
<1>3. CASE Refresh(c) \/ Assembled(c) \/ Attribute(c) \/ Republish(c)
    <2>1. draft'[c].at \in {"reconciled", "read"}
        <3>1. CASE Assembled(c)
            <4>1. \E r \in Revisions :
                    draft'[c] = [at |-> "read", id |-> draft[c].id, is |-> r, on |-> draft[c].on]
                BY <3>1, AssembledStep
            <4> QED BY <4>1
        <3> QED BY <1>3, <3>1, RefreshStep, AttributeStep, RepublishStep
    <2>2. Holds(c)'
        BY <2>1 DEF Holds
    <2> QED BY <1>2, <2>2, JobOnly
<1>4. CASE ReadStore(c)
    <2>1. /\ store.revisions[draft[c].id] = Absent
          /\ draft'[c] = [at |-> "write", id |-> draft[c].id, is |-> draft[c].is,
                           on |-> draft[c].on, seen |-> store.revisions]
        BY <1>4, ReadStoreStep
    <2>2. draft[c].id \notin Published
        BY <2>1 DEF Published
    <2>3. Published' = Published
        BY <1>2 DEF Published, RevisionIds, Absent
    <2>4. /\ draft'[c].at = "write" /\ draft'[c].id = draft[c].id
          /\ draft'[c].seen = store.revisions
        BY <2>1
    <2>5. Holds(c)'
        BY <1>2, <2>2, <2>3, <2>4 DEF Holds
    <2> QED BY <1>2, <2>5, JobOnly
<1> QED BY <1>3, <1>4

\* The revision that is written was new, so that no status speaks of it yet.
LEMMA StoreWritten ==
    ASSUME MapBounds, MapTyped, AloneInv, NEW c \in Clients, Quiet(c)', WriteStore(c)
    PROVE  AloneInv'
<1>1. Holds(c) /\ FilesAgree
    BY DEF AloneInv
<1> DEFINE i == draft[c].id
<1>2. /\ draft[c].at = "write" /\ markdown' = markdown /\ status' = status
    BY DEF WriteStore
<1>3. /\ i \in RevisionIds
      /\ draft'[c] = [at |-> "render", id |-> i]
      /\ store'.current = i
      /\ store'.revisions[i] = draft[c].is
      /\ \A k \in RevisionIds \ {i} : store'.revisions[k] = draft[c].seen[k]
    BY WriteStoreStep
<1>4. draft[c].seen = store.revisions /\ i \notin Published
    BY <1>1, <1>2 DEF Holds
<1> HIDE DEF i
<1>5. \A k \in Published : k \in RevisionIds /\ k # i
    BY <1>4 DEF Published
<1>6. \A k \in Published : store'.revisions[k] = store.revisions[k]
    BY <1>3, <1>4, <1>5
<1>7. Published \subseteq Published'
    BY <1>6 DEF Published, RevisionIds, Absent
<1>8. i # 0
    BY <1>3 DEF RevisionIds
<1>9. status.of # i
    BY <1>1, <1>4, <1>8 DEF FilesAgree
<1>10. FilesAgree'
    BY <1>1, <1>2, <1>3, <1>7, <1>9 DEF FilesAgree
<1>11. Holds(c)'
    BY <1>3 DEF Holds
<1> QED BY <1>10, <1>11, RestHolds

\* A step after which no publications have overlapped is of the only client that
\* is at work.
LEMMA AloneMoves ==
    ASSUME MapTyped, MapInv, alone', NEW c \in Clients,
           \/ Refresh(c) \/ Assembled(c) \/ Attribute(c) \/ Republish(c)
           \/ ReadStore(c) \/ AlreadyCurrent(c) \/ Refused(c) \/ UnknownActor(c) \/ WriteStore(c)
           \/ WriteMarkdown(c) \/ WriteStatus(c) \/ MarkStale(c) \/ PublicationDies(c)
    PROVE  AloneInv /\ Quiet(c)'
<1>1. \A k \in Clients \ {c} : draft'[k] = draft[k]
    BY Zenon DEF Refresh, Assembled, Attribute, Republish, ReadStore, AlreadyCurrent, Render,
       Refused, UnknownActor, WriteStore, WriteMarkdown, WriteStatus, MarkStale,
       PublicationDies, MapTyped
<1>2. CASE Refresh(c) \/ Attribute(c) \/ Republish(c)
    <2>1. alone /\ \A d \in Clients : draft[d] = AtRest
        BY <1>2, Zenon DEF Refresh, Attribute, Republish, Starts
    <2> QED BY <1>1, <2>1 DEF MapInv, Quiet, AtRest
<1>3. CASE \/ Assembled(c) \/ ReadStore(c) \/ AlreadyCurrent(c) \/ Refused(c) \/ UnknownActor(c)
           \/ WriteStore(c) \/ WriteMarkdown(c) \/ WriteStatus(c) \/ MarkStale(c)
           \/ PublicationDies(c)
    <2>1. alone
        BY <1>3, Zenon DEF Assembled, ReadStore, AlreadyCurrent, Refused, UnknownActor,
           WriteStore, WriteMarkdown, WriteStatus, MarkStale, PublicationDies
    <2>2. draft[c] # AtRest
        <3>1. draft[c].at \in {"reconciled", "read", "write", "render", "status"} => draft[c] # AtRest
            BY DEF AtRest
        <3> QED BY <1>3, <3>1 DEF Assembled, ReadStore, AlreadyCurrent, Refused, UnknownActor,
               WriteStore, WriteMarkdown, WriteStatus, MarkStale, PublicationDies
    <2>3. AloneInv /\ Quiet(c)
        BY <2>1, <2>2 DEF MapInv, AloneInv
    <2> QED BY <1>1, <2>3 DEF Quiet, AtRest
<1> QED BY <1>2, <1>3

LEMMA MapInvStep ==
    ASSUME MapBounds, MapInv, [MapNext]_mapVars
    PROVE  MapInv'
<1>0. MapTyped /\ MapTyped'
    BY MapTypedStep DEF MapInv
<1>1. SUFFICES ASSUME alone' PROVE AloneInv'
    BY <1>0 DEF MapInv
<1>2. CASE UNCHANGED mapVars
    <2>1. AloneInv
        BY <1>1, <1>2 DEF mapVars, MapInv
    <2> QED BY <1>2, <2>1 DEF mapVars, AloneInv, FilesAgree, Holds, Quiet, Published,
            RevisionIds, Absent, AtRest
<1>3. ASSUME NEW c \in Clients,
             \/ Refresh(c) \/ Assembled(c) \/ Attribute(c) \/ Republish(c)
             \/ ReadStore(c)
      PROVE  AloneInv'
    <2>1. AloneInv /\ Quiet(c)'
        BY <1>0, <1>1, <1>3, AloneMoves
    <2> QED BY <1>0, <1>3, <2>1, MapInvReading
<1>4. ASSUME NEW c \in Clients, WriteStore(c) PROVE AloneInv'
    <2>1. AloneInv /\ Quiet(c)'
        BY <1>0, <1>1, <1>4, AloneMoves
    <2> QED BY <1>0, <1>4, <2>1, StoreWritten
<1>5. ASSUME NEW c \in Clients, AlreadyCurrent(c) PROVE AloneInv'
    <2>1. AloneInv /\ Quiet(c)'
        BY <1>0, <1>1, <1>5, AloneMoves
    <2>2. /\ store.current = draft[c].id
          /\ draft'[c] = [at |-> "render", id |-> draft[c].id]
        BY <1>0, <1>5, AlreadyCurrentStep
    <2>3. store' = store /\ markdown' = markdown /\ status' = status
        BY <1>5 DEF AlreadyCurrent
    <2>4. Holds(c)'
        BY <2>2, <2>3 DEF Holds
    <2> QED BY <2>1, <2>3, <2>4, JobOnly
<1>6. ASSUME NEW c \in Clients, Refused(c) \/ UnknownActor(c) \/ PublicationDies(c)
      PROVE  AloneInv'
    <2>1. AloneInv /\ Quiet(c)'
        BY <1>0, <1>1, <1>6, AloneMoves
    <2>2. draft'[c] = AtRest
        BY <1>0, <1>6, EndStep
    <2>3. Holds(c)'
        BY <2>2 DEF Holds, AtRest
    <2>4. store' = store /\ markdown' = markdown /\ status' = status
        BY <1>6 DEF Refused, UnknownActor, PublicationDies
    <2> QED BY <2>1, <2>3, <2>4, JobOnly
<1>7. ASSUME NEW c \in Clients, WriteStatus(c) \/ MarkStale(c) PROVE AloneInv'
    <2>1. AloneInv /\ Quiet(c)'
        BY <1>0, <1>1, <1>7, AloneMoves
    <2>2. draft'[c] = AtRest
        BY <1>0, <1>7, EndStep
    <2>3. Holds(c)'
        BY <2>2 DEF Holds, AtRest
    <2>4. /\ draft[c].at \in {"render", "status"} /\ store' = store /\ markdown' = markdown
          /\ \/ draft[c].at = "status" /\ status' = [of |-> draft[c].id, fresh |-> "current"]
             \/ status' = [of |-> draft[c].id, fresh |-> "stale"]
        BY <1>7 DEF WriteStatus, MarkStale
    <2>5. /\ draft[c].id = store.current
          /\ draft[c].at = "status" => markdown = draft[c].id
        BY <2>1, <2>4 DEF AloneInv, Holds
    <2>6. draft[c].id \in Published
        <3>1. draft[c].id \in RevisionIds /\ 0 \notin RevisionIds
            BY <1>0, <2>4, NamesRevision DEF AtRest, RevisionIds
        <3> QED BY <1>0, <2>5, <3>1 DEF MapTyped, Published
    <2>7. Published' = Published
        BY <2>4 DEF Published, RevisionIds, Absent
    <2>8. FilesAgree'
        BY <2>1, <2>4, <2>5, <2>6, <2>7 DEF AloneInv, FilesAgree
    <2> QED BY <2>1, <2>3, <2>8, RestHolds
<1>8. ASSUME NEW c \in Clients, WriteMarkdown(c) PROVE AloneInv'
    <2>1. AloneInv /\ Quiet(c)'
        BY <1>0, <1>1, <1>8, AloneMoves
    <2>2. /\ draft[c].id \in RevisionIds /\ draft[c].at = "render"
          /\ draft'[c] = [at |-> "status", id |-> draft[c].id]
          /\ store' = store /\ status' = status /\ markdown' = draft[c].id
        BY <1>0, <1>8, WriteMarkdownStep DEF WriteMarkdown
    <2>3. draft[c].id = store.current
        BY <2>1, <2>2 DEF AloneInv, Holds
    <2>4. Holds(c)'
        BY <2>2, <2>3 DEF Holds
    <2>5. store.current \in Published
        <3>1. store.current # 0
            BY <2>2, <2>3 DEF RevisionIds
        <3> QED BY <1>0, <2>2, <2>3, <3>1 DEF MapTyped, Published
    <2>6. Published' = Published
        BY <2>2 DEF Published, RevisionIds, Absent
    <2>7. FilesAgree'
        BY <2>1, <2>2, <2>3, <2>5, <2>6 DEF AloneInv, FilesAgree
    <2> QED BY <2>1, <2>4, <2>7, RestHolds
<1> QED BY <1>2, <1>3, <1>4, <1>5, <1>6, <1>7, <1>8 DEF MapNext

\* As long as no two publications overlap, what write_store, write_markdown and
\* the status file agree on survives every refresh, refusal and crash.
THEOREM MapInvariant == MapSpec => []MapInv
<1>1. MapInit => MapInv
    BY MapBounds, MapInvInit
<1>2. MapInv /\ [MapNext]_mapVars => MapInv'
    BY MapBounds, MapInvStep
<1> QED BY <1>1, <1>2, PTL DEF MapSpec

\* For any number of clients, as long as no two publications have overlapped, a
\* query of the current map calls a rendering current only if it shows that
\* revision, wherever a publication died (projection.py).
THEOREM FreshCorrect == MapSpec => []FreshIsShown
<1>1. MapInv => FreshIsShown
    BY DEF MapInv, AloneInv, FilesAgree, FreshIsShown, StatusFor
<1> QED BY <1>1, MapInvariant, PTL
=============================================================================
