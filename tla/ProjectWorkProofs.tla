-------------------------- MODULE ProjectWorkProofs --------------------------
(***************************************************************************)
(* Proofs about what the API's stores keep of a Project's work, for any    *)
(* Work States, people, policies, requests, versions and calls: the review *)
(* of a Spec and the work derived from it; and what the proofs about the   *)
(* publication of checkpoints and shared boundaries say of them beside     *)
(* each other.                                                             *)
(***************************************************************************)
EXTENDS MCProjectWork, StandInJobsProofs, FiniteSetTheorems, WellFoundedInduction, TLAPS

-----------------------------------------------------------------------------
(* Numbers and sets.                                                       *)

\* A set of numbers from 1 to n has a largest one.
LEMMA MaxExists ==
  ASSUME NEW n \in Nat, NEW S, S \subseteq 1 .. n, S # {}
  PROVE  \E m \in S : \A x \in S : x <= m
<1> DEFINE T == {n - x : x \in S}
<1>1. T \subseteq Nat /\ T # {}
  <2>1. \A x \in S : x \in Int /\ n - x \in Nat OBVIOUS
  <2>2. PICK x \in S : TRUE OBVIOUS
  <2>3. n - x \in T OBVIOUS
  <2> QED BY <2>1, <2>3
<1>2. PICK m \in T : \A y \in T : <<y, m>> \notin OpToRel(<, Nat)
  <2> HIDE DEF T
  <2> QED BY <1>1, NatLessThanWellFounded, WFMin
<1>3. PICK x \in S : m = n - x OBVIOUS
<1>4. \A z \in S : z <= x
  <2> TAKE z \in S
  <2>1. n - z \in T OBVIOUS
  <2>2. ~(n - z < m) BY <1>1, <1>2, <2>1 DEF OpToRel
  <2> QED BY <1>3, <2>2
<1> QED BY <1>4

\* Max is that number.
LEMMA MaxIs ==
  ASSUME NEW S, S \subseteq Nat, NEW m \in S, \A x \in S : x <= m
  PROVE  Review!Max(S) = m
<1>1. m \in S /\ \A x \in S : m >= x OBVIOUS
<1>2. \A y \in S : (\A x \in S : y >= x) => y = m
  <2> SUFFICES ASSUME NEW y \in S, \A x \in S : y >= x PROVE y = m OBVIOUS
  <2>1. y >= m /\ m >= y BY <1>1
  <2>2. y \in Nat /\ m \in Nat OBVIOUS
  <2> QED BY <2>1, <2>2
<1> QED BY <1>1, <1>2 DEF Review!Max

\* More people are more.
LEMMA CountingPeople ==
  ASSUME NEW T, T \subseteq People, NEW S, S \subseteq T
  PROVE  /\ Review!Cardinality(S) \in Nat /\ Review!Cardinality(T) \in Nat
         /\ Review!Cardinality(S) <= Review!Cardinality(T)
<1>1. IsFiniteSet(People)
  BY ReviewConstants DEF Review!ReviewAssumption, Review!IsFiniteSet, IsFiniteSet
<1>2. IsFiniteSet(T) /\ IsFiniteSet(S) BY <1>1, FS_Subset
<1>3. \A U : Review!Cardinality(U) = Cardinality(U) BY DEF Review!Cardinality, Cardinality
<1>4. Cardinality(S) \in Nat /\ Cardinality(T) \in Nat /\ Cardinality(S) <= Cardinality(T)
  BY <1>2, FS_Subset, FS_CardinalityType
<1> QED BY <1>3, <1>4

\* n versions are numbered from 1 to n.
LEMMA CountingVersions == ASSUME NEW n \in Nat PROVE Review!Cardinality(1 .. n) = n
<1>1. Review!Cardinality(1 .. n) = Cardinality(1 .. n) BY DEF Review!Cardinality, Cardinality
<1>2. Cardinality(1 .. n) = n BY FS_Interval
<1> QED BY <1>1, <1>2

-----------------------------------------------------------------------------
(* The review of a Spec.                                                   *)

\* Types, with the shape of the rows.
Reviewable ==
  /\ \E n \in 1 .. MaxRevisions : DOMAIN author = 1 .. n
  /\ \A r \in DOMAIN author : author[r] \in People
  /\ revoked \subseteq DOMAIN author /\ confirmedAt \subseteq DOMAIN author
  /\ spec \in [current : Nat, confirmed : Nat, status : {"draft", "in_review", "approved"}]
  /\ spec.confirmed \in {0} \union confirmedAt
  /\ confirmations \subseteq (DOMAIN author) \X People
  /\ inbox \subseteq (DOMAIN author) \X People
  /\ policy \in Policies /\ known \subseteq Keys

Newest == spec.current \in Review!Active /\ \A r \in Review!Active : r <= spec.current

SelfAllowed == \E p \in Policies : p.self

Txs ==
  [pc : {"free", "create", "review", "count", "approve"}, by : People \union {Nobody},
   rev : {0} \union DOMAIN author, key : Keys \union {NoKey}, required : Nat, enough : BOOLEAN]

\* A transaction works with a version that there is, as somebody who may confirm
\* it; if it has counted enough people, so many have confirmed when it commits.
InFlight ==
  /\ tx \in [Requests -> Txs]
  /\ \A q \in Requests :
       /\ tx[q].pc = "create" => tx[q].by \in People /\ tx[q].key \in Keys
       /\ tx[q].pc \in {"review", "count", "approve"} => tx[q].rev \in DOMAIN author
       /\ tx[q].pc \in {"count", "approve"} =>
            tx[q].by \in People /\ (author[tx[q].rev] = tx[q].by => SelfAllowed)
       /\ tx[q].pc = "approve" /\ tx[q].enough =>
            Review!Cardinality(Review!Confirmers(tx[q].rev) \union {tx[q].by}) >= tx[q].required

ConfirmedFairly == \A c \in confirmations : author[c[1]] = c[2] => SelfAllowed

ApprovedFairly ==
  \A a \in approvals : /\ a.rev \in DOMAIN author /\ a.required \in Nat
                       /\ Review!Cardinality(Review!Confirmers(a.rev)) >= a.required

\* The inductive invariant.
ReviewInv == Reviewable /\ Newest /\ InFlight /\ ConfirmedFairly /\ ApprovedFairly

LEMMA ReviewInit == ASSUME Review!Init PROVE ReviewInv
<1> USE ReviewConstants DEF Review!ReviewAssumption, Review!Init
<1>1. DOMAIN author = 1 .. 1 /\ author[1] \in People OBVIOUS
<1>2. Reviewable BY <1>1 DEF Reviewable
<1>3. Newest BY <1>1 DEF Newest, Review!Active, Review!Versions
<1>4. InFlight BY DEF InFlight, Txs, Review!Free
<1>5. ConfirmedFairly /\ ApprovedFairly BY DEF ConfirmedFairly, ApprovedFairly
<1> QED BY <1>2, <1>3, <1>4, <1>5 DEF ReviewInv

\* What rows that stay as they are keep of what transactions rely on.
LEMMA RowsRest ==
  ASSUME ReviewInv, UNCHANGED <<author, revoked, confirmedAt, confirmations, known, approvals>>
  PROVE  ConfirmedFairly' /\ ApprovedFairly' /\ (Review!Active)' = Review!Active
  BY DEF ReviewInv, ConfirmedFairly, ApprovedFairly, SelfAllowed, Review!Confirmers,
         Review!Active, Review!Versions

\* A transaction begins or ends.
LEMMA TransactionKeeps ==
  ASSUME ReviewInv, NEW q \in Requests, NEW t \in Txs,
         t.pc = "create" => t.by \in People /\ t.key \in Keys,
         t.pc \in {"review", "count", "approve"} => t.rev \in DOMAIN author,
         t.pc \in {"count", "approve"} => t.by \in People /\ (author[t.rev] = t.by => SelfAllowed),
         t.pc = "approve" /\ t.enough =>
            Review!Cardinality(Review!Confirmers(t.rev) \union {t.by}) >= t.required,
         tx' = [tx EXCEPT ![q] = t], UNCHANGED <<author, confirmations>>
  PROVE  InFlight'
  BY DEF ReviewInv, InFlight, Txs, SelfAllowed, Review!Confirmers

\* Transactions that have read and not yet written.
LEMMA ReviewReadingSteps ==
  ASSUME ReviewInv, NEW q \in Requests,
         \/ \E p \in People : \/ \E k \in Keys : Review!LookUpKey(q, p, k)
                              \/ Review!ReadForConfirm(q, p)
         \/ Review!ReadForReview(q) \/ Review!Count(q) \/ Review!Rollback(q)
  PROVE  ReviewInv'
<1>1. UNCHANGED <<author, revoked, confirmedAt, spec, confirmations, inbox, policy, known, approvals>>
  BY DEF Review!LookUpKey, Review!ReadForConfirm, Review!ReadForReview, Review!Count,
         Review!Rollback, Review!review
<1>2. Reviewable' /\ Newest' /\ ConfirmedFairly' /\ ApprovedFairly'
  BY <1>1, RowsRest DEF ReviewInv, Reviewable, Newest
<1>3. spec.current \in DOMAIN author BY DEF ReviewInv, Newest, Review!Active, Review!Versions
<1>4. InFlight'
  <2>1. CASE \E p \in People, k \in Keys : Review!LookUpKey(q, p, k)
    <3>1. PICK p \in People, k \in Keys : Review!LookUpKey(q, p, k) BY <2>1
    <3> DEFINE t == [Review!Free EXCEPT !.pc = "create", !.by = p, !.key = k]
    <3>2. tx' = [tx EXCEPT ![q] = t] BY <3>1 DEF Review!LookUpKey
    <3>3. t \in Txs /\ t.pc = "create" /\ t.by = p /\ t.key = k BY DEF Review!Free, Txs
    <3> HIDE DEF t
    <3> QED BY <1>1, <3>2, <3>3, TransactionKeeps
  <2>2. CASE \E p \in People : Review!ReadForConfirm(q, p)
    <3>1. PICK p \in People : Review!ReadForConfirm(q, p) BY <2>2
    <3> DEFINE t == [Review!Free EXCEPT !.pc = "count", !.by = p, !.rev = spec.current,
                                        !.required = policy.required]
    <3>2. tx' = [tx EXCEPT ![q] = t] BY <3>1 DEF Review!ReadForConfirm
    <3>3. policy \in Policies /\ policy.required \in Nat
      BY ReviewConstants DEF Review!ReviewAssumption, ReviewInv, Reviewable
    <3>4. t \in Txs /\ t.pc = "count" /\ t.by = p /\ t.rev = spec.current
      BY <1>3, <3>3 DEF Review!Free, Txs
    <3>5. author[spec.current] = p => SelfAllowed
      BY <3>1, <3>3 DEF Review!ReadForConfirm, Review!MayConfirm, SelfAllowed
    <3> HIDE DEF t
    <3> QED BY <1>1, <1>3, <3>2, <3>4, <3>5, TransactionKeeps
  <2>3. CASE Review!ReadForReview(q)
    <3> DEFINE t == [Review!Free EXCEPT !.pc = "review", !.rev = spec.current]
    <3>1. tx' = [tx EXCEPT ![q] = t] BY <2>3 DEF Review!ReadForReview
    <3>2. t \in Txs /\ t.pc = "review" /\ t.rev = spec.current BY <1>3 DEF Review!Free, Txs
    <3> HIDE DEF t
    <3> QED BY <1>1, <1>3, <3>1, <3>2, TransactionKeeps
  <2>4. CASE Review!Count(q)
    <3> DEFINE enough == Review!Cardinality(Review!Confirmers(tx[q].rev) \union {tx[q].by}) >= tx[q].required
               t == [tx[q] EXCEPT !.pc = "approve", !.enough = enough]
    <3>1. tx[q].pc = "count" /\ tx' = [tx EXCEPT ![q] = t]
      BY <2>4 DEF Review!Count, ReviewInv, InFlight
    <3>2. /\ tx[q] \in Txs /\ tx[q].rev \in DOMAIN author /\ tx[q].by \in People
          /\ (author[tx[q].rev] = tx[q].by => SelfAllowed)
      BY <3>1 DEF ReviewInv, InFlight
    <3>3. enough \in BOOLEAN OBVIOUS
    <3> HIDE DEF enough
    <3>4. /\ t \in Txs /\ t.pc = "approve" /\ t.rev = tx[q].rev /\ t.by = tx[q].by
          /\ t.required = tx[q].required /\ t.enough = enough
      BY <3>2, <3>3 DEF Txs
    <3> HIDE DEF t
    <3>5. t.pc = "approve" /\ t.enough =>
            Review!Cardinality(Review!Confirmers(t.rev) \union {t.by}) >= t.required
      BY <3>4 DEF enough
    <3> QED BY <1>1, <3>1, <3>2, <3>4, <3>5, TransactionKeeps
  <2>5. CASE Review!Rollback(q)
    <3>1. tx' = [tx EXCEPT ![q] = Review!Free] BY <2>5 DEF Review!Rollback, Review!Ends
    <3>2. Review!Free \in Txs /\ Review!Free.pc = "free" BY DEF Review!Free, Txs
    <3> QED BY <1>1, <3>1, <3>2, TransactionKeeps
  <2> QED BY <2>1, <2>2, <2>3, <2>4, <2>5
<1> QED BY <1>2, <1>4 DEF ReviewInv

LEMMA RevokeStep == ASSUME ReviewInv, NEW r, Review!RevokeVersion(r) PROVE ReviewInv'
<1>1. /\ UNCHANGED <<author, confirmedAt, confirmations, inbox, policy, known, tx, approvals>>
      /\ revoked' = revoked \union {r} /\ r \in Review!Active /\ Review!Active # {r}
      /\ spec' = IF spec.current = r
                 THEN [spec EXCEPT !.current = Review!Max(Review!Active \ {r}), !.status = "draft"]
                 ELSE spec
  BY DEF Review!RevokeVersion, Review!review
<1>2. (Review!Active)' = Review!Active \ {r} BY <1>1 DEF Review!Active, Review!Versions
<1>3. PICK n \in 1 .. MaxRevisions : DOMAIN author = 1 .. n BY DEF ReviewInv, Reviewable
<1>4. Review!Active \ {r} \subseteq 1 .. n BY <1>3 DEF Review!Active, Review!Versions
<1>5. PICK m \in Review!Active \ {r} : \A x \in Review!Active \ {r} : x <= m
  <2>1. Review!Active \ {r} # {} BY <1>1
  <2>2. n \in Nat OBVIOUS
  <2> QED BY <1>4, <2>1, <2>2, MaxExists
<1>6. Review!Max(Review!Active \ {r}) = m /\ m \in 1 .. n
  <2>1. Review!Active \ {r} \subseteq Nat BY <1>4
  <2> QED BY <1>4, <1>5, <2>1, MaxIs
<1>7. Newest'
  <2>1. CASE spec.current = r
    <3>1. spec'.current = m BY <1>1, <1>6, <2>1 DEF ReviewInv, Reviewable
    <3> QED BY <1>2, <1>5, <3>1 DEF Newest
  <2>2. CASE spec.current # r
    BY <1>1, <1>2, <2>2 DEF Newest, ReviewInv
  <2> QED BY <2>1, <2>2
<1>8. Reviewable'
  <2>1. /\ spec' \in [current : Nat, confirmed : Nat, status : {"draft", "in_review", "approved"}]
        /\ spec'.confirmed = spec.confirmed
    <3>1. spec \in [current : Nat, confirmed : Nat, status : {"draft", "in_review", "approved"}]
      BY DEF ReviewInv, Reviewable
    <3>2. Review!Max(Review!Active \ {r}) \in Nat BY <1>6
    <3> QED BY <1>1, <3>1, <3>2
  <2>2. r \in DOMAIN author BY <1>1 DEF Review!Active, Review!Versions
  <2> QED BY <1>1, <2>1, <2>2 DEF ReviewInv, Reviewable
<1>9. InFlight' /\ ConfirmedFairly' /\ ApprovedFairly'
  BY <1>1 DEF ReviewInv, InFlight, Txs, ConfirmedFairly, ApprovedFairly, SelfAllowed,
               Review!Confirmers
<1> QED BY <1>7, <1>8, <1>9 DEF ReviewInv

\* A new version: nobody has confirmed it yet, and all the others keep theirs.
LEMMA CreateStep ==
  ASSUME ReviewInv, NEW q \in Requests, Review!CreateVersion(q) PROVE ReviewInv'
<1>1. PICK n \in 1 .. MaxRevisions : DOMAIN author = 1 .. n BY DEF ReviewInv, Reviewable
<1>2. n \in Nat /\ Review!Cardinality(Review!Versions) = n
  BY <1>1, CountingVersions DEF Review!Versions
<1>3. /\ tx[q].pc = "create" /\ n + 1 <= MaxRevisions
      /\ author' = [r \in DOMAIN author \union {n + 1} |-> IF r = n + 1 THEN tx[q].by ELSE author[r]]
      /\ spec' = [spec EXCEPT !.current = n + 1, !.status = "draft"]
      /\ known' = known \union {tx[q].key}
      /\ tx' = [tx EXCEPT ![q] = Review!Free]
      /\ UNCHANGED <<revoked, confirmedAt, confirmations, inbox, policy, approvals>>
  BY <1>2 DEF Review!CreateVersion, Review!Versions, Review!Ends, Review!review
<1>4. tx[q].by \in People /\ tx[q].key \in Keys BY <1>3 DEF ReviewInv, InFlight
<1>5. /\ DOMAIN author' = 1 .. (n + 1)
      /\ DOMAIN author' = DOMAIN author \union {n + 1}
      /\ author'[n + 1] = tx[q].by
      /\ \A r \in DOMAIN author : author'[r] = author[r]
  BY <1>1, <1>2, <1>3
<1>6. n + 1 \in 1 .. MaxRevisions
  BY <1>2, <1>3, ReviewConstants DEF Review!ReviewAssumption
<1>7. Reviewable'
  <2>1. /\ spec' \in [current : Nat, confirmed : Nat, status : {"draft", "in_review", "approved"}]
        /\ spec'.confirmed = spec.confirmed
    <3>1. spec \in [current : Nat, confirmed : Nat, status : {"draft", "in_review", "approved"}]
      BY DEF ReviewInv, Reviewable
    <3>2. spec' = [spec EXCEPT !.current = n + 1, !.status = "draft"] /\ n + 1 \in Nat BY <1>2, <1>3
    <3> QED BY <3>1, <3>2
  <2>2. \A r \in DOMAIN author' : author'[r] \in People BY <1>4, <1>5 DEF ReviewInv, Reviewable
  <2> QED BY <1>3, <1>4, <1>5, <1>6, <2>1, <2>2 DEF ReviewInv, Reviewable
<1>8. Newest'
  <2>1. (Review!Active)' = Review!Active \union {n + 1}
    <3>1. revoked \subseteq DOMAIN author BY DEF ReviewInv, Reviewable
    <3>2. n + 1 \notin DOMAIN author BY <1>1, <1>2
    <3> QED BY <1>3, <1>5, <3>1, <3>2 DEF Review!Active, Review!Versions
  <2>2. spec'.current = n + 1 BY <1>3 DEF ReviewInv, Reviewable
  <2>3. \A r \in Review!Active : r <= n + 1 BY <1>1, <1>2 DEF Review!Active, Review!Versions
  <2> QED BY <1>2, <2>1, <2>2, <2>3 DEF Newest
<1>9. \A r : (Review!Confirmers(r))' = Review!Confirmers(r) BY <1>3 DEF Review!Confirmers
<1>10. InFlight'
  <2>1. Review!Free \in Txs' /\ Review!Free.pc = "free" BY DEF Review!Free, Txs
  <2>2. Txs \subseteq Txs' BY <1>5 DEF Txs
  <2>3. tx' \in [Requests -> Txs'] BY <1>3, <2>1, <2>2 DEF ReviewInv, InFlight
  <2>4. \A o \in Requests : tx'[o] = tx[o] \/ tx'[o].pc = "free"
    BY <1>3, <2>1 DEF ReviewInv, InFlight
  <2>5. ASSUME NEW o \in Requests, tx'[o].pc # "free"
        PROVE  /\ tx'[o].pc = "create" => tx'[o].by \in People /\ tx'[o].key \in Keys
               /\ tx'[o].pc \in {"review", "count", "approve"} => tx'[o].rev \in DOMAIN author'
               /\ tx'[o].pc \in {"count", "approve"} =>
                    tx'[o].by \in People /\ (author'[tx'[o].rev] = tx'[o].by => SelfAllowed')
               /\ tx'[o].pc = "approve" /\ tx'[o].enough =>
                    (Review!Cardinality(Review!Confirmers(tx[o].rev) \union {tx[o].by}) >= tx[o].required)'
    <3>1. tx'[o] = tx[o] BY <2>4, <2>5
    <3>2. (Review!Confirmers(tx[o].rev))' = Review!Confirmers(tx[o].rev) BY <1>9, <3>1
    <3> QED BY <1>5, <3>1, <3>2 DEF ReviewInv, InFlight, SelfAllowed
  <2> QED BY <2>3, <2>5 DEF InFlight
<1>11. ConfirmedFairly'
  <2>1. \A c \in confirmations : c[1] \in DOMAIN author BY DEF ReviewInv, Reviewable
  <2> QED BY <1>3, <1>5, <2>1 DEF ReviewInv, ConfirmedFairly, SelfAllowed
<1>12. ApprovedFairly' BY <1>3, <1>5, <1>9 DEF ReviewInv, ApprovedFairly
<1> QED BY <1>7, <1>8, <1>10, <1>11, <1>12 DEF ReviewInv

LEMMA RequestStep ==
  ASSUME ReviewInv, NEW q \in Requests, Review!RequestReview(q) PROVE ReviewInv'
<1>1. /\ tx[q].pc = "review" /\ spec' = [spec EXCEPT !.status = "in_review"]
      /\ \E p \in Reviewers : inbox' = inbox \union {<<tx[q].rev, p>>}
      /\ tx' = [tx EXCEPT ![q] = Review!Free]
      /\ UNCHANGED <<author, revoked, confirmedAt, confirmations, policy, known, approvals>>
  BY DEF Review!RequestReview, Review!Ends
<1>2. /\ spec' \in [current : Nat, confirmed : Nat, status : {"draft", "in_review", "approved"}]
      /\ spec'.confirmed = spec.confirmed /\ spec'.current = spec.current
  <2>1. spec \in [current : Nat, confirmed : Nat, status : {"draft", "in_review", "approved"}]
    BY DEF ReviewInv, Reviewable
  <2> QED BY <1>1, <2>1
<1>3. Reviewers \subseteq People BY ReviewConstants DEF Review!ReviewAssumption
<1>4. tx[q].rev \in DOMAIN author BY <1>1 DEF ReviewInv, InFlight
<1>5. inbox' \subseteq (DOMAIN author) \X People BY <1>1, <1>3, <1>4 DEF ReviewInv, Reviewable
<1>6. Reviewable' BY <1>1, <1>2, <1>5 DEF ReviewInv, Reviewable
<1>7. ConfirmedFairly' /\ ApprovedFairly' /\ Newest' BY <1>1, <1>2, RowsRest DEF ReviewInv, Newest
<1>8. InFlight'
  <2>1. Review!Free \in Txs /\ Review!Free.pc = "free" BY DEF Review!Free, Txs
  <2> QED BY <1>1, <2>1, TransactionKeeps
<1> QED BY <1>6, <1>7, <1>8 DEF ReviewInv

\* The commit of a confirmation: with it, those that were counted are there.
LEMMA ConfirmStep ==
  ASSUME ReviewInv, NEW q \in Requests, Review!Confirm(q) PROVE ReviewInv'
<1> DEFINE t == tx[q]
<1>1. /\ t.pc = "approve"
      /\ confirmations' = confirmations \union {<<t.rev, t.by>>}
      /\ inbox' \subseteq inbox
      /\ \/ /\ t.enough
            /\ spec' = [spec EXCEPT !.confirmed = t.rev, !.status = "approved"]
            /\ confirmedAt' = confirmedAt \union {t.rev}
            /\ approvals' = approvals \union {[rev |-> t.rev, required |-> t.required]}
         \/ UNCHANGED <<spec, confirmedAt, approvals>>
      /\ tx' = [tx EXCEPT ![q] = Review!Free]
      /\ UNCHANGED <<author, revoked, policy, known>>
  BY DEF Review!Confirm, Review!Ends
<1>2. /\ t.rev \in DOMAIN author /\ t.by \in People /\ t.required \in Nat
      /\ author[t.rev] = t.by => SelfAllowed
      /\ t.enough => Review!Cardinality(Review!Confirmers(t.rev) \union {t.by}) >= t.required
  BY <1>1 DEF ReviewInv, InFlight, Txs
<1>3. /\ \A r : Review!Confirmers(r) \subseteq (Review!Confirmers(r))'
      /\ \A r : r = t.rev => (Review!Confirmers(r))' = Review!Confirmers(r) \union {t.by}
  <2> HIDE DEF t
  <2> QED BY <1>1, <1>2 DEF Review!Confirmers
<1>4. \A r : (Review!Confirmers(r))' \subseteq People BY DEF Review!Confirmers
<1>5. /\ spec' \in [current : Nat, confirmed : Nat, status : {"draft", "in_review", "approved"}]
      /\ spec'.confirmed \in {0} \union confirmedAt' /\ spec'.current = spec.current
  <2>1. /\ spec \in [current : Nat, confirmed : Nat, status : {"draft", "in_review", "approved"}]
        /\ spec.confirmed \in {0} \union confirmedAt
    BY DEF ReviewInv, Reviewable
  <2>2. t.rev \in Nat BY <1>2 DEF ReviewInv, Reviewable
  <2> HIDE DEF t
  <2> QED BY <1>1, <2>1, <2>2
<1>6. Reviewable'
  <2>1. <<t.rev, t.by>> \in (DOMAIN author) \X People BY <1>2
  <2>2. confirmedAt' \subseteq DOMAIN author BY <1>1, <1>2 DEF ReviewInv, Reviewable
  <2> HIDE DEF t
  <2> QED BY <1>1, <1>5, <2>1, <2>2 DEF ReviewInv, Reviewable
<1>7. Newest' BY <1>1, <1>5 DEF ReviewInv, Newest, Review!Active, Review!Versions
<1>8. InFlight'
  <2>1. Review!Free \in Txs /\ Review!Free.pc = "free" BY DEF Review!Free, Txs
  <2>2. Txs' = Txs BY <1>1 DEF Txs
  <2>3. tx' \in [Requests -> Txs'] BY <1>1, <2>1, <2>2 DEF ReviewInv, InFlight
  <2>4. \A o \in Requests : tx'[o] = tx[o] \/ tx'[o].pc = "free"
    BY <1>1, <2>1 DEF ReviewInv, InFlight
  <2>5. ASSUME NEW o \in Requests, tx'[o].pc = "approve", tx'[o].enough
        PROVE  (Review!Cardinality(Review!Confirmers(tx[o].rev) \union {tx[o].by}) >= tx[o].required)'
    <3>1. tx'[o] = tx[o] BY <2>4, <2>5
    <3>2. /\ tx[o].by \in People /\ tx[o].required \in Nat
          /\ Review!Cardinality(Review!Confirmers(tx[o].rev) \union {tx[o].by}) >= tx[o].required
      BY <2>5, <3>1 DEF ReviewInv, InFlight, Txs
    <3> DEFINE S == Review!Confirmers(tx[o].rev) \union {tx[o].by}
    <3>3. S \subseteq S' /\ S' \subseteq People BY <1>3, <1>4, <3>1, <3>2
    <3>4. Review!Cardinality(S) \in Nat /\ Review!Cardinality(S') \in Nat
          /\ Review!Cardinality(S) <= Review!Cardinality(S')
      <4> HIDE DEF S
      <4> QED BY <3>3, CountingPeople
    <3> QED BY <3>1, <3>2, <3>4
  <2>6. ASSUME NEW o \in Requests, tx'[o].pc # "free"
        PROVE  /\ tx'[o].pc = "create" => tx'[o].by \in People /\ tx'[o].key \in Keys
               /\ tx'[o].pc \in {"review", "count", "approve"} => tx'[o].rev \in DOMAIN author'
               /\ tx'[o].pc \in {"count", "approve"} =>
                    tx'[o].by \in People /\ (author'[tx'[o].rev] = tx'[o].by => SelfAllowed')
    <3>1. tx'[o] = tx[o] BY <2>4, <2>6
    <3> QED BY <1>1, <3>1 DEF ReviewInv, InFlight, SelfAllowed
  <2> QED BY <2>3, <2>5, <2>6 DEF InFlight
<1>9. ConfirmedFairly'
  <2>1. \A c \in confirmations' : c \in confirmations \/ (c[1] = t.rev /\ c[2] = t.by) BY <1>1
  <2> HIDE DEF t
  <2> QED BY <1>1, <1>2, <2>1 DEF ReviewInv, ConfirmedFairly, SelfAllowed
<1>10. ApprovedFairly'
  <2>1. ASSUME NEW a \in approvals
        PROVE  (/\ a.rev \in DOMAIN author /\ a.required \in Nat
                /\ Review!Cardinality(Review!Confirmers(a.rev)) >= a.required)'
    <3>1. /\ a.rev \in DOMAIN author /\ a.required \in Nat
          /\ Review!Cardinality(Review!Confirmers(a.rev)) >= a.required
      BY DEF ReviewInv, ApprovedFairly
    <3>2. Review!Cardinality(Review!Confirmers(a.rev)) \in Nat
          /\ Review!Cardinality((Review!Confirmers(a.rev))') \in Nat
          /\ Review!Cardinality(Review!Confirmers(a.rev)) <= Review!Cardinality((Review!Confirmers(a.rev))')
      BY <1>3, <1>4, CountingPeople
    <3> QED BY <1>1, <3>1, <3>2
  <2>2. ASSUME t.enough, NEW r, r = t.rev
        PROVE  Review!Cardinality((Review!Confirmers(r))') >= t.required
    BY <1>2, <1>3, <2>2
  <2>3. \A a \in approvals' : a \in approvals \/ (t.enough /\ a.rev = t.rev /\ a.required = t.required)
    BY <1>1
  <2>4. ASSUME NEW a \in approvals'
        PROVE  /\ a.rev \in DOMAIN author' /\ a.required \in Nat
               /\ Review!Cardinality((Review!Confirmers(a.rev))') >= a.required
    <3>1. CASE a \in approvals BY <2>1, <3>1
    <3>2. CASE t.enough /\ a.rev = t.rev /\ a.required = t.required
      BY <1>1, <1>2, <2>2, <3>2
    <3> QED BY <2>3, <3>1, <3>2
  <2> QED BY <2>4 DEF ApprovedFairly
<1> QED BY <1>6, <1>7, <1>8, <1>9, <1>10 DEF ReviewInv

LEMMA PolicyStep ==
  ASSUME ReviewInv, NEW p \in Policies, Review!UpdatePolicy(p) PROVE ReviewInv'
<1>1. /\ policy' = p
      /\ UNCHANGED <<author, revoked, confirmedAt, spec, confirmations, inbox, known, tx, approvals>>
  BY DEF Review!UpdatePolicy, Review!review
<1>2. InFlight' BY <1>1 DEF ReviewInv, InFlight, Txs, SelfAllowed, Review!Confirmers
<1> QED BY <1>1, <1>2, RowsRest DEF ReviewInv, Reviewable, Newest

LEMMA ReviewNext == ASSUME ReviewInv, [Review!Next]_(Review!vars) PROVE ReviewInv'
<1>1. CASE Review!Next
  <2>1. ASSUME NEW q \in Requests, NEW p \in People,
               (\E k \in Keys : Review!LookUpKey(q, p, k)) \/ Review!ReadForConfirm(q, p)
        PROVE  ReviewInv'
    BY <2>1, ReviewReadingSteps
  <2>2. ASSUME NEW q \in Requests,
               Review!ReadForReview(q) \/ Review!Count(q) \/ Review!Rollback(q)
        PROVE  ReviewInv'
    BY <2>2, ReviewReadingSteps
  <2> QED BY <1>1, <2>1, <2>2, CreateStep, RequestStep, ConfirmStep, RevokeStep, PolicyStep
          DEF Review!Next
<1>2. CASE UNCHANGED Review!vars
  <2>1. UNCHANGED <<author, revoked, confirmedAt, spec, confirmations, inbox, policy, known, tx,
                    approvals>>
    BY <1>2 DEF Review!vars, Review!review
  <2>2. InFlight' BY <2>1 DEF ReviewInv, InFlight, Txs, SelfAllowed, Review!Confirmers
  <2> QED BY <2>1, <2>2, RowsRest DEF ReviewInv, Reviewable, Newest
<1> QED BY <1>1, <1>2

LEMMA ReviewInvariant == Review!Spec => []ReviewInv
  BY ReviewInit, ReviewNext, PTL DEF Review!Spec

\* The composition behaves as each of its parts does.
LEMMA WorkIsReview == WorkSpec => Review!Spec
<1>1. WorkInit => Review!Init BY DEF WorkInit
<1>2. [WorkNext]_workVars => [Review!Next]_(Review!vars)
  BY DEF WorkNext, workVars, reviewVars, Review!vars, Review!review
<1> QED BY <1>1, <1>2, PTL DEF WorkSpec, Review!Spec

LEMMA ReviewIsTyped == ASSUME ReviewInv PROVE Review!ReviewTypeOK
<1>1. PICK n \in 1 .. MaxRevisions : DOMAIN author = 1 .. n BY DEF ReviewInv, Reviewable
<1>2. n \in Nat /\ Review!Cardinality(Review!Versions) = n
  BY <1>1, CountingVersions DEF Review!Versions
<1>3. \A q \in Requests : tx[q].rev \in {0} \union DOMAIN author
  BY DEF ReviewInv, InFlight, Txs
<1> QED BY <1>1, <1>2, <1>3
        DEF ReviewInv, Reviewable, Newest, Review!ReviewTypeOK, Review!Versions, Review!Active,
            Review!Pairs

-----------------------------------------------------------------------------
\* However creations, revocations and reviews of a Spec are interleaved, it shows
\* the newest version that is not revoked (createSpecVersion, revokeSpecVersion).
THEOREM SpecShowsNewest == WorkSpec => []CurrentIsNewest
<1>1. ReviewInv => CurrentIsNewest
  <2> SUFFICES ASSUME ReviewInv PROVE spec.current = Review!Max(Review!Active)
    BY DEF CurrentIsNewest, Review!CurrentIsNewest
  <2>1. Review!Active \subseteq Nat BY DEF ReviewInv, Reviewable, Review!Active, Review!Versions
  <2> QED BY <2>1, MaxIs DEF ReviewInv, Newest
<1> QED BY <1>1, WorkIsReview, ReviewInvariant, PTL

\* A version was approved by as many people as the policy its last confirmer read
\* required, whatever other confirmations were in flight, and by its author only if
\* a policy allows that (confirmSpec).
THEOREM EnoughApproved == WorkSpec => []ApprovedByEnough
<1>1. ReviewInv => ApprovedByEnough
  <2> SUFFICES ASSUME ReviewInv, NEW a \in approvals
               PROVE  /\ Review!Cardinality(Review!Confirmers(a.rev)) >= a.required
                      /\ author[a.rev] \in Review!Confirmers(a.rev) => \E p \in Policies : p.self
    BY DEF ApprovedByEnough, Review!ApprovedByEnough
  <2>1. Review!Cardinality(Review!Confirmers(a.rev)) >= a.required BY DEF ReviewInv, ApprovedFairly
  <2>2. ASSUME author[a.rev] \in Review!Confirmers(a.rev) PROVE \E p \in Policies : p.self
    <3>1. <<a.rev, author[a.rev]>> \in confirmations BY <2>2 DEF Review!Confirmers
    <3> QED BY <3>1 DEF ReviewInv, ConfirmedFairly, SelfAllowed
  <2> QED BY <2>1, <2>2
<1> QED BY <1>1, WorkIsReview, ReviewInvariant, PTL
-----------------------------------------------------------------------------
(* The shared boundaries, of which SharedBoundariesProofs are: its instance *)
(* here and the one of the composition are the same operator by operator.  *)

Bounds == INSTANCE SharedBoundariesProofs WITH job <- jobs

\* Expanded, the two instances' steps are the same formulas.
LEMMA SameBoundaries == Bounds!Init = Shared!Init /\ Bounds!Next = Shared!Next
<1>1. Bounds!Init = Shared!Init
  BY Zenon
     DEF Bounds!Init, Shared!Init, Bounds!WorkStates, Shared!WorkStates, Bounds!Idle, Shared!Idle,
         Bounds!NoRoute, Shared!NoRoute
<1>2. Bounds!Next = Shared!Next
  BY Zenon
     DEF Bounds!Idle, Shared!Idle, Bounds!NoRoute, Shared!NoRoute, Bounds!bounds, Shared!bounds,
         Bounds!WorkStates, Shared!WorkStates, Bounds!Scopes, Shared!Scopes, Bounds!Kinds,
         Shared!Kinds, Bounds!ProjectOf, Shared!ProjectOf, Bounds!Live, Shared!Live, Bounds!Sources,
         Shared!Sources, Bounds!OwnersOf, Shared!OwnersOf, Bounds!Pairs, Shared!Pairs,
         Bounds!Conflicts, Shared!Conflicts, Bounds!Compatible, Shared!Compatible,
         Bounds!Evaluations, Shared!Evaluations, Bounds!Evaluated, Shared!Evaluated, Bounds!NewCase,
         Shared!NewCase, Bounds!Single, Shared!Single, Bounds!Unresolved, Shared!Unresolved,
         Bounds!Affected, Shared!Affected, Bounds!Reviewed, Shared!Reviewed, Bounds!Missing,
         Shared!Missing, Bounds!Taken, Shared!Taken, Bounds!Saves, Shared!Saves, Bounds!Refuses,
         Shared!Refuses, Bounds!Free, Shared!Free, Bounds!Claim, Shared!Claim, Bounds!Retry,
         Shared!Retry, Bounds!Scan, Shared!Scan, Bounds!Rest, Shared!Rest, Bounds!OpenScoped,
         Shared!OpenScoped, Bounds!Stop, Shared!Stop, Bounds!Withdraw, Shared!Withdraw, Bounds!Age,
         Shared!Age, Bounds!Propose, Shared!Propose, Bounds!Confirm, Shared!Confirm, Bounds!Decide,
         Shared!Decide, Bounds!Record, Shared!Record, Bounds!Drop, Shared!Drop, Bounds!Next,
         Shared!Next, Bounds!Cardinality, Shared!Cardinality, Bounds!IsFiniteSet,
         Shared!IsFiniteSet, Bounds!SetToSeq, Shared!SetToSeq, Bounds!IsInjective,
         Shared!IsInjective, Bounds!SumFunction, Shared!SumFunction, Bounds!SumFunctionOnSet,
         Shared!SumFunctionOnSet, Bounds!FoldFunctionOnSet, Shared!FoldFunctionOnSet,
         Bounds!MapThenFoldSet, Shared!MapThenFoldSet
<1> QED BY <1>1, <1>2

\* The composition behaves as shared boundaries do.
LEMMA WorkIsBoundary == WorkSpec => Bounds!Spec
<1>1. WorkInit => Bounds!Init BY SameBoundaries DEF WorkInit
<1>2. [WorkNext]_workVars => [Bounds!Next]_(Bounds!vars)
  BY SameBoundaries DEF WorkNext, workVars, boundaryVars, Bounds!vars, Bounds!bounds
<1> QED BY <1>1, <1>2, PTL DEF WorkSpec, Bounds!Spec

LEMMA BoundariesAreTwo == Bounds!BoundaryAssumption
  BY BoundaryConstants, Zenon
     DEF Shared!BoundaryAssumption, Bounds!BoundaryAssumption, Shared!IsFiniteSet, Bounds!IsFiniteSet

\* An open case of one Project is about two claims that stand and contradict each
\* other, whoever claims, withdraws, retries or concludes at the same time
\* (reconcileAffectedBoundaryThreads).
THEOREM OpenStand == WorkSpec => []OpenIsSupported
<1>1. Bounds!Spec => []Bounds!OpenIsSupported BY BoundariesAreTwo, Bounds!OpenCasesStand
<1>2. Bounds!OpenIsSupported => OpenIsSupported
  BY DEF OpenIsSupported, Bounds!OpenIsSupported, Shared!OpenIsSupported, Bounds!Single, Shared!Single,
         Bounds!WorkStates, Shared!WorkStates
<1> QED BY <1>1, <1>2, WorkIsBoundary, PTL

\* Two claims of a Project that contradict each other have a case, or people have
\* settled it (openMissingBoundaryThreads).
THEOREM ConflictsHaveCases == WorkSpec => []ConflictHasCase
<1>1. Bounds!Spec => []Bounds!ConflictHasCase BY BoundariesAreTwo, Bounds!ConflictsAreCases
<1>2. Bounds!ConflictHasCase => ConflictHasCase
  BY DEF ConflictHasCase, Bounds!ConflictHasCase, Shared!ConflictHasCase, Bounds!Unresolved,
         Shared!Unresolved,
         Bounds!Conflicts, Shared!Conflicts, Bounds!Pairs, Shared!Pairs, Bounds!Sources, Shared!Sources,
         Bounds!Live, Shared!Live, Bounds!WorkStates, Shared!WorkStates
<1> QED BY <1>1, <1>2, WorkIsBoundary, PTL

\* A case is resolved by the person that was asked to conclude it, or because its
\* Projects hold no conflict any more (confirmCoordination).
THEOREM CasesSettled == WorkSpec => ResolvedByPeopleOrEvidence
<1>1. Bounds!Spec => Bounds!ResolvedByPeopleOrEvidence BY BoundariesAreTwo, Bounds!CasesAreSettled
<1>2. Bounds!ResolvedByPeopleOrEvidence => ResolvedByPeopleOrEvidence
  BY Zenon
     DEF ResolvedByPeopleOrEvidence, Bounds!ResolvedByPeopleOrEvidence, Shared!ResolvedByPeopleOrEvidence,
         Bounds!vars, Shared!vars, Bounds!bounds, Shared!bounds, Bounds!Unresolved, Shared!Unresolved,
         Bounds!Conflicts, Shared!Conflicts, Bounds!Pairs, Shared!Pairs, Bounds!Sources, Shared!Sources,
         Bounds!Live, Shared!Live, Bounds!WorkStates, Shared!WorkStates
<1> QED BY <1>1, <1>2, WorkIsBoundary, PTL

-----------------------------------------------------------------------------
(* The derived work.                                                       *)

\* The type invariant in parts: the Spec, the Feature, the Work Item, the rest.
VersionsT ==
  /\ confirmed \in 0 .. MaxVersions /\ once \subseteq 1 .. MaxVersions /\ revokedRevs \subseteq 1 .. MaxVersions
  /\ confirmed # 0 => confirmed \in once
FeatureT == feature \in Derived!Features /\ featureHistory \subseteq Derived!Features
ItemT == item \in Derived!Items /\ history \subseteq Derived!Items
RestT ==
  /\ attention \subseteq {"feature", "item"} /\ closed \in BOOLEAN
  /\ writes \in 0 .. MaxWrites /\ by \in Derived!Actors \union {"nobody"}

\* A row that is not there is nobody's; the histories are of rows that are.
WorkRows ==
  /\ ~feature.exists => feature = Derived!NoFeature
  /\ ~item.exists => item = Derived!NoItem
  /\ \A s \in featureHistory : s.exists
  /\ \A s \in history : s.exists

\* A source that was checked was confirmed, and is revoked only if that came later.
Sourced(t) == t.row.source # 0 => t.row.source \in once /\ (t.row.source \in revokedRevs => t.overtaken)

\* What a transaction will write is what its caller may write over the row it has locked.
FeatureTxT ==
  /\ featureTx \in Derived!FeatureTxs
  /\ featureTx.pc = "checked" =>
       /\ featureTx.row.exists /\ Sourced(featureTx) /\ featureTx.by \in Derived!Actors
       /\ feature.revoked => featureTx.row.revoked
       /\ featureTx.by = "agent" =>
            /\ feature.exists => featureTx.row.owner = feature.owner
            /\ featureTx.row.stage = "released" => feature.stage = "released"
ItemTxT ==
  /\ itemTx \in Derived!ItemTxs
  /\ itemTx.pc = "checked" => Sourced(itemTx)
  /\ itemTx.pc # "none" =>
       /\ itemTx.row.exists /\ itemTx.by \in Derived!Actors
       /\ item.revoked => itemTx.row.revoked
       /\ itemTx.by = "agent" => itemTx.row.owner = item.owner /\ itemTx.row.priority = item.priority

\* The inductive invariant.
DerivedInv ==
  VersionsT /\ FeatureT /\ ItemT /\ RestT /\ WorkRows /\ FeatureTxT /\ ItemTxT /\ Derived!DecisionIsAsked

-----------------------------------------------------------------------------
LEMMA NothingIsTyped ==
  ASSUME Derived!WorkAssumption
  PROVE  /\ Derived!NoFeature \in Derived!Features /\ Derived!NoItem \in Derived!Items
         /\ Derived!NoFeatureTx \in Derived!FeatureTxs /\ Derived!NoItemTx \in Derived!ItemTxs
<1>1. 0 \in 0 .. MaxVersions BY DEF Derived!WorkAssumption
<1>2. Derived!NoFeature \in Derived!Features
  BY <1>1 DEF Derived!NoFeature, Derived!Features, Derived!Stages
<1>3. Derived!NoItem \in Derived!Items
  <2>1. "nobody" \in Derived!Actors \union {"nobody"} /\ "todo" \in Derived!Statuses /\ "unset" \in {"unset", "P1"}
    BY DEF Derived!Statuses
  <2>2. NoOwner \in Owners \union {NoOwner} /\ FALSE \in BOOLEAN OBVIOUS
  <2> QED BY <1>1, <2>1, <2>2, SMTT(30) DEF Derived!NoItem, Derived!Items, Derived!Statuses
<1>4. Derived!NoFeatureTx \in Derived!FeatureTxs BY <1>2 DEF Derived!NoFeatureTx, Derived!FeatureTxs
<1>5. Derived!NoItemTx \in Derived!ItemTxs BY <1>3 DEF Derived!NoItemTx, Derived!ItemTxs
<1> QED BY <1>2, <1>3, <1>4, <1>5

\* A row that no transaction has locked is about to become nothing.
LEMMA IdleIsTyped ==
  ASSUME Derived!WorkAssumption
  PROVE  /\ featureTx' = Derived!NoFeatureTx => FeatureTxT'
         /\ itemTx' = Derived!NoItemTx => ItemTxT'
<1>1. featureTx' = Derived!NoFeatureTx => FeatureTxT'
  BY NothingIsTyped DEF FeatureTxT, Derived!NoFeatureTx
<1>2. itemTx' = Derived!NoItemTx => ItemTxT' BY NothingIsTyped DEF ItemTxT, Derived!NoItemTx
<1> QED BY <1>1, <1>2

LEMMA DerivedInit == ASSUME Derived!WorkAssumption, Derived!Init PROVE DerivedInv
<1>1. VersionsT BY DEF Derived!WorkAssumption, Derived!Init, VersionsT
<1>2. FeatureT /\ ItemT BY NothingIsTyped DEF Derived!Init, FeatureT, ItemT
<1>3. RestT
  <2>1. attention = {} /\ closed = FALSE /\ by = "nobody" /\ writes = 0 /\ 0 \in 0 .. MaxWrites
    BY DEF Derived!WorkAssumption, Derived!Init
  <2> QED BY <2>1 DEF RestT
<1>4. WorkRows BY DEF Derived!Init, WorkRows
<1>5. FeatureTxT BY NothingIsTyped DEF Derived!Init, FeatureTxT, Derived!NoFeatureTx
<1>6. ItemTxT BY NothingIsTyped DEF Derived!Init, ItemTxT, Derived!NoItemTx
<1>7. Derived!DecisionIsAsked
  BY DEF Derived!Init, Derived!DecisionIsAsked, Derived!ItemUndecided, Derived!FeatureUndecided,
         Derived!NoItem, Derived!NoFeature
<1> QED BY <1>1, <1>2, <1>3, <1>4, <1>5, <1>6, <1>7 DEF DerivedInv

-----------------------------------------------------------------------------
(* What stays while something else moves.                                  *)

\* The tables of work are not touched.
LEMMA RowsStay ==
  ASSUME FeatureT, ItemT, WorkRows, Derived!DecisionIsAsked,
         UNCHANGED <<feature, featureHistory, item, history, attention>>
  PROVE  FeatureT' /\ ItemT' /\ WorkRows' /\ Derived!DecisionIsAsked'
<1>1. FeatureT' /\ ItemT' /\ WorkRows' BY DEF FeatureT, ItemT, WorkRows
<1>2. Derived!DecisionIsAsked'
  BY DEF Derived!DecisionIsAsked, Derived!ItemUndecided, Derived!FeatureUndecided
<1> QED BY <1>1, <1>2

\* The versions and the Feature and its transaction are not.
LEMMA FeatureTxStays ==
  ASSUME FeatureTxT, UNCHANGED <<once, revokedRevs, feature, featureTx>>
  PROVE  FeatureTxT'
  BY DEF FeatureTxT, Sourced

LEMMA ItemTxStays ==
  ASSUME ItemTxT, UNCHANGED <<once, revokedRevs, item, itemTx>>
  PROVE  ItemTxT'
  BY DEF ItemTxT, Sourced

\* A call of the store is counted.
LEMMA CallIsTyped ==
  ASSUME Derived!WorkAssumption, RestT, Derived!Call, by' \in Derived!Actors \union {"nobody"},
         attention' \subseteq {"feature", "item"}, closed' \in BOOLEAN
  PROVE  RestT'
  BY DEF Derived!WorkAssumption, RestT, Derived!Call

\* Whatever saves the Feature asks for what it lacks, and no less of the item.
LEMMA SavesFeatureKeeps ==
  ASSUME DerivedInv, NEW x \in Derived!Features, x.exists,
         feature' = x, featureHistory' = featureHistory \union {x}, UNCHANGED <<item, history>>,
         Derived!Asks("feature", Derived!FeatureUndecided(x)) \/ (x.revoked /\ Derived!Asks("feature", FALSE))
  PROVE  /\ FeatureT' /\ ItemT' /\ WorkRows' /\ Derived!DecisionIsAsked'
         /\ attention' \subseteq {"feature", "item"}
<1> USE DEF DerivedInv, Derived!Asks
<1>1. FeatureT' /\ ItemT' BY DEF FeatureT, ItemT
<1>2. WorkRows' BY DEF WorkRows
<1>3. Derived!DecisionIsAsked'
  BY DEF Derived!DecisionIsAsked, Derived!ItemUndecided, Derived!FeatureUndecided
<1>4. attention' \subseteq {"feature", "item"} BY DEF RestT
<1> QED BY <1>1, <1>2, <1>3, <1>4

\* The same of the Work Item.
LEMMA SavesItemKeeps ==
  ASSUME DerivedInv, NEW x \in Derived!Items, x.exists,
         item' = x, history' = history \union {x}, UNCHANGED <<feature, featureHistory>>,
         Derived!Asks("item", Derived!ItemUndecided(x)) \/ (x.revoked /\ Derived!Asks("item", FALSE))
  PROVE  /\ FeatureT' /\ ItemT' /\ WorkRows' /\ Derived!DecisionIsAsked'
         /\ attention' \subseteq {"feature", "item"}
<1> USE DEF DerivedInv, Derived!Asks
<1>1. FeatureT' /\ ItemT' BY DEF FeatureT, ItemT
<1>2. WorkRows' BY DEF WorkRows
<1>3. Derived!DecisionIsAsked'
  BY DEF Derived!DecisionIsAsked, Derived!ItemUndecided, Derived!FeatureUndecided
<1>4. attention' \subseteq {"feature", "item"} BY DEF RestT
<1> QED BY <1>1, <1>2, <1>3, <1>4

\* A patched and signed item is one, and neither appears nor comes back.
LEMMA PatchIsItem ==
  ASSUME Derived!WorkAssumption, DerivedInv, NEW actor \in Derived!Actors,
         NEW p \in Derived!Patches(item)
  PROVE  /\ Derived!Signed(p, actor) \in Derived!Items
         /\ Derived!Signed(p, actor).exists = item.exists /\ Derived!Signed(p, actor).revoked = item.revoked
<1> USE DEF DerivedInv, ItemT, Derived!Items
<1>1. {0} \union Derived!Versions \subseteq 0 .. MaxVersions BY DEF Derived!Versions, Derived!WorkAssumption
<1>2. p \in Derived!Items /\ p.exists = item.exists /\ p.revoked = item.revoked
  BY <1>1 DEF Derived!Patches
<1> QED BY <1>2 DEF Derived!Signed, Derived!Actors

-----------------------------------------------------------------------------
\* What a transaction that locks the Feature is about to write.
LEMMA FeatureChecks ==
  ASSUME Derived!WorkAssumption, DerivedInv, NEW actor \in Derived!Actors,
         Derived!CreateFeature(actor) \/ Derived!UpdateFeature(actor) \/ Derived!RevertFeature(actor)
  PROVE  \E x \in Derived!Features :
           /\ x.exists /\ Derived!ChecksFeature(x, actor)
           /\ feature.revoked => x.revoked
           /\ x.source # 0 => x.source \in once \ revokedRevs
<1> USE DEF DerivedInv, FeatureT
<1>1. Derived!NoFeature \in Derived!Features /\ {0} \union Derived!Versions \subseteq 0 .. MaxVersions
  BY NothingIsTyped DEF Derived!Versions, Derived!WorkAssumption
<1>2. CASE Derived!CreateFeature(actor)
  <2>1. PICK owner \in Owners \union {NoOwner}, source \in {0} \union Derived!Versions :
          /\ ~feature.exists /\ Derived!SourceOk(source)
          /\ Derived!ChecksFeature(
               [Derived!NoFeature EXCEPT !.exists = TRUE, !.owner = owner, !.source = source], actor)
    BY <1>2 DEF Derived!CreateFeature
  <2> DEFINE x == [Derived!NoFeature EXCEPT !.exists = TRUE, !.owner = owner, !.source = source]
  <2>2. x \in Derived!Features /\ x.exists /\ x.source = source
    BY <1>1 DEF Derived!Features, Derived!NoFeature
  <2>3. ~feature.revoked BY <2>1 DEF WorkRows, Derived!NoFeature
  <2> HIDE DEF x
  <2> QED BY <2>1, <2>2, <2>3 DEF Derived!SourceOk, VersionsT, x
<1>3. CASE Derived!UpdateFeature(actor)
  <2>1. PICK x \in {[feature EXCEPT !.owner = owner] : owner \in Owners \union {NoOwner}}
                 \union {[feature EXCEPT !.stage = stage] : stage \in Derived!Stages}
                 \union {[feature EXCEPT !.source = source] : source \in {0} \union Derived!Versions} :
          /\ feature.exists /\ x # feature /\ Derived!SourceOk(x.source)
          /\ Derived!ChecksFeature(x, actor)
    BY <1>3 DEF Derived!UpdateFeature
  <2>2. x \in Derived!Features /\ x.exists = feature.exists /\ x.revoked = feature.revoked
    BY <1>1 DEF Derived!Features
  <2> QED BY <2>1, <2>2 DEF Derived!SourceOk, VersionsT
<1>4. CASE Derived!RevertFeature(actor)
  <2>1. PICK s \in featureHistory :
          LET x == [s EXCEPT !.revoked = FALSE]
          IN  /\ feature.exists /\ ~feature.revoked /\ x # feature /\ Derived!OnceConfirmed(x.source)
              /\ Derived!ChecksFeature(x, actor)
    BY <1>4 DEF Derived!RevertFeature
  <2> DEFINE x == [s EXCEPT !.revoked = FALSE]
  <2>2. x \in Derived!Features /\ x.exists BY DEF Derived!Features, WorkRows
  <2> HIDE DEF x
  <2> QED BY <2>1, <2>2 DEF Derived!OnceConfirmed, x
<1> QED BY <1>2, <1>3, <1>4

\* What a transaction that locks the item is about to write.
LEMMA ItemChecks ==
  ASSUME Derived!WorkAssumption, DerivedInv, NEW actor \in Derived!Actors,
         Derived!CreateItem(actor) \/ Derived!UpdateItem(actor) \/ Derived!RevertItem(actor)
  PROVE  \E x \in Derived!Items, reverts \in BOOLEAN :
           /\ x.exists /\ Derived!ChecksItem(x, actor, reverts)
           /\ item.revoked => x.revoked
<1> USE DEF DerivedInv, ItemT
<1>1. Derived!NoItem \in Derived!Items /\ {0} \union Derived!Versions \subseteq 0 .. MaxVersions
  BY NothingIsTyped DEF Derived!Versions, Derived!WorkAssumption
<1>2. CASE Derived!CreateItem(actor)
  <2>1. PICK owner \in Owners \union {NoOwner}, stat \in {"todo", "done"},
             source \in {0} \union Derived!Versions, ofFeature \in BOOLEAN :
          /\ ~item.exists
          /\ Derived!ChecksItem(
               [Derived!NoItem EXCEPT !.exists = TRUE, !.owner = owner, !.status = stat, !.source = source,
                  !.ofFeature = ofFeature, !.createdBy = actor], actor, FALSE)
    BY <1>2 DEF Derived!CreateItem
  <2> DEFINE x == [Derived!NoItem EXCEPT !.exists = TRUE, !.owner = owner, !.status = stat, !.source = source,
                     !.ofFeature = ofFeature, !.createdBy = actor]
  <2>2. x \in Derived!Items /\ x.exists
    <3>1. Derived!NoItem \in Derived!Items /\ source \in 0 .. MaxVersions /\ stat \in Derived!Statuses
      BY <1>1 DEF Derived!Statuses
    <3>2. actor \in Derived!Actors \union {"nobody"} OBVIOUS
    <3> QED BY <3>1, <3>2 DEF Derived!Items
  <2>3. ~item.revoked BY <2>1 DEF WorkRows, Derived!NoItem
  <2> HIDE DEF x
  <2> QED BY <2>1, <2>2, <2>3 DEF x
<1>3. CASE Derived!UpdateItem(actor)
  <2>1. PICK p \in Derived!Patches(item) :
          LET x == Derived!Signed(p, actor)
          IN  /\ item.exists /\ x # item
              /\ x.status = "done" => item.status \in {"ready_for_test", "done"}
              /\ Derived!ChecksItem(x, actor, FALSE)
    BY <1>3 DEF Derived!UpdateItem
  <2> DEFINE x == Derived!Signed(p, actor)
  <2>2. x \in Derived!Items /\ x.exists = item.exists /\ x.revoked = item.revoked BY PatchIsItem
  <2> HIDE DEF x
  <2> QED BY <2>1, <2>2 DEF x
<1>4. CASE Derived!RevertItem(actor)
  <2>1. PICK s \in history :
          LET x == [s EXCEPT !.revoked = FALSE]
          IN  /\ item.exists /\ ~item.revoked /\ x # item
              /\ Derived!ChecksItem(x, actor, TRUE)
    BY <1>4 DEF Derived!RevertItem
  <2> DEFINE x == [s EXCEPT !.revoked = FALSE]
  <2>2. x \in Derived!Items /\ x.exists BY DEF Derived!Items, WorkRows
  <2> HIDE DEF x
  <2> QED BY <2>1, <2>2 DEF x
<1> QED BY <1>2, <1>3, <1>4

-----------------------------------------------------------------------------
\* What a step may do to the work, besides keeping the invariant.
Decides ==
  /\ item.revoked => item'.revoked
  /\ feature.revoked => feature'.revoked
  /\ item'.source \notin {0, item.source} =>
       item'.source \in once /\ (item'.source \in revokedRevs => itemTx.overtaken)
  /\ feature'.source \notin {0, feature.source} =>
       feature'.source \in once /\ (feature'.source \in revokedRevs => featureTx.overtaken)
  /\ by' = "agent" =>
       /\ item'.owner = item.owner /\ item'.priority = item.priority
       /\ feature.exists => feature'.owner = feature.owner
       /\ feature'.stage = "released" => feature.stage = "released"

\* A step that leaves both rows alone decides nothing.
LEMMA RowsDecideNothing == ASSUME UNCHANGED <<feature, item>> PROVE Decides
  BY DEF Decides

\* The Spec moves: what was checked before stays checked, or is overtaken.
LEMMA SpecSteps ==
  ASSUME Derived!WorkAssumption, DerivedInv, NEW r \in Derived!Versions,
         Derived!ConfirmRev(r) \/ Derived!RevokeRev(r)
  PROVE  DerivedInv' /\ Decides
<1> USE DEF DerivedInv
<1>1. /\ UNCHANGED <<feature, featureHistory, item, history, attention, closed, writes>>
      /\ by' = "nobody"
  BY DEF Derived!ConfirmRev, Derived!RevokeRev, Derived!feats, Derived!items
<1>2. FeatureT' /\ ItemT' /\ WorkRows' /\ Derived!DecisionIsAsked' BY <1>1, RowsStay
<1>3. RestT' BY <1>1 DEF RestT
<1>4. Decides BY <1>1, RowsDecideNothing
<1>5. CASE Derived!ConfirmRev(r)
  <2> USE <1>5 DEF Derived!ConfirmRev, Derived!feats, Derived!items
  <2>1. VersionsT' BY DEF VersionsT, Derived!Versions, Derived!WorkAssumption
  <2>2. FeatureTxT' BY DEF FeatureTxT, Sourced
  <2>3. ItemTxT' BY DEF ItemTxT, Sourced
  <2> QED BY <1>2, <1>3, <1>4, <2>1, <2>2, <2>3
<1>6. CASE Derived!RevokeRev(r)
  <2>1. /\ UNCHANGED <<confirmed, once>> /\ revokedRevs' = revokedRevs \union {r}
        /\ featureTx' = Derived!Overtaken(featureTx, r) /\ itemTx' = Derived!Overtaken(itemTx, r)
    BY <1>6 DEF Derived!RevokeRev
  <2>2. VersionsT' BY <2>1 DEF VersionsT, Derived!Versions, Derived!WorkAssumption
  <2>3. FeatureTxT'
    <3>1. /\ featureTx' \in Derived!FeatureTxs /\ featureTx'.pc = featureTx.pc
          /\ featureTx'.row = featureTx.row /\ featureTx'.by = featureTx.by
      BY <2>1 DEF FeatureTxT, Derived!FeatureTxs, Derived!Overtaken
    <3>2. featureTx.pc = "checked" /\ (featureTx.row.source = r \/ featureTx.overtaken) => featureTx'.overtaken
      BY <2>1 DEF FeatureTxT, Derived!FeatureTxs, Derived!Overtaken
    <3>3. featureTx.pc = "checked" => Sourced(featureTx)'
      BY <2>1, <3>1, <3>2 DEF FeatureTxT, Sourced
    <3> QED BY <1>1, <3>1, <3>3 DEF FeatureTxT
  <2>4. ItemTxT'
    <3>1. /\ itemTx' \in Derived!ItemTxs /\ itemTx'.pc = itemTx.pc
          /\ itemTx'.row = itemTx.row /\ itemTx'.by = itemTx.by
      BY <2>1 DEF ItemTxT, Derived!ItemTxs, Derived!Overtaken
    <3>2. itemTx.pc = "checked" /\ (itemTx.row.source = r \/ itemTx.overtaken) => itemTx'.overtaken
      BY <2>1 DEF ItemTxT, Derived!ItemTxs, Derived!Overtaken
    <3>3. itemTx.pc = "checked" => Sourced(itemTx)'
      BY <2>1, <3>1, <3>2 DEF ItemTxT, Sourced
    <3> QED BY <1>1, <3>1, <3>3 DEF ItemTxT
  <2> QED BY <1>2, <1>3, <1>4, <2>2, <2>3, <2>4
<1> QED BY <1>5, <1>6

\* The Feature: check, write, revocation.
LEMMA FeatureSteps ==
  ASSUME Derived!WorkAssumption, DerivedInv, NEW actor \in Derived!Actors,
         \/ Derived!CreateFeature(actor) \/ Derived!UpdateFeature(actor) \/ Derived!RevertFeature(actor)
         \/ Derived!SaveFeature \/ Derived!RevokeFeature(actor)
  PROVE  DerivedInv' /\ Decides
<1> USE DEF DerivedInv
<1>1. CASE Derived!CreateFeature(actor) \/ Derived!UpdateFeature(actor) \/ Derived!RevertFeature(actor)
  <2>1. PICK x \in Derived!Features :
           /\ x.exists /\ Derived!ChecksFeature(x, actor)
           /\ feature.revoked => x.revoked
           /\ x.source # 0 => x.source \in once \ revokedRevs
    BY <1>1, FeatureChecks
  <2>2. /\ UNCHANGED <<confirmed, once, revokedRevs, feature, featureHistory, item, itemTx, history, attention, closed>>
        /\ by' = "nobody" /\ Derived!Call
        /\ featureTx' = [pc |-> "checked", row |-> x, by |-> actor, overtaken |-> FALSE]
        /\ Derived!FeatureMutation(actor, feature, x)
    BY <2>1 DEF Derived!ChecksFeature, Derived!specs, Derived!items
  <2>3. VersionsT' BY <2>2 DEF VersionsT
  <2>4. FeatureT' /\ ItemT' /\ WorkRows' /\ Derived!DecisionIsAsked' BY <2>2, RowsStay
  <2>5. RestT' BY <2>2, CallIsTyped DEF RestT
  <2>6. ItemTxT' BY <2>2, ItemTxStays
  <2>7. FeatureTxT'
    <3>1. featureTx' \in Derived!FeatureTxs BY <2>2 DEF Derived!FeatureTxs
    <3>2. Sourced(featureTx)' BY <2>1, <2>2 DEF Sourced
    <3>3. actor = "agent" =>
            /\ feature.exists => x.owner = feature.owner
            /\ x.stage = "released" => feature.stage = "released"
      BY <2>2 DEF Derived!FeatureMutation
    <3> QED BY <2>1, <2>2, <3>1, <3>2, <3>3 DEF FeatureTxT
  <2> QED BY <2>2, <2>3, <2>4, <2>5, <2>6, <2>7, RowsDecideNothing
<1>2. CASE Derived!SaveFeature
  <2>1. PICK x \in Derived!Features : x = featureTx.row BY DEF FeatureTxT, Derived!FeatureTxs
  <2>2. /\ featureTx.pc = "checked" /\ featureTx' = Derived!NoFeatureTx
        /\ feature' = x /\ featureHistory' = featureHistory \union {x}
        /\ Derived!Asks("feature", Derived!FeatureUndecided(x)) /\ by' = featureTx.by
        /\ UNCHANGED <<confirmed, once, revokedRevs, item, itemTx, history, closed, writes>>
    BY <1>2, <2>1 DEF Derived!SaveFeature, Derived!specs, Derived!items
  <2>3. /\ x.exists /\ featureTx.by \in Derived!Actors
        /\ feature.revoked => x.revoked
        /\ x.source # 0 => x.source \in once /\ (x.source \in revokedRevs => featureTx.overtaken)
        /\ featureTx.by = "agent" =>
             /\ feature.exists => x.owner = feature.owner
             /\ x.stage = "released" => feature.stage = "released"
    BY <2>1, <2>2 DEF FeatureTxT, Sourced
  <2>4. VersionsT' BY <2>2 DEF VersionsT
  <2>5. /\ FeatureT' /\ ItemT' /\ WorkRows' /\ Derived!DecisionIsAsked'
        /\ attention' \subseteq {"feature", "item"}
    BY <2>2, <2>3, SavesFeatureKeeps
  <2>6. RestT' BY <2>2, <2>3, <2>5 DEF RestT
  <2>7. FeatureTxT' /\ ItemTxT' BY <2>2, IdleIsTyped, ItemTxStays
  <2>8. Decides BY <2>2, <2>3 DEF Decides
  <2> QED BY <2>4, <2>5, <2>6, <2>7, <2>8
<1>3. CASE Derived!RevokeFeature(actor)
  <2> DEFINE x == [feature EXCEPT !.revoked = TRUE]
  <2>1. /\ featureTx = Derived!NoFeatureTx /\ feature.exists /\ Derived!Call /\ by' = actor
        /\ feature' = x /\ featureHistory' = featureHistory \union {x}
        /\ Derived!Asks("feature", FALSE)
        /\ UNCHANGED <<confirmed, once, revokedRevs, featureTx, item, itemTx, history, closed>>
    BY <1>3 DEF Derived!RevokeFeature, Derived!specs, Derived!items
  <2>2. /\ x \in Derived!Features /\ x.exists /\ x.revoked
        /\ x.owner = feature.owner /\ x.stage = feature.stage /\ x.source = feature.source
    BY <2>1 DEF FeatureT, Derived!Features
  <2> HIDE DEF x
  <2>3. VersionsT' BY <2>1 DEF VersionsT
  <2>4. /\ FeatureT' /\ ItemT' /\ WorkRows' /\ Derived!DecisionIsAsked'
        /\ attention' \subseteq {"feature", "item"}
    BY <2>1, <2>2, SavesFeatureKeeps
  <2>5. RestT' BY <2>1, <2>4, CallIsTyped DEF RestT
  <2>6. FeatureTxT' /\ ItemTxT' BY <2>1, IdleIsTyped, ItemTxStays
  <2>7. Decides BY <2>1, <2>2 DEF Decides
  <2> QED BY <2>3, <2>4, <2>5, <2>6, <2>7
<1> QED BY <1>1, <1>2, <1>3

\* The item: its two checks, its write, its revocation.
LEMMA ItemSteps ==
  ASSUME Derived!WorkAssumption, DerivedInv, NEW actor \in Derived!Actors,
         \/ Derived!CreateItem(actor) \/ Derived!UpdateItem(actor) \/ Derived!RevertItem(actor)
         \/ Derived!CheckItemSource \/ Derived!SaveItem \/ Derived!RevokeItem(actor)
  PROVE  DerivedInv' /\ Decides
<1> USE DEF DerivedInv
<1>1. CASE Derived!CreateItem(actor) \/ Derived!UpdateItem(actor) \/ Derived!RevertItem(actor)
  <2>1. PICK x \in Derived!Items, reverts \in BOOLEAN :
           /\ x.exists /\ Derived!ChecksItem(x, actor, reverts)
           /\ item.revoked => x.revoked
    BY <1>1, ItemChecks
  <2>2. /\ UNCHANGED <<confirmed, once, revokedRevs, feature, featureTx, featureHistory, item, history, attention, closed>>
        /\ by' = "nobody" /\ Derived!Call
        /\ itemTx' = [pc |-> IF x.source = 0 THEN "checked" ELSE "linked", row |-> x, by |-> actor,
                      reverts |-> reverts, overtaken |-> FALSE]
        /\ Derived!ItemMutation(actor, item, x)
    BY <2>1 DEF Derived!ChecksItem, Derived!specs, Derived!feats
  <2>3. VersionsT' BY <2>2 DEF VersionsT
  <2>4. FeatureT' /\ ItemT' /\ WorkRows' /\ Derived!DecisionIsAsked' BY <2>2, RowsStay
  <2>5. RestT' BY <2>2, CallIsTyped DEF RestT
  <2>6. FeatureTxT' BY <2>2, FeatureTxStays
  <2>7. ItemTxT'
    <3>1. itemTx' \in Derived!ItemTxs /\ (itemTx'.pc = "checked" => Sourced(itemTx)')
      BY <2>2 DEF Derived!ItemTxs, Sourced
    <3>2. actor = "agent" => x.owner = item.owner /\ x.priority = item.priority
      BY <2>2 DEF Derived!ItemMutation
    <3> QED BY <2>1, <2>2, <3>1, <3>2 DEF ItemTxT
  <2> QED BY <2>2, <2>3, <2>4, <2>5, <2>6, <2>7, RowsDecideNothing
<1>2. CASE Derived!CheckItemSource
  <2>1. /\ itemTx.pc = "linked" /\ itemTx' = [itemTx EXCEPT !.pc = "checked"] /\ by' = "nobody"
        /\ IF itemTx.reverts THEN Derived!OnceConfirmed(itemTx.row.source) ELSE Derived!SourceOk(itemTx.row.source)
        /\ UNCHANGED <<confirmed, once, revokedRevs, feature, featureTx, featureHistory, item, history, attention,
                       closed, writes>>
    BY <1>2 DEF Derived!CheckItemSource, Derived!specs, Derived!feats
  <2>2. VersionsT' BY <2>1 DEF VersionsT
  <2>3. FeatureT' /\ ItemT' /\ WorkRows' /\ Derived!DecisionIsAsked' BY <2>1, RowsStay
  <2>4. RestT' BY <2>1 DEF RestT
  <2>5. FeatureTxT' BY <2>1, FeatureTxStays
  <2>6. ItemTxT'
    <3>1. /\ itemTx' \in Derived!ItemTxs /\ itemTx'.pc = "checked"
          /\ itemTx'.row = itemTx.row /\ itemTx'.by = itemTx.by
      BY <2>1 DEF ItemTxT, Derived!ItemTxs
    <3>2. Sourced(itemTx)'
      BY <2>1, <3>1 DEF Sourced, VersionsT, Derived!OnceConfirmed, Derived!SourceOk
    <3> QED BY <2>1, <3>1, <3>2 DEF ItemTxT
  <2> QED BY <2>1, <2>2, <2>3, <2>4, <2>5, <2>6, RowsDecideNothing
<1>3. CASE Derived!SaveItem
  <2>1. PICK x \in Derived!Items : x = itemTx.row BY DEF ItemTxT, Derived!ItemTxs
  <2>2. /\ itemTx.pc = "checked" /\ itemTx' = Derived!NoItemTx
        /\ item' = x /\ history' = history \union {x}
        /\ Derived!Asks("item", Derived!ItemUndecided(x)) /\ by' = itemTx.by
        /\ UNCHANGED <<confirmed, once, revokedRevs, feature, featureTx, featureHistory, closed, writes>>
    BY <1>3, <2>1 DEF Derived!SaveItem, Derived!specs, Derived!feats
  <2>3. /\ x.exists /\ itemTx.by \in Derived!Actors
        /\ item.revoked => x.revoked
        /\ x.source # 0 => x.source \in once /\ (x.source \in revokedRevs => itemTx.overtaken)
        /\ itemTx.by = "agent" => x.owner = item.owner /\ x.priority = item.priority
    BY <2>1, <2>2 DEF ItemTxT, Sourced
  <2>4. VersionsT' BY <2>2 DEF VersionsT
  <2>5. /\ FeatureT' /\ ItemT' /\ WorkRows' /\ Derived!DecisionIsAsked'
        /\ attention' \subseteq {"feature", "item"}
    BY <2>2, <2>3, SavesItemKeeps
  <2>6. RestT' BY <2>2, <2>3, <2>5 DEF RestT
  <2>7. FeatureTxT' /\ ItemTxT' BY <2>2, IdleIsTyped, FeatureTxStays
  <2>8. Decides BY <2>2, <2>3 DEF Decides
  <2> QED BY <2>4, <2>5, <2>6, <2>7, <2>8
<1>4. CASE Derived!RevokeItem(actor)
  <2> DEFINE x == [item EXCEPT !.revoked = TRUE]
  <2>1. /\ itemTx = Derived!NoItemTx /\ item.exists /\ Derived!Call /\ by' = actor
        /\ item' = x /\ history' = history \union {x}
        /\ Derived!Asks("item", FALSE)
        /\ UNCHANGED <<confirmed, once, revokedRevs, feature, featureTx, featureHistory, itemTx, closed>>
    BY <1>4 DEF Derived!RevokeItem, Derived!specs, Derived!feats
  <2>2. /\ x \in Derived!Items /\ x.exists /\ x.revoked
        /\ x.owner = item.owner /\ x.priority = item.priority /\ x.source = item.source
    BY <2>1 DEF ItemT, Derived!Items
  <2> HIDE DEF x
  <2>3. VersionsT' BY <2>1 DEF VersionsT
  <2>4. /\ FeatureT' /\ ItemT' /\ WorkRows' /\ Derived!DecisionIsAsked'
        /\ attention' \subseteq {"feature", "item"}
    BY <2>1, <2>2, SavesItemKeeps
  <2>5. RestT' BY <2>1, <2>4, CallIsTyped DEF RestT
  <2>6. FeatureTxT' /\ ItemTxT' BY <2>1, IdleIsTyped, FeatureTxStays
  <2>7. Decides BY <2>1, <2>2 DEF Decides
  <2> QED BY <2>3, <2>4, <2>5, <2>6, <2>7
<1> QED BY <1>1, <1>2, <1>3, <1>4

\* A Sprint that is closed carries over an item that no transaction has locked.
LEMMA CloseSteps ==
  ASSUME Derived!WorkAssumption, DerivedInv, Derived!CloseSprint
  PROVE  DerivedInv' /\ Decides
<1> USE DEF DerivedInv
<1>1. /\ UNCHANGED <<confirmed, once, revokedRevs, feature, featureTx, featureHistory, itemTx, history, attention>>
      /\ closed' = TRUE /\ Derived!Call /\ by' = "human"
  BY DEF Derived!CloseSprint, Derived!specs, Derived!feats
<1>2. VersionsT' BY <1>1 DEF VersionsT
<1>3. FeatureT' /\ FeatureTxT' BY <1>1, FeatureTxStays DEF FeatureT
<1>4. RestT' BY <1>1, CallIsTyped DEF RestT, Derived!Actors
<1>5. CASE item' = item
  <2>1. FeatureT' /\ ItemT' /\ WorkRows' /\ Derived!DecisionIsAsked' BY <1>1, <1>5, RowsStay
  <2>2. ItemTxT' BY <1>1, <1>5, ItemTxStays
  <2> QED BY <1>1, <1>2, <1>3, <1>4, <1>5, <2>1, <2>2, RowsDecideNothing
<1>6. CASE item' # item
  <2> DEFINE x == [item EXCEPT !.inSprint = FALSE, !.carryover = TRUE, !.status = "in_progress"]
  <2>1. item' = x /\ item.inSprint /\ itemTx = Derived!NoItemTx BY <1>6 DEF Derived!CloseSprint
  <2>2. /\ x \in Derived!Items /\ x.exists = item.exists /\ x.revoked = item.revoked
        /\ x.owner = item.owner /\ x.priority = item.priority /\ x.source = item.source
    BY DEF ItemT, Derived!Items, Derived!Statuses
  <2>3. item.exists BY <2>1 DEF WorkRows, Derived!NoItem
  <2> HIDE DEF x
  <2>4. ItemT' BY <1>1, <2>1, <2>2 DEF ItemT
  <2>5. ItemTxT' BY <1>1, <2>1, IdleIsTyped
  <2>6. WorkRows' BY <1>1, <2>1, <2>2, <2>3 DEF WorkRows
  <2>7. Derived!DecisionIsAsked'
    BY <1>1, <2>1, <2>2 DEF Derived!DecisionIsAsked, Derived!ItemUndecided, Derived!FeatureUndecided
  <2>8. Decides BY <1>1, <2>1, <2>2 DEF Decides
  <2> QED BY <1>2, <1>3, <1>4, <2>4, <2>5, <2>6, <2>7, <2>8
<1> QED BY <1>5, <1>6

LEMMA RollBackSteps ==
  ASSUME Derived!WorkAssumption, DerivedInv, Derived!RollBack
  PROVE  DerivedInv' /\ Decides
<1> USE DEF DerivedInv
<1>1. /\ UNCHANGED <<confirmed, once, revokedRevs, feature, featureHistory, item, history, attention, closed, writes>>
      /\ by' = "nobody"
      /\ featureTx' \in {featureTx, Derived!NoFeatureTx} /\ itemTx' \in {itemTx, Derived!NoItemTx}
  BY DEF Derived!RollBack, Derived!specs
<1>2. VersionsT' /\ RestT' BY <1>1 DEF VersionsT, RestT
<1>3. FeatureT' /\ ItemT' /\ WorkRows' /\ Derived!DecisionIsAsked' BY <1>1, RowsStay
<1>4. FeatureTxT' BY <1>1, FeatureTxStays, IdleIsTyped
<1>5. ItemTxT' BY <1>1, ItemTxStays, IdleIsTyped
<1> QED BY <1>1, <1>2, <1>3, <1>4, <1>5, RowsDecideNothing

\* Every step keeps the invariant and decides no more than it may.
LEMMA DerivedNext ==
  ASSUME Derived!WorkAssumption, DerivedInv, [Derived!Next]_(Derived!vars)
  PROVE  DerivedInv' /\ Decides
<1>1. CASE UNCHANGED Derived!vars
  <2> USE <1>1 DEF Derived!vars, Derived!specs, Derived!feats, Derived!items, DerivedInv
  <2>1. VersionsT' /\ RestT' BY DEF VersionsT, RestT
  <2>2. FeatureT' /\ ItemT' /\ WorkRows' /\ Derived!DecisionIsAsked' BY RowsStay
  <2>3. FeatureTxT' /\ ItemTxT' BY FeatureTxStays, ItemTxStays
  <2> QED BY <2>1, <2>2, <2>3, RowsDecideNothing
<1>2. CASE Derived!Next
  <2>1. "human" \in Derived!Actors BY DEF Derived!Actors
  <2> QED BY <1>2, <2>1, SpecSteps, FeatureSteps, ItemSteps, CloseSteps, RollBackSteps DEF Derived!Next
<1> QED BY <1>1, <1>2

LEMMA DerivedInvariant == ASSUME Derived!WorkAssumption PROVE Derived!Spec => []DerivedInv
<1>1. Derived!Init => DerivedInv BY DerivedInit
<1>2. DerivedInv /\ [Derived!Next]_(Derived!vars) => DerivedInv' BY DerivedNext
<1> QED BY <1>1, <1>2, PTL DEF Derived!Spec

LEMMA DerivedDecisions == ASSUME Derived!WorkAssumption PROVE Derived!Spec => [][Decides]_(Derived!vars)
<1>1. DerivedInv /\ [Derived!Next]_(Derived!vars) => [Decides]_(Derived!vars) BY DerivedNext
<1> QED BY <1>1, DerivedInvariant, PTL DEF Derived!Spec

\* The composition behaves as derived work does.
LEMMA WorkIsDerived == WorkSpec => []DerivedInv /\ [][Decides]_(Derived!vars)
<1>1. WorkSpec => Derived!Spec
  <2>1. WorkInit => Derived!Init BY DEF WorkInit
  <2>2. [WorkNext]_workVars => [Derived!Next]_(Derived!vars)
    BY DEF WorkNext, workVars, derivedVars, Derived!vars, Derived!specs, Derived!feats, Derived!items
  <2> QED BY <2>1, <2>2, PTL DEF WorkSpec, Derived!Spec
<1> QED BY <1>1, WorkConstants, DerivedInvariant, DerivedDecisions, PTL

\* Derived work that lacks an owner or a priority has asked people for it, whoever
\* reverts, revokes or carries it over (createAutomationChoiceAttention).
THEOREM WorkIsAsked == WorkSpec => []DecisionIsAsked
<1>1. DerivedInv => DecisionIsAsked BY DEF DerivedInv, DecisionIsAsked
<1> QED BY <1>1, WorkIsDerived, PTL

\* No Agent changes who owns work, what it is worth or whether it is released,
\* whatever its histories hold.
THEOREM AgentsLeaveDecisions == WorkSpec => Derived!AgentsDecideNothing
<1>1. DerivedInv /\ [Decides]_(Derived!vars) => [by' = "agent" =>
         /\ item.exists => item'.owner = item.owner /\ item'.priority = item.priority
         /\ ~item.exists => item'.owner = NoOwner /\ item'.priority = "unset"
         /\ feature.exists => feature'.owner = feature.owner
         /\ feature'.stage = "released" => feature.stage = "released"]_(Derived!vars)
  BY DEF Decides, DerivedInv, WorkRows, Derived!NoItem
<1> QED BY <1>1, WorkIsDerived, PTL DEF Derived!AgentsDecideNothing

\* Work is given only sources that people confirmed, and a revoked one only if the
\* revocation overtook the call, in every interleaving of its unlocked reads with
\* confirmations and revocations (assertConfirmedSpecSource).
THEOREM SourcesWereConfirmed == WorkSpec => SourceIsConfirmed
<1>1. [Decides]_(Derived!vars) =>
        [/\ item'.source \notin {0, item.source} =>
              item'.source \in once /\ (item'.source \in revokedRevs => itemTx.overtaken)
         /\ feature'.source \notin {0, feature.source} =>
              feature'.source \in once /\ (feature'.source \in revokedRevs => featureTx.overtaken)]_(Derived!vars)
  BY DEF Decides
<1> QED BY <1>1, WorkIsDerived, PTL DEF SourceIsConfirmed, Derived!SourceIsConfirmed

\* What was revoked stays revoked: neither an update nor a revert restores it.
THEOREM RevokedStays == WorkSpec => Derived!RevokedForGood
<1>1. [Decides]_(Derived!vars) =>
        [(item.revoked => item'.revoked) /\ (feature.revoked => feature'.revoked)]_(Derived!vars)
  BY DEF Decides
<1> QED BY <1>1, WorkIsDerived, PTL DEF Derived!RevokedForGood

-----------------------------------------------------------------------------
(* The parts beside each other.                                            *)

\* The composition behaves as the publication of checkpoints does.
LEMMA WorkIsPublication == WorkSpec => Spec
<1>1. WorkInit => Init BY DEF WorkInit
<1>2. [WorkNext]_workVars => [Next]_vars BY DEF WorkNext, workVars
<1> QED BY <1>1, <1>2, PTL DEF WorkSpec, Spec

OnePart == part \in {"publication", "boundary", "review", "derived"}

LEMMA PartStays == WorkSpec => []OnePart
<1>1. WorkInit => OnePart BY DEF WorkInit, OnePart
<1>2. OnePart /\ [WorkNext]_workVars => OnePart' BY DEF WorkNext, workVars, OnePart
<1> QED BY <1>1, <1>2, PTL DEF WorkSpec

\* Whatever part of a Project's work moves, its tables hold what they can hold.
THEOREM ProjectIsTyped == WorkSpec => []ProjectTypeOK
<1>1. Spec => []JobsTypeOK BY TypeCorrect, JobsConstants
<1>2. Bounds!Spec => []Shared!BoundaryTypeOK
  <2>1. Bounds!Spec => []Bounds!BoundaryTypeOK BY BoundariesAreTwo, Bounds!TypeCorrect
  <2>2. Bounds!BoundaryTypeOK => Shared!BoundaryTypeOK
    BY Zenon
       DEF Bounds!BoundaryTypeOK, Shared!BoundaryTypeOK, Bounds!ClaimIds, Shared!ClaimIds, Bounds!Kinds,
           Shared!Kinds, Bounds!Scopes, Shared!Scopes, Bounds!WorkStates, Shared!WorkStates
  <2> QED BY <2>1, <2>2, PTL
<1>3. ReviewInv => Review!ReviewTypeOK BY ReviewIsTyped
<1>4. DerivedInv => Derived!WorkTypeOK
  BY DEF DerivedInv, VersionsT, FeatureT, ItemT, FeatureTxT, ItemTxT, RestT, Derived!WorkTypeOK, Derived!Versions
<1>5. JobsTypeOK /\ Shared!BoundaryTypeOK /\ Review!ReviewTypeOK /\ Derived!WorkTypeOK /\ OnePart
        => ProjectTypeOK
  <2> SUFFICES ASSUME JobsTypeOK, Shared!BoundaryTypeOK, Review!ReviewTypeOK, Derived!WorkTypeOK, OnePart
               PROVE  ProjectTypeOK
    OBVIOUS
  <2>1. CASE part = "publication" BY <2>1 DEF ProjectTypeOK
  <2>2. CASE part = "boundary" BY <2>2 DEF ProjectTypeOK
  <2>3. CASE part = "review" BY <2>3 DEF ProjectTypeOK
  <2>4. CASE part = "derived" BY <2>4 DEF ProjectTypeOK
  <2> QED BY <2>1, <2>2, <2>3, <2>4 DEF OnePart
<1> QED
  BY <1>1, <1>2, <1>3, <1>4, <1>5, WorkIsPublication, WorkIsBoundary, WorkIsReview, ReviewInvariant,
           WorkIsDerived, PartStays, PTL
=============================================================================
