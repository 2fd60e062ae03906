------------------------------ MODULE SpecReview ------------------------------
(***************************************************************************)
(* The review of one Spec (apps/server-api/src/project-work-store.ts): its *)
(* versions, the people asked to review them, and their confirmations.     *)
(*                                                                         *)
(* A method is one transaction at READ COMMITTED.  A statement sees what   *)
(* other transactions had committed when it started, and a transaction     *)
(* that locks or updates the Spec's row waits for the one that did: so a   *)
(* method is split where it reads the row without a lock, and what it does *)
(* from its first lock to its commit is one step.                          *)
(***************************************************************************)
EXTENDS Naturals, FiniteSets, FiniteSetsExt

CONSTANTS
  People, Nobody,  \* members of the Project and their Agents
  Agents,       \* the people that are Agents
  Reviewers,    \* the people whose review is requested
  Policies,     \* [required, agents, self]: the review policies in question
  Requests,     \* transactions in flight at a time
  Keys, NoKey,  \* idempotency keys of calls that create a version
  MaxRevisions, \* bound: versions of the Spec
  MaxChanges    \* bound: changes of the policy and revocations

ReviewAssumption ==
  /\ IsFiniteSet(People) /\ Nobody \notin People /\ Reviewers \subseteq People
  /\ \A p \in Policies : p.required \in Nat /\ p.agents \in BOOLEAN /\ p.self \in BOOLEAN
  /\ NoKey \notin Keys
  /\ MaxRevisions \in Nat \ {0} /\ MaxChanges \in Nat

VARIABLES
  author,        \* version -> who created it; its domain is the versions there are
  revoked,       \* versions with revoked_at
  confirmedAt,   \* versions with confirmed_at
  spec,          \* the row of specs: current, confirmed (0: none), status
  confirmations, \* committed confirmations <<version, person>>
  inbox,         \* open review requests <<version, person>>
  policy, changes,
  known,         \* the committed idempotency keys
  tx,            \* the transactions in flight
  approvals      \* history: [rev, required] of every approval

review == <<confirmations, inbox>>
vars == <<author, revoked, confirmedAt, spec, review, policy, changes, known, tx, approvals>>

Versions == DOMAIN author
Active == Versions \ revoked
Free == [pc |-> "free", by |-> Nobody, rev |-> 0, key |-> NoKey, required |-> 0, enough |-> FALSE]

\* createSpecVersion of a new Spec.
Init ==
  /\ \E p \in People : author = [r \in {1} |-> p]
  /\ revoked = {} /\ confirmedAt = {}
  /\ spec = [current |-> 1, confirmed |-> 0, status |-> "draft"]
  /\ confirmations = {} /\ inbox = {}
  /\ policy \in Policies /\ changes = 0
  /\ known = {} /\ tx = [q \in Requests |-> Free] /\ approvals = {}

Ends(q) == tx' = [tx EXCEPT ![q] = Free]

\* The lock on the Spec's row waits for transactions that inserted a row which
\* refers to it: a confirmation that is not committed.
Lockable == \A q \in Requests : tx[q].pc = "approve" => <<tx[q].rev, tx[q].by>> \in confirmations

-----------------------------------------------------------------------------
\* createSpecVersion: the key is looked up before anything is locked.
LookUpKey(q, p, k) ==
  /\ tx[q] = Free /\ k \notin known
  /\ tx' = [tx EXCEPT ![q] = [Free EXCEPT !.pc = "create", !.by = p, !.key = k]]
  /\ UNCHANGED <<author, revoked, confirmedAt, spec, review, policy, changes, known, approvals>>

\* From the lock on the Spec's row to the commit.
CreateVersion(q) ==
  LET n == Cardinality(Versions) + 1
  IN  /\ tx[q].pc = "create" /\ Lockable /\ n <= MaxRevisions
      /\ author' = [r \in Versions \union {n} |-> IF r = n THEN tx[q].by ELSE author[r]]
      /\ spec' = [spec EXCEPT !.current = n, !.status = "draft"]
      /\ known' = known \union {tx[q].key}
      /\ Ends(q)
      /\ UNCHANGED <<revoked, confirmedAt, review, policy, changes, approvals>>

\* revokeSpecVersion locks the row first: the current version moves back to
\* the newest one that is left.
RevokeVersion(r) ==
  /\ Lockable /\ r \in Active /\ spec.confirmed # r /\ Active # {r}
  /\ changes < MaxChanges /\ changes' = changes + 1
  /\ revoked' = revoked \union {r}
  /\ spec' = IF spec.current = r
             THEN [spec EXCEPT !.current = Max(Active \ {r}), !.status = "draft"] ELSE spec
  /\ UNCHANGED <<author, confirmedAt, review, policy, known, tx, approvals>>

\* requestSpecReview reads the current version, then updates the row.  (For
\* several reviewers at once it is called several times.)
ReadForReview(q) ==
  /\ tx[q] = Free
  /\ tx' = [tx EXCEPT ![q] = [Free EXCEPT !.pc = "review", !.rev = spec.current]]
  /\ UNCHANGED <<author, revoked, confirmedAt, spec, review, policy, changes, known, approvals>>

RequestReview(q) ==
  LET r == tx[q].rev
  IN  /\ tx[q].pc = "review"
      /\ spec' = [spec EXCEPT !.status = "in_review"]
      /\ \E p \in Reviewers : inbox' = inbox \union {<<r, p>>}
      /\ Ends(q)
      /\ UNCHANGED <<author, revoked, confirmedAt, confirmations, policy, changes, known, approvals>>

-----------------------------------------------------------------------------
(* confirmSpec.                                                            *)

\* Fault variant: the author may confirm whatever the policy says.
MayConfirmOwn(p, r) == p \in Agents => policy.agents

MayConfirm(p, r) ==
  /\ ~policy.self => author[r] # p
  /\ p \in Agents => policy.agents

\* The row, the versions and the policy are read without a lock.
ReadForConfirm(q, p) ==
  /\ tx[q] = Free /\ MayConfirm(p, spec.current)
  /\ tx' = [tx EXCEPT ![q] = [Free EXCEPT !.pc = "count", !.by = p, !.rev = spec.current,
                                !.required = policy.required]]
  /\ UNCHANGED <<author, revoked, confirmedAt, spec, review, policy, changes, known, approvals>>

Confirmers(r) == {p \in People : <<r, p>> \in confirmations}

\* The confirmation is inserted, not committed, and counted with the committed
\* ones.  A second insert of the same key waits for the first.
Count(q) ==
  LET t == tx[q]
  IN  /\ t.pc = "count"
      /\ \A o \in Requests \ {q} : ~(tx[o].pc = "approve" /\ tx[o].by = t.by /\ tx[o].rev = t.rev)
      /\ tx' = [tx EXCEPT ![q].pc = "approve",
                          ![q].enough = Cardinality(Confirmers(t.rev) \union {t.by}) >= t.required]
      /\ UNCHANGED <<author, revoked, confirmedAt, spec, review, policy, changes, known, approvals>>

\* The row is updated if there were enough; commit.
Confirm(q) ==
  LET t == tx[q]
  IN  /\ t.pc = "approve"
      /\ confirmations' = confirmations \union {<<t.rev, t.by>>}
      /\ inbox' = inbox \ {<<t.rev, t.by>>}
      /\ IF t.enough
         THEN /\ spec' = [spec EXCEPT !.confirmed = t.rev, !.status = "approved"]
              /\ confirmedAt' = confirmedAt \union {t.rev}
              /\ approvals' = approvals \union {[rev |-> t.rev, required |-> t.required]}
         ELSE UNCHANGED <<spec, confirmedAt, approvals>>
      /\ Ends(q)
      /\ UNCHANGED <<author, revoked, policy, changes, known>>

\* The connection breaks: the transaction is rolled back.
Rollback(q) ==
  /\ tx[q] # Free /\ Ends(q)
  /\ UNCHANGED <<author, revoked, confirmedAt, spec, review, policy, changes, known, approvals>>

\* updateSpecReviewPolicy.
UpdatePolicy(p) ==
  /\ changes < MaxChanges /\ p # policy
  /\ policy' = p /\ changes' = changes + 1
  /\ UNCHANGED <<author, revoked, confirmedAt, spec, review, known, tx, approvals>>

-----------------------------------------------------------------------------
Next ==
  \/ \E q \in Requests :
       \/ \E p \in People : (\E k \in Keys : LookUpKey(q, p, k)) \/ ReadForConfirm(q, p)
       \/ CreateVersion(q) \/ ReadForReview(q) \/ RequestReview(q)
       \/ Count(q) \/ Confirm(q) \/ Rollback(q)
  \/ \E r \in Versions : RevokeVersion(r)
  \/ \E p \in Policies : UpdatePolicy(p)

Spec == Init /\ [][Next]_vars

-----------------------------------------------------------------------------
Pairs == Versions \X People

\* Every variable ranges over what its table or transaction can hold.
ReviewTypeOK ==
  /\ Versions = 1 .. Cardinality(Versions) /\ Cardinality(Versions) \in 1 .. MaxRevisions
  /\ \A r \in Versions : author[r] \in People
  /\ revoked \subseteq Versions /\ confirmedAt \subseteq Versions
  /\ spec.current \in Versions /\ spec.confirmed \in {0} \union confirmedAt
  /\ spec.status \in {"draft", "in_review", "approved"}
  /\ confirmations \subseteq Pairs /\ inbox \subseteq Pairs
  /\ policy \in Policies /\ known \subseteq Keys
  /\ \A q \in Requests : tx[q].rev \in {0} \union Versions

\* However creations, revocations and reviews are interleaved, the Spec shows
\* the newest version that is not revoked.
CurrentIsNewest == spec.current = Max(Active)

\* A version was approved by as many people as the policy its last confirmer
\* read required, none of them its author unless a policy allowed it.
ApprovedByEnough ==
  \A a \in approvals :
    /\ Cardinality(Confirmers(a.rev)) >= a.required
    /\ author[a.rev] \in Confirmers(a.rev) => \E p \in Policies : p.self

\* A confirmed Spec version cannot be revoked.  The code does not keep this,
\* nor the following ones: the README says when.
ConfirmedIsNotRevoked == spec.confirmed \notin revoked

\* An approved Spec shows the version that was confirmed.
ApprovedIsCurrent == spec.status = "approved" => spec.current = spec.confirmed

\* A version with the confirmations that the policy requires is approved.
EnoughIsApproved ==
  (\A q \in Requests : tx[q] = Free) /\ changes = 0 =>
    \A r \in Versions : Cardinality(Confirmers(r)) >= policy.required => r \in confirmedAt

\* The confirmed version never goes back to an older one.
ConfirmedNeverGoesBack == [][spec'.confirmed >= spec.confirmed]_vars

\* One key creates one version.
OneVersionPerKey == Cardinality(Versions) - 1 = Cardinality(known)

\* A Spec in review has asked nobody to review an older version only.
ReviewIsOfTheCurrent ==
  spec.status = "in_review" => \A n \in inbox : n[1] <= spec.current /\ n[1] \notin revoked
=============================================================================
