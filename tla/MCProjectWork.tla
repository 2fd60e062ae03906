---------------------------- MODULE MCProjectWork ----------------------------
(***************************************************************************)
(* Instances of what the API's stores keep of a Project's work, for TLC to *)
(* check in one run: the publication of checkpoints, the coordination of   *)
(* shared boundaries, the review of a Spec and the work derived from it.   *)
(* The models share no state: a behaviour is one of one of them (`part`    *)
(* says of which) while the others rest as they started.                   *)
(***************************************************************************)
EXTENDS StandInJobs, TLC

CONSTANTS
  Here, There, Nobody, MaxClaims, MaxCases, MaxEvents,
  People, Agents, Reviewers, Policies, Requests, Keys, NoKey, MaxRevisions, MaxChanges,
  Owners, NoOwner, MaxVersions, MaxWrites

VARIABLES
  part,
  claims, cases, decisions, jobs, route, proposals, events, refused,
  author, revoked, confirmedAt, spec, confirmations, inbox, policy, changes, known, tx, approvals,
  confirmed, once, revokedRevs, feature, item, featureTx, itemTx, featureHistory, history, attention,
  closed, writes, by

Shared == INSTANCE SharedBoundaries WITH job <- jobs
Review == INSTANCE SpecReview
Derived == INSTANCE DerivedWork WITH MaxRevisions <- MaxVersions

ASSUME JobsConstants == JobsAssumption
ASSUME BoundaryConstants == Shared!BoundaryAssumption
ASSUME ReviewConstants == Review!ReviewAssumption
ASSUME WorkConstants == Derived!WorkAssumption

boundaryVars == <<claims, cases, decisions, jobs, route, proposals, events, refused>>
reviewVars ==
  <<author, revoked, confirmedAt, spec, confirmations, inbox, policy, changes, known, tx, approvals>>
derivedVars ==
  <<confirmed, once, revokedRevs, feature, item, featureTx, itemTx, featureHistory, history, attention,
    closed, writes, by>>
workVars == <<part, vars, boundaryVars, reviewVars, derivedVars>>

WorkInit ==
  /\ part \in {"publication", "boundary", "review", "derived"}
  /\ Init /\ (part # "publication" => collaborative)
  /\ Shared!Init
  /\ Review!Init
  /\ part = "review" => author[1] \notin Reviewers  \* a reviewer's own version is as any author's
  /\ part # "review" => author[1] = (CHOOSE p \in People : TRUE) /\ policy = (CHOOSE p \in Policies : TRUE)
  /\ Derived!Init

WorkNext ==
  /\ UNCHANGED part
  /\ \/ part = "publication" /\ Next /\ UNCHANGED <<boundaryVars, reviewVars, derivedVars>>
     \/ part = "boundary" /\ Shared!Next /\ UNCHANGED <<vars, reviewVars, derivedVars>>
     \/ part = "review" /\ Review!Next /\ UNCHANGED <<vars, boundaryVars, derivedVars>>
     \/ part = "derived" /\ Derived!Next /\ UNCHANGED <<vars, boundaryVars, reviewVars>>

WorkSpec == WorkInit /\ [][WorkNext]_workVars

\* Two confirmations by people are enough, Agents may help, authors may not;
\* or one confirmation by a person that is not the author is.
MCPolicies ==
  {[required |-> 2, agents |-> TRUE, self |-> FALSE], [required |-> 1, agents |-> FALSE, self |-> FALSE]}

\* Sound for safety: workers and transactions are alike.
Alike == Permutations(Workers) \union Permutations(Requests)

-----------------------------------------------------------------------------
\* The properties of the instances, stated there.  The invariants need only be
\* checked of the part that moves.
OpenIsSupported == part = "boundary" => Shared!OpenIsSupported
ConflictHasCase == part = "boundary" => Shared!ConflictHasCase
ResolvedByPeopleOrEvidence == Shared!ResolvedByPeopleOrEvidence
CurrentIsNewest == part = "review" => Review!CurrentIsNewest
ApprovedByEnough == part = "review" => Review!ApprovedByEnough
DecisionIsAsked == part = "derived" => Derived!DecisionIsAsked
SourceIsConfirmed == Derived!SourceIsConfirmed

\* The type invariants of the modules.
ProjectTypeOK ==
  CASE part = "publication" -> JobsTypeOK
    [] part = "boundary" -> Shared!BoundaryTypeOK
    [] part = "review" -> Review!ReviewTypeOK
    [] part = "derived" -> Derived!WorkTypeOK
=============================================================================
