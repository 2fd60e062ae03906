--------------------------- MODULE SharedBoundaries ---------------------------
(***************************************************************************)
(* One boundary that several Work States share: what each claims of it     *)
(* (packages/stand-in-core/src/shared-boundary.ts), the coordination cases *)
(* that conflicting claims open, change and clear (apps/server-api/src/    *)
(* pilot-store.ts, coordination-kernel.ts), and what people conclude in    *)
(* them (pilot-routes.ts).                                                 *)
(*                                                                         *)
(* A method of the pilot store is one transaction under an advisory lock.  *)
(* The Stand-in job of a checkpoint claims in one transaction, then reads  *)
(* the claims of the Team's other Projects, then opens cases one by one.   *)
(* The jobs of a Project run one at a time.  A Work State is its owner.    *)
(***************************************************************************)
EXTENDS Naturals, FiniteSets, SequencesExt

CONSTANTS
  Here, There,    \* the Work States of two Projects of one Team
  Nobody,
  MaxClaims,      \* bound: claims of all Work States
  MaxCases,       \* bound: cases there are
  MaxEvents       \* bound: proposed conclusions, jobs that run again, and
                  \* claims that pass the age of 24 hours

\* A Work State is of one Project.
BoundaryAssumption == IsFiniteSet(Here) /\ IsFiniteSet(There) /\ Here \cap There = {}

WorkStates == Here \union There
Scopes == {Here, There, WorkStates}
ProjectOf(w) == IF w \in Here THEN Here ELSE There

VARIABLES
  claims,            \* each Work State's newest claim: its revision, what it says;
                     \* the Work States whose claims are withdrawn or too old
  cases,             \* the coordination threads, in the order they were opened
  decisions,         \* each case's DecisionRecord: the conclusion it holds, or 0
  job, route,        \* the job of each Work State; a request that confirms
  proposals, events,
  refused            \* history: unique indexes that refused a transaction

bounds == <<proposals, events>>
vars == <<claims, cases, decisions, job, route, bounds, refused>>

Idle == [pc |-> "idle", todo |-> {}]
NoRoute == [pc |-> "none", case |-> 0, by |-> Nobody, conclusion |-> 0]

Init ==
  /\ claims = [made |-> [w \in WorkStates |-> 0], kind |-> [w \in WorkStates |-> "none"],
               withdrawn |-> {}, stale |-> {}]
  /\ cases = <<>> /\ decisions = <<>>
  /\ job = [w \in WorkStates |-> Idle] /\ route = NoRoute
  /\ proposals = 0 /\ events = 0 /\ refused = {}

-----------------------------------------------------------------------------
(* The matcher.  A producer breaks or keeps what a consumer assumes.       *)

Live(cl) == {w \in WorkStates : cl.made[w] > 0} \ (cl.withdrawn \union cl.stale)
Sources(cl, a, b) == {<<a, cl.made[a]>>, <<b, cl.made[b]>>}
OwnersOf(pair) == {claim[1] : claim \in pair}

Pairs(cl, scope, says, assumes) ==
  {Sources(cl, p[1], p[2]) : p \in {q \in (scope \cap Live(cl)) \X (scope \cap Live(cl)) :
      q[1] # q[2] /\ cl.kind[q[1]] \in says /\ cl.kind[q[2]] \in assumes}}
Conflicts(cl, scope) == Pairs(cl, scope, {"breaks"}, {"assumes"})
Compatible(cl, scope) == Pairs(cl, scope, {"keeps"}, {"assumes"})
Kinds == {"breaks", "keeps", "assumes"}

\* What `find` takes in a scope: a conflict, else a compatible match, else any.
\* Matches come in the order in which their claims were observed: any order.
Evaluations(cl, scope) ==
  IF Conflicts(cl, scope) # {} THEN Conflicts(cl, scope)
  ELSE IF Compatible(cl, scope) # {} THEN Compatible(cl, scope)
  ELSE Pairs(cl, scope, Kinds, Kinds)

Evaluated(cl) ==
  {first \in [Scopes -> {{}} \union UNION {Evaluations(cl, s) : s \in Scopes}] :
     \A s \in Scopes : IF Evaluations(cl, s) = {} THEN first[s] = {} ELSE first[s] \in Evaluations(cl, s)}

-----------------------------------------------------------------------------
(* The cases.                                                              *)

\* born is the column dedupe_key, which is never updated; key is what the data
\* says, and the two sources of a case that is not resolved.
NewCase(pair, scope) ==
  [scope |-> scope, born |-> pair, key |-> pair, status |-> "open", people |-> OwnersOf(pair),
   responsible |-> Nobody, conclusion |-> 0, decision |-> 0]

Single(c) == cases[c].scope # WorkStates
Unresolved(c) == cases[c].status # "resolved"

Affected(w) == {c \in DOMAIN cases : Unresolved(c) /\ w \in OwnersOf(cases[c].key)}

\* Fault variants: a case keeps the claims it was opened for; a case is cleared
\* whatever else is in conflict.
ReviewedInPlace(cl, w, first) ==
  [c \in DOMAIN cases |->
    LET old == [cases[c] EXCEPT !.responsible = Nobody, !.conclusion = 0, !.decision = 0]
    IN  IF c \notin Affected(w) THEN cases[c]
        ELSE [old EXCEPT !.status = IF first[cases[c].scope] \in Conflicts(cl, cases[c].scope)
                                    THEN "open" ELSE "resolved"]]
ReviewedAlone(cl, w, first) ==
  [c \in DOMAIN cases |->
    LET old == [cases[c] EXCEPT !.responsible = Nobody, !.conclusion = 0, !.decision = 0]
    IN  IF c \notin Affected(w) THEN cases[c] ELSE [old EXCEPT !.status = "resolved"]]

\* reconcileAffectedBoundaryThreads, with the claims as they are afterwards: a
\* case turns to the first conflict in its scope, or is cleared.
Reviewed(cl, w, first) ==
  [c \in DOMAIN cases |->
    LET now == first[cases[c].scope]
        old == [cases[c] EXCEPT !.responsible = Nobody, !.conclusion = 0, !.decision = 0,
                                !.people = @ \union OwnersOf(now)]
    IN  IF c \notin Affected(w) THEN cases[c]
        ELSE IF now \in Conflicts(cl, cases[c].scope)
             THEN [old EXCEPT !.key = now, !.status = "open"]
             ELSE [old EXCEPT !.status = "resolved"]]

\* Fault variant: one unresolved case of the boundary is enough.
MissingAny(cl, w, seen) ==
  IF \E c \in DOMAIN seen : seen[c].status # "resolved" THEN {}
  ELSE {pair \in Conflicts(cl, ProjectOf(w)) : w \in OwnersOf(pair)}

\* The conflicts of a Work State in its Project that no case is about.
Missing(cl, w, seen) ==
  {pair \in Conflicts(cl, ProjectOf(w)) :
     /\ w \in OwnersOf(pair)
     /\ ~\E c \in DOMAIN seen : /\ seen[c].key = pair /\ seen[c].scope = ProjectOf(w)
                                /\ seen[c].status # "resolved"}

\* The unique index on dedupe_key.
Taken(pair, scope) == \E c \in DOMAIN cases : cases[c].born = pair /\ cases[c].scope = scope

\* A transaction that inserts the cases of `pairs`, after it changed the others.
Saves(seen, pairs, scope) ==
  /\ Len(seen) + Cardinality(pairs) <= MaxCases
  /\ cases' = seen \o [i \in 1 .. Cardinality(pairs) |-> NewCase(SetToSeq(pairs)[i], scope)]
  /\ decisions' = decisions \o [i \in 1 .. Cardinality(pairs) |-> 0]

Refuses(index) ==
  /\ refused' = refused \union {index}
  /\ UNCHANGED <<claims, cases, decisions>>

-----------------------------------------------------------------------------
(* The job of a checkpoint.                                                *)

Free(w) == \A v \in ProjectOf(w) : job[v].pc = "idle"

\* reconcileSharedBoundaries: the claim, the cases it affects, new cases.
\* After a withdrawal there is no claim to succeed, and the new one is
\* revision 1 again, which the table has.
Claim(w, k) ==
  /\ Free(w) /\ SumFunction(claims.made) < MaxClaims
  /\ \/ /\ w \notin claims.withdrawn
        /\ claims' = [claims EXCEPT !.made[w] = @ + 1, !.kind[w] = k, !.stale = @ \ {w}]
        /\ \E first \in Evaluated(claims') :
             LET seen == Reviewed(claims', w, first)
             IN  Saves(seen, Missing(claims', w, seen), ProjectOf(w))
        /\ job' = [job EXCEPT ![w].pc = "scan"]
        /\ UNCHANGED refused
     \/ w \in claims.withdrawn /\ Refuses("revision") /\ UNCHANGED job
  /\ UNCHANGED <<route, bounds>>

\* The same checkpoint again: its claim is there, and only missing cases are
\* opened.
Retry(w) ==
  /\ Free(w) /\ claims.made[w] > 0 /\ events < MaxEvents /\ events' = events + 1
  /\ IF \E pair \in Missing(claims, w, cases) : Taken(pair, ProjectOf(w))
     THEN Refuses("case") /\ UNCHANGED job
     ELSE /\ Saves(cases, Missing(claims, w, cases), ProjectOf(w))
          /\ job' = [job EXCEPT ![w].pc = "scan"]
          /\ UNCHANGED <<claims, refused>>
  /\ UNCHANGED <<route, proposals>>

\* reconcileTeamBoundaryConflicts reads the claims.
Scan(w) ==
  LET todo == {pair \in Conflicts(claims, WorkStates) :
                 w \in OwnersOf(pair) /\ OwnersOf(pair) \cap Here # {} /\ OwnersOf(pair) \cap There # {}}
  IN  /\ job[w].pc = "scan"
      /\ job' = [job EXCEPT ![w] = IF todo = {} THEN Idle ELSE [pc |-> "open", todo |-> todo]]
      /\ UNCHANGED <<claims, cases, decisions, route, bounds, refused>>

Rest(w, pair) ==
  LET todo == job[w].todo \ {pair}
  IN  job' = [job EXCEPT ![w] = IF todo = {} THEN Idle ELSE [pc |-> "open", todo |-> todo]]

\* Fault variant: without the unique index.
OpenScopedUnchecked(w, pair) ==
  /\ job[w].pc = "open" /\ pair \in job[w].todo
  /\ Saves(cases, {pair}, WorkStates) /\ Rest(w, pair)
  /\ UNCHANGED <<claims, route, bounds, refused>>

\* openScopedCoordination: any case of that key is used again.
OpenScoped(w, pair) ==
  /\ job[w].pc = "open" /\ pair \in job[w].todo
  /\ IF \E c \in DOMAIN cases : cases[c].key = pair /\ ~Single(c)
     THEN Rest(w, pair) /\ UNCHANGED <<claims, cases, decisions, refused>>
     ELSE IF Taken(pair, WorkStates)
     THEN Refuses("case") /\ job' = [job EXCEPT ![w] = Idle]
     ELSE Saves(cases, {pair}, WorkStates) /\ Rest(w, pair) /\ UNCHANGED <<claims, refused>>
  /\ UNCHANGED <<route, bounds>>

\* A call fails or the worker dies.
Stop(w) ==
  /\ job[w].pc # "idle" /\ job' = [job EXCEPT ![w] = Idle]
  /\ UNCHANGED <<claims, cases, decisions, route, bounds, refused>>

-----------------------------------------------------------------------------
(* People and time.                                                        *)

\* withdrawPulseEntry.
Withdraw(w) ==
  /\ claims.made[w] > 0 /\ w \notin claims.withdrawn
  /\ claims' = [claims EXCEPT !.withdrawn = @ \union {w}]
  /\ \E first \in Evaluated(claims') : cases' = Reviewed(claims', w, first)
  /\ UNCHANGED <<decisions, job, route, bounds, refused>>

Age(w) ==
  /\ w \in Live(claims) /\ events < MaxEvents /\ events' = events + 1
  /\ claims' = [claims EXCEPT !.stale = @ \union {w}]
  /\ UNCHANGED <<cases, decisions, job, route, proposals, refused>>

\* proposeCoordinationConclusion, whatever the status is.
Propose(c, p) ==
  /\ p \in cases[c].people /\ events < MaxEvents
  /\ events' = events + 1 /\ proposals' = proposals + 1
  /\ cases' = [cases EXCEPT ![c].status = "needs_confirmation", ![c].responsible = p,
                            ![c].conclusion = proposals + 1]
  /\ UNCHANGED <<claims, decisions, job, route, refused>>

\* The route that confirms: confirmCoordination by the responsible person,
\* again if they like; then, if the case has no decision, two more calls.
Confirm(c) ==
  /\ route = NoRoute
  /\ cases[c].status \in {"needs_confirmation", "resolved"} /\ cases[c].responsible # Nobody
  /\ cases' = [cases EXCEPT ![c].status = "resolved"]
  /\ route' = IF cases[c].decision # 0 THEN NoRoute
              ELSE [pc |-> "decide", case |-> c, by |-> cases[c].responsible, conclusion |-> cases[c].conclusion]
  /\ UNCHANGED <<claims, decisions, job, bounds, refused>>

\* createDecisionOnce: a conversation has one decision.
Decide ==
  /\ route.pc = "decide"
  /\ decisions' = [decisions EXCEPT ![route.case] = IF @ = 0 THEN route.conclusion ELSE @]
  /\ route' = [route EXCEPT !.pc = "record"]
  /\ UNCHANGED <<claims, cases, job, bounds, refused>>

\* recordCoordinationDecision.
Record ==
  LET c == route.case
  IN  /\ route.pc = "record" /\ route' = NoRoute
      /\ cases' = IF cases[c].status = "resolved" /\ cases[c].responsible = route.by
                  THEN [cases EXCEPT ![c].decision = decisions[c]] ELSE cases
      /\ UNCHANGED <<claims, decisions, job, bounds, refused>>

\* The request fails between two calls.
Drop ==
  /\ route # NoRoute /\ route' = NoRoute
  /\ UNCHANGED <<claims, cases, decisions, job, bounds, refused>>

-----------------------------------------------------------------------------
Next ==
  \/ \E w \in WorkStates :
       \/ (\E k \in Kinds : Claim(w, k)) \/ Retry(w) \/ Scan(w) \/ Stop(w)
       \/ (\E pair \in job[w].todo : OpenScoped(w, pair))
       \/ Withdraw(w) \/ Age(w)
  \/ \E c \in DOMAIN cases : Confirm(c) \/ \E p \in WorkStates : Propose(c, p)
  \/ Decide \/ Record \/ Drop

Spec == Init /\ [][Next]_vars

-----------------------------------------------------------------------------
ClaimIds == WorkStates \X (Nat \ {0})

\* Every variable ranges over what its table can hold, and the unique index on
\* the cases' keys holds.
BoundaryTypeOK ==
  /\ claims \in [made : [WorkStates -> Nat], kind : [WorkStates -> Kinds \union {"none"}],
                 withdrawn : SUBSET WorkStates, stale : SUBSET WorkStates]
  /\ \A c \in DOMAIN cases :
       /\ cases[c].scope \in Scopes /\ cases[c].born \subseteq ClaimIds /\ cases[c].key \subseteq ClaimIds
       /\ cases[c].status \in {"open", "needs_confirmation", "resolved"}
       /\ cases[c].responsible \in cases[c].people \union {Nobody}
       /\ cases[c].conclusion \in 0 .. proposals /\ cases[c].decision \in {0, decisions[c]}
       /\ \A d \in DOMAIN cases : cases[d].born = cases[c].born /\ cases[d].scope = cases[c].scope => d = c
  /\ Len(decisions) = Len(cases)
  /\ \A w \in WorkStates : job[w].pc \in {"idle", "scan", "open"}
  /\ route.pc \in {"none", "decide", "record"} /\ refused \subseteq {"revision", "case"}

\* A case of one Project that is open is about two claims that stand and
\* contradict each other.  (One that was cleared asks for a confirmation that
\* nobody needs when people conclude it all the same.)
OpenIsSupported ==
  \A c \in DOMAIN cases : Single(c) /\ cases[c].status = "open" =>
    \A claim \in cases[c].key :
      /\ claim[2] = claims.made[claim[1]] /\ claim[1] \notin claims.withdrawn
      /\ \E other \in cases[c].key : {claims.kind[claim[1]], claims.kind[other[1]]} = {"breaks", "assumes"}

\* Two claims of one Project that stand and contradict each other have a case,
\* or people have settled it.
ConflictHasCase ==
  \A project \in {Here, There} : \A pair \in Conflicts(claims, project) :
    \E c \in DOMAIN cases : /\ cases[c].key = pair /\ cases[c].scope = project
                            /\ Unresolved(c) \/ cases[c].responsible # Nobody

\* A case is resolved by the person that was asked to, or because its Projects
\* hold no conflict any more.
ResolvedByPeopleOrEvidence ==
  [][\A c \in DOMAIN cases : Unresolved(c) /\ ~Unresolved(c)' =>
       \/ cases[c].status = "needs_confirmation" /\ cases'[c].responsible = cases[c].responsible
       \/ Conflicts(claims', cases[c].scope) = {}]_vars

\* One conflict has one case.  The code does not keep this, nor the following
\* ones: the README says when.
OneCasePerConflict ==
  \A c, d \in DOMAIN cases :
    Single(c) /\ Unresolved(c) /\ Single(d) /\ Unresolved(d) /\ cases[c].key = cases[d].key => c = d

\* No checkpoint's job is refused by an index.
NothingRefused == refused = {}

\* The recorded decision is the conclusion that people confirmed.
DecisionIsTheConclusion ==
  \A c \in DOMAIN cases :
    ~Unresolved(c) /\ cases[c].decision # 0 => cases[c].decision = cases[c].conclusion

\* A case of two Projects is about claims that stand.
ScopedIsSupported ==
  \A c \in DOMAIN cases : ~Single(c) /\ Unresolved(c) =>
    \A claim \in cases[c].key : claim[2] = claims.made[claim[1]] /\ claim[1] \notin claims.withdrawn
=============================================================================
