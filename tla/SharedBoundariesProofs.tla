------------------------ MODULE SharedBoundariesProofs ------------------------
(***************************************************************************)
(* Proofs about the coordination of a shared boundary, for any Work States *)
(* of two Projects and any number of claims, cases and conclusions.        *)
(***************************************************************************)
EXTENDS SharedBoundaries, FiniteSetTheorems, TLAPS

-----------------------------------------------------------------------------
Claims ==
  [made : [WorkStates -> Nat], kind : [WorkStates -> Kinds \union {"none"}],
   withdrawn : SUBSET WorkStates, stale : SUBSET WorkStates]

CaseRows ==
  [scope : Scopes, born : SUBSET ClaimIds, key : SUBSET ClaimIds,
   status : {"open", "needs_confirmation", "resolved"}, people : SUBSET WorkStates,
   responsible : WorkStates \union {Nobody}, conclusion : Nat, decision : Nat]

\* Claims that were made, whatever became of them.
Issued(cl, pair) == pair \subseteq ClaimIds /\ \A claim \in pair : claim[2] <= cl.made[claim[1]]

\* What the cases keep: claims that were made, a person of their own, a conclusion
\* that was proposed and the decision there is.
Kept(cl, rows, ds, n) ==
  \A c \in DOMAIN rows :
    /\ Issued(cl, rows[c].born) /\ Issued(cl, rows[c].key)
    /\ rows[c].responsible \in rows[c].people \union {Nobody}
    /\ rows[c].conclusion \in 0 .. n /\ rows[c].decision \in {0, ds[c]}

\* The unique index.
OneKey(rows) ==
  \A c, d \in DOMAIN rows : rows[c].born = rows[d].born /\ rows[c].scope = rows[d].scope => c = d

\* A claim that stands, and contradicts another one of the pair.
Stands(cl, pair) ==
  \A claim \in pair :
    /\ claim[2] = cl.made[claim[1]] /\ claim[1] \notin cl.withdrawn
    /\ \E other \in pair : {cl.kind[claim[1]], cl.kind[other[1]]} = {"breaks", "assumes"}

Supported(cl, rows) ==
  \A c \in DOMAIN rows : rows[c].scope # WorkStates /\ rows[c].status = "open" => Stands(cl, rows[c].key)

\* A case about the pair, or one that people settled.
About(row, pair, project) ==
  row.key = pair /\ row.scope = project /\ (row.status # "resolved" \/ row.responsible # Nobody)

Covered(cl, rows) ==
  \A project \in {Here, There} : \A pair \in Conflicts(cl, project) :
    \E c \in DOMAIN rows : About(rows[c], pair, project)

Tables ==
  /\ claims \in Claims /\ cases \in Seq(CaseRows) /\ decisions \in Seq(Nat)
  /\ Len(decisions) = Len(cases) /\ proposals \in Nat /\ refused \subseteq {"revision", "case"}

Working ==
  /\ job \in [WorkStates -> [pc : {"idle", "scan", "open"}, todo : SUBSET SUBSET ClaimIds]]
  /\ \A w \in WorkStates : \A pair \in job[w].todo : Issued(claims, pair)

Confirming ==
  /\ route \in [pc : {"none", "decide", "record"}, case : Nat, by : WorkStates \union {Nobody}, conclusion : Nat]
  /\ route.pc # "none" => route.case \in DOMAIN cases

\* The inductive invariant.
IInv ==
  /\ Tables /\ Working /\ Confirming
  /\ Kept(claims, cases, decisions, proposals) /\ OneKey(cases)
  /\ Supported(claims, cases) /\ Covered(claims, cases)

-----------------------------------------------------------------------------
(* The matcher.                                                            *)

\* What a match is about: claims that are live, in the scope.
LEMMA PairsAreIssued ==
  ASSUME NEW cl \in Claims, NEW scope \in Scopes, NEW says, NEW assumes,
         NEW pair \in Pairs(cl, scope, says, assumes)
  PROVE  /\ Issued(cl, pair) /\ OwnersOf(pair) \subseteq scope \cap Live(cl) /\ OwnersOf(pair) # {}
         /\ pair \subseteq {<<w, cl.made[w]>> : w \in WorkStates}
<1>1. PICK a \in scope \cap Live(cl), b \in scope \cap Live(cl) :
        pair = {<<a, cl.made[a]>>, <<b, cl.made[b]>>}
  BY DEF Pairs, Sources
<1>2. a \in WorkStates /\ b \in WorkStates /\ cl.made[a] \in Nat \ {0} /\ cl.made[b] \in Nat \ {0}
  BY DEF Live, Claims
<1>3. OwnersOf(pair) = {a, b} BY <1>1 DEF OwnersOf
<1>4. Issued(cl, pair) BY <1>1, <1>2 DEF Issued, ClaimIds
<1> QED BY <1>1, <1>2, <1>3, <1>4

\* A conflict is about claims that stand.
LEMMA ConflictsStand ==
  ASSUME NEW cl \in Claims, NEW scope, NEW pair \in Conflicts(cl, scope)
  PROVE  Stands(cl, pair)
<1>1. PICK a \in scope \cap Live(cl), b \in scope \cap Live(cl) :
        /\ cl.kind[a] = "breaks" /\ cl.kind[b] = "assumes"
        /\ pair = {<<a, cl.made[a]>>, <<b, cl.made[b]>>}
  BY DEF Conflicts, Pairs, Sources
<1>2. a \notin cl.withdrawn /\ b \notin cl.withdrawn BY DEF Live
<1>3. {cl.kind[a], cl.kind[b]} = {"breaks", "assumes"} /\ {cl.kind[b], cl.kind[a]} = {"breaks", "assumes"}
  BY <1>1
<1>4. <<a, cl.made[a]>> \in pair /\ <<b, cl.made[b]>> \in pair BY <1>1
<1>5. ASSUME NEW claim \in pair
      PROVE  /\ claim[2] = cl.made[claim[1]] /\ claim[1] \notin cl.withdrawn
             /\ \E other \in pair : {cl.kind[claim[1]], cl.kind[other[1]]} = {"breaks", "assumes"}
  <2>1. CASE claim = <<a, cl.made[a]>>
    <3>1. claim[1] = a /\ claim[2] = cl.made[a] BY <2>1
    <3>2. \E other \in pair : other[1] = b BY <1>4
    <3> QED BY <1>2, <1>3, <3>1, <3>2
  <2>2. CASE claim = <<b, cl.made[b]>>
    <3>1. claim[1] = b /\ claim[2] = cl.made[b] BY <2>2
    <3>2. \E other \in pair : other[1] = a BY <1>4
    <3> QED BY <1>2, <1>3, <3>1, <3>2
  <2> QED BY <1>1, <2>1, <2>2
<1> QED BY <1>5 DEF Stands

\* Claims that nobody touched conflict as they did.
LEMMA ConflictsRest ==
  ASSUME NEW cl \in Claims, NEW old \in Claims, NEW w, NEW scope, NEW pair \in Conflicts(cl, scope),
         w \notin OwnersOf(pair),
         \A v \in Live(cl) \ {w} : v \in Live(old) /\ old.made[v] = cl.made[v] /\ old.kind[v] = cl.kind[v]
  PROVE  pair \in Conflicts(old, scope)
<1>1. PICK a \in scope \cap Live(cl), b \in scope \cap Live(cl) :
        /\ a # b /\ cl.kind[a] = "breaks" /\ cl.kind[b] = "assumes"
        /\ pair = {<<a, cl.made[a]>>, <<b, cl.made[b]>>}
  BY DEF Conflicts, Pairs, Sources
<1>2. a # w /\ b # w
  <2>1. OwnersOf(pair) = {a, b} BY <1>1 DEF OwnersOf
  <2> QED BY <2>1
<1>3. /\ a \in scope \cap Live(old) /\ b \in scope \cap Live(old) /\ a # b
      /\ old.kind[a] = "breaks" /\ old.kind[b] = "assumes" /\ pair = Sources(old, a, b)
  BY <1>1, <1>2 DEF Sources
<1>4. <<a, b>> \in {q \in (scope \cap Live(old)) \X (scope \cap Live(old)) :
                      q[1] # q[2] /\ old.kind[q[1]] \in {"breaks"} /\ old.kind[q[2]] \in {"assumes"}}
  BY <1>3
<1>5. pair = Sources(old, <<a, b>>[1], <<a, b>>[2]) BY <1>3
<1> QED BY <1>4, <1>5 DEF Conflicts, Pairs

\* The first match of a scope is a conflict where there is one.
LEMMA FirstIsConflict ==
  ASSUME NEW cl, NEW scope \in Scopes, NEW first \in Evaluated(cl)
  PROVE  first[scope] \in Conflicts(cl, scope) \/ Conflicts(cl, scope) = {}
  BY DEF Evaluated, Evaluations

\* Finitely many claims conflict in finitely many pairs.
LEMMA MissingIsFinite ==
  ASSUME BoundaryAssumption, NEW cl \in Claims, NEW w \in WorkStates, NEW rows
  PROVE  IsFiniteSet(Missing(cl, w, rows))
<1> DEFINE f == [v \in WorkStates |-> <<v, cl.made[v]>>]
           graph == {<<v, cl.made[v]>> : v \in WorkStates}
<1>1. IsFiniteSet(WorkStates) BY FS_Union DEF BoundaryAssumption, WorkStates
<1>2. f \in Surjection(WorkStates, graph) BY DEF Surjection
<1>3. IsFiniteSet(graph)
  <2> HIDE DEF f, graph
  <2> QED BY <1>1, <1>2, FS_Surjection
<1>4. IsFiniteSet(SUBSET graph)
  <2> HIDE DEF graph
  <2> QED BY <1>3, FS_SUBSET
<1>5. Missing(cl, w, rows) \in SUBSET (SUBSET graph)
  <2>1. ProjectOf(w) \in Scopes BY DEF ProjectOf, Scopes
  <2> QED BY <2>1, PairsAreIssued DEF Missing, Conflicts
<1> HIDE DEF graph
<1> QED BY <1>4, <1>5, FS_Subset

-----------------------------------------------------------------------------
(* What the transactions do to the rows.                                   *)

\* The sequence of a finite set has each of its elements once.
LEMMA SequenceOfSet ==
  ASSUME NEW S, IsFiniteSet(S)
  PROVE  /\ Cardinality(S) \in Nat
         /\ SetToSeq(S) \in [1 .. Cardinality(S) -> S]
         /\ \A x \in S : \E i \in 1 .. Cardinality(S) : SetToSeq(S)[i] = x
         /\ \A i, j \in 1 .. Cardinality(S) : SetToSeq(S)[i] = SetToSeq(S)[j] => i = j
<1>1. Cardinality(S) \in Nat /\ ExistsBijection(1 .. Cardinality(S), S) BY FS_CardinalityType
<1>2. PICK f \in [1 .. Cardinality(S) -> S] : IsInjective(f)
  BY <1>1 DEF ExistsBijection, Bijection, Injection
<1>3. SetToSeq(S) \in [1 .. Cardinality(S) -> S] /\ IsInjective(SetToSeq(S))
  BY <1>2 DEF SetToSeq
<1> DEFINE g == SetToSeq(S)
           n == Cardinality(S)
<1>4. g \in Injection(1 .. n, S) BY <1>3 DEF Injection
<1>5. IsFiniteSet(1 .. n) /\ Cardinality(1 .. n) = n
  <2> HIDE DEF n
  <2>1. n \in Nat BY <1>1 DEF n
  <2> QED BY <2>1, FS_Interval
<1>6. g \in Surjection(1 .. n, S)
  <2>1. Cardinality(1 .. n) = Cardinality(S) BY <1>5
  <2> HIDE DEF g, n
  <2> QED BY <1>4, <1>5, <2>1, FS_Injection
<1> QED BY <1>1, <1>3, <1>6 DEF IsInjective, Surjection

\* A sequence is followed by another one.
LEMMA Appending ==
  ASSUME NEW R, NEW s \in Seq(R), NEW t \in Seq(R)
  PROVE  /\ s \o t \in Seq(R) /\ Len(s) \in Nat /\ Len(s \o t) = Len(s) + Len(t)
         /\ \A c \in 1 .. Len(s) : (s \o t)[c] = s[c]
         /\ \A c \in Len(s) + 1 .. Len(s) + Len(t) : (s \o t)[c] = t[c - Len(s)]
  OBVIOUS

LEMMA NewCaseIsTyped ==
  ASSUME NEW pair \in SUBSET ClaimIds, NEW scope \in Scopes
  PROVE  NewCase(pair, scope) \in CaseRows
<1>1. OwnersOf(pair) \subseteq WorkStates BY DEF OwnersOf, ClaimIds
<1> QED BY <1>1 DEF NewCase, CaseRows

\* A transaction that saves cases appends one for each pair.
LEMMA SavesAppends ==
  ASSUME NEW seen \in Seq(CaseRows), decisions \in Seq(Nat), Len(seen) = Len(decisions),
         NEW pairs \in SUBSET SUBSET ClaimIds, IsFiniteSet(pairs), NEW scope \in Scopes,
         Saves(seen, pairs, scope)
  PROVE  /\ cases' \in Seq(CaseRows) /\ decisions' \in Seq(Nat) /\ Len(cases') = Len(decisions')
         /\ DOMAIN seen \subseteq DOMAIN cases'
         /\ \A c \in DOMAIN seen : cases'[c] = seen[c] /\ decisions'[c] = decisions[c]
         /\ \A c \in DOMAIN cases' \ DOMAIN seen : \E pair \in pairs : cases'[c] = NewCase(pair, scope)
         /\ \A c, d \in DOMAIN cases' \ DOMAIN seen : cases'[c] = cases'[d] => c = d
         /\ \A pair \in pairs : \E c \in DOMAIN cases' \ DOMAIN seen : cases'[c] = NewCase(pair, scope)
<1> DEFINE n == Len(seen)
           k == Cardinality(pairs)
           f == SetToSeq(pairs)
           more == [i \in 1 .. k |-> NewCase(f[i], scope)]
           zeros == [i \in 1 .. k |-> 0]
<1>1. /\ k \in Nat /\ f \in [1 .. k -> pairs]
      /\ \A x \in pairs : \E i \in 1 .. k : f[i] = x
      /\ \A i, j \in 1 .. k : f[i] = f[j] => i = j
  BY SequenceOfSet
<1>2. cases' = seen \o more /\ decisions' = decisions \o zeros BY DEF Saves
<1>3. \A i \in 1 .. k : more[i] = NewCase(f[i], scope) /\ zeros[i] = 0 OBVIOUS
<1>4. more \in Seq(CaseRows) /\ Len(more) = k
  <2>1. \A i \in 1 .. k : NewCase(f[i], scope) \in CaseRows BY <1>1, NewCaseIsTyped
  <2> HIDE DEF f, k
  <2> QED BY <1>1, <2>1
<1>5. zeros \in Seq(Nat) /\ Len(zeros) = k
  <2> HIDE DEF k
  <2> QED BY <1>1
<1>6. \A i, j \in 1 .. k : more[i] = more[j] => i = j
  <2>1. \A x, y : NewCase(x, scope) = NewCase(y, scope) => x = y BY DEF NewCase
  <2> HIDE DEF f, k
  <2> QED BY <1>1, <2>1
<1> HIDE DEF f, k, more, zeros
<1>7. /\ cases' \in Seq(CaseRows) /\ Len(cases') = n + k /\ n \in Nat
      /\ \A c \in 1 .. n : cases'[c] = seen[c]
      /\ \A c \in n + 1 .. n + k : cases'[c] = more[c - n]
  <2>1. LET u == seen \o more
        IN  /\ u \in Seq(CaseRows) /\ Len(seen) \in Nat /\ Len(u) = Len(seen) + Len(more)
            /\ \A c \in 1 .. Len(seen) : u[c] = seen[c]
            /\ \A c \in Len(seen) + 1 .. Len(seen) + Len(more) : u[c] = more[c - Len(seen)]
    BY <1>4, Appending
  <2> QED BY <1>2, <1>4, <2>1 DEF n
<1>8. /\ decisions' \in Seq(Nat) /\ Len(decisions') = n + k
      /\ \A c \in 1 .. n : decisions'[c] = decisions[c]
  <2>1. LET u == decisions \o zeros
        IN  /\ u \in Seq(Nat) /\ Len(u) = Len(decisions) + Len(zeros)
            /\ \A c \in 1 .. Len(decisions) : u[c] = decisions[c]
    BY <1>5, Appending
  <2> QED BY <1>2, <1>5, <2>1 DEF n
<1>9. DOMAIN seen = 1 .. n /\ DOMAIN cases' = 1 .. (n + k) BY <1>7 DEF n
<1> HIDE DEF n
<1>10. DOMAIN cases' \ DOMAIN seen = n + 1 .. n + k BY <1>1, <1>7, <1>9
<1>11. \A c \in n + 1 .. n + k : c - n \in 1 .. k /\ cases'[c] = more[c - n] BY <1>1, <1>7
<1>12. \A i \in 1 .. k : n + i \in n + 1 .. n + k /\ cases'[n + i] = more[i] BY <1>1, <1>7
<1>13. \A c \in n + 1 .. n + k : \E pair \in pairs : cases'[c] = NewCase(pair, scope)
  BY <1>1, <1>3, <1>11
<1>14. \A c, d \in n + 1 .. n + k : cases'[c] = cases'[d] => c = d
  <2> SUFFICES ASSUME NEW c \in n + 1 .. n + k, NEW d \in n + 1 .. n + k, cases'[c] = cases'[d]
               PROVE  c = d
    OBVIOUS
  <2>1. c - n = d - n BY <1>6, <1>11
  <2> QED BY <1>7, <2>1
<1>15. \A pair \in pairs : \E c \in n + 1 .. n + k : cases'[c] = NewCase(pair, scope)
  BY <1>1, <1>3, <1>12
<1>16. 1 .. n \subseteq 1 .. (n + k) BY <1>1, <1>7
<1>17. \A c \in DOMAIN seen : cases'[c] = seen[c] /\ decisions'[c] = decisions[c] BY <1>7, <1>8, <1>9
<1> QED BY <1>7, <1>8, <1>9, <1>10, <1>13, <1>14, <1>15, <1>16, <1>17

\* Claims that are succeeded were made all the same.
LEMMA IssuedStays ==
  ASSUME NEW old \in Claims, NEW cl \in Claims, \A v \in WorkStates : old.made[v] <= cl.made[v],
         NEW pair, Issued(old, pair)
  PROVE  Issued(cl, pair)
<1> SUFFICES ASSUME NEW claim \in pair PROVE claim[2] <= cl.made[claim[1]]
  BY DEF Issued
<1>1. claim[1] \in WorkStates /\ claim[2] \in Nat /\ claim[2] <= old.made[claim[1]] BY DEF Issued, ClaimIds
<1>2. old.made[claim[1]] \in Nat /\ cl.made[claim[1]] \in Nat /\ old.made[claim[1]] <= cl.made[claim[1]]
  BY <1>1 DEF Claims
<1> QED BY <1>1, <1>2

\* Cases that are appended are about claims that were made, and that stand if they
\* are of one Project; none has the key of a case there was.
LEMMA SavesKeeps ==
  ASSUME NEW seen \in Seq(CaseRows), decisions \in Seq(Nat), Len(seen) = Len(decisions),
         NEW pairs, IsFiniteSet(pairs), NEW scope \in Scopes, Saves(seen, pairs, scope),
         NEW n \in Nat, NEW cl \in Claims,
         Kept(cl, seen, decisions, n), OneKey(seen), Supported(cl, seen),
         \A pair \in pairs : Issued(cl, pair) /\ (scope # WorkStates => Stands(cl, pair)),
         \A pair \in pairs : \A c \in DOMAIN seen : ~(seen[c].born = pair /\ seen[c].scope = scope)
  PROVE  /\ cases' \in Seq(CaseRows) /\ decisions' \in Seq(Nat) /\ Len(decisions') = Len(cases')
         /\ Kept(cl, cases', decisions', n) /\ OneKey(cases') /\ Supported(cl, cases')
         /\ DOMAIN seen \subseteq DOMAIN cases' /\ \A c \in DOMAIN seen : cases'[c] = seen[c]
         /\ \A pair \in pairs : \E c \in DOMAIN cases' : cases'[c] = NewCase(pair, scope)
<1>1. pairs \in SUBSET SUBSET ClaimIds BY DEF Issued
<1>2. /\ cases' \in Seq(CaseRows) /\ decisions' \in Seq(Nat) /\ Len(cases') = Len(decisions')
      /\ DOMAIN seen \subseteq DOMAIN cases'
      /\ \A c \in DOMAIN seen : cases'[c] = seen[c] /\ decisions'[c] = decisions[c]
      /\ \A c \in DOMAIN cases' \ DOMAIN seen : \E pair \in pairs : cases'[c] = NewCase(pair, scope)
      /\ \A c, d \in DOMAIN cases' \ DOMAIN seen : cases'[c] = cases'[d] => c = d
      /\ \A pair \in pairs : \E c \in DOMAIN cases' \ DOMAIN seen : cases'[c] = NewCase(pair, scope)
  BY <1>1, SavesAppends
<1>3. Kept(cl, cases', decisions', n)
  <2>1. ASSUME NEW c \in DOMAIN cases' \ DOMAIN seen
        PROVE  /\ Issued(cl, cases'[c].born) /\ Issued(cl, cases'[c].key)
               /\ cases'[c].responsible \in cases'[c].people \union {Nobody}
               /\ cases'[c].conclusion \in 0 .. n /\ cases'[c].decision \in {0, decisions'[c]}
    BY <1>2 DEF NewCase
  <2>2. ASSUME NEW c \in DOMAIN seen
        PROVE  /\ Issued(cl, cases'[c].born) /\ Issued(cl, cases'[c].key)
               /\ cases'[c].responsible \in cases'[c].people \union {Nobody}
               /\ cases'[c].conclusion \in 0 .. n /\ cases'[c].decision \in {0, decisions'[c]}
    BY <1>2 DEF Kept
  <2> QED BY <2>1, <2>2 DEF Kept
<1>4. OneKey(cases')
  <2> SUFFICES ASSUME NEW c \in DOMAIN cases', NEW d \in DOMAIN cases',
                      cases'[c].born = cases'[d].born, cases'[c].scope = cases'[d].scope
               PROVE  c = d
    BY DEF OneKey
  <2>1. CASE c \in DOMAIN seen /\ d \in DOMAIN seen BY <1>2, <2>1 DEF OneKey
  <2>2. CASE c \in DOMAIN seen /\ d \notin DOMAIN seen BY <1>2, <2>2 DEF NewCase
  <2>3. CASE c \notin DOMAIN seen /\ d \in DOMAIN seen BY <1>2, <2>3 DEF NewCase
  <2>4. CASE c \notin DOMAIN seen /\ d \notin DOMAIN seen
    <3>1. cases'[c] = cases'[d] BY <1>2, <2>4 DEF NewCase
    <3> QED BY <1>2, <2>4, <3>1
  <2> QED BY <2>1, <2>2, <2>3, <2>4
<1>5. Supported(cl, cases')
  <2> SUFFICES ASSUME NEW c \in DOMAIN cases', cases'[c].scope # WorkStates, cases'[c].status = "open"
               PROVE  Stands(cl, cases'[c].key)
    BY DEF Supported
  <2>1. CASE c \in DOMAIN seen BY <1>2, <2>1 DEF Supported
  <2>2. CASE c \notin DOMAIN seen BY <1>2, <2>2 DEF NewCase
  <2> QED BY <2>1, <2>2
<1> QED BY <1>2, <1>3, <1>4, <1>5

\* What a review makes of one case.
LEMMA ReviewedRow ==
  ASSUME NEW cl \in Claims, NEW w \in WorkStates, NEW first \in Evaluated(cl),
         cases \in Seq(CaseRows), NEW c \in DOMAIN cases, c \in Affected(w), NEW row,
         row = Reviewed(cl, w, first)[c]
  PROVE  /\ row \in CaseRows /\ row.scope = cases[c].scope /\ row.born = cases[c].born
         /\ row.responsible = Nobody /\ row.conclusion = 0 /\ row.decision = 0
         /\ \/ row.status = "open" /\ row.key \in Conflicts(cl, row.scope)
            \/ row.status = "resolved" /\ row.key = cases[c].key /\ Conflicts(cl, row.scope) = {}
<1> DEFINE scope == cases[c].scope
           now == first[scope]
           old == [cases[c] EXCEPT !.responsible = Nobody, !.conclusion = 0, !.decision = 0,
                                   !.people = @ \union OwnersOf(now)]
<1>1. cases[c] \in CaseRows /\ scope \in Scopes
  <2>1. cases[c] \in CaseRows OBVIOUS
  <2> QED BY <2>1 DEF CaseRows
<1>2. row = IF now \in Conflicts(cl, scope) THEN [old EXCEPT !.key = now, !.status = "open"]
            ELSE [old EXCEPT !.status = "resolved"]
  BY DEF Reviewed
<1>3. now \in Conflicts(cl, scope) \/ Conflicts(cl, scope) = {} BY <1>1, FirstIsConflict
<1>4. OwnersOf(now) \subseteq WorkStates
  <2>1. now = {} \/ now \in Evaluations(cl, scope)
    <3> DEFINE E(s) == Evaluations(cl, s)
    <3>1. \A s \in Scopes : IF E(s) = {} THEN first[s] = {} ELSE first[s] \in E(s) BY DEF Evaluated
    <3> HIDE DEF E
    <3>2. first[scope] = {} \/ first[scope] \in E(scope) BY <1>1, <3>1
    <3> QED BY <3>2 DEF E
  <2>2. OwnersOf({}) = {} BY DEF OwnersOf
  <2>3. ASSUME now \in Evaluations(cl, scope) PROVE OwnersOf(now) \subseteq WorkStates
    <3>1. \E says, assumes : now \in Pairs(cl, scope, says, assumes)
      BY <2>3 DEF Evaluations, Conflicts, Compatible
    <3>2. OwnersOf(now) \subseteq scope \cap Live(cl) BY <1>1, <3>1, PairsAreIssued
    <3> QED BY <3>2 DEF Live
  <2> QED BY <2>1, <2>2, <2>3
<1>5. /\ old \in CaseRows /\ old.scope = scope /\ old.born = cases[c].born /\ old.key = cases[c].key
      /\ old.responsible = Nobody /\ old.conclusion = 0 /\ old.decision = 0
  <2> HIDE DEF now
  <2> QED BY <1>1, <1>4 DEF CaseRows
<1>6. now \in Conflicts(cl, scope) => now \in SUBSET ClaimIds
  BY <1>1, PairsAreIssued DEF Conflicts, Issued
<1> HIDE DEF old, now
<1>7. CASE now \in Conflicts(cl, scope)
  <2>1. row = [old EXCEPT !.key = now, !.status = "open"] BY <1>2, <1>7
  <2>2. /\ row \in CaseRows /\ row.scope = old.scope /\ row.born = old.born /\ row.key = now
        /\ row.status = "open" /\ row.responsible = old.responsible
        /\ row.conclusion = old.conclusion /\ row.decision = old.decision
    BY <1>5, <1>6, <1>7, <2>1 DEF CaseRows
  <2> QED BY <1>5, <1>7, <2>2
<1>8. CASE now \notin Conflicts(cl, scope)
  <2>1. row = [old EXCEPT !.status = "resolved"] BY <1>2, <1>8
  <2>2. /\ row \in CaseRows /\ row.scope = old.scope /\ row.born = old.born /\ row.key = old.key
        /\ row.status = "resolved" /\ row.responsible = old.responsible
        /\ row.conclusion = old.conclusion /\ row.decision = old.decision
    BY <1>5, <2>1 DEF CaseRows
  <2> QED BY <1>3, <1>5, <1>8, <2>2
<1> QED BY <1>7, <1>8

\* A review after one Work State's claim changed: every case of it is about a
\* conflict that stands or is cleared, all the others are as they were.
LEMMA ReviewedKeeps ==
  ASSUME IInv, NEW cl \in Claims, NEW w \in WorkStates, NEW first \in Evaluated(cl),
         \A v \in WorkStates : claims.made[v] <= cl.made[v],
         \A v \in WorkStates \ {w} :
           /\ cl.made[v] = claims.made[v] /\ cl.kind[v] = claims.kind[v]
           /\ v \in cl.withdrawn => v \in claims.withdrawn,
         Live(cl) \ {w} \subseteq Live(claims),
         NEW seen, seen = Reviewed(cl, w, first)
  PROVE  /\ seen \in Seq(CaseRows) /\ Len(seen) = Len(cases)
         /\ Kept(cl, seen, decisions, proposals) /\ OneKey(seen) /\ Supported(cl, seen)
         /\ \A c \in DOMAIN cases : Unresolved(c) /\ seen[c].status = "resolved" =>
              Conflicts(cl, cases[c].scope) = {}
         /\ \A c \in DOMAIN cases : seen[c].born = cases[c].born
         /\ \A project \in {Here, There} : \A pair \in Conflicts(cl, project) :
              w \notin OwnersOf(pair) => \E c \in DOMAIN seen : About(seen[c], pair, project)
<1>1. cases \in Seq(CaseRows) /\ claims \in Claims /\ proposals \in Nat BY DEF IInv, Tables
<1>2. seen = [c \in DOMAIN cases |-> seen[c]] BY DEF Reviewed
<1>3. \A c \in DOMAIN cases : c \notin Affected(w) => seen[c] = cases[c] BY DEF Reviewed
<1>4. ASSUME NEW c \in DOMAIN cases, c \in Affected(w)
      PROVE  /\ seen[c] \in CaseRows /\ seen[c].scope = cases[c].scope /\ seen[c].born = cases[c].born
             /\ seen[c].responsible = Nobody /\ seen[c].conclusion = 0 /\ seen[c].decision = 0
             /\ \/ seen[c].status = "open" /\ seen[c].key \in Conflicts(cl, seen[c].scope)
                \/ /\ seen[c].status = "resolved" /\ seen[c].key = cases[c].key
                   /\ Conflicts(cl, seen[c].scope) = {}
  BY <1>1, <1>4, ReviewedRow
<1>5. \A c \in DOMAIN cases : seen[c] \in CaseRows /\ seen[c].scope = cases[c].scope /\ seen[c].born = cases[c].born
  BY <1>1, <1>3, <1>4
<1>6. seen \in Seq(CaseRows) /\ Len(seen) = Len(cases) /\ DOMAIN seen = DOMAIN cases
  BY <1>1, <1>2, <1>5
<1>7. Kept(cl, seen, decisions, proposals)
  <2> SUFFICES ASSUME NEW c \in DOMAIN cases
               PROVE  /\ Issued(cl, seen[c].born) /\ Issued(cl, seen[c].key)
                      /\ seen[c].responsible \in seen[c].people \union {Nobody}
                      /\ seen[c].conclusion \in 0 .. proposals /\ seen[c].decision \in {0, decisions[c]}
    BY <1>6 DEF Kept
  <2>1. Issued(claims, cases[c].born) /\ Issued(claims, cases[c].key) BY DEF IInv, Kept
  <2>2. Issued(cl, cases[c].born) /\ Issued(cl, cases[c].key) BY <1>1, <2>1, IssuedStays
  <2>3. CASE c \notin Affected(w) BY <1>3, <2>2, <2>3 DEF IInv, Kept
  <2>4. CASE c \in Affected(w)
    <3>1. seen[c].scope \in Scopes BY <1>5 DEF CaseRows
    <3>2. Issued(cl, seen[c].key) BY <1>4, <2>2, <2>4, <3>1, PairsAreIssued DEF Conflicts
    <3>3. 0 \in 0 .. proposals BY <1>1
    <3> QED BY <1>4, <2>2, <2>4, <3>2, <3>3
  <2> QED BY <2>3, <2>4
<1>8. OneKey(seen) BY <1>5, <1>6 DEF IInv, OneKey
<1>9. Supported(cl, seen)
  <2> SUFFICES ASSUME NEW c \in DOMAIN cases, seen[c].scope # WorkStates, seen[c].status = "open"
               PROVE  Stands(cl, seen[c].key)
    BY <1>6 DEF Supported
  <2>1. CASE c \in Affected(w) BY <1>4, <2>1, ConflictsStand
  <2>2. CASE c \notin Affected(w)
    <3>1. seen[c] = cases[c] /\ w \notin OwnersOf(cases[c].key) /\ Stands(claims, cases[c].key)
      BY <1>3, <2>2 DEF Affected, Unresolved, IInv, Supported
    <3>2. ASSUME NEW claim \in cases[c].key PROVE claim[1] \in WorkStates \ {w}
      <4>1. cases[c] \in CaseRows BY <1>1
      <4>2. claim \in ClaimIds BY <4>1 DEF CaseRows
      <4>3. claim[1] \in OwnersOf(cases[c].key) BY DEF OwnersOf
      <4> QED BY <3>1, <4>2, <4>3 DEF ClaimIds
    <3> SUFFICES ASSUME NEW claim \in cases[c].key
                 PROVE  /\ claim[2] = cl.made[claim[1]] /\ claim[1] \notin cl.withdrawn
                        /\ \E other \in cases[c].key :
                             {cl.kind[claim[1]], cl.kind[other[1]]} = {"breaks", "assumes"}
      BY <3>1 DEF Stands
    <3>3. /\ claim[2] = claims.made[claim[1]] /\ claim[1] \notin claims.withdrawn
          /\ \E other \in cases[c].key :
               {claims.kind[claim[1]], claims.kind[other[1]]} = {"breaks", "assumes"}
      BY <3>1 DEF Stands
    <3> QED BY <3>2, <3>3
  <2> QED BY <2>1, <2>2
<1>10. \A c \in DOMAIN cases : Unresolved(c) /\ seen[c].status = "resolved" =>
         Conflicts(cl, cases[c].scope) = {}
  BY <1>3, <1>4 DEF Unresolved
<1>11. ASSUME NEW project \in {Here, There}, NEW pair \in Conflicts(cl, project), w \notin OwnersOf(pair)
       PROVE  \E c \in DOMAIN seen : About(seen[c], pair, project)
  <2>1. pair \in Conflicts(claims, project)
    <3>1. \A v \in Live(cl) \ {w} : v \in WorkStates \ {w} BY DEF Live
    <3> QED BY <1>1, <1>11, <3>1, ConflictsRest
  <2>2. PICK c \in DOMAIN cases : About(cases[c], pair, project) BY <2>1 DEF IInv, Covered
  <2>3. c \notin Affected(w) BY <1>11, <2>2 DEF Affected, About
  <2> QED BY <1>3, <1>6, <2>2, <2>3
<1> QED BY <1>5, <1>6, <1>7, <1>8, <1>9, <1>10, <1>11

-----------------------------------------------------------------------------
(* The steps.                                                              *)

LEMMA InitInvariant == ASSUME Init PROVE IInv
<1> USE DEF Init
<1>1. Tables
  <2>1. claims \in Claims BY DEF Claims
  <2>2. cases \in Seq(CaseRows) /\ decisions \in Seq(Nat) /\ Len(decisions) = Len(cases) OBVIOUS
  <2> QED BY <2>1, <2>2 DEF Tables
<1>2. Working BY DEF Working, Idle
<1>3. Confirming BY DEF Confirming, NoRoute
<1>4. DOMAIN cases = {} OBVIOUS
<1>5. Kept(claims, cases, decisions, proposals) /\ OneKey(cases) /\ Supported(claims, cases)
  BY <1>4 DEF Kept, OneKey, Supported
<1>6. Covered(claims, cases)
  <2>1. Live(claims) = {} BY DEF Live
  <2> QED BY <2>1 DEF Covered, Conflicts, Pairs
<1> QED BY <1>1, <1>2, <1>3, <1>5, <1>6 DEF IInv

\* A job goes on with claims that were made.
LEMMA JobKeeps ==
  ASSUME IInv, NEW w \in WorkStates,
         NEW j \in [pc : {"idle", "scan", "open"}, todo : SUBSET SUBSET ClaimIds],
         \A pair \in j.todo : Issued(claims, pair), job' = [job EXCEPT ![w] = j], UNCHANGED claims
  PROVE  Working'
  BY DEF IInv, Working

LEMMA JobRests ==
  ASSUME IInv, NEW w \in WorkStates, job' = [job EXCEPT ![w] = Idle], UNCHANGED claims
  PROVE  Working'
<1>1. Idle \in [pc : {"idle", "scan", "open"}, todo : SUBSET SUBSET ClaimIds] /\ Idle.todo = {} BY DEF Idle
<1> QED BY <1>1, JobKeeps

LEMMA JobGoesOn ==
  ASSUME IInv, NEW w \in WorkStates, NEW todo, \A pair \in todo : Issued(claims, pair),
         job' = [job EXCEPT ![w] = IF todo = {} THEN Idle ELSE [pc |-> "open", todo |-> todo]],
         UNCHANGED claims
  PROVE  Working'
<1> DEFINE j == [pc |-> "open", todo |-> todo]
<1>1. j \in [pc : {"idle", "scan", "open"}, todo : SUBSET SUBSET ClaimIds] /\ j.todo = todo BY DEF Issued
<1>2. CASE todo = {} BY <1>2, JobRests
<1>3. CASE todo # {}
  <2>1. job' = [job EXCEPT ![w] = j] BY <1>3
  <2> HIDE DEF j
  <2> QED BY <1>1, <2>1, JobKeeps
<1> QED BY <1>2, <1>3

\* A match in a Project of one's own is about nobody else's Project.
LEMMA ProjectIsOne ==
  ASSUME BoundaryAssumption, NEW project \in {Here, There}, NEW w \in project
  PROVE  project = ProjectOf(w)
  BY DEF BoundaryAssumption, ProjectOf

LEMMA MissingIsIssued ==
  ASSUME NEW cl \in Claims, NEW w \in WorkStates, NEW rows, NEW pair \in Missing(cl, w, rows)
  PROVE  /\ Issued(cl, pair) /\ Stands(cl, pair) /\ w \in OwnersOf(pair)
         /\ pair \subseteq {<<v, cl.made[v]>> : v \in WorkStates}
<1>1. ProjectOf(w) \in Scopes BY DEF ProjectOf, Scopes
<1>2. pair \in Conflicts(cl, ProjectOf(w)) /\ w \in OwnersOf(pair) BY DEF Missing
<1> QED BY <1>1, <1>2, PairsAreIssued, ConflictsStand DEF Conflicts

\* Once what is missing was opened, every conflict of the Work State is covered.
LEMMA OpenedIsCovered ==
  ASSUME BoundaryAssumption, NEW cl \in Claims, NEW w \in WorkStates, NEW seen, NEW rows,
         NEW project \in {Here, There}, NEW pair \in Conflicts(cl, project), w \in OwnersOf(pair),
         DOMAIN seen \subseteq DOMAIN rows, \A c \in DOMAIN seen : rows[c] = seen[c],
         NEW pairs, pairs = Missing(cl, w, seen),
         \A p \in pairs : \E c \in DOMAIN rows : rows[c] = NewCase(p, ProjectOf(w))
  PROVE  \E c \in DOMAIN rows : About(rows[c], pair, project)
<1>1. project = ProjectOf(w)
  <2>1. project \in Scopes BY DEF Scopes
  <2>2. w \in project BY <2>1, PairsAreIssued DEF Conflicts
  <2> QED BY <2>2, ProjectIsOne
<1>2. CASE pair \in pairs
  <2>1. PICK c \in DOMAIN rows : rows[c] = NewCase(pair, ProjectOf(w)) BY <1>2
  <2> QED BY <1>1, <2>1 DEF NewCase, About
<1>3. CASE pair \notin pairs
  <2>1. PICK c \in DOMAIN seen : /\ seen[c].key = pair /\ seen[c].scope = ProjectOf(w)
                                 /\ seen[c].status # "resolved"
    BY <1>1, <1>3 DEF Missing
  <2> QED BY <1>1, <2>1 DEF About
<1> QED BY <1>2, <1>3

\* A new claim is one more of its Work State.
Claimed(old, w, k) == [old EXCEPT !.made[w] = @ + 1, !.kind[w] = k, !.stale = @ \ {w}]

LEMMA ClaimedOnce ==
  ASSUME NEW old \in Claims, NEW w \in WorkStates, NEW k \in Kinds, NEW cl,
         cl = Claimed(old, w, k)
  PROVE  /\ cl \in Claims /\ cl.made[w] = old.made[w] + 1
         /\ \A v \in WorkStates \ {w} : cl.made[v] = old.made[v] /\ cl.kind[v] = old.kind[v]
         /\ cl.withdrawn = old.withdrawn /\ cl.stale = old.stale \ {w}
         /\ \A v \in WorkStates : old.made[v] \in Nat /\ cl.made[v] \in Nat /\ old.made[v] <= cl.made[v]
         /\ Live(cl) \ {w} \subseteq Live(old)
<1>1. /\ old.made \in [WorkStates -> Nat] /\ old.kind \in [WorkStates -> Kinds \union {"none"}]
      /\ old.withdrawn \in SUBSET WorkStates /\ old.stale \in SUBSET WorkStates
  BY DEF Claims
<1>2. /\ cl.made = [old.made EXCEPT ![w] = @ + 1] /\ cl.kind = [old.kind EXCEPT ![w] = k]
      /\ cl.withdrawn = old.withdrawn /\ cl.stale = old.stale \ {w}
      /\ cl = [made |-> cl.made, kind |-> cl.kind, withdrawn |-> cl.withdrawn, stale |-> cl.stale]
  BY DEF Claims, Claimed
<1>3. cl.made \in [WorkStates -> Nat] /\ cl.kind \in [WorkStates -> Kinds \union {"none"}]
  BY <1>1, <1>2
<1>4. cl \in Claims BY <1>1, <1>2, <1>3 DEF Claims
<1>5. /\ cl.made[w] = old.made[w] + 1
      /\ \A v \in WorkStates \ {w} : cl.made[v] = old.made[v] /\ cl.kind[v] = old.kind[v]
      /\ \A v \in WorkStates : old.made[v] \in Nat /\ cl.made[v] \in Nat /\ old.made[v] <= cl.made[v]
  BY <1>1, <1>2
<1>6. Live(cl) \ {w} \subseteq Live(old) BY <1>2, <1>5 DEF Live
<1> QED BY <1>2, <1>4, <1>5, <1>6

LEMMA ClaimStep ==
  ASSUME BoundaryAssumption, IInv, NEW w \in WorkStates, NEW k \in Kinds, Claim(w, k)
  PROVE  IInv'
<1>1. claims \in Claims /\ cases \in Seq(CaseRows) /\ decisions \in Seq(Nat)
      /\ Len(decisions) = Len(cases) /\ proposals \in Nat
  BY DEF IInv, Tables
<1>2. UNCHANGED <<route, proposals, events>> BY DEF Claim, bounds
<1>3. CASE w \notin claims.withdrawn /\ claims' = Claimed(claims, w, k)
  <2>0. PICK cl : cl = claims' OBVIOUS
  <2>1. PICK first \in Evaluated(cl) :
          Saves(Reviewed(cl, w, first), Missing(cl, w, Reviewed(cl, w, first)), ProjectOf(w))
    BY <1>3, <2>0 DEF Claim, Refuses
  <2> PICK seen : seen = Reviewed(cl, w, first) OBVIOUS
  <2> PICK pairs : pairs = Missing(cl, w, seen) OBVIOUS
  <2>2. /\ cl \in Claims /\ cl.made[w] = claims.made[w] + 1
        /\ \A v \in WorkStates \ {w} : cl.made[v] = claims.made[v] /\ cl.kind[v] = claims.kind[v]
        /\ cl.withdrawn = claims.withdrawn /\ cl.stale = claims.stale \ {w}
        /\ \A v \in WorkStates : claims.made[v] \in Nat /\ cl.made[v] \in Nat
                                 /\ claims.made[v] <= cl.made[v]
        /\ Live(cl) \ {w} \subseteq Live(claims)
    BY <1>1, <1>3, <2>0, ClaimedOnce
  <2>3. /\ seen \in Seq(CaseRows) /\ Len(seen) = Len(cases)
        /\ Kept(cl, seen, decisions, proposals) /\ OneKey(seen) /\ Supported(cl, seen)
        /\ \A c \in DOMAIN cases : seen[c].born = cases[c].born
        /\ \A project \in {Here, There} : \A pair \in Conflicts(cl, project) :
             w \notin OwnersOf(pair) => \E c \in DOMAIN seen : About(seen[c], pair, project)
    BY <2>2, ReviewedKeeps
  <2>4. IsFiniteSet(pairs) BY <2>2, MissingIsFinite
  <2>5. \A pair \in pairs : Issued(cl, pair) /\ Stands(cl, pair) BY <2>2, MissingIsIssued
  <2>6. \A pair \in pairs : \A c \in DOMAIN seen : ~(seen[c].born = pair /\ seen[c].scope = ProjectOf(w))
    <3> SUFFICES ASSUME NEW pair \in pairs, NEW c \in DOMAIN seen, seen[c].born = pair PROVE FALSE
      OBVIOUS
    <3>1. w \in OwnersOf(pair) /\ pair \subseteq {<<v, cl.made[v]>> : v \in WorkStates}
      BY <2>2, MissingIsIssued
    <3>2. <<w, cl.made[w]>> \in pair BY <3>1 DEF OwnersOf
    <3>3. c \in DOMAIN cases /\ cases[c].born = pair BY <1>1, <2>3
    <3>4. Issued(claims, pair) BY <3>3 DEF IInv, Kept
    <3>5. cl.made[w] <= claims.made[w] BY <3>2, <3>4 DEF Issued
    <3> QED BY <2>2, <3>5
  <2>7. ProjectOf(w) \in Scopes BY DEF ProjectOf, Scopes
  <2>8. Saves(seen, pairs, ProjectOf(w)) BY <2>1
  <2>9. /\ cases' \in Seq(CaseRows) /\ decisions' \in Seq(Nat) /\ Len(decisions') = Len(cases')
        /\ Kept(cl, cases', decisions', proposals) /\ OneKey(cases') /\ Supported(cl, cases')
        /\ DOMAIN seen \subseteq DOMAIN cases' /\ \A c \in DOMAIN seen : cases'[c] = seen[c]
        /\ \A pair \in pairs : \E c \in DOMAIN cases' : cases'[c] = NewCase(pair, ProjectOf(w))
    BY <1>1, <2>2, <2>3, <2>4, <2>5, <2>6, <2>7, <2>8, SavesKeeps
  <2>10. Covered(cl, cases')
    <3> SUFFICES ASSUME NEW project \in {Here, There}, NEW pair \in Conflicts(cl, project)
                 PROVE  \E c \in DOMAIN cases' : About(cases'[c], pair, project)
      BY DEF Covered
    <3>1. CASE w \in OwnersOf(pair)
      <4> PICK rows : rows = cases' OBVIOUS
      <4>1. /\ DOMAIN seen \subseteq DOMAIN rows /\ \A c \in DOMAIN seen : rows[c] = seen[c]
            /\ \A p \in pairs : \E c \in DOMAIN rows : rows[c] = NewCase(p, ProjectOf(w))
        BY <2>9
      <4>2. cl \in Claims BY <2>2
      <4>3. \E c \in DOMAIN rows : About(rows[c], pair, project)
        BY ONLY BoundaryAssumption, <3>1, <4>1, <4>2, OpenedIsCovered, pairs = Missing(cl, w, seen),
                w \in WorkStates, project \in {Here, There}, pair \in Conflicts(cl, project)
      <4> QED BY <4>3
    <3>2. CASE w \notin OwnersOf(pair) BY <2>3, <2>9, <3>2
    <3> QED BY <3>1, <3>2
  <2>11. Working'
    <3>1. job' = [job EXCEPT ![w].pc = "scan"] BY <1>3 DEF Claim, Refuses
    <3>2. \A v \in WorkStates : \A pair \in job[v].todo : Issued(cl, pair)
      BY <1>1, <2>2, IssuedStays DEF IInv, Working
    <3> QED BY <2>0, <3>1, <3>2 DEF IInv, Working
  <2>12. refused' = refused BY <1>3 DEF Claim, Refuses
  <2>13. DOMAIN cases \subseteq DOMAIN cases' BY <1>1, <2>3, <2>9
  <2>14. Tables' /\ Confirming'
    BY <1>1, <1>2, <2>0, <2>2, <2>9, <2>12, <2>13 DEF IInv, Tables, Confirming
  <2> QED BY <1>2, <2>0, <2>9, <2>10, <2>11, <2>14 DEF IInv
<1>4. CASE refused' = refused \union {"revision"} /\ UNCHANGED <<claims, cases, decisions, job>>
  BY <1>2, <1>4 DEF IInv, Tables, Working, Confirming
<1> QED BY <1>3, <1>4 DEF Claim, Refuses, Claimed

\* Cases that are opened for claims there are, under keys that are not taken.
LEMMA OpensKeeps ==
  ASSUME BoundaryAssumption, IInv, NEW pairs, IsFiniteSet(pairs), NEW scope \in Scopes,
         Saves(cases, pairs, scope),
         \A pair \in pairs : /\ Issued(claims, pair) /\ ~Taken(pair, scope)
                             /\ scope # WorkStates => Stands(claims, pair),
         Working', UNCHANGED <<claims, route, proposals, refused>>
  PROVE  IInv'
<1>1. claims \in Claims /\ cases \in Seq(CaseRows) /\ decisions \in Seq(Nat)
      /\ Len(decisions) = Len(cases) /\ proposals \in Nat
  BY DEF IInv, Tables
<1>2. \A pair \in pairs : \A c \in DOMAIN cases : ~(cases[c].born = pair /\ cases[c].scope = scope)
  BY DEF Taken
<1>3. Kept(claims, cases, decisions, proposals) /\ OneKey(cases) /\ Supported(claims, cases) BY DEF IInv
<1>4. /\ cases' \in Seq(CaseRows) /\ decisions' \in Seq(Nat) /\ Len(decisions') = Len(cases')
      /\ Kept(claims, cases', decisions', proposals) /\ OneKey(cases') /\ Supported(claims, cases')
      /\ DOMAIN cases \subseteq DOMAIN cases' /\ \A c \in DOMAIN cases : cases'[c] = cases[c]
  BY <1>1, <1>2, <1>3, SavesKeeps
<1>5. Covered(claims, cases') BY <1>4 DEF IInv, Covered
<1>6. Tables' /\ Confirming' BY <1>1, <1>4 DEF IInv, Tables, Confirming
<1> QED BY <1>4, <1>5, <1>6 DEF IInv

LEMMA RetryStep ==
  ASSUME BoundaryAssumption, IInv, NEW w \in WorkStates, Retry(w)
  PROVE  IInv'
<1>1. claims \in Claims BY DEF IInv, Tables
<1> DEFINE pairs == Missing(claims, w, cases)
<1>2. CASE \E pair \in pairs : Taken(pair, ProjectOf(w))
  <2>1. /\ refused' = refused \union {"case"} /\ UNCHANGED <<claims, cases, decisions, job, route, proposals>>
    BY <1>2 DEF Retry, Refuses
  <2> QED BY <2>1 DEF IInv, Tables, Working, Confirming
<1>3. CASE ~\E pair \in pairs : Taken(pair, ProjectOf(w))
  <2>1. /\ Saves(cases, pairs, ProjectOf(w)) /\ job' = [job EXCEPT ![w].pc = "scan"]
        /\ UNCHANGED <<claims, route, proposals, refused>>
    BY <1>3 DEF Retry
  <2>2. IsFiniteSet(pairs) /\ \A pair \in pairs : Issued(claims, pair) /\ Stands(claims, pair)
    BY <1>1, MissingIsFinite, MissingIsIssued
  <2>3. Working' BY <2>1 DEF IInv, Working
  <2>4. ProjectOf(w) \in Scopes BY DEF ProjectOf, Scopes
  <2> HIDE DEF pairs
  <2> QED BY <1>3, <2>1, <2>2, <2>3, <2>4, OpensKeeps
<1> QED BY <1>2, <1>3

LEMMA JobSteps ==
  ASSUME IInv, NEW w \in WorkStates, Scan(w) \/ Stop(w)
  PROVE  IInv'
<1>1. UNCHANGED <<claims, cases, decisions, route, proposals, refused>> BY DEF Scan, Stop, bounds
<1>2. Working'
  <2>1. CASE Scan(w)
    <3>1. \A pair \in Conflicts(claims, WorkStates) : Issued(claims, pair)
      BY PairsAreIssued DEF IInv, Tables, Scopes, Conflicts
    <3> QED BY <1>1, <2>1, <3>1, JobGoesOn DEF Scan
  <2>2. CASE Stop(w) BY <1>1, <2>2, JobRests DEF Stop
  <2> QED BY <2>1, <2>2
<1> QED BY <1>1, <1>2 DEF IInv, Tables, Confirming

LEMMA OpenScopedStep ==
  ASSUME BoundaryAssumption, IInv, NEW w \in WorkStates, NEW pair \in job[w].todo, OpenScoped(w, pair)
  PROVE  IInv'
<1>1. UNCHANGED <<claims, route, proposals>> BY DEF OpenScoped, bounds, Refuses
<1>2. \A p \in job[w].todo : Issued(claims, p) BY DEF IInv, Working
<1>3. ASSUME Rest(w, pair) PROVE Working'
  <2>1. \A p \in job[w].todo \ {pair} : Issued(claims, p) BY <1>2
  <2> QED BY <1>1, <1>3, <2>1, JobGoesOn DEF Rest
<1>4. CASE \E c \in DOMAIN cases : cases[c].key = pair /\ ~Single(c)
  <2>1. Rest(w, pair) /\ UNCHANGED <<cases, decisions, refused>> BY <1>4 DEF OpenScoped
  <2>2. Working' BY <1>3, <2>1
  <2> QED BY <1>1, <2>1, <2>2 DEF IInv, Tables, Confirming
<1>5. CASE Taken(pair, WorkStates) /\ ~\E c \in DOMAIN cases : cases[c].key = pair /\ ~Single(c)
  <2>1. Refuses("case") /\ job' = [job EXCEPT ![w] = Idle] BY <1>5 DEF OpenScoped
  <2>2. Working' BY <1>1, <2>1, JobRests
  <2> QED BY <1>1, <2>1, <2>2 DEF Refuses, IInv, Tables, Confirming
<1>6. CASE ~Taken(pair, WorkStates) /\ ~\E c \in DOMAIN cases : cases[c].key = pair /\ ~Single(c)
  <2>1. Saves(cases, {pair}, WorkStates) /\ Rest(w, pair) /\ UNCHANGED refused BY <1>6 DEF OpenScoped
  <2>2. Working' BY <1>3, <2>1
  <2>3. IsFiniteSet({pair}) BY FS_Singleton
  <2>4. WorkStates \in Scopes BY DEF Scopes
  <2> QED BY <1>1, <1>2, <1>6, <2>1, <2>2, <2>3, <2>4, OpensKeeps
<1> QED BY <1>4, <1>5, <1>6

LEMMA WithdrawStep ==
  ASSUME IInv, NEW w \in WorkStates, Withdraw(w)
  PROVE  IInv'
<1>1. claims \in Claims /\ cases \in Seq(CaseRows) BY DEF IInv, Tables
<1>2. PICK cl : cl = claims' OBVIOUS
<1>3. PICK first \in Evaluated(cl) : cases' = Reviewed(cl, w, first) BY <1>2 DEF Withdraw
<1>4. UNCHANGED <<decisions, job, route, proposals, refused>> BY DEF Withdraw, bounds
<1>5. /\ cl \in Claims /\ cl.made = claims.made /\ cl.kind = claims.kind
      /\ cl.withdrawn = claims.withdrawn \union {w} /\ cl.stale = claims.stale
  BY <1>1, <1>2 DEF Withdraw, Claims
<1>6. \A v \in WorkStates : claims.made[v] <= cl.made[v]
  <2>1. \A v \in WorkStates : claims.made[v] \in Nat BY <1>1 DEF Claims
  <2> QED BY <1>5, <2>1
<1>7. \A v \in WorkStates \ {w} :
        /\ cl.made[v] = claims.made[v] /\ cl.kind[v] = claims.kind[v]
        /\ v \in cl.withdrawn => v \in claims.withdrawn
  BY <1>5
<1>8. Live(cl) \ {w} \subseteq Live(claims) /\ w \notin Live(cl) BY <1>5 DEF Live
<1>9. PICK seen : seen = cases' OBVIOUS
<1>10. /\ seen \in Seq(CaseRows) /\ Len(seen) = Len(cases)
       /\ Kept(cl, seen, decisions, proposals) /\ OneKey(seen) /\ Supported(cl, seen)
       /\ \A project \in {Here, There} : \A pair \in Conflicts(cl, project) :
            w \notin OwnersOf(pair) => \E c \in DOMAIN seen : About(seen[c], pair, project)
  BY <1>3, <1>5, <1>6, <1>7, <1>8, <1>9, ReviewedKeeps
<1>11. Covered(cl, seen)
  <2> SUFFICES ASSUME NEW project \in {Here, There}, NEW pair \in Conflicts(cl, project)
               PROVE  w \notin OwnersOf(pair)
    BY <1>10 DEF Covered
  <2>1. project \in Scopes BY DEF Scopes
  <2> QED BY <1>5, <1>8, <2>1, PairsAreIssued DEF Conflicts
<1>12. Working' BY <1>1, <1>2, <1>4, <1>5, <1>6, IssuedStays DEF IInv, Working
<1>13. DOMAIN cases = DOMAIN cases' BY <1>1, <1>9, <1>10
<1>14. Tables' /\ Confirming'
  BY <1>2, <1>4, <1>5, <1>9, <1>10, <1>13 DEF IInv, Tables, Confirming
<1> QED BY <1>2, <1>4, <1>9, <1>10, <1>11, <1>12, <1>14 DEF IInv

LEMMA AgeStep ==
  ASSUME IInv, NEW w \in WorkStates, Age(w)
  PROVE  IInv'
<1>1. claims \in Claims BY DEF IInv, Tables
<1>2. PICK cl : cl = claims' OBVIOUS
<1>3. UNCHANGED <<cases, decisions, job, route, proposals, refused>> BY DEF Age
<1>4. /\ cl \in Claims /\ cl.made = claims.made /\ cl.kind = claims.kind
      /\ cl.withdrawn = claims.withdrawn /\ cl.stale = claims.stale \union {w}
  BY <1>1, <1>2 DEF Age, Claims
<1>5. \A pair : Issued(claims, pair) => Issued(cl, pair) BY <1>4 DEF Issued
<1>6. \A pair : Stands(claims, pair) => Stands(cl, pair) BY <1>4 DEF Stands
<1>7. Kept(cl, cases, decisions, proposals) BY <1>5 DEF IInv, Kept
<1>8. Supported(cl, cases) BY <1>6 DEF IInv, Supported
<1>9. Live(cl) = Live(claims) \ {w} BY <1>4 DEF Live
<1>10. Covered(cl, cases)
  <2> SUFFICES ASSUME NEW project \in {Here, There}, NEW pair \in Conflicts(cl, project)
               PROVE  \E c \in DOMAIN cases : About(cases[c], pair, project)
    BY DEF Covered
  <2>1. w \notin OwnersOf(pair)
    <3>1. project \in Scopes BY DEF Scopes
    <3> QED BY <1>4, <1>9, <3>1, PairsAreIssued DEF Conflicts
  <2>2. pair \in Conflicts(claims, project) BY <1>1, <1>4, <1>9, <2>1, ConflictsRest
  <2> QED BY <2>2 DEF IInv, Covered
<1>11. Working' BY <1>2, <1>3, <1>5 DEF IInv, Working
<1>12. Tables' /\ Confirming' BY <1>2, <1>3, <1>4 DEF IInv, Tables, Confirming
<1> QED BY <1>2, <1>3, <1>7, <1>8, <1>10, <1>11, <1>12 DEF IInv

\* One case changes: what people propose, confirm and record.
LEMMA RowKeeps ==
  ASSUME IInv, NEW c \in DOMAIN cases, NEW row \in CaseRows, cases' = [cases EXCEPT ![c] = row],
         row.scope = cases[c].scope, row.born = cases[c].born, row.key = cases[c].key,
         row.people = cases[c].people, row.responsible \in row.people \union {Nobody},
         row.status # "open" \/ row.status = cases[c].status,
         \/ row.status # "resolved" \/ row.responsible # Nobody
         \/ row.status = cases[c].status /\ row.responsible = cases[c].responsible,
         row.decision \in {0, decisions[c]}, row.conclusion \in 0 .. proposals',
         proposals' \in Nat, proposals <= proposals',
         UNCHANGED <<claims, decisions, job, refused>>
  PROVE  /\ Tables' /\ Working' /\ DOMAIN cases' = DOMAIN cases
         /\ Kept(claims, cases, decisions, proposals)' /\ OneKey(cases)'
         /\ Supported(claims, cases)' /\ Covered(claims, cases)'
<1>1. cases \in Seq(CaseRows) /\ proposals \in Nat BY DEF IInv, Tables
<1>2. /\ cases' \in Seq(CaseRows) /\ Len(cases') = Len(cases) /\ DOMAIN cases' = DOMAIN cases
      /\ cases'[c] = row /\ \A d \in DOMAIN cases : d # c => cases'[d] = cases[d]
  BY <1>1
<1>3. Tables' /\ Working' BY <1>2 DEF IInv, Tables, Working
<1>4. Kept(claims, cases', decisions, proposals')
  <2> SUFFICES ASSUME NEW d \in DOMAIN cases
               PROVE  /\ Issued(claims, cases'[d].born) /\ Issued(claims, cases'[d].key)
                      /\ cases'[d].responsible \in cases'[d].people \union {Nobody}
                      /\ cases'[d].conclusion \in 0 .. proposals' /\ cases'[d].decision \in {0, decisions[d]}
    BY <1>2 DEF Kept
  <2>1. /\ Issued(claims, cases[d].born) /\ Issued(claims, cases[d].key)
        /\ cases[d].responsible \in cases[d].people \union {Nobody}
        /\ cases[d].conclusion \in 0 .. proposals /\ cases[d].decision \in {0, decisions[d]}
    BY DEF IInv, Kept
  <2>2. CASE d = c BY <1>2, <2>1, <2>2
  <2>3. CASE d # c
    <3>1. cases[d].conclusion \in 0 .. proposals' BY <1>1, <2>1
    <3> QED BY <1>2, <2>1, <2>3, <3>1
  <2> QED BY <2>2, <2>3
<1>5. \A d \in DOMAIN cases : /\ cases'[d].scope = cases[d].scope /\ cases'[d].born = cases[d].born
                              /\ cases'[d].key = cases[d].key
                              /\ cases'[d].status = "open" => cases[d].status = "open"
  BY <1>2
<1>6. OneKey(cases') BY <1>2, <1>5 DEF IInv, OneKey
<1>7. Supported(claims, cases') BY <1>2, <1>5 DEF IInv, Supported
<1>8. \A d \in DOMAIN cases : \A pair, project :
        About(cases[d], pair, project) => About(cases'[d], pair, project)
  BY <1>2 DEF About
<1>9. Covered(claims, cases') BY <1>2, <1>8 DEF IInv, Covered
<1> QED BY <1>2, <1>3, <1>4, <1>6, <1>7, <1>9

LEMMA ProposeStep ==
  ASSUME IInv, NEW c \in DOMAIN cases, NEW p \in WorkStates, Propose(c, p)
  PROVE  IInv'
<1>1. cases[c] \in CaseRows /\ proposals \in Nat BY DEF IInv, Tables
<1>2. PICK row : row = [cases[c] EXCEPT !.status = "needs_confirmation", !.responsible = p,
                                        !.conclusion = proposals + 1]
  OBVIOUS
<1>3. /\ p \in cases[c].people /\ proposals' = proposals + 1
      /\ cases' = [cases EXCEPT ![c] = row] /\ UNCHANGED <<claims, decisions, job, route, refused>>
  BY <1>2 DEF Propose
<1>4. /\ row \in CaseRows /\ row.scope = cases[c].scope /\ row.born = cases[c].born
      /\ row.key = cases[c].key /\ row.people = cases[c].people /\ row.responsible = p
      /\ row.status = "needs_confirmation" /\ row.conclusion = proposals + 1
      /\ row.decision = cases[c].decision
  <2> PICK old, m : old = cases[c] /\ m = proposals + 1 OBVIOUS
  <2>1. old \in CaseRows /\ m \in Nat BY <1>1
  <2>2. row = [old EXCEPT !.status = "needs_confirmation", !.responsible = p, !.conclusion = m]
    BY <1>2
  <2>3. /\ row \in CaseRows /\ row.scope = old.scope /\ row.born = old.born
        /\ row.key = old.key /\ row.people = old.people /\ row.responsible = p
        /\ row.status = "needs_confirmation" /\ row.conclusion = m
        /\ row.decision = old.decision
    BY ONLY <2>1, <2>2, p \in WorkStates DEF CaseRows
  <2> QED BY <2>3
<1>5. row.conclusion \in 0 .. proposals' /\ proposals' \in Nat /\ proposals <= proposals'
  BY <1>1, <1>3, <1>4
<1>6. row.decision \in {0, decisions[c]} BY <1>4 DEF IInv, Kept
<1>7. /\ Tables' /\ Working' /\ DOMAIN cases' = DOMAIN cases
      /\ Kept(claims, cases, decisions, proposals)' /\ OneKey(cases)'
      /\ Supported(claims, cases)' /\ Covered(claims, cases)'
  BY <1>3, <1>4, <1>5, <1>6, RowKeeps
<1> QED BY <1>3, <1>7 DEF IInv, Confirming

LEMMA ConfirmStep ==
  ASSUME IInv, NEW c \in DOMAIN cases, Confirm(c)
  PROVE  IInv'
<1>1. cases[c] \in CaseRows /\ proposals \in Nat /\ cases \in Seq(CaseRows) BY DEF IInv, Tables
<1>2. PICK old : old = cases[c] OBVIOUS
<1>3. PICK row : row = [old EXCEPT !.status = "resolved"] OBVIOUS
<1>4. /\ old.responsible # Nobody /\ old.status \in {"needs_confirmation", "resolved"}
      /\ cases' = [cases EXCEPT ![c] = row]
      /\ UNCHANGED <<claims, decisions, job, proposals, refused>>
  BY <1>2, <1>3 DEF Confirm, bounds
<1>5. /\ row \in CaseRows /\ row.scope = old.scope /\ row.born = old.born /\ row.key = old.key
      /\ row.people = old.people /\ row.responsible = old.responsible /\ row.status = "resolved"
      /\ row.conclusion = old.conclusion /\ row.decision = old.decision
  BY <1>1, <1>2, <1>3 DEF CaseRows
<1>6. /\ row.conclusion \in 0 .. proposals /\ row.decision \in {0, decisions[c]}
      /\ row.responsible \in row.people \union {Nobody}
  BY <1>2, <1>5 DEF IInv, Kept
<1>7. /\ Tables' /\ Working' /\ DOMAIN cases' = DOMAIN cases
      /\ Kept(claims, cases, decisions, proposals)' /\ OneKey(cases)'
      /\ Supported(claims, cases)' /\ Covered(claims, cases)'
  <2>1. proposals' \in Nat /\ proposals <= proposals' /\ row.conclusion \in 0 .. proposals'
    BY <1>1, <1>4, <1>6
  <2> QED BY <1>1, <1>2, <1>4, <1>5, <1>6, <2>1, RowKeeps
<1>8. Confirming'
  <2>1. CASE route' = route BY <1>7, <2>1 DEF IInv, Confirming
  <2>2. CASE route' = NoRoute BY <2>2 DEF Confirming, NoRoute
  <2>3. CASE route' = [pc |-> "decide", case |-> c, by |-> old.responsible, conclusion |-> old.conclusion]
    <3>1. old.responsible \in WorkStates \union {Nobody} /\ old.conclusion \in Nat
      BY <1>1, <1>2 DEF CaseRows
    <3>2. c \in Nat /\ c \in DOMAIN cases' BY <1>1, <1>7
    <3> QED BY <2>3, <3>1, <3>2 DEF Confirming
  <2> QED BY <1>2, <2>2, <2>3 DEF Confirm
<1> QED BY <1>7, <1>8 DEF IInv

LEMMA DecideStep == ASSUME IInv, Decide PROVE IInv'
<1>1. /\ cases \in Seq(CaseRows) /\ decisions \in Seq(Nat) /\ Len(decisions) = Len(cases)
      /\ route.case \in DOMAIN cases /\ route.conclusion \in Nat
  BY DEF IInv, Tables, Confirming, Decide
<1>2. /\ UNCHANGED <<claims, cases, job, proposals, refused>> /\ route' = [route EXCEPT !.pc = "record"]
      /\ decisions' = [decisions EXCEPT ![route.case] = IF @ = 0 THEN route.conclusion ELSE @]
  BY DEF Decide, bounds
<1>3. /\ decisions' \in Seq(Nat) /\ Len(decisions') = Len(decisions)
      /\ \A c \in DOMAIN cases : decisions'[c] = decisions[c] \/ decisions[c] = 0
  <2>1. PICK r, m : r = route.case /\ m = IF decisions[r] = 0 THEN route.conclusion ELSE decisions[r]
    OBVIOUS
  <2>2. r \in DOMAIN decisions /\ m \in Nat /\ (m = decisions[r] \/ decisions[r] = 0) BY <1>1, <2>1
  <2>3. decisions' = [decisions EXCEPT ![r] = m] BY <1>2, <2>1
  <2> QED BY <1>1, <2>2, <2>3
<1>4. Kept(claims, cases, decisions', proposals) BY <1>3 DEF IInv, Kept
<1>5. Tables' /\ Working' BY <1>2, <1>3 DEF IInv, Tables, Working
<1>6. Confirming' BY <1>1, <1>2 DEF IInv, Confirming
<1> QED BY <1>2, <1>4, <1>5, <1>6 DEF IInv

LEMMA RecordStep == ASSUME IInv, Record PROVE IInv'
<1>1. PICK c : c = route.case OBVIOUS
<1>2. /\ UNCHANGED <<claims, decisions, job, proposals, refused>> /\ route' = NoRoute
      /\ cases' = IF cases[c].status = "resolved" /\ cases[c].responsible = route.by
                  THEN [cases EXCEPT ![c].decision = decisions[c]] ELSE cases
  BY <1>1 DEF Record, bounds
<1>3. /\ cases \in Seq(CaseRows) /\ decisions \in Seq(Nat) /\ Len(decisions) = Len(cases)
      /\ c \in DOMAIN cases /\ proposals \in Nat
  BY <1>1 DEF IInv, Tables, Confirming, Record
<1>4. Confirming' BY <1>2 DEF Confirming, NoRoute
<1>5. CASE cases' = cases BY <1>2, <1>4, <1>5 DEF IInv, Tables, Working
<1>6. CASE cases' = [cases EXCEPT ![c].decision = decisions[c]]
  <2>1. PICK old, m : old = cases[c] /\ m = decisions[c] OBVIOUS
  <2>2. PICK row : row = [old EXCEPT !.decision = m] OBVIOUS
  <2>3. old \in CaseRows /\ m \in Nat BY <1>3, <2>1
  <2>4. /\ row \in CaseRows /\ row.scope = old.scope /\ row.born = old.born /\ row.key = old.key
        /\ row.people = old.people /\ row.responsible = old.responsible /\ row.status = old.status
        /\ row.conclusion = old.conclusion /\ row.decision = m
    BY ONLY <2>2, <2>3 DEF CaseRows
  <2>5. cases' = [cases EXCEPT ![c] = row] BY <1>6, <2>1, <2>2
  <2>6. /\ row.conclusion \in 0 .. proposals /\ row.decision \in {0, decisions[c]}
        /\ row.responsible \in row.people \union {Nobody}
    BY <1>3, <2>1, <2>4 DEF IInv, Kept
  <2>7. /\ Tables' /\ Working' /\ DOMAIN cases' = DOMAIN cases
        /\ Kept(claims, cases, decisions, proposals)' /\ OneKey(cases)'
        /\ Supported(claims, cases)' /\ Covered(claims, cases)'
    <3>1. proposals' \in Nat /\ proposals <= proposals' /\ row.conclusion \in 0 .. proposals'
      BY <1>2, <1>3, <2>6
    <3> QED BY <1>2, <1>3, <2>1, <2>4, <2>5, <2>6, <3>1, RowKeeps
  <2> QED BY <1>4, <2>7 DEF IInv
<1> QED BY <1>2, <1>5, <1>6

LEMMA NextInvariant == ASSUME BoundaryAssumption, IInv, [Next]_vars PROVE IInv'
<1>1. CASE UNCHANGED vars BY <1>1 DEF vars, bounds, IInv, Tables, Working, Confirming
<1>2. CASE Drop BY <1>2 DEF Drop, bounds, IInv, Tables, Working, Confirming, NoRoute
<1>3. ASSUME NEW w \in WorkStates, NEW pair \in job[w].todo, OpenScoped(w, pair) PROVE IInv'
  BY <1>3, OpenScopedStep
<1> QED BY <1>1, <1>2, <1>3, ClaimStep, RetryStep, JobSteps, WithdrawStep, AgeStep, ProposeStep, ConfirmStep,
           DecideStep, RecordStep DEF Next

LEMMA InductiveInvariant == ASSUME BoundaryAssumption PROVE Spec => []IInv
  BY InitInvariant, NextInvariant, PTL DEF Spec

-----------------------------------------------------------------------------
\* The tables hold what they can hold, and one key has one case, without a claim
\* ever being inserted under a key that is taken.
THEOREM TypeCorrect == ASSUME BoundaryAssumption PROVE Spec => []BoundaryTypeOK
<1>1. IInv => BoundaryTypeOK
  <2> SUFFICES ASSUME IInv PROVE BoundaryTypeOK OBVIOUS
  <2>1. /\ claims \in [made : [WorkStates -> Nat], kind : [WorkStates -> Kinds \union {"none"}],
                       withdrawn : SUBSET WorkStates, stale : SUBSET WorkStates]
        /\ Len(decisions) = Len(cases) /\ refused \subseteq {"revision", "case"}
    BY DEF IInv, Tables, Claims
  <2>2. \A c \in DOMAIN cases : cases[c] \in CaseRows BY DEF IInv, Tables
  <2>3. \A c \in DOMAIN cases :
          /\ cases[c].scope \in Scopes /\ cases[c].born \subseteq ClaimIds /\ cases[c].key \subseteq ClaimIds
          /\ cases[c].status \in {"open", "needs_confirmation", "resolved"}
    BY <2>2 DEF CaseRows
  <2>4. (\A w \in WorkStates : job[w].pc \in {"idle", "scan", "open"})
        /\ route.pc \in {"none", "decide", "record"}
    BY DEF IInv, Working, Confirming
  <2> QED BY <2>1, <2>3, <2>4 DEF IInv, Kept, OneKey, BoundaryTypeOK
<1> QED BY <1>1, InductiveInvariant, PTL

\* A case of one Project that is open is about two claims that stand and contradict
\* each other: every claim that is made or withdrawn turns or clears the cases it
\* was in (reconcileAffectedBoundaryThreads), whatever jobs and people do meanwhile.
THEOREM OpenCasesStand == ASSUME BoundaryAssumption PROVE Spec => []OpenIsSupported
<1>1. IInv => OpenIsSupported BY DEF IInv, Supported, Stands, OpenIsSupported, Single
<1> QED BY <1>1, InductiveInvariant, PTL

\* No conflict in a Project is overlooked: it has a case, or people settled it, also
\* when the case it had was turned to another conflict.
THEOREM ConflictsAreCases == ASSUME BoundaryAssumption PROVE Spec => []ConflictHasCase
<1>1. IInv => ConflictHasCase BY DEF IInv, Covered, About, ConflictHasCase, Unresolved
<1> QED BY <1>1, InductiveInvariant, PTL

\* A review that resolves a case found no conflict in its scope.
LEMMA ReviewsResolve ==
  ASSUME BoundaryAssumption, IInv, NEW w \in WorkStates, (\E k \in Kinds : Claim(w, k)) \/ Withdraw(w),
         NEW c \in DOMAIN cases, Unresolved(c), cases'[c].status = "resolved"
  PROVE  Conflicts(claims', cases[c].scope) = {}
<1>1. claims \in Claims /\ cases \in Seq(CaseRows) BY DEF IInv, Tables
<1>2. \A v \in WorkStates : claims.made[v] \in Nat BY <1>1 DEF Claims
<1>3. PICK cl : cl = claims' OBVIOUS
<1>4. ASSUME NEW first \in Evaluated(cl), cl \in Claims,
             \A v \in WorkStates : claims.made[v] <= cl.made[v],
             \A v \in WorkStates \ {w} :
               /\ cl.made[v] = claims.made[v] /\ cl.kind[v] = claims.kind[v]
               /\ v \in cl.withdrawn => v \in claims.withdrawn,
             Live(cl) \ {w} \subseteq Live(claims),
             NEW seen, seen = Reviewed(cl, w, first), cases'[c] = seen[c]
      PROVE  Conflicts(cl, cases[c].scope) = {}
  <2>1. \A d \in DOMAIN cases : Unresolved(d) /\ seen[d].status = "resolved" => Conflicts(cl, cases[d].scope) = {}
    BY <1>4, ReviewedKeeps
  <2> QED BY <1>4, <2>1
<1>5. CASE Withdraw(w)
  <2>1. PICK first \in Evaluated(cl) : cases' = Reviewed(cl, w, first) BY <1>3, <1>5 DEF Withdraw
  <2>2. /\ cl \in Claims /\ cl.made = claims.made /\ cl.kind = claims.kind
        /\ cl.withdrawn = claims.withdrawn \union {w} /\ cl.stale = claims.stale
    BY <1>1, <1>3, <1>5 DEF Withdraw, Claims
  <2>3. \A v \in WorkStates : claims.made[v] <= cl.made[v] BY <1>2, <2>2
  <2>4. Live(cl) \ {w} \subseteq Live(claims) BY <2>2 DEF Live
  <2>5. PICK seen : seen = Reviewed(cl, w, first) OBVIOUS
  <2>6. cases'[c] = seen[c] BY <2>1, <2>5
  <2> QED BY <1>3, <1>4, <2>2, <2>3, <2>4, <2>5, <2>6
<1>6. ASSUME NEW k \in Kinds, Claim(w, k) PROVE Conflicts(cl, cases[c].scope) = {}
  <2>1. CASE Refuses("revision") BY <2>1 DEF Refuses, Unresolved
  <2>2. CASE ~Refuses("revision")
    <3>1. /\ w \notin claims.withdrawn /\ cl = Claimed(claims, w, k)
          /\ \E first \in Evaluated(cl) :
               LET seen == Reviewed(cl, w, first)
               IN  Saves(seen, Missing(cl, w, seen), ProjectOf(w))
      BY <1>3, <1>6, <2>2 DEF Claim, Claimed
    <3>2. PICK first \in Evaluated(cl) :
            Saves(Reviewed(cl, w, first), Missing(cl, w, Reviewed(cl, w, first)), ProjectOf(w))
      BY <3>1
    <3>3. PICK seen : seen = Reviewed(cl, w, first) OBVIOUS
    <3>4. /\ cl \in Claims
          /\ \A v \in WorkStates \ {w} : cl.made[v] = claims.made[v] /\ cl.kind[v] = claims.kind[v]
          /\ cl.withdrawn = claims.withdrawn
          /\ \A v \in WorkStates : claims.made[v] <= cl.made[v]
          /\ Live(cl) \ {w} \subseteq Live(claims)
      BY <1>1, <1>6, <3>1, ClaimedOnce
    <3>5. seen \in Seq(CaseRows) /\ Len(seen) = Len(cases)
      BY <3>3, <3>4, ReviewedKeeps
    <3>6. PICK pairs : pairs = Missing(cl, w, seen) OBVIOUS
    <3>7. IsFiniteSet(pairs) /\ pairs \in SUBSET SUBSET ClaimIds
      BY <3>4, <3>6, MissingIsFinite, MissingIsIssued DEF Issued
    <3>8. /\ decisions \in Seq(Nat) /\ Len(seen) = Len(decisions) /\ ProjectOf(w) \in Scopes
          /\ Saves(seen, pairs, ProjectOf(w))
      BY <3>2, <3>3, <3>5, <3>6 DEF IInv, Tables, ProjectOf, Scopes
    <3>9. \A d \in DOMAIN seen : cases'[d] = seen[d] BY <3>5, <3>7, <3>8, SavesAppends
    <3>10. c \in DOMAIN seen BY <1>1, <3>5
    <3> QED BY <1>4, <3>3, <3>4, <3>9, <3>10
  <2> QED BY <2>1, <2>2
<1> QED BY <1>3, <1>5, <1>6

\* The other steps resolve cases only as the person that was asked to does.
LEMMA OtherStepsResolve ==
  ASSUME BoundaryAssumption, IInv, NEW c \in DOMAIN cases, Unresolved(c), cases'[c].status = "resolved",
         [Next]_vars, \A w \in WorkStates : ~Withdraw(w) /\ \A k \in Kinds : ~Claim(w, k)
  PROVE  cases[c].status = "needs_confirmation" /\ cases'[c].responsible = cases[c].responsible
<1>1. /\ cases \in Seq(CaseRows) /\ decisions \in Seq(Nat) /\ Len(cases) = Len(decisions)
      /\ claims \in Claims /\ cases[c] \in CaseRows
  BY DEF IInv, Tables
<1>2. cases' # cases /\ cases'[c] # cases[c] BY DEF Unresolved
<1>3. ASSUME NEW pairs \in SUBSET SUBSET ClaimIds, IsFiniteSet(pairs), NEW scope \in Scopes,
             Saves(cases, pairs, scope)
      PROVE  FALSE
  BY <1>1, <1>2, <1>3, SavesAppends
<1>4. ASSUME NEW w \in WorkStates, Retry(w) PROVE FALSE
  <2>1. Saves(cases, Missing(claims, w, cases), ProjectOf(w)) BY <1>2, <1>4 DEF Retry, Refuses
  <2>2. IsFiniteSet(Missing(claims, w, cases)) /\ Missing(claims, w, cases) \in SUBSET SUBSET ClaimIds
    BY <1>1, MissingIsFinite, MissingIsIssued DEF Issued
  <2>3. ProjectOf(w) \in Scopes BY DEF ProjectOf, Scopes
  <2> QED BY <1>3, <2>1, <2>2, <2>3
<1>5. ASSUME NEW w \in WorkStates, NEW pair \in job[w].todo, OpenScoped(w, pair) PROVE FALSE
  <2>1. Saves(cases, {pair}, WorkStates) BY <1>2, <1>5 DEF OpenScoped, Refuses
  <2>2. {pair} \in SUBSET SUBSET ClaimIds BY DEF IInv, Working, Issued
  <2>3. WorkStates \in Scopes BY DEF Scopes
  <2> QED BY <1>3, <2>1, <2>2, <2>3, FS_Singleton
<1>6. ASSUME NEW d \in DOMAIN cases, Confirm(d)
      PROVE  cases[c].status = "needs_confirmation" /\ cases'[c].responsible = cases[c].responsible
  <2>1. cases' = [cases EXCEPT ![d].status = "resolved"] /\ cases[d].status \in {"needs_confirmation", "resolved"}
    BY <1>6 DEF Confirm
  <2>2. d = c BY <1>1, <1>2, <2>1
  <2>3. cases'[c].responsible = cases[c].responsible BY <1>1, <2>1, <2>2 DEF CaseRows
  <2> QED BY <2>1, <2>2, <2>3 DEF Unresolved
<1>7. ASSUME NEW d \in DOMAIN cases, NEW p, Propose(d, p) PROVE FALSE
  <2>1. cases' = [cases EXCEPT ![d].status = "needs_confirmation", ![d].responsible = p,
                              ![d].conclusion = proposals + 1]
    BY <1>7 DEF Propose
  <2>2. d = c BY <1>1, <1>2, <2>1
  <2>3. cases'[c].status = "needs_confirmation" BY <1>1, <2>1, <2>2 DEF CaseRows
  <2> QED BY <2>3
<1>8. CASE Record
  <2>1. cases' = [cases EXCEPT ![route.case].decision = decisions[route.case]] BY <1>2, <1>8 DEF Record
  <2>2. route.case = c BY <1>1, <1>2, <2>1
  <2>3. cases'[c].status = cases[c].status BY <1>1, <2>1, <2>2 DEF CaseRows
  <2> QED BY <2>3 DEF Unresolved
<1>9. ASSUME NEW w \in WorkStates, Scan(w) \/ Stop(w) \/ Age(w) PROVE FALSE
  BY <1>2, <1>9 DEF Scan, Stop, Age
<1>10. CASE Decide \/ Drop \/ UNCHANGED vars BY <1>2, <1>10 DEF Decide, Drop, vars
<1> QED BY <1>4, <1>5, <1>6, <1>7, <1>8, <1>9, <1>10 DEF Next

\* Only the person that was asked, or the absence of any conflict in its scope,
\* resolves a case.
THEOREM CasesAreSettled == ASSUME BoundaryAssumption PROVE Spec => ResolvedByPeopleOrEvidence
<1>1. IInv /\ [Next]_vars =>
        [\A c \in DOMAIN cases : Unresolved(c) /\ ~Unresolved(c)' =>
           \/ cases[c].status = "needs_confirmation" /\ cases'[c].responsible = cases[c].responsible
           \/ Conflicts(claims', cases[c].scope) = {}]_vars
  BY ReviewsResolve, OtherStepsResolve DEF Unresolved
<1> QED BY <1>1, InductiveInvariant, PTL DEF Spec, ResolvedByPeopleOrEvidence
==============================================================================
