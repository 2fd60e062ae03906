-------------------------- MODULE InteroRequestsProofs --------------------------
(***************************************************************************)
(* Proofs about one Intero request, for any attempts, revisions, versions  *)
(* of the evidence and troubles: its cases are of its scope, and what it   *)
(* shows is its answer, once and for all.                                  *)
(***************************************************************************)
EXTENDS InteroRequests, TLAPS

-----------------------------------------------------------------------------
\* The type invariant in four parts: the request and its evidence, the Room,
\* the outbox rows and jobs, the handler.
RequestT ==
  /\ status \in Statuses /\ rev \in Revisions /\ scope \in {"none", "ambiguous", "set"}
  /\ evidence \in 0 .. MaxEvidence /\ readable \in BOOLEAN
  /\ foreign \subseteq 1 .. MaxEvidence
EntryT == entry \in [kind : {"none", "question", "answer", "case"}, rev : 0 .. MaxRevision]
CasesT == cases \subseteq Cases /\ discussions \subseteq cases /\ links \subseteq discussions
JobsT ==
  /\ row \in [Revisions -> {"none", "open", "done"}]
  /\ queue \in [Revisions -> {"none", "ready", "running", "dead"}]
  /\ attempt \in [Revisions -> 0 .. MaxAttempts]
HandlerT ==
  /\ pc \in Steps /\ ref \in 0 .. MaxRevision /\ seen \in 0 .. MaxEvidence
  /\ troubles \in 0 .. MaxTroubles /\ lost \in BOOLEAN /\ elsewhere \in BOOLEAN

\* There is one handler, of a job that runs; a job that is ready has an
\* attempt left; rows and jobs are of revisions the request has had.
QueueOK ==
  /\ \A r \in Revisions : queue[r] = "ready" => attempt[r] < MaxAttempts
  /\ pc # "idle" => ref \in Revisions /\ ref <= rev
  /\ \A r \in Revisions : row[r] # "none" \/ queue[r] # "none" => r <= rev

\* What the handler has read conflicts when it opens a case, and it discusses
\* the case it opened or another's, and shows and links its own.
SeenOK ==
  /\ pc \in {"open", "discuss", "putCase", "link"} => seen # 0
  /\ pc = "discuss" => Case \in cases \/ seen \in foreign
  /\ pc \in {"putCase", "link"} => Case \in cases
  /\ pc \in {"putCase", "link"} => Case \in discussions

\* A handler that has taken the request holds it while its scope is current.
OwnedOK ==
  pc \in {"answer", "open", "discuss", "putCase", "link", "close"} /\ ref = rev
    => status = "coordinating" /\ scope = "set"

\* A case is of a scope that people settled on.
CasesOK ==
  /\ cases # {} => scope = "set" /\ status \in {"coordinating", "answered", "failed"}
  /\ pc = "ask" /\ ref = rev => cases = {}

\* A question is put while the request waits for its scope or was corrected.
QuestionOK == pc \in {"question", "putQuestion"} => status \in {"needs_scope", "pending"}

\* The entry answers the current scope.
Shown ==
  /\ entry.rev = rev /\ entry.kind \in {"answer", "case"}
  /\ entry.kind = "case" => links # {}

\* What the handler has shown before it closes the request, unless the kernel
\* discussed the conflict elsewhere.
ShownOK ==
  /\ pc = "link" /\ ref = rev => entry.rev = rev /\ entry.kind = "case"
  /\ pc = "close" /\ ref = rev => Shown \/ elsewhere
  /\ status = "answered" => Shown \/ elsewhere

\* The inductive invariant.
IInv ==
  /\ RequestT /\ EntryT /\ CasesT /\ JobsT /\ HandlerT /\ QueueOK /\ SeenOK
  /\ OwnedOK /\ CasesOK /\ CasesAreCurrent /\ QuestionOK /\ ShownOK

-----------------------------------------------------------------------------
LEMMA InitInvariant == ASSUME RequestAssumption, Init PROVE IInv
<1> USE DEF RequestAssumption, Init, Revisions
<1>1. RequestT /\ EntryT /\ CasesT BY DEF RequestT, EntryT, CasesT, Statuses, NoEntry
<1>2a. JobsT BY DEF JobsT
<1>2b. pc = "idle" /\ ref \in 0 .. MaxRevision /\ seen \in 0 .. MaxEvidence /\ troubles \in 0 .. MaxTroubles
  OBVIOUS
<1>2c. HandlerT BY <1>2b DEF HandlerT, Steps
<1>3. QueueOK /\ SeenOK /\ OwnedOK BY DEF QueueOK, SeenOK, OwnedOK
<1>4. CasesOK /\ CasesAreCurrent /\ QuestionOK /\ ShownOK
  BY DEF CasesOK, CasesAreCurrent, QuestionOK, ShownOK
<1> QED BY <1>1, <1>2a, <1>2c, <1>3, <1>4 DEF IInv

\* Every step keeps it, the parts of the type invariant first.
LEMMA NextInvariant ==
  ASSUME RequestAssumption, IInv, [Next]_vars
  PROVE  IInv'
<1> USE DEF RequestAssumption, IInv, Revisions
<1>1. CASE Begin
  <2>1. RequestT' /\ EntryT' BY <1>1 DEF Begin, Goes, Returns, Throws, Ends, Trouble, NoTrouble,
         Unmoved, request, room, graphile, outside, history, RequestT, EntryT, Statuses, HandlerT
  <2>2. CasesT' BY <1>1 DEF Begin, Goes, Returns, Throws, Ends, Trouble, NoTrouble, Unmoved,
         request, room, graphile, outside, history, CasesT, Cases, Case, CasesAreCurrent, RequestT,
         HandlerT, SeenOK, QueueOK
  <2>3. JobsT' BY <1>1 DEF Begin, Goes, Returns, Throws, Ends, Trouble, NoTrouble, Unmoved, request,
         room, graphile, outside, history, JobsT, HandlerT, RequestT, QueueOK
  <2>4. HandlerT' BY <1>1 DEF Begin, Goes, Returns, Throws, Ends, Trouble, NoTrouble, Unmoved,
         request, room, graphile, outside, history, HandlerT, Steps, RequestT, QueueOK
  <2>5. QueueOK' BY <1>1 DEF Begin, Goes, Returns, Throws, Ends, Trouble, NoTrouble, Unmoved,
         request, room, graphile, outside, history, QueueOK, RequestT, JobsT, HandlerT
  <2>6. SeenOK' BY <1>1 DEF Begin, Goes, Returns, Throws, Ends, Trouble, NoTrouble, Unmoved,
         request, room, graphile, outside, history, SeenOK, Case, CasesT, RequestT
  <2>7. OwnedOK' /\ CasesOK' /\ QuestionOK' BY <1>1 DEF Begin, Goes, Returns, Throws, Ends, Trouble,
         NoTrouble, Unmoved, request, room, graphile, outside, history, OwnedOK, CasesOK,
         QuestionOK, RequestT, QueueOK
  <2>8. CasesAreCurrent' /\ ShownOK' BY <1>1 DEF Begin, Goes, Returns, Throws, Ends, Trouble,
         NoTrouble, Unmoved, request, room, graphile, outside, history, CasesAreCurrent, ShownOK,
         Shown, CasesT, OwnedOK, CasesOK, QuestionOK, QueueOK, RequestT
  <2> QED BY <2>1, <2>2, <2>3, <2>4, <2>5, <2>6, <2>7, <2>8
<1>2. CASE Read
  <2>1. RequestT' /\ EntryT' BY <1>2 DEF Read, Goes, Caught, Trouble, NoTrouble, Unmoved, request,
         room, graphile, outside, history, RequestT, EntryT, Statuses, HandlerT
  <2>2. CasesT' BY <1>2 DEF Read, Goes, Caught, Trouble, NoTrouble, Unmoved, request, room,
         graphile, outside, history, CasesT, Cases, Case, CasesAreCurrent, RequestT, HandlerT,
         SeenOK, QueueOK
  <2>3. JobsT' BY <1>2 DEF Read, Goes, Caught, Trouble, NoTrouble, Unmoved, request, room, graphile,
         outside, history, JobsT, HandlerT, RequestT, QueueOK
  <2>4. HandlerT' BY <1>2 DEF Read, Goes, Caught, Trouble, NoTrouble, Unmoved, request, room,
         graphile, outside, history, HandlerT, Steps, RequestT, QueueOK
  <2>5. QueueOK' BY <1>2 DEF Read, Goes, Caught, Trouble, NoTrouble, Unmoved, request, room,
         graphile, outside, history, QueueOK, RequestT, JobsT, HandlerT
  <2>6. SeenOK' BY <1>2 DEF Read, Goes, Caught, Trouble, NoTrouble, Unmoved, request, room,
         graphile, outside, history, SeenOK, Case, CasesT, RequestT
  <2>7. OwnedOK' /\ CasesOK' /\ QuestionOK' BY <1>2 DEF Read, Goes, Caught, Trouble, NoTrouble,
         Unmoved, request, room, graphile, outside, history, OwnedOK, CasesOK, QuestionOK, RequestT,
         QueueOK
  <2>8. CasesAreCurrent' /\ ShownOK' BY <1>2 DEF Read, Goes, Caught, Trouble, NoTrouble, Unmoved,
         request, room, graphile, outside, history, CasesAreCurrent, ShownOK, Shown, CasesT,
         OwnedOK, CasesOK, QuestionOK, QueueOK, RequestT
  <2> QED BY <2>1, <2>2, <2>3, <2>4, <2>5, <2>6, <2>7, <2>8
<1>3. CASE Ask
  <2>1. RequestT' /\ EntryT' BY <1>3 DEF Ask, UpdateIfCurrent, Persisted, Refused, Goes, Caught,
         Returns, Ends, Trouble, NoTrouble, request, room, graphile, outside, history, RequestT,
         EntryT, Statuses, HandlerT
  <2>2. CasesT' BY <1>3 DEF Ask, UpdateIfCurrent, Persisted, Refused, Goes, Caught, Returns, Ends,
         Trouble, NoTrouble, request, room, graphile, outside, history, CasesT, Cases, Case,
         CasesAreCurrent, RequestT, HandlerT, SeenOK, QueueOK
  <2>3. JobsT' BY <1>3 DEF Ask, UpdateIfCurrent, Persisted, Refused, Goes, Caught, Returns, Ends,
         Trouble, NoTrouble, request, room, graphile, outside, history, JobsT, HandlerT, RequestT,
         QueueOK
  <2>4. HandlerT' BY <1>3 DEF Ask, UpdateIfCurrent, Persisted, Refused, Goes, Caught, Returns, Ends,
         Trouble, NoTrouble, request, room, graphile, outside, history, HandlerT, Steps, RequestT,
         QueueOK
  <2>5. QueueOK' BY <1>3 DEF Ask, UpdateIfCurrent, Persisted, Refused, Goes, Caught, Returns, Ends,
         Trouble, NoTrouble, request, room, graphile, outside, history, QueueOK, RequestT, JobsT,
         HandlerT
  <2>6. SeenOK' BY <1>3 DEF Ask, UpdateIfCurrent, Persisted, Refused, Goes, Caught, Returns, Ends,
         Trouble, NoTrouble, request, room, graphile, outside, history, SeenOK, Case, CasesT,
         RequestT
  <2>7. OwnedOK' /\ CasesOK' /\ QuestionOK' BY <1>3 DEF Ask, UpdateIfCurrent, Persisted, Refused,
         Goes, Caught, Returns, Ends, Trouble, NoTrouble, request, room, graphile, outside, history,
         OwnedOK, CasesOK, QuestionOK, RequestT, QueueOK
  <2>8. CasesAreCurrent' /\ ShownOK' BY <1>3 DEF Ask, UpdateIfCurrent, Persisted, Refused, Goes,
         Caught, Returns, Ends, Trouble, NoTrouble, request, room, graphile, outside, history,
         CasesAreCurrent, ShownOK, Shown, CasesT, OwnedOK, CasesOK, QuestionOK, QueueOK, RequestT
  <2> QED BY <2>1, <2>2, <2>3, <2>4, <2>5, <2>6, <2>7, <2>8
<1>4. CASE Question
  <2>1. RequestT' /\ EntryT' BY <1>4 DEF Question, Goes, Caught, Returns, Ends, Trouble, NoTrouble,
         Unmoved, request, room, graphile, outside, history, RequestT, EntryT, Statuses, HandlerT
  <2>2. CasesT' BY <1>4 DEF Question, Goes, Caught, Returns, Ends, Trouble, NoTrouble, Unmoved,
         request, room, graphile, outside, history, CasesT, Cases, Case, CasesAreCurrent, RequestT,
         HandlerT, SeenOK, QueueOK
  <2>3. JobsT' BY <1>4 DEF Question, Goes, Caught, Returns, Ends, Trouble, NoTrouble, Unmoved,
         request, room, graphile, outside, history, JobsT, HandlerT, RequestT, QueueOK
  <2>4. HandlerT' BY <1>4 DEF Question, Goes, Caught, Returns, Ends, Trouble, NoTrouble, Unmoved,
         request, room, graphile, outside, history, HandlerT, Steps, RequestT, QueueOK
  <2>5. QueueOK' BY <1>4 DEF Question, Goes, Caught, Returns, Ends, Trouble, NoTrouble, Unmoved,
         request, room, graphile, outside, history, QueueOK, RequestT, JobsT, HandlerT
  <2>6. SeenOK' BY <1>4 DEF Question, Goes, Caught, Returns, Ends, Trouble, NoTrouble, Unmoved,
         request, room, graphile, outside, history, SeenOK, Case, CasesT, RequestT
  <2>7. OwnedOK' /\ CasesOK' /\ QuestionOK' BY <1>4 DEF Question, Goes, Caught, Returns, Ends,
         Trouble, NoTrouble, Unmoved, request, room, graphile, outside, history, OwnedOK, CasesOK,
         QuestionOK, RequestT, QueueOK
  <2>8. CasesAreCurrent' /\ ShownOK' BY <1>4 DEF Question, Goes, Caught, Returns, Ends, Trouble,
         NoTrouble, Unmoved, request, room, graphile, outside, history, CasesAreCurrent, ShownOK,
         Shown, CasesT, OwnedOK, CasesOK, QuestionOK, QueueOK, RequestT
  <2> QED BY <2>1, <2>2, <2>3, <2>4, <2>5, <2>6, <2>7, <2>8
<1>5. CASE PutQuestion
  <2>1. RequestT' /\ EntryT' BY <1>5 DEF PutQuestion, Put, Goes, Caught, Returns, Ends, Trouble,
         NoTrouble, request, room, graphile, outside, history, RequestT, EntryT, Statuses, HandlerT
  <2>2. CasesT' BY <1>5 DEF PutQuestion, Put, Goes, Caught, Returns, Ends, Trouble, NoTrouble,
         request, room, graphile, outside, history, CasesT, Cases, Case, CasesAreCurrent, RequestT,
         HandlerT, SeenOK, QueueOK
  <2>3. JobsT' BY <1>5 DEF PutQuestion, Put, Goes, Caught, Returns, Ends, Trouble, NoTrouble,
         request, room, graphile, outside, history, JobsT, HandlerT, RequestT, QueueOK
  <2>4. HandlerT' BY <1>5 DEF PutQuestion, Put, Goes, Caught, Returns, Ends, Trouble, NoTrouble,
         request, room, graphile, outside, history, HandlerT, Steps, RequestT, QueueOK
  <2>5. QueueOK' BY <1>5 DEF PutQuestion, Put, Goes, Caught, Returns, Ends, Trouble, NoTrouble,
         request, room, graphile, outside, history, QueueOK, RequestT, JobsT, HandlerT
  <2>6. SeenOK' BY <1>5 DEF PutQuestion, Put, Goes, Caught, Returns, Ends, Trouble, NoTrouble,
         request, room, graphile, outside, history, SeenOK, Case, CasesT, RequestT
  <2>7. OwnedOK' /\ CasesOK' /\ QuestionOK' BY <1>5 DEF PutQuestion, Put, Goes, Caught, Returns,
         Ends, Trouble, NoTrouble, request, room, graphile, outside, history, OwnedOK, CasesOK,
         QuestionOK, RequestT, QueueOK
  <2>8. CasesAreCurrent' /\ ShownOK' BY <1>5 DEF PutQuestion, Put, Goes, Caught, Returns, Ends,
         Trouble, NoTrouble, request, room, graphile, outside, history, CasesAreCurrent, ShownOK,
         Shown, CasesT, OwnedOK, CasesOK, QuestionOK, QueueOK, RequestT
  <2> QED BY <2>1, <2>2, <2>3, <2>4, <2>5, <2>6, <2>7, <2>8
<1>6. CASE Own
  <2>1. RequestT' /\ EntryT' BY <1>6 DEF Own, UpdateIfCurrent, Persisted, Refused, Goes, Caught,
         Returns, Ends, Trouble, NoTrouble, request, room, graphile, outside, history, RequestT,
         EntryT, Statuses, HandlerT
  <2>2. CasesT' BY <1>6 DEF Own, UpdateIfCurrent, Persisted, Refused, Goes, Caught, Returns, Ends,
         Trouble, NoTrouble, request, room, graphile, outside, history, CasesT, Cases, Case,
         CasesAreCurrent, RequestT, HandlerT, SeenOK, QueueOK
  <2>3. JobsT' BY <1>6 DEF Own, UpdateIfCurrent, Persisted, Refused, Goes, Caught, Returns, Ends,
         Trouble, NoTrouble, request, room, graphile, outside, history, JobsT, HandlerT, RequestT,
         QueueOK
  <2>4. HandlerT' BY <1>6 DEF Own, UpdateIfCurrent, Persisted, Refused, Goes, Caught, Returns, Ends,
         Trouble, NoTrouble, request, room, graphile, outside, history, HandlerT, Steps, RequestT,
         QueueOK
  <2>5. QueueOK' BY <1>6 DEF Own, UpdateIfCurrent, Persisted, Refused, Goes, Caught, Returns, Ends,
         Trouble, NoTrouble, request, room, graphile, outside, history, QueueOK, RequestT, JobsT,
         HandlerT
  <2>6. SeenOK' BY <1>6 DEF Own, UpdateIfCurrent, Persisted, Refused, Goes, Caught, Returns, Ends,
         Trouble, NoTrouble, request, room, graphile, outside, history, SeenOK, Case, CasesT,
         RequestT
  <2>7. OwnedOK' /\ CasesOK' /\ QuestionOK' BY <1>6 DEF Own, UpdateIfCurrent, Persisted, Refused,
         Goes, Caught, Returns, Ends, Trouble, NoTrouble, request, room, graphile, outside, history,
         OwnedOK, CasesOK, QuestionOK, RequestT, QueueOK
  <2>8. CasesAreCurrent' /\ ShownOK' BY <1>6 DEF Own, UpdateIfCurrent, Persisted, Refused, Goes,
         Caught, Returns, Ends, Trouble, NoTrouble, request, room, graphile, outside, history,
         CasesAreCurrent, ShownOK, Shown, CasesT, OwnedOK, CasesOK, QuestionOK, QueueOK, RequestT
  <2> QED BY <2>1, <2>2, <2>3, <2>4, <2>5, <2>6, <2>7, <2>8
<1>7. CASE Answer
  <2>1. RequestT' /\ EntryT' BY <1>7 DEF Answer, Call, Put, Goes, Caught, Returns, Ends, Trouble,
         NoTrouble, Unmoved, request, room, graphile, outside, history, RequestT, EntryT, Statuses,
         HandlerT
  <2>2. CasesT' BY <1>7 DEF Answer, Call, Put, Goes, Caught, Returns, Ends, Trouble, NoTrouble,
         Unmoved, request, room, graphile, outside, history, CasesT, Cases, Case, CasesAreCurrent,
         RequestT, HandlerT, SeenOK, QueueOK
  <2>3. JobsT' BY <1>7 DEF Answer, Call, Put, Goes, Caught, Returns, Ends, Trouble, NoTrouble,
         Unmoved, request, room, graphile, outside, history, JobsT, HandlerT, RequestT, QueueOK
  <2>4. HandlerT' BY <1>7 DEF Answer, Call, Put, Goes, Caught, Returns, Ends, Trouble, NoTrouble,
         Unmoved, request, room, graphile, outside, history, HandlerT, Steps, RequestT, QueueOK
  <2>5. QueueOK' BY <1>7 DEF Answer, Call, Put, Goes, Caught, Returns, Ends, Trouble, NoTrouble,
         Unmoved, request, room, graphile, outside, history, QueueOK, RequestT, JobsT, HandlerT
  <2>6. SeenOK' BY <1>7 DEF Answer, Call, Put, Goes, Caught, Returns, Ends, Trouble, NoTrouble,
         Unmoved, request, room, graphile, outside, history, SeenOK, Case, CasesT, RequestT
  <2>7. OwnedOK' /\ CasesOK' /\ QuestionOK' BY <1>7 DEF Answer, Call, Put, Goes, Caught, Returns,
         Ends, Trouble, NoTrouble, Unmoved, request, room, graphile, outside, history, OwnedOK,
         CasesOK, QuestionOK, RequestT, QueueOK
  <2>8. CasesAreCurrent' /\ ShownOK' BY <1>7 DEF Answer, Call, Put, Goes, Caught, Returns, Ends,
         Trouble, NoTrouble, Unmoved, request, room, graphile, outside, history, CasesAreCurrent,
         ShownOK, Shown, CasesT, OwnedOK, CasesOK, QuestionOK, QueueOK, RequestT
  <2> QED BY <2>1, <2>2, <2>3, <2>4, <2>5, <2>6, <2>7, <2>8
<1>8. CASE OpenCase
  <2>1. RequestT' /\ EntryT' BY <1>8 DEF OpenCase, Call, Case, Goes, Caught, Returns, Ends, Trouble,
         NoTrouble, Unmoved, request, room, graphile, outside, history, RequestT, EntryT, Statuses,
         HandlerT
  <2>2. CasesT' BY <1>8 DEF OpenCase, Call, Case, Goes, Caught, Returns, Ends, Trouble, NoTrouble,
         Unmoved, request, room, graphile, outside, history, CasesT, Cases, CasesAreCurrent,
         RequestT, HandlerT, SeenOK, QueueOK
  <2>3. JobsT' BY <1>8 DEF OpenCase, Call, Case, Goes, Caught, Returns, Ends, Trouble, NoTrouble,
         Unmoved, request, room, graphile, outside, history, JobsT, HandlerT, RequestT, QueueOK
  <2>4. HandlerT' BY <1>8 DEF OpenCase, Call, Case, Goes, Caught, Returns, Ends, Trouble, NoTrouble,
         Unmoved, request, room, graphile, outside, history, HandlerT, Steps, RequestT, QueueOK
  <2>5. QueueOK' BY <1>8 DEF OpenCase, Call, Case, Goes, Caught, Returns, Ends, Trouble, NoTrouble,
         Unmoved, request, room, graphile, outside, history, QueueOK, RequestT, JobsT, HandlerT
  <2>6. SeenOK' BY <1>8 DEF OpenCase, Call, Case, Goes, Caught, Returns, Ends, Trouble, NoTrouble,
         Unmoved, request, room, graphile, outside, history, SeenOK, CasesT, RequestT
  <2>7. OwnedOK' /\ CasesOK' /\ QuestionOK' BY <1>8 DEF OpenCase, Call, Case, Goes, Caught, Returns,
         Ends, Trouble, NoTrouble, Unmoved, request, room, graphile, outside, history, OwnedOK,
         CasesOK, QuestionOK, RequestT, QueueOK
  <2>8. CasesAreCurrent' /\ ShownOK' BY <1>8 DEF OpenCase, Call, Case, Goes, Caught, Returns, Ends,
         Trouble, NoTrouble, Unmoved, request, room, graphile, outside, history, CasesAreCurrent,
         ShownOK, Shown, CasesT, OwnedOK, CasesOK, QuestionOK, QueueOK, RequestT
  <2> QED BY <2>1, <2>2, <2>3, <2>4, <2>5, <2>6, <2>7, <2>8
<1>9. CASE Discuss
  <2>1. RequestT' /\ EntryT' BY <1>9 DEF Discuss, Discussed, Call, Case, Goes, Caught, Trouble,
         NoTrouble, Unmoved, request, room, graphile, outside, history, RequestT, EntryT, Statuses,
         HandlerT
  <2>2. CasesT' BY <1>9 DEF Discuss, Discussed, Call, Case, Goes, Caught, Trouble, NoTrouble,
         Unmoved, request, room, graphile, outside, history, CasesT, Cases, CasesAreCurrent,
         RequestT, HandlerT, SeenOK, QueueOK
  <2>3. JobsT' BY <1>9 DEF Discuss, Discussed, Call, Case, Goes, Caught, Trouble, NoTrouble,
         Unmoved, request, room, graphile, outside, history, JobsT, HandlerT, RequestT, QueueOK
  <2>4a. elsewhere' \in BOOLEAN /\ lost' \in BOOLEAN
    BY <1>9, Zenon DEF Discuss, Discussed, history, HandlerT
  <2>4b. pc' \in Steps /\ UNCHANGED <<ref, seen>> /\ troubles' \in 0 .. MaxTroubles
    <3>1. Goes("putCase") \/ Goes("close") \/ Goes("catch") BY <1>9 DEF Discuss, Call, Caught
    <3>2. NoTrouble \/ Trouble BY <1>9 DEF Discuss, Call, Caught
    <3> QED BY <3>1, <3>2 DEF Goes, NoTrouble, Trouble, Steps, HandlerT
  <2>4. HandlerT' BY <2>4a, <2>4b DEF HandlerT
  <2>5. QueueOK' BY <1>9 DEF Discuss, Discussed, Call, Case, Goes, Caught, Trouble, NoTrouble,
         Unmoved, request, room, graphile, outside, history, QueueOK, RequestT, JobsT, HandlerT
  <2>6. SeenOK' BY <1>9 DEF Discuss, Discussed, Call, Case, Goes, Caught, Trouble, NoTrouble,
         Unmoved, request, room, graphile, outside, history, SeenOK, CasesT, RequestT
  <2>7. OwnedOK' /\ CasesOK' /\ QuestionOK' BY <1>9 DEF Discuss, Discussed, Call, Case, Goes,
         Caught, Trouble, NoTrouble, Unmoved, request, room, graphile, outside, history, OwnedOK,
         CasesOK, QuestionOK, RequestT, QueueOK
  <2>8. CasesAreCurrent' /\ ShownOK' BY <1>9 DEF Discuss, Discussed, Call, Case, Goes, Caught,
         Trouble, NoTrouble, Unmoved, request, room, graphile, outside, history, CasesAreCurrent,
         ShownOK, Shown, CasesT, OwnedOK, CasesOK, QuestionOK, QueueOK, RequestT
  <2> QED BY <2>1, <2>2, <2>3, <2>4, <2>5, <2>6, <2>7, <2>8
<1>10. CASE PutCase
  <2>1. RequestT' /\ EntryT' BY <1>10 DEF PutCase, Call, Put, Goes, Caught, Trouble, NoTrouble,
         Unmoved, request, room, graphile, outside, history, RequestT, EntryT, Statuses, HandlerT
  <2>2. CasesT' BY <1>10 DEF PutCase, Call, Put, Goes, Caught, Trouble, NoTrouble, Unmoved, request,
         room, graphile, outside, history, CasesT, Cases, Case, CasesAreCurrent, RequestT, HandlerT,
         SeenOK, QueueOK
  <2>3. JobsT' BY <1>10 DEF PutCase, Call, Put, Goes, Caught, Trouble, NoTrouble, Unmoved, request,
         room, graphile, outside, history, JobsT, HandlerT, RequestT, QueueOK
  <2>4. HandlerT' BY <1>10 DEF PutCase, Call, Put, Goes, Caught, Trouble, NoTrouble, Unmoved,
         request, room, graphile, outside, history, HandlerT, Steps, RequestT, QueueOK
  <2>5. QueueOK' BY <1>10 DEF PutCase, Call, Put, Goes, Caught, Trouble, NoTrouble, Unmoved,
         request, room, graphile, outside, history, QueueOK, RequestT, JobsT, HandlerT
  <2>6. SeenOK' BY <1>10 DEF PutCase, Call, Put, Goes, Caught, Trouble, NoTrouble, Unmoved, request,
         room, graphile, outside, history, SeenOK, Case, CasesT, RequestT
  <2>7. OwnedOK' /\ CasesOK' /\ QuestionOK' BY <1>10 DEF PutCase, Call, Put, Goes, Caught, Trouble,
         NoTrouble, Unmoved, request, room, graphile, outside, history, OwnedOK, CasesOK,
         QuestionOK, RequestT, QueueOK
  <2>8. CasesAreCurrent' /\ ShownOK' BY <1>10 DEF PutCase, Call, Put, Goes, Caught, Trouble,
         NoTrouble, Unmoved, request, room, graphile, outside, history, CasesAreCurrent, ShownOK,
         Shown, CasesT, OwnedOK, CasesOK, QuestionOK, QueueOK, RequestT
  <2> QED BY <2>1, <2>2, <2>3, <2>4, <2>5, <2>6, <2>7, <2>8
<1>11. CASE Link
  <2>1. RequestT' /\ EntryT' BY <1>11 DEF Link, Call, Case, Goes, Caught, Trouble, NoTrouble,
         Unmoved, request, room, graphile, outside, history, RequestT, EntryT, Statuses, HandlerT
  <2>2. CasesT' BY <1>11 DEF Link, Call, Case, Goes, Caught, Trouble, NoTrouble, Unmoved, request,
         room, graphile, outside, history, CasesT, Cases, CasesAreCurrent, RequestT, HandlerT,
         SeenOK, QueueOK
  <2>3. JobsT' BY <1>11 DEF Link, Call, Case, Goes, Caught, Trouble, NoTrouble, Unmoved, request,
         room, graphile, outside, history, JobsT, HandlerT, RequestT, QueueOK
  <2>4. HandlerT' BY <1>11 DEF Link, Call, Case, Goes, Caught, Trouble, NoTrouble, Unmoved, request,
         room, graphile, outside, history, HandlerT, Steps, RequestT, QueueOK
  <2>5. QueueOK' BY <1>11 DEF Link, Call, Case, Goes, Caught, Trouble, NoTrouble, Unmoved, request,
         room, graphile, outside, history, QueueOK, RequestT, JobsT, HandlerT
  <2>6. SeenOK' BY <1>11 DEF Link, Call, Case, Goes, Caught, Trouble, NoTrouble, Unmoved, request,
         room, graphile, outside, history, SeenOK, CasesT, RequestT
  <2>7. OwnedOK' /\ CasesOK' /\ QuestionOK' BY <1>11 DEF Link, Call, Case, Goes, Caught, Trouble,
         NoTrouble, Unmoved, request, room, graphile, outside, history, OwnedOK, CasesOK,
         QuestionOK, RequestT, QueueOK
  <2>8. CasesAreCurrent' /\ ShownOK' BY <1>11 DEF Link, Call, Case, Goes, Caught, Trouble,
         NoTrouble, Unmoved, request, room, graphile, outside, history, CasesAreCurrent, ShownOK,
         Shown, CasesT, OwnedOK, CasesOK, QuestionOK, QueueOK, RequestT
  <2> QED BY <2>1, <2>2, <2>3, <2>4, <2>5, <2>6, <2>7, <2>8
<1>12. CASE Close
  <2>1. RequestT' /\ EntryT' BY <1>12 DEF Close, UpdateIfCurrent, Persisted, Refused, Goes, Caught,
         Returns, Ends, Trouble, NoTrouble, request, room, graphile, outside, history, RequestT,
         EntryT, Statuses, HandlerT
  <2>2. CasesT' BY <1>12 DEF Close, UpdateIfCurrent, Persisted, Refused, Goes, Caught, Returns,
         Ends, Trouble, NoTrouble, request, room, graphile, outside, history, CasesT, Cases, Case,
         CasesAreCurrent, RequestT, HandlerT, SeenOK, QueueOK
  <2>3. JobsT' BY <1>12 DEF Close, UpdateIfCurrent, Persisted, Refused, Goes, Caught, Returns, Ends,
         Trouble, NoTrouble, request, room, graphile, outside, history, JobsT, HandlerT, RequestT,
         QueueOK
  <2>4. HandlerT' BY <1>12 DEF Close, UpdateIfCurrent, Persisted, Refused, Goes, Caught, Returns,
         Ends, Trouble, NoTrouble, request, room, graphile, outside, history, HandlerT, Steps,
         RequestT, QueueOK
  <2>5. QueueOK' BY <1>12 DEF Close, UpdateIfCurrent, Persisted, Refused, Goes, Caught, Returns,
         Ends, Trouble, NoTrouble, request, room, graphile, outside, history, QueueOK, RequestT,
         JobsT, HandlerT
  <2>6. SeenOK' BY <1>12 DEF Close, UpdateIfCurrent, Persisted, Refused, Goes, Caught, Returns,
         Ends, Trouble, NoTrouble, request, room, graphile, outside, history, SeenOK, Case, CasesT,
         RequestT
  <2>7. OwnedOK' /\ CasesOK' /\ QuestionOK' BY <1>12 DEF Close, UpdateIfCurrent, Persisted, Refused,
         Goes, Caught, Returns, Ends, Trouble, NoTrouble, request, room, graphile, outside, history,
         OwnedOK, CasesOK, QuestionOK, RequestT, QueueOK
  <2>8. CasesAreCurrent' /\ ShownOK' BY <1>12 DEF Close, UpdateIfCurrent, Persisted, Refused, Goes,
         Caught, Returns, Ends, Trouble, NoTrouble, request, room, graphile, outside, history,
         CasesAreCurrent, ShownOK, Shown, CasesT, OwnedOK, CasesOK, QuestionOK, QueueOK, RequestT
  <2> QED BY <2>1, <2>2, <2>3, <2>4, <2>5, <2>6, <2>7, <2>8
<1>13. CASE Catch
  <2>1. RequestT' /\ EntryT' BY <1>13 DEF Catch, UpdateIfCurrent, Persisted, Refused, Failable,
         Lost, Throws, Ends, Trouble, NoTrouble, request, room, graphile, outside, history,
         RequestT, EntryT, Statuses, HandlerT
  <2>2. CasesT' BY <1>13 DEF Catch, UpdateIfCurrent, Persisted, Refused, Failable, Lost, Throws,
         Ends, Trouble, NoTrouble, request, room, graphile, outside, history, CasesT, Cases, Case,
         CasesAreCurrent, RequestT, HandlerT, SeenOK, QueueOK
  <2>3. JobsT' BY <1>13 DEF Catch, UpdateIfCurrent, Persisted, Refused, Failable, Lost, Throws,
         Ends, Trouble, NoTrouble, request, room, graphile, outside, history, JobsT, HandlerT,
         RequestT, QueueOK
  <2>4a. lost' \in BOOLEAN /\ elsewhere' \in BOOLEAN BY <1>13 DEF Catch, UpdateIfCurrent, Refused, Lost, history, HandlerT
  <2>4. HandlerT' BY <1>13, <2>4a DEF Catch, UpdateIfCurrent, Refused, Throws, Ends, Trouble,
         NoTrouble, HandlerT, Steps
  <2>5. QueueOK' BY <1>13 DEF Catch, UpdateIfCurrent, Persisted, Refused, Failable, Lost, Throws,
         Ends, Trouble, NoTrouble, request, room, graphile, outside, history, QueueOK, RequestT,
         JobsT, HandlerT
  <2>6. SeenOK' BY <1>13 DEF Catch, UpdateIfCurrent, Persisted, Refused, Failable, Lost, Throws,
         Ends, Trouble, NoTrouble, request, room, graphile, outside, history, SeenOK, Case, CasesT,
         RequestT
  <2>7. OwnedOK' /\ CasesOK' /\ QuestionOK' BY <1>13 DEF Catch, UpdateIfCurrent, Persisted, Refused,
         Failable, Lost, Throws, Ends, Trouble, NoTrouble, request, room, graphile, outside,
         history, OwnedOK, CasesOK, QuestionOK, RequestT, QueueOK
  <2>8. CasesAreCurrent' /\ ShownOK' BY <1>13 DEF Catch, UpdateIfCurrent, Persisted, Refused,
         Failable, Lost, Throws, Ends, Trouble, NoTrouble, request, room, graphile, outside,
         history, CasesAreCurrent, ShownOK, Shown, CasesT, OwnedOK, CasesOK, QuestionOK, QueueOK,
         RequestT
  <2> QED BY <2>1, <2>2, <2>3, <2>4, <2>5, <2>6, <2>7, <2>8
<1>14. CASE Kill
  <2>1. RequestT' /\ EntryT' BY <1>14 DEF Kill, Throws, Ends, Lost, Trouble, request, room,
         graphile, outside, history, RequestT, EntryT, Statuses, HandlerT
  <2>2. CasesT' BY <1>14 DEF Kill, Throws, Ends, Lost, Trouble, request, room, graphile, outside,
         history, CasesT, Cases, Case, CasesAreCurrent, RequestT, HandlerT, SeenOK, QueueOK
  <2>3. JobsT' BY <1>14 DEF Kill, Throws, Ends, Lost, Trouble, request, room, graphile, outside,
         history, JobsT, HandlerT, RequestT, QueueOK
  <2>4. HandlerT' BY <1>14 DEF Kill, Throws, Ends, Lost, Trouble, request, room, graphile, outside,
         history, HandlerT, Steps, RequestT, QueueOK
  <2>5. QueueOK' BY <1>14 DEF Kill, Throws, Ends, Lost, Trouble, request, room, graphile, outside,
         history, QueueOK, RequestT, JobsT, HandlerT
  <2>6. SeenOK' BY <1>14 DEF Kill, Throws, Ends, Lost, Trouble, request, room, graphile, outside,
         history, SeenOK, Case, CasesT, RequestT
  <2>7. OwnedOK' /\ CasesOK' /\ QuestionOK' BY <1>14 DEF Kill, Throws, Ends, Lost, Trouble, request,
         room, graphile, outside, history, OwnedOK, CasesOK, QuestionOK, RequestT, QueueOK
  <2>8. CasesAreCurrent' /\ ShownOK' BY <1>14 DEF Kill, Throws, Ends, Lost, Trouble, request, room,
         graphile, outside, history, CasesAreCurrent, ShownOK, Shown, CasesT, OwnedOK, CasesOK,
         QuestionOK, QueueOK, RequestT
  <2> QED BY <2>1, <2>2, <2>3, <2>4, <2>5, <2>6, <2>7, <2>8
<1>15. CASE Touch
  <2>1. RequestT' /\ EntryT' BY <1>15 DEF Touch, Persisted, request, room, graphile, outside,
         history, RequestT, EntryT, Statuses, HandlerT
  <2>2. CasesT' BY <1>15 DEF Touch, Persisted, request, room, graphile, outside, history, CasesT,
         Cases, Case, CasesAreCurrent, RequestT, HandlerT, SeenOK, QueueOK
  <2>3. JobsT' BY <1>15 DEF Touch, Persisted, request, room, graphile, outside, history, JobsT,
         HandlerT, RequestT, QueueOK
  <2>4. HandlerT' BY <1>15 DEF Touch, Persisted, request, room, graphile, outside, history,
         HandlerT, Steps, RequestT, QueueOK
  <2>5. QueueOK' BY <1>15 DEF Touch, Persisted, request, room, graphile, outside, history, QueueOK,
         RequestT, JobsT, HandlerT
  <2>6. SeenOK' BY <1>15 DEF Touch, Persisted, request, room, graphile, outside, history, SeenOK,
         Case, CasesT, RequestT
  <2>7. OwnedOK' /\ CasesOK' /\ QuestionOK' BY <1>15 DEF Touch, Persisted, request, room, graphile,
         outside, history, OwnedOK, CasesOK, QuestionOK, RequestT, QueueOK
  <2>8. CasesAreCurrent' /\ ShownOK' BY <1>15 DEF Touch, Persisted, request, room, graphile,
         outside, history, CasesAreCurrent, ShownOK, Shown, CasesT, OwnedOK, CasesOK, QuestionOK,
         QueueOK, RequestT
  <2> QED BY <2>1, <2>2, <2>3, <2>4, <2>5, <2>6, <2>7, <2>8
<1>16. CASE Correct
  <2>1. RequestT' /\ EntryT' BY <1>16 DEF Correct, Correctable, Persisted, request, room, graphile,
         outside, history, RequestT, EntryT, Statuses, HandlerT
  <2>2. CasesT' BY <1>16 DEF Correct, Correctable, Persisted, request, room, graphile, outside,
         history, CasesT, Cases, Case, CasesAreCurrent, RequestT, HandlerT, SeenOK, QueueOK
  <2>3. JobsT' BY <1>16 DEF Correct, Correctable, Persisted, request, room, graphile, outside,
         history, JobsT, HandlerT, RequestT, QueueOK
  <2>4. HandlerT' BY <1>16 DEF Correct, Correctable, Persisted, request, room, graphile, outside,
         history, HandlerT, Steps, RequestT, QueueOK
  <2>5. QueueOK' BY <1>16 DEF Correct, Correctable, Persisted, request, room, graphile, outside,
         history, QueueOK, RequestT, JobsT, HandlerT
  <2>6. SeenOK' BY <1>16 DEF Correct, Correctable, Persisted, request, room, graphile, outside,
         history, SeenOK, Case, CasesT, RequestT
  <2>7. OwnedOK' /\ CasesOK' /\ QuestionOK' BY <1>16 DEF Correct, Correctable, Persisted, request,
         room, graphile, outside, history, OwnedOK, CasesOK, QuestionOK, RequestT, QueueOK
  <2>8. CasesAreCurrent' /\ ShownOK' BY <1>16 DEF Correct, Correctable, Persisted, request, room,
         graphile, outside, history, CasesAreCurrent, ShownOK, Shown, CasesT, OwnedOK, CasesOK,
         QuestionOK, QueueOK, RequestT
  <2> QED BY <2>1, <2>2, <2>3, <2>4, <2>5, <2>6, <2>7, <2>8
<1>17. CASE EvidenceChanges
  <2>1. RequestT' /\ EntryT' BY <1>17 DEF EvidenceChanges, request, room, graphile, outside,
         history, RequestT, EntryT, Statuses, HandlerT
  <2>2. CasesT' BY <1>17 DEF EvidenceChanges, request, room, graphile, outside, history, CasesT,
         Cases, Case, CasesAreCurrent, RequestT, HandlerT, SeenOK, QueueOK
  <2>3. JobsT' BY <1>17 DEF EvidenceChanges, request, room, graphile, outside, history, JobsT,
         HandlerT, RequestT, QueueOK
  <2>4. HandlerT' BY <1>17 DEF EvidenceChanges, request, room, graphile, outside, history, HandlerT,
         Steps, RequestT, QueueOK
  <2>5. QueueOK' BY <1>17 DEF EvidenceChanges, request, room, graphile, outside, history, QueueOK,
         RequestT, JobsT, HandlerT
  <2>6. SeenOK' BY <1>17 DEF EvidenceChanges, request, room, graphile, outside, history, SeenOK,
         Case, CasesT, RequestT
  <2>7. OwnedOK' /\ CasesOK' /\ QuestionOK' BY <1>17 DEF EvidenceChanges, request, room, graphile,
         outside, history, OwnedOK, CasesOK, QuestionOK, RequestT, QueueOK
  <2>8. CasesAreCurrent' /\ ShownOK' BY <1>17 DEF EvidenceChanges, request, room, graphile, outside,
         history, CasesAreCurrent, ShownOK, Shown, CasesT, OwnedOK, CasesOK, QuestionOK, QueueOK,
         RequestT
  <2> QED BY <2>1, <2>2, <2>3, <2>4, <2>5, <2>6, <2>7, <2>8
<1>18. CASE Withdraw
  <2>1. RequestT' /\ EntryT' BY <1>18 DEF Withdraw, request, room, graphile, outside, history,
         RequestT, EntryT, Statuses, HandlerT
  <2>2. CasesT' BY <1>18 DEF Withdraw, request, room, graphile, outside, history, CasesT, Cases,
         Case, CasesAreCurrent, RequestT, HandlerT, SeenOK, QueueOK
  <2>3. JobsT' BY <1>18 DEF Withdraw, request, room, graphile, outside, history, JobsT, HandlerT,
         RequestT, QueueOK
  <2>4. HandlerT' BY <1>18 DEF Withdraw, request, room, graphile, outside, history, HandlerT, Steps,
         RequestT, QueueOK
  <2>5. QueueOK' BY <1>18 DEF Withdraw, request, room, graphile, outside, history, QueueOK,
         RequestT, JobsT, HandlerT
  <2>6. SeenOK' BY <1>18 DEF Withdraw, request, room, graphile, outside, history, SeenOK, Case,
         CasesT, RequestT
  <2>7. OwnedOK' /\ CasesOK' /\ QuestionOK' BY <1>18 DEF Withdraw, request, room, graphile, outside,
         history, OwnedOK, CasesOK, QuestionOK, RequestT, QueueOK
  <2>8. CasesAreCurrent' /\ ShownOK' BY <1>18 DEF Withdraw, request, room, graphile, outside,
         history, CasesAreCurrent, ShownOK, Shown, CasesT, OwnedOK, CasesOK, QuestionOK, QueueOK,
         RequestT
  <2> QED BY <2>1, <2>2, <2>3, <2>4, <2>5, <2>6, <2>7, <2>8
<1>19. ASSUME NEW r \in Revisions, Dispatch(r) PROVE IInv'
  <2>1. RequestT' /\ EntryT' BY <1>19 DEF Dispatch, Trouble, NoTrouble, request, room, graphile,
         outside, history, RequestT, EntryT, Statuses, HandlerT
  <2>2. CasesT' BY <1>19 DEF Dispatch, Trouble, NoTrouble, request, room, graphile, outside,
         history, CasesT, Cases, Case, CasesAreCurrent, RequestT, HandlerT, SeenOK, QueueOK
  <2>3. JobsT' BY <1>19 DEF Dispatch, Trouble, NoTrouble, request, room, graphile, outside, history,
         JobsT, HandlerT, RequestT, QueueOK
  <2>4. HandlerT' BY <1>19 DEF Dispatch, Trouble, NoTrouble, request, room, graphile, outside,
         history, HandlerT, Steps, RequestT, QueueOK
  <2>5. QueueOK' BY <1>19 DEF Dispatch, Trouble, NoTrouble, request, room, graphile, outside,
         history, QueueOK, RequestT, JobsT, HandlerT
  <2>6. SeenOK' BY <1>19 DEF Dispatch, Trouble, NoTrouble, request, room, graphile, outside,
         history, SeenOK, Case, CasesT, RequestT
  <2>7. OwnedOK' /\ CasesOK' /\ QuestionOK' BY <1>19 DEF Dispatch, Trouble, NoTrouble, request,
         room, graphile, outside, history, OwnedOK, CasesOK, QuestionOK, RequestT, QueueOK
  <2>8. CasesAreCurrent' /\ ShownOK' BY <1>19 DEF Dispatch, Trouble, NoTrouble, request, room,
         graphile, outside, history, CasesAreCurrent, ShownOK, Shown, CasesT, OwnedOK, CasesOK,
         QuestionOK, QueueOK, RequestT
  <2> QED BY <2>1, <2>2, <2>3, <2>4, <2>5, <2>6, <2>7, <2>8
<1>20. ASSUME NEW r \in Revisions, Start(r) PROVE IInv'
  <2>1. RequestT' /\ EntryT' BY <1>20 DEF Start, request, room, graphile, outside, history,
         RequestT, EntryT, Statuses, HandlerT
  <2>2. CasesT' BY <1>20 DEF Start, request, room, graphile, outside, history, CasesT, Cases, Case,
         CasesAreCurrent, RequestT, HandlerT, SeenOK, QueueOK
  <2>3. JobsT' BY <1>20 DEF Start, request, room, graphile, outside, history, JobsT, HandlerT,
         RequestT, QueueOK
  <2>4. HandlerT' BY <1>20 DEF Start, request, room, graphile, outside, history, HandlerT, Steps,
         RequestT, QueueOK
  <2>5. QueueOK' BY <1>20 DEF Start, request, room, graphile, outside, history, QueueOK, RequestT,
         JobsT, HandlerT
  <2>6. SeenOK' BY <1>20 DEF Start, request, room, graphile, outside, history, SeenOK, Case, CasesT,
         RequestT
  <2>7. OwnedOK' /\ CasesOK' /\ QuestionOK' BY <1>20 DEF Start, request, room, graphile, outside,
         history, OwnedOK, CasesOK, QuestionOK, RequestT, QueueOK
  <2>8. CasesAreCurrent' /\ ShownOK' BY <1>20 DEF Start, request, room, graphile, outside, history,
         CasesAreCurrent, ShownOK, Shown, CasesT, OwnedOK, CasesOK, QuestionOK, QueueOK, RequestT
  <2> QED BY <2>1, <2>2, <2>3, <2>4, <2>5, <2>6, <2>7, <2>8
<1>21. CASE UNCHANGED vars
  <2>1. RequestT' /\ EntryT' BY <1>21 DEF request, room, graphile, outside, history, vars, RequestT,
         EntryT, Statuses, HandlerT
  <2>2. CasesT' BY <1>21 DEF request, room, graphile, outside, history, vars, CasesT, Cases, Case,
         CasesAreCurrent, RequestT, HandlerT, SeenOK, QueueOK
  <2>3. JobsT' BY <1>21 DEF request, room, graphile, outside, history, vars, JobsT, HandlerT,
         RequestT, QueueOK
  <2>4. HandlerT' BY <1>21 DEF request, room, graphile, outside, history, vars, HandlerT, Steps,
         RequestT, QueueOK
  <2>5. QueueOK' BY <1>21 DEF request, room, graphile, outside, history, vars, QueueOK, RequestT,
         JobsT, HandlerT
  <2>6. SeenOK' BY <1>21 DEF request, room, graphile, outside, history, vars, SeenOK, Case, CasesT,
         RequestT
  <2>7. OwnedOK' /\ CasesOK' /\ QuestionOK' BY <1>21 DEF request, room, graphile, outside, history,
         vars, OwnedOK, CasesOK, QuestionOK, RequestT, QueueOK
  <2>8. CasesAreCurrent' /\ ShownOK' BY <1>21 DEF request, room, graphile, outside, history, vars,
         CasesAreCurrent, ShownOK, Shown, CasesT, OwnedOK, CasesOK, QuestionOK, QueueOK, RequestT
  <2> QED BY <2>1, <2>2, <2>3, <2>4, <2>5, <2>6, <2>7, <2>8
<1>22. CASE DiscussElsewhere
  <2>1. RequestT' /\ EntryT' BY <1>22 DEF DiscussElsewhere, Discussed, Call, Case, Goes, Caught,
         Trouble, NoTrouble, Unmoved, request, room, graphile, outside, history, RequestT, EntryT,
         Statuses, HandlerT
  <2>2. CasesT' BY <1>22 DEF DiscussElsewhere, Discussed, Call, Case, Goes, Caught, Trouble,
         NoTrouble, Unmoved, request, room, graphile, outside, history, CasesT, Cases,
         CasesAreCurrent, RequestT, HandlerT, SeenOK, QueueOK
  <2>3. JobsT' BY <1>22 DEF DiscussElsewhere, Discussed, Call, Case, Goes, Caught, Trouble,
         NoTrouble, Unmoved, request, room, graphile, outside, history, JobsT, HandlerT, RequestT,
         QueueOK
  <2>4. HandlerT' BY <1>22 DEF DiscussElsewhere, Discussed, Call, Case, Goes, Caught, Trouble,
         NoTrouble, Unmoved, request, room, graphile, outside, history, HandlerT, Steps, RequestT,
         QueueOK
  <2>5. QueueOK' BY <1>22 DEF DiscussElsewhere, Discussed, Call, Case, Goes, Caught, Trouble,
         NoTrouble, Unmoved, request, room, graphile, outside, history, QueueOK, RequestT, JobsT,
         HandlerT
  <2>6. SeenOK' BY <1>22 DEF DiscussElsewhere, Discussed, Call, Case, Goes, Caught, Trouble,
         NoTrouble, Unmoved, request, room, graphile, outside, history, SeenOK, CasesT, RequestT
  <2>7. OwnedOK' /\ CasesOK' /\ QuestionOK' BY <1>22 DEF DiscussElsewhere, Discussed, Call, Case,
         Goes, Caught, Trouble, NoTrouble, Unmoved, request, room, graphile, outside, history,
         OwnedOK, CasesOK, QuestionOK, RequestT, QueueOK
  <2>8. CasesAreCurrent' /\ ShownOK' BY <1>22 DEF DiscussElsewhere, Discussed, Call, Case, Goes,
         Caught, Trouble, NoTrouble, Unmoved, request, room, graphile, outside, history,
         CasesAreCurrent, ShownOK, Shown, CasesT, OwnedOK, CasesOK, QuestionOK, QueueOK, RequestT
  <2> QED BY <2>1, <2>2, <2>3, <2>4, <2>5, <2>6, <2>7, <2>8
<1>23. CASE OtherOpens
  <2>1. RequestT' /\ EntryT' BY <1>23 DEF OtherOpens, request, room, graphile, outside, history,
         RequestT, EntryT, Statuses, HandlerT
  <2>2. CasesT' BY <1>23 DEF OtherOpens, request, room, graphile, outside, history, CasesT, Cases,
         Case, CasesAreCurrent, RequestT, HandlerT, SeenOK, QueueOK
  <2>3. JobsT' BY <1>23 DEF OtherOpens, request, room, graphile, outside, history, JobsT, HandlerT,
         RequestT, QueueOK
  <2>4. HandlerT' BY <1>23 DEF OtherOpens, request, room, graphile, outside, history, HandlerT,
         Steps, RequestT, QueueOK
  <2>5. QueueOK' BY <1>23 DEF OtherOpens, request, room, graphile, outside, history, QueueOK,
         RequestT, JobsT, HandlerT
  <2>6. SeenOK' BY <1>23 DEF OtherOpens, request, room, graphile, outside, history, SeenOK, Case,
         CasesT, RequestT
  <2>7. OwnedOK' /\ CasesOK' /\ QuestionOK' BY <1>23 DEF OtherOpens, request, room, graphile,
         outside, history, OwnedOK, CasesOK, QuestionOK, RequestT, QueueOK
  <2>8. CasesAreCurrent' /\ ShownOK' BY <1>23 DEF OtherOpens, request, room, graphile, outside,
         history, CasesAreCurrent, ShownOK, Shown, CasesT, OwnedOK, CasesOK, QuestionOK, QueueOK,
         RequestT
  <2> QED BY <2>1, <2>2, <2>3, <2>4, <2>5, <2>6, <2>7, <2>8
<1> QED BY <1>1, <1>2, <1>3, <1>4, <1>5, <1>6, <1>7, <1>8, <1>9, <1>10, <1>11,
           <1>12, <1>13, <1>14, <1>15, <1>16, <1>17, <1>18, <1>19, <1>20, <1>21, <1>22, <1>23
           DEF Next, Handle

LEMMA Invariant == ASSUME RequestAssumption PROVE Spec => []IInv
<1>1. Init => IInv BY InitInvariant
<1>2. IInv /\ [Next]_vars => IInv' BY NextInvariant
<1> QED BY <1>1, <1>2, PTL DEF Spec

-----------------------------------------------------------------------------
\* Every variable keeps its type: a request is never taken back to a revision
\* it has had, and no job is started more often than Graphile allows.
THEOREM TypeCorrect == ASSUME RequestAssumption PROVE Spec => []RequestTypeOK
<1>1. IInv => RequestTypeOK
  BY DEF IInv, RequestT, EntryT, CasesT, JobsT, HandlerT, RequestTypeOK
<1> QED BY <1>1, Invariant, PTL

\* Every case the kernel has opened is of the scope the request has, whatever
\* is corrected, retried or lost while a job of an earlier scope is handled.
THEOREM CasesAreOfTheScope == ASSUME RequestAssumption PROVE Spec => []CasesAreCurrent
<1>1. IInv => CasesAreCurrent BY DEF IInv
<1> QED BY <1>1, Invariant, PTL

\* A request that is answered shows an answer of its scope or a linked case,
\* unless the kernel had discussed its conflict where the Room does not show it.
THEOREM AnsweredShows == ASSUME RequestAssumption PROVE Spec => []AnsweredIsShown
<1>1. IInv => AnsweredIsShown BY DEF IInv, ShownOK, Shown, AnsweredIsShown
<1> QED BY <1>1, Invariant, PTL

\* An answered request stays as it is: a late step of another job, a retry or a
\* correction changes neither its status and scope nor its cases nor its entry.
THEOREM AnsweredStays == ASSUME RequestAssumption PROVE Spec => AnsweredIsFinal
<1>1. ASSUME IInv, [Next]_vars, status = "answered"
      PROVE  UNCHANGED <<request, cases, entry>>
  <2> USE <1>1 DEF IInv, request, room, outside, history
  <2>1. rev # ref \/ pc \notin {"answer", "open", "discuss", "putCase", "link", "close"}
    BY DEF OwnedOK
  <2>2. pc \notin {"question", "putQuestion"} BY DEF QuestionOK
  <2>3. CASE Begin BY <2>1, <2>2, <2>3 DEF Begin, Goes, Unmoved
  <2>4. CASE Read BY <2>1, <2>2, <2>4 DEF Read, Goes, Caught, Unmoved
  <2>5. CASE Ask BY <2>1, <2>2, <2>5 DEF Ask, UpdateIfCurrent, Persisted, Refused, Goes, Caught
  <2>6. CASE Question BY <2>1, <2>2, <2>6 DEF Question, Goes, Caught, Unmoved
  <2>7. CASE PutQuestion BY <2>1, <2>2, <2>7 DEF PutQuestion, Put, Goes, Caught
  <2>8. CASE Own BY <2>1, <2>2, <2>8 DEF Own, UpdateIfCurrent, Persisted, Refused, Goes, Caught
  <2>9. CASE Answer BY <2>1, <2>2, <2>9 DEF Answer, Call, Put, Goes, Caught, Unmoved
  <2>10. CASE OpenCase BY <2>1, <2>2, <2>10 DEF OpenCase, Call, Case, Goes, Caught, Unmoved
  <2>11. CASE Discuss BY <2>1, <2>2, <2>11 DEF Discuss, Call, Case, Goes, Caught, Unmoved
  <2>11a. CASE DiscussElsewhere BY <2>1, <2>2, <2>11a DEF DiscussElsewhere
  <2>12. CASE PutCase BY <2>1, <2>2, <2>12 DEF PutCase, Call, Put, Goes, Caught, Unmoved
  <2>13. CASE Link BY <2>1, <2>2, <2>13 DEF Link, Call, Case, Goes, Caught, Unmoved
  <2>14. CASE Close BY <2>1, <2>2, <2>14 DEF Close, UpdateIfCurrent, Persisted, Refused, Goes,
         Caught
  <2>15. CASE Catch BY <2>1, <2>2, <2>15 DEF Catch, UpdateIfCurrent, Persisted, Refused, Failable,
         Lost
  <2>16. CASE Kill BY <2>1, <2>2, <2>16 DEF Kill
  <2>17. CASE Touch BY <2>1, <2>2, <2>17 DEF Touch, Persisted
  <2>18. CASE Correct BY <2>1, <2>2, <2>18 DEF Correct, Correctable, Persisted
  <2>19. CASE EvidenceChanges BY <2>1, <2>2, <2>19 DEF EvidenceChanges
  <2>20. CASE Withdraw BY <2>1, <2>2, <2>20 DEF Withdraw
  <2>21. CASE OtherOpens BY <2>1, <2>2, <2>21 DEF OtherOpens
  <2>30. ASSUME NEW r \in Revisions, Dispatch(r) \/ Start(r) PROVE UNCHANGED <<request, cases, entry>>
    BY <2>30 DEF Dispatch, Start
  <2>31. CASE UNCHANGED vars BY <2>31 DEF vars
  <2> QED BY <2>3, <2>4, <2>5, <2>6, <2>7, <2>8, <2>9, <2>10, <2>11, <2>11a, <2>12,
           <2>13, <2>14, <2>15, <2>16, <2>17, <2>18, <2>19, <2>20, <2>21, <2>30, <2>31
           DEF Next, Handle
<1> QED BY <1>1, Invariant, PTL DEF Spec, AnsweredIsFinal
================================================================================
