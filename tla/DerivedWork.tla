------------------------------ MODULE DerivedWork ------------------------------
(***************************************************************************)
(* One Feature and one Work Item derived from a Spec, changed by people    *)
(* and by Agents (apps/server-api/src/project-work-store.ts).              *)
(*                                                                         *)
(* A method is one transaction at READ COMMITTED.  It locks the row it     *)
(* changes, but reads without a lock what it only checks: the Feature of   *)
(* an item, then the versions of the Spec.  So a method is split after     *)
(* each such check, and others may commit in between; its lock is taken in *)
(* the step of its first check, and its last step is its write and commit. *)
(* A call that is refused, or whose idempotency key is known, changes      *)
(* nothing.                                                                *)
(*                                                                         *)
(* The Spec itself is the subject of SpecReview: here its versions are     *)
(* confirmed and revoked in any order that SpecReview allows.              *)
(***************************************************************************)
EXTENDS Naturals, FiniteSets

CONSTANTS
  Owners, NoOwner,  \* people work is assigned to
  MaxRevisions,     \* bound: versions of the Spec
  MaxWrites         \* bound: calls of the store

\* What the modules that instantiate this one assume of its constants.
WorkAssumption == MaxRevisions \in Nat /\ MaxWrites \in Nat

Actors == {"human", "agent"}

VARIABLES
  confirmed,               \* the version that is confirmed (0: none)
  once, revokedRevs,       \* the versions with confirmed_at, with revoked_at
  feature, item,           \* the committed rows
  featureTx, itemTx,       \* the transactions that are about to change them
  featureHistory, history, \* the snapshots in their histories
  attention,               \* kinds with an open human_decision in the inbox
  closed,                  \* the Sprint is closed
  writes, by               \* history: number of calls, whose call was committed last

specs == <<confirmed, once, revokedRevs>>
feats == <<feature, featureTx, featureHistory>>
items == <<item, itemTx, history>>
vars == <<specs, feats, items, attention, closed, writes, by>>

Versions == 1 .. MaxRevisions
Statuses == {"todo", "in_progress", "ready_for_test", "done"}
Stages == {"planned", "released"}
NoFeature == [exists |-> FALSE, owner |-> NoOwner, stage |-> "planned", source |-> 0, revoked |-> FALSE]
NoItem == [exists |-> FALSE, owner |-> NoOwner, priority |-> "unset", source |-> 0, revoked |-> FALSE,
           status |-> "todo", doneBy |-> "nobody", ofFeature |-> FALSE, inSprint |-> FALSE,
           carryover |-> FALSE, createdBy |-> "nobody"]

\* A transaction: what it has checked, what it will write, for whom.
\* `overtaken`: history, the source was revoked after it was checked.
NoFeatureTx == [pc |-> "none", row |-> NoFeature, by |-> "nobody", overtaken |-> FALSE]
NoItemTx == [pc |-> "none", row |-> NoItem, by |-> "nobody", reverts |-> FALSE, overtaken |-> FALSE]

Init ==
  /\ confirmed = 0 /\ once = {} /\ revokedRevs = {}
  /\ feature = NoFeature /\ item = NoItem
  /\ featureTx = NoFeatureTx /\ itemTx = NoItemTx
  /\ featureHistory = {} /\ history = {}
  /\ attention = {} /\ closed = FALSE
  /\ writes = 0 /\ by = "nobody"

Call == writes < MaxWrites /\ writes' = writes + 1

\* assertConfirmedSpecSource.
SourceOk(s) == s = 0 \/ (s = confirmed /\ s \notin revokedRevs)

\* Fault variant: a revert does not look whether the version was revoked.
OnceConfirmedAtAll(s) == s = 0 \/ s \in once

\* assertHistoricallyConfirmedSpecSource.
OnceConfirmed(s) == s = 0 \/ (s \in once /\ s \notin revokedRevs)

\* assertWorkLinks.
LinkOk(x) == x.ofFeature => feature.exists /\ ~feature.revoked

\* Fault variant: what is decided resolves every open question.
AsksOrResolvesAll(kind, undecided) ==
  attention' = IF undecided THEN attention \union {kind} ELSE {}

\* createAutomationChoiceAttention and resolveAutomationChoiceAttention.
Asks(kind, undecided) ==
  attention' = IF undecided THEN attention \union {kind} ELSE attention \ {kind}

FeatureUndecided(x) == x.source # 0 /\ x.owner = NoOwner

ItemUndecided(x) == x.source # 0 /\ (x.owner = NoOwner \/ x.priority = "unset")

-----------------------------------------------------------------------------
(* The Spec.                                                               *)

\* A confirmation in flight may come after that of a newer version, and after
\* the revocation of its own.
ConfirmRev(r) ==
  /\ confirmed' = r /\ once' = once \union {r}
  /\ by' = "nobody"
  /\ UNCHANGED <<revokedRevs, feats, items, attention, closed, writes>>

\* The history variable of a transaction whose source is revoked.
Overtaken(t, r) == IF t.pc = "checked" /\ t.row.source = r THEN [t EXCEPT !.overtaken = TRUE] ELSE t

RevokeRev(r) ==
  /\ r # confirmed /\ r \notin revokedRevs
  /\ revokedRevs' = revokedRevs \union {r}
  /\ featureTx' = Overtaken(featureTx, r) /\ itemTx' = Overtaken(itemTx, r)
  /\ by' = "nobody"
  /\ UNCHANGED <<confirmed, once, feature, item, featureHistory, history, attention, closed, writes>>

-----------------------------------------------------------------------------
(* The Feature.                                                            *)

\* assertAgentFeatureMutation: what an Agent may ask for.
FeatureMutation(actor, old, new) ==
  actor = "agent" => new.owner = old.owner /\ (new.stage = "released" => old.stage = "released")

\* The row is locked, and what it will become is checked.
ChecksFeature(x, actor) ==
  /\ featureTx = NoFeatureTx /\ Call
  /\ FeatureMutation(actor, feature, x)
  /\ featureTx' = [pc |-> "checked", row |-> x, by |-> actor, overtaken |-> FALSE]
  /\ by' = "nobody"
  /\ UNCHANGED <<specs, feature, featureHistory, items, attention, closed>>

CreateFeature(actor) ==
  \E owner \in Owners \union {NoOwner}, source \in {0} \union Versions :
    /\ ~feature.exists /\ SourceOk(source)
    /\ ChecksFeature([NoFeature EXCEPT !.exists = TRUE, !.owner = owner, !.source = source], actor)

\* The row may be revoked: the update does not look.
UpdateFeature(actor) ==
  \E x \in {[feature EXCEPT !.owner = owner] : owner \in Owners \union {NoOwner}}
          \union {[feature EXCEPT !.stage = stage] : stage \in Stages}
          \union {[feature EXCEPT !.source = source] : source \in {0} \union Versions} :
    /\ feature.exists /\ x # feature /\ SourceOk(x.source)
    /\ ChecksFeature(x, actor)

\* revertFeature to a snapshot of its history.
RevertFeature(actor) ==
  \E s \in featureHistory :
    LET x == [s EXCEPT !.revoked = FALSE]
    IN  /\ feature.exists /\ ~feature.revoked /\ x # feature /\ OnceConfirmed(x.source)
        /\ ChecksFeature(x, actor)

\* persistFeature, the history, the inbox; commit.
SaveFeature ==
  LET x == featureTx.row
  IN  /\ featureTx.pc = "checked" /\ featureTx' = NoFeatureTx
      /\ feature' = x /\ featureHistory' = featureHistory \union {x}
      /\ Asks("feature", FeatureUndecided(x))
      /\ by' = featureTx.by
      /\ UNCHANGED <<specs, items, closed, writes>>

\* Agents may revoke what they created: every Feature here may be theirs.
RevokeFeature(actor) ==
  LET x == [feature EXCEPT !.revoked = TRUE]
  IN  /\ featureTx = NoFeatureTx /\ feature.exists /\ ~feature.revoked /\ Call
      /\ feature' = x /\ featureHistory' = featureHistory \union {x}
      /\ Asks("feature", FALSE)
      /\ by' = actor
      /\ UNCHANGED <<specs, featureTx, items, closed>>

-----------------------------------------------------------------------------
(* The Work Item.                                                          *)

\* assertAgentWorkItemMutation.
ItemMutation(actor, old, new) ==
  actor = "agent" => new.owner = old.owner /\ new.priority = old.priority

\* The row is locked, and the Feature it will be linked to is checked.  Without a
\* source there is nothing more to read.
ChecksItem(x, actor, reverts) ==
  /\ itemTx = NoItemTx /\ Call
  /\ ItemMutation(actor, item, x) /\ LinkOk(x)
  /\ itemTx' = [pc |-> IF x.source = 0 THEN "checked" ELSE "linked", row |-> x, by |-> actor,
                 reverts |-> reverts, overtaken |-> FALSE]
  /\ by' = "nobody"
  /\ UNCHANGED <<specs, feats, item, history, attention, closed>>

\* Only people create work that is done.  (Its other fields are set later.)
CreateItem(actor) ==
  \E owner \in Owners \union {NoOwner}, status \in {"todo", "done"},
     source \in {0} \union Versions, ofFeature \in BOOLEAN :
    /\ ~item.exists /\ (actor = "agent" => status # "done")
    /\ ChecksItem([NoItem EXCEPT !.exists = TRUE, !.owner = owner, !.status = status, !.source = source,
                     !.ofFeature = ofFeature, !.createdBy = actor], actor, FALSE)

\* Who saves a done item has completed it.
Signed(x, actor) == [x EXCEPT !.doneBy = IF x.status = "done" THEN actor ELSE "nobody"]

\* The patches of one field; a patch of several is as good as one after another.
Patches(x) ==
  {[x EXCEPT !.owner = owner] : owner \in Owners \union {NoOwner}}
  \union {[x EXCEPT !.priority = priority] : priority \in {"unset", "P1"}}
  \union {[x EXCEPT !.status = status] : status \in Statuses}
  \union {[x EXCEPT !.source = source] : source \in {0} \union Versions}
  \union {[x EXCEPT !.inSprint = inSprint] : inSprint \in BOOLEAN}

\* Also of a revoked item, and into a closed Sprint.
UpdateItem(actor) ==
  \E p \in Patches(item) :
    LET x == Signed(p, actor)
    IN  /\ item.exists /\ x # item
        /\ x.status = "done" => item.status \in {"ready_for_test", "done"}
        /\ ChecksItem(x, actor, FALSE)

\* revertWorkItem to a snapshot of its history.
RevertItem(actor) ==
  \E s \in history :
    LET x == [s EXCEPT !.revoked = FALSE]
    IN  /\ item.exists /\ ~item.revoked /\ x # item
        /\ ChecksItem(x, actor, TRUE)

\* The versions are read after the Feature was.
CheckItemSource ==
  LET s == itemTx.row.source
  IN  /\ itemTx.pc = "linked"
      /\ IF itemTx.reverts THEN OnceConfirmed(s) ELSE SourceOk(s)
      /\ itemTx' = [itemTx EXCEPT !.pc = "checked"]
      /\ by' = "nobody"
      /\ UNCHANGED <<specs, feats, item, history, attention, closed, writes>>

\* persistWorkItem, the history, the inbox; commit.  A new item that refers to
\* the Feature waits for a transaction that has locked the Feature's row.
SaveItem ==
  LET x == itemTx.row
  IN  /\ itemTx.pc = "checked" /\ itemTx' = NoItemTx
      /\ ~item.exists /\ x.ofFeature => featureTx = NoFeatureTx
      /\ item' = x /\ history' = history \union {x}
      /\ Asks("item", ItemUndecided(x))
      /\ by' = itemTx.by
      /\ UNCHANGED <<specs, feats, closed, writes>>

RevokeItem(actor) ==
  LET x == [item EXCEPT !.revoked = TRUE]
  IN  /\ itemTx = NoItemTx /\ item.exists /\ ~item.revoked /\ Call
      /\ actor = "agent" => item.createdBy = "agent"
      /\ item' = x /\ history' = history \union {x}
      /\ Asks("item", FALSE)
      /\ by' = actor
      /\ UNCHANGED <<specs, feats, itemTx, closed>>

\* closeSprint, or closeProgramIncrement of the one the Sprint is in, carries
\* unfinished work over, without an entry in its history.  Its UPDATE waits for
\* who has locked a row it selects.
CloseSprint ==
  LET carried == item.inSprint /\ item.status # "done" /\ ~item.revoked
  IN  /\ ~closed /\ closed' = TRUE /\ Call
      /\ carried => itemTx = NoItemTx
      /\ item' = IF carried THEN [item EXCEPT !.inSprint = FALSE, !.carryover = TRUE, !.status = "in_progress"]
                  ELSE item
      /\ by' = "human"
      /\ UNCHANGED <<specs, feats, itemTx, history, attention>>

-----------------------------------------------------------------------------
\* A check fails or the connection breaks: the transaction is rolled back.
RollBack ==
  /\ \/ featureTx # NoFeatureTx /\ featureTx' = NoFeatureTx /\ UNCHANGED itemTx
     \/ itemTx # NoItemTx /\ itemTx' = NoItemTx /\ UNCHANGED featureTx
  /\ by' = "nobody"
  /\ UNCHANGED <<specs, feature, featureHistory, item, history, attention, closed, writes>>

Next ==
  \/ \E r \in Versions : ConfirmRev(r) \/ RevokeRev(r)
  \/ SaveFeature \/ CheckItemSource \/ SaveItem \/ CloseSprint \/ RollBack
  \/ \E actor \in Actors :
       \/ CreateFeature(actor) \/ UpdateFeature(actor) \/ RevertFeature(actor) \/ RevokeFeature(actor)
       \/ CreateItem(actor) \/ UpdateItem(actor) \/ RevertItem(actor) \/ RevokeItem(actor)

Spec == Init /\ [][Next]_vars

-----------------------------------------------------------------------------
Features ==
  [exists : BOOLEAN, owner : Owners \union {NoOwner}, stage : Stages, source : 0 .. MaxRevisions, revoked : BOOLEAN]
Items ==
  [exists : BOOLEAN, owner : Owners \union {NoOwner}, priority : {"unset", "P1"}, source : 0 .. MaxRevisions,
   revoked : BOOLEAN, status : Statuses, doneBy : Actors \union {"nobody"}, ofFeature : BOOLEAN,
   inSprint : BOOLEAN, carryover : BOOLEAN, createdBy : Actors \union {"nobody"}]

FeatureTxs == [pc : {"none", "checked"}, row : Features, by : Actors \union {"nobody"}, overtaken : BOOLEAN]
ItemTxs ==
  [pc : {"none", "linked", "checked"}, row : Items, by : Actors \union {"nobody"}, reverts : BOOLEAN,
   overtaken : BOOLEAN]

\* Every variable ranges over what its table or transaction can hold.
WorkTypeOK ==
  /\ confirmed \in 0 .. MaxRevisions /\ once \subseteq Versions /\ revokedRevs \subseteq Versions
  /\ feature \in Features /\ featureHistory \subseteq Features /\ featureTx \in FeatureTxs
  /\ item \in Items /\ history \subseteq Items /\ itemTx \in ItemTxs
  /\ attention \subseteq {"feature", "item"} /\ closed \in BOOLEAN
  /\ writes \in 0 .. MaxWrites /\ by \in Actors \union {"nobody"}

\* No Agent decides who owns work, what it is worth or that it is released, not
\* even by reverting it to what it once was.
AgentsDecideNothing ==
  [][by' = "agent" =>
       /\ item.exists => item'.owner = item.owner /\ item'.priority = item.priority
       /\ ~item.exists => item'.owner = NoOwner /\ item'.priority = "unset"
       /\ feature.exists => feature'.owner = feature.owner
       /\ feature'.stage = "released" => feature.stage = "released"]_vars

\* Work is derived from a version that was confirmed at some time; when it is given
\* one that is revoked, the revocation came after the call had read the versions.
SourceIsConfirmed ==
  [][/\ item'.source \notin {0, item.source} =>
          item'.source \in once /\ (item'.source \in revokedRevs => itemTx.overtaken)
     /\ feature'.source \notin {0, feature.source} =>
          feature'.source \in once /\ (feature'.source \in revokedRevs => featureTx.overtaken)]_vars

\* Derived work that lacks an owner or a priority has asked people for it.
DecisionIsAsked ==
  /\ ItemUndecided(item) /\ ~item.revoked => "item" \in attention
  /\ FeatureUndecided(feature) /\ ~feature.revoked => "feature" \in attention

\* Revoked work does not come back.
RevokedForGood ==
  [][(item.revoked => item'.revoked) /\ (feature.revoked => feature'.revoked)]_vars

\* Work is derived from the version that is confirmed, or from one that was.  The
\* code does not keep this, nor the following ones: the README says when.
SourceIsActive ==
  [][/\ item'.source \notin {0, item.source} => item'.source \notin revokedRevs
     /\ feature'.source \notin {0, feature.source} => feature'.source \notin revokedRevs]_vars

\* New work is not linked to a revoked Feature.
LinkIsActive == [][item'.ofFeature /\ ~item.ofFeature => ~feature.revoked]_vars

\* Tested work can be moved to done.
TestedMayBeDone ==
  item.status = "ready_for_test" /\ ~item.revoked => LinkOk(item) /\ SourceOk(item.source)

\* Work that is done was tested.
DoneWasTested == [][item.status # "done" /\ item'.status = "done" => item.status = "ready_for_test"]_vars

\* Who completed done work is recorded, and stays who it was.
DoneIsSigned == item.status = "done" => item.doneBy # "nobody"
DoneStaysSigned == [][item.status = "done" /\ item'.status = "done" => item'.doneBy = item.doneBy]_vars

\* A closed Sprint holds no unfinished work.
ClosedIsFinished == closed /\ item.inSprint /\ ~item.revoked => item.status = "done"

\* People are asked only about work that there is.
AttentionIsDue == "item" \in attention => ~item.revoked
=============================================================================
