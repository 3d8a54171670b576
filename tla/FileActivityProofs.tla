------------------------- MODULE FileActivityProofs -------------------------
(***************************************************************************)
(* Theorems about everything that writes the files of a library: agent     *)
(* deletions are told as they are and never take a new source, and kinds   *)
(* of work that ask for each other never meet in one library.  What the    *)
(* modules of the single components prove holds of their composition.      *)
(***************************************************************************)
EXTENDS FileActivity, FileMovesProofs, AutomationUploadsProofs, WritebacksProofs

----------------------------------------------------------------------------
(* Deletions *)

PlanRow(p) == [planned : BOOLEAN, payload : Payload(p)]
DeleterRow(p) == [pc : DeleterPc, at : Targets(p), stage : [Targets(p) -> DeletionStage]]
CancelRow(p) == [pc : {"idle", "save"}, payload : Payload(p)]
Contents(p) == [Targets(p) -> {"whole", "part", "none", "new"}]

\* What a stage s says of the place c of a target and of its scan request x
TargetTruth(s, c, x) ==
    /\ s \in {"QUEUED", "CANCELLED", "FAILED"} => c = "whole"
    /\ s \in {"FILES_DELETED", "INDEX_PENDING"} => c \in {"none", "new"}
    /\ s = "INDEX_PENDING" => x

\* What the executing request d knows of its target, whose saved stage is s
DeleterOK(pc, m, s) ==
    /\ m \in Blocking => s \in Blocking
    /\ pc = "look" => m = s
    /\ pc \in {"mark", "delete"} => m = "DELETING"
    /\ pc = "mark" => s = "QUEUED"
    /\ pc = "delete" => s = "DELETING"
    /\ pc \in {"deleted", "request"} => m = "FILES_DELETED"
    /\ pc = "settle" => m # "QUEUED"

\* The plan p with payload b, places c, scan requests x and request d; its
\* rows are right unless a cancel overwrote them.
PlanFine(p, b, c, x, d, right) ==
    /\ d.pc \in {"mark", "delete"} => c[d.at] = "whole"
    /\ right =>
          /\ \A t \in Targets(p) : TargetTruth(b.stage[t], c[t], t \in x)
          /\ d.pc # "idle" =>
                /\ b.executing
                /\ \A t \in Targets(p) : t # d.at => d.stage[t] = b.stage[t]
                /\ TargetTruth(d.stage[d.at], c[d.at], d.at \in x)
                /\ DeleterOK(d.pc, d.stage[d.at], b.stage[d.at])

PlanTypes(p, r, c, x, d, k) ==
    /\ r \in PlanRow(p) /\ c \in Contents(p) /\ x \subseteq Targets(p)
    /\ d \in DeleterRow(p) /\ k \in CancelRow(p)

DeletionTypes ==
    /\ DOMAIN deletions = Deletion /\ DOMAIN content = Deletion
    /\ DOMAIN reindexed = Deletion /\ DOMAIN deleter = Deletion
    /\ DOMAIN deleteCancel = Deletion
    /\ \A p \in Deletion :
          PlanTypes(p, deletions[p], content[p], reindexed[p], deleter[p], deleteCancel[p])
    /\ overwritten \subseteq Deletion /\ deletionFaults \in 0..MaxDeletionFault
PlansFine ==
    \A p \in Deletion :
        PlanFine(p, deletions[p].payload, content[p], reindexed[p], deleter[p],
                 p \notin overwritten)
DeletionInv == DeletionTypes /\ PlansFine

\* One plan gets a new row, places, scan requests, execute and cancel request.
OnlyPlan(p, r, c, x, d, k) ==
    /\ DOMAIN deletions' = Deletion /\ DOMAIN content' = Deletion
    /\ DOMAIN reindexed' = Deletion /\ DOMAIN deleter' = Deletion
    /\ DOMAIN deleteCancel' = Deletion
    /\ deletions'[p] = r /\ content'[p] = c /\ reindexed'[p] = x
    /\ deleter'[p] = d /\ deleteCancel'[p] = k
    /\ \A q \in Deletion \ {p} :
          /\ deletions'[q] = deletions[q] /\ content'[q] = content[q]
          /\ reindexed'[q] = reindexed[q] /\ deleter'[q] = deleter[q]
          /\ deleteCancel'[q] = deleteCancel[q]

\* What a step may do to deletions when the libraries busy are taken.
NewSourcesKept ==
    \A p \in Deletion : \A t \in Targets(p) :
        content[p][t] = "new" => content'[p][t] = "new"
DeletesWithin(busy) == \A l : Deleting(l)' => Deleting(l) \/ l \notin busy
GoodDeletion(busy) == DeletionInv' /\ NewSourcesKept /\ DeletesWithin(busy)

\* A step of one plan is judged by that plan.
LEMMA OnePlan ==
    ASSUME DeletionInv, NEW p \in Deletion, NEW busy,
           NEW r, NEW c, NEW x, NEW d, NEW k, OnlyPlan(p, r, c, x, d, k),
           PlanTypes(p, r, c, x, d, k), PlanFine(p, r.payload, c, x, d, p \notin overwritten'),
           overwritten \subseteq overwritten', overwritten' \subseteq overwritten \cup {p},
           deletionFaults' \in 0..MaxDeletionFault,
           \A t \in Targets(p) : content[p][t] = "new" => c[t] = "new",
           p \notin overwritten' => \A t \in Targets(p) : Holding(r.payload, t) =>
               Holding(deletions[p].payload, t) \/ Doomed[p][t] \notin busy
    PROVE  GoodDeletion(busy)
<1>1. DeletionTypes'
  <2>1. ASSUME NEW q \in Deletion
        PROVE  PlanTypes(q, deletions[q], content[q], reindexed[q], deleter[q],
                         deleteCancel[q])'
    <3>1. CASE q = p
      BY <3>1 DEF OnlyPlan, PlanTypes, PlanRow, Contents, Targets, DeleterRow, CancelRow,
         Payload
    <3>2. CASE q # p
      BY <3>2 DEF OnlyPlan, PlanTypes, PlanRow, Contents, Targets, DeleterRow, CancelRow,
         Payload, DeletionInv, DeletionTypes
    <3> QED BY <3>1, <3>2
  <2> QED BY <2>1 DEF DeletionInv, DeletionTypes, OnlyPlan
<1>2. PlansFine'
  <2>1. ASSUME NEW q \in Deletion
        PROVE  PlanFine(q, deletions[q].payload, content[q], reindexed[q], deleter[q],
                        q \notin overwritten)'
    <3>1. CASE q = p
      BY <3>1 DEF OnlyPlan, PlanFine, TargetTruth, DeleterOK, Targets
    <3>2. CASE q # p
      <4>1. q \notin overwritten' <=> q \notin overwritten
        BY <3>2
      <4> QED BY <3>2, <4>1 DEF OnlyPlan, PlanFine, TargetTruth, DeleterOK, Targets,
                 DeletionInv, PlansFine
    <3> QED BY <3>1, <3>2
  <2> QED BY <2>1 DEF PlansFine
<1>3. NewSourcesKept
  BY DEF NewSourcesKept, OnlyPlan
<1>4. DeletesWithin(busy)
  BY DEF DeletesWithin, Deleting, OnlyPlan, Holding, Targets
<1> QED BY <1>1, <1>2, <1>3, <1>4 DEF GoodDeletion, DeletionInv

\* What the invariant says of one plan.
LEMMA OwnPlan ==
    ASSUME DeletionInv, NEW p \in Deletion
    PROVE  /\ PlanTypes(p, deletions[p], content[p], reindexed[p], deleter[p], deleteCancel[p])
           /\ PlanFine(p, deletions[p].payload, content[p], reindexed[p], deleter[p],
                       p \notin overwritten)
           /\ Targets(p) = 1..Len(Doomed[p]) /\ Len(Doomed[p]) \in Nat \ {0}
           /\ deletionFaults \in 0..MaxDeletionFault /\ p \in DOMAIN deletions
           /\ p \in DOMAIN content /\ p \in DOMAIN reindexed /\ p \in DOMAIN deleter
           /\ p \in DOMAIN deleteCancel
BY DeletionAssumption DEF DeletionInv, DeletionTypes, PlansFine, Targets

\* A request that rests is one of the requests.
LEMMA RestingDeleter ==
    ASSUME DeletionInv, NEW p \in Deletion
    PROVE  NoDeleter(p) \in DeleterRow(p) /\ NoDeleter(p).pc = "idle"
BY OwnPlan DEF NoDeleter, NewPayload, DeleterRow, DeleterPc, DeletionStage

\* Planning a deletion, and reading the plan to cancel it.
LEMMA PlanKeeps ==
    ASSUME DeletionInv, NEW p \in Deletion, NEW busy, PlanDeletion(p) \/ CancelDeletion(p)
    PROVE  GoodDeletion(busy)
<1> DEFINE r == deletions'[p]  k == deleteCancel'[p]
<1>1. CASE PlanDeletion(p)
  <2>1. r = [deletions[p] EXCEPT !.planned = TRUE] /\ k = deleteCancel[p]
    BY <1>1, OwnPlan DEF PlanDeletion
  <2>2. r \in PlanRow(p) /\ r.payload = deletions[p].payload
    BY <2>1, OwnPlan DEF PlanTypes, PlanRow
  <2>3. OnlyPlan(p, r, content[p], reindexed[p], deleter[p], k)
    BY <1>1 DEF OnlyPlan, PlanDeletion, DeletionInv, DeletionTypes
  <2>4. overwritten' = overwritten /\ deletionFaults' = deletionFaults
    BY <1>1 DEF PlanDeletion
  <2> HIDE DEF r, k
  <2> QED BY <2>1, <2>2, <2>3, <2>4, OwnPlan, OnePlan DEF PlanTypes
<1>2. CASE CancelDeletion(p)
  <2>1. r = deletions[p] /\ k = [pc |-> "save", payload |-> deletions[p].payload]
    BY <1>2, OwnPlan DEF CancelDeletion
  <2>2. k \in CancelRow(p)
    BY <2>1, OwnPlan DEF PlanTypes, PlanRow, CancelRow
  <2>3. OnlyPlan(p, r, content[p], reindexed[p], deleter[p], k)
    BY <1>2 DEF OnlyPlan, CancelDeletion, DeletionInv, DeletionTypes
  <2>4. overwritten' = overwritten /\ deletionFaults' = deletionFaults
    BY <1>2 DEF CancelDeletion
  <2> HIDE DEF r, k
  <2> QED BY <2>1, <2>2, <2>3, <2>4, OwnPlan, OnePlan DEF PlanTypes
<1> QED BY <1>1, <1>2

\* A cancel that finds the payload it read only raises the flag.
LEMMA SaveCancelKeeps ==
    ASSUME DeletionInv, NEW p \in Deletion, NEW busy, SaveCancel(p)
    PROVE  GoodDeletion(busy)
<1> DEFINE r == deletions'[p]  k == deleteCancel'[p]  read == deleteCancel[p].payload
<1>1. read \in Payload(p)
  BY OwnPlan DEF PlanTypes, CancelRow
<1>2. r = [deletions[p] EXCEPT !.payload = [read EXCEPT !.cancelled = TRUE]]
  BY OwnPlan DEF SaveCancel
<1>3. k = [pc |-> "idle", payload |-> NewPayload(p)]
  BY OwnPlan DEF SaveCancel
<1>4. k \in CancelRow(p)
  BY <1>3 DEF CancelRow, NewPayload, Payload, DeletionStage
<1> DEFINE b == [read EXCEPT !.cancelled = TRUE]
<1>5. /\ b \in Payload(p) /\ b.cancelled /\ b.executing = read.executing
      /\ b.stage = read.stage
  BY <1>1 DEF Payload
<1> HIDE DEF b
<1>6. r \in PlanRow(p) /\ r.payload = b
  BY <1>2, <1>5, OwnPlan DEF PlanTypes, PlanRow, b
<1>7. OnlyPlan(p, r, content[p], reindexed[p], deleter[p], k)
  BY DEF OnlyPlan, SaveCancel, DeletionInv, DeletionTypes
<1>8. /\ overwritten \subseteq overwritten' /\ overwritten' \subseteq overwritten \cup {p}
      /\ deletionFaults' = deletionFaults
      /\ p \notin overwritten' => p \notin overwritten /\ deletions[p].payload = read
  BY DEF SaveCancel
<1> HIDE DEF r, k
<1>9. PlanFine(p, b, content[p], reindexed[p], deleter[p], p \notin overwritten')
  BY <1>5, <1>8, OwnPlan DEF PlanFine
<1> QED BY <1>4, <1>5, <1>6, <1>7, <1>8, <1>9, OwnPlan, OnePlan DEF PlanTypes, Holding

\* Starting to execute asks for the libraries, unless the plan was executing.
LEMMA StartKeeps ==
    ASSUME DeletionInv, NEW p \in Deletion, NEW busy, StartDeletion(p, busy)
    PROVE  GoodDeletion(busy)
<1> DEFINE r == deletions'[p]  d == deleter'[p]  b == deletions[p].payload
<1>1. r = [deletions[p] EXCEPT !.payload.executing = TRUE, !.payload.stage = b.stage]
  BY OwnPlan DEF StartDeletion, SavePlan
<1>2. b \in Payload(p) /\ deletions[p] \in PlanRow(p)
  BY OwnPlan DEF PlanTypes, PlanRow
<1>3. /\ r \in PlanRow(p) /\ r.payload.stage = b.stage /\ r.payload.executing
      /\ r.payload.cancelled = b.cancelled
  BY <1>1, <1>2 DEF PlanRow, Payload
<1>4. d = [pc |-> "look", at |-> 1, stage |-> b.stage]
  BY OwnPlan DEF StartDeletion
<1>5. d \in DeleterRow(p) /\ d.pc = "look" /\ d.stage = b.stage
  BY <1>2, <1>4, OwnPlan DEF DeleterRow, DeleterPc, Payload
<1>6. OnlyPlan(p, r, content[p], reindexed[p], d, deleteCancel[p])
  BY DEF OnlyPlan, StartDeletion, SavePlan, DeletionInv, DeletionTypes
<1>7. /\ overwritten' = overwritten /\ deletionFaults' = deletionFaults
      /\ b.executing \/ DoomedLibraries(p) \cap busy = {}
  BY DEF StartDeletion, MayExecute
<1> HIDE DEF r, d
<1>8. d.at \in Targets(p)
  BY <1>5 DEF DeleterRow
<1>9. PlanFine(p, r.payload, content[p], reindexed[p], d, p \notin overwritten)
  BY <1>3, <1>5, <1>8, OwnPlan DEF PlanFine, DeleterOK
<1>10. \A t \in Targets(p) :
          Holding(r.payload, t) => Holding(b, t) \/ Doomed[p][t] \notin busy
  BY <1>3, <1>7 DEF Holding, DoomedLibraries
<1> QED BY <1>3, <1>5, <1>6, <1>7, <1>9, <1>10, OwnPlan, OnePlan DEF PlanTypes

\* A request that rests, or goes on in memory only, changes no plan.
LEMMA InMemory ==
    ASSUME DeletionInv, NEW p \in Deletion, NEW busy, NEW d \in DeleterRow(p),
           deleter' = [deleter EXCEPT ![p] = d], deletionFaults' \in 0..MaxDeletionFault,
           UNCHANGED <<deletions, content, reindexed, deleteCancel, overwritten>>,
           PlanFine(p, deletions[p].payload, content[p], reindexed[p], d, p \notin overwritten)
    PROVE  GoodDeletion(busy)
<1>1. OnlyPlan(p, deletions[p], content[p], reindexed[p], d, deleteCancel[p])
  BY OwnPlan DEF OnlyPlan, DeletionInv, DeletionTypes
<1> QED BY <1>1, OwnPlan, OnePlan DEF PlanTypes

\* The request looks at a next target with stages m, or rests.
Onward(p, d, m) ==
    \/ d \in DeleterRow(p) /\ d.pc = "look" /\ d.stage = m
    \/ d = NoDeleter(p)

\* The next target, whatever is saved of the plan, when memory and plan agree.
LEMMA NextFine ==
    ASSUME DeletionInv, NEW p \in Deletion, NEW b, NEW c, NEW x, NEW right, NEW d, NEW m,
           Onward(p, d, m), right => b.executing,
           right => \A t \in Targets(p) : m[t] = b.stage[t],
           right => \A t \in Targets(p) : TargetTruth(b.stage[t], c[t], t \in x)
    PROVE  d \in DeleterRow(p) /\ PlanFine(p, b, c, x, d, right)
<1>1. CASE d \in DeleterRow(p) /\ d.pc = "look" /\ d.stage = m
  <2>1. d.at \in Targets(p)
    BY <1>1 DEF DeleterRow
  <2> QED BY <1>1, <2>1 DEF PlanFine, DeleterOK
<1>2. CASE d = NoDeleter(p)
  BY <1>2, RestingDeleter DEF PlanFine
<1> QED BY <1>1, <1>2 DEF Onward

\* NextTarget keeps what the request remembers.
LEMMA NextTargetIs ==
    ASSUME DeletionInv, NEW p \in Deletion, NextTarget(p)
    PROVE  \E d : deleter' = [deleter EXCEPT ![p] = d] /\ Onward(p, d, deleter[p].stage)
<1>1. deleter[p] \in DeleterRow(p) /\ deleter[p].at \in 1..Len(Doomed[p])
      /\ Len(Doomed[p]) \in Nat /\ Targets(p) = 1..Len(Doomed[p])
  BY OwnPlan DEF PlanTypes, DeleterRow
<1>2. CASE deleter[p].at < Len(Doomed[p])
  <2> DEFINE d == [deleter[p] EXCEPT !.pc = "look", !.at = deleter[p].at + 1]
  <2>1. deleter' = [deleter EXCEPT ![p] = d]
    BY <1>2 DEF NextTarget
  <2>2. deleter[p].at + 1 \in Targets(p)
    BY <1>1, <1>2
  <2>3. d \in DeleterRow(p) /\ d.pc = "look" /\ d.stage = deleter[p].stage
    BY <1>1, <2>2 DEF DeleterRow, DeleterPc
  <2> QED BY <2>1, <2>3 DEF Onward
<1>3. CASE ~(deleter[p].at < Len(Doomed[p]))
  BY <1>3 DEF NextTarget, Onward
<1> QED BY <1>2, <1>3

\* A target that is settled is passed over.
LEMMA SkipKeeps ==
    ASSUME DeletionInv, NEW p \in Deletion, NEW busy, SkipTarget(p)
    PROVE  GoodDeletion(busy)
<1>1. PICK d : deleter' = [deleter EXCEPT ![p] = d] /\ Onward(p, d, deleter[p].stage)
  BY NextTargetIs DEF SkipTarget
<1>2. /\ UNCHANGED <<deletions, content, reindexed, deleteCancel, overwritten, deletionFaults>>
      /\ deleter[p].pc = "look"
  BY DEF SkipTarget, DeleterAt
<1>4. p \notin overwritten =>
         /\ deletions[p].payload.executing
         /\ \A t \in Targets(p) : /\ deleter[p].stage[t] = deletions[p].payload.stage[t]
                                  /\ TargetTruth(deletions[p].payload.stage[t], content[p][t],
                                                 t \in reindexed[p])
  BY <1>2, OwnPlan DEF PlanFine, DeleterOK
<1>5. /\ d \in DeleterRow(p)
      /\ PlanFine(p, deletions[p].payload, content[p], reindexed[p], d, p \notin overwritten)
  BY <1>1, <1>4, NextFine
<1> QED BY <1>1, <1>2, <1>5, OwnPlan, InMemory

\* Turn changes the request's place and the stage it remembers of its target.
LEMMA TurnIs ==
    ASSUME DeletionInv, NEW p \in Deletion, NEW pc \in DeleterPc, NEW s \in DeletionStage,
           Turn(p, pc, s)
    PROVE  \E d \in DeleterRow(p) :
              /\ deleter' = [deleter EXCEPT ![p] = d]
              /\ d.pc = pc /\ d.at = deleter[p].at /\ d.stage[d.at] = s
              /\ \A t \in Targets(p) : t # d.at => d.stage[t] = deleter[p].stage[t]
<1> DEFINE i == deleter[p].at
           d == [[deleter[p] EXCEPT !.pc = pc] EXCEPT !.stage[i] = s]
<1>1. deleter[p] \in DeleterRow(p) /\ i \in Targets(p) /\ p \in DOMAIN deleter
  BY OwnPlan DEF PlanTypes, DeleterRow
<1>2. deleter' = [deleter EXCEPT ![p] = d]
  BY <1>1 DEF Turn
<1>3. [deleter[p] EXCEPT !.pc = pc] \in DeleterRow(p)
  BY <1>1 DEF DeleterRow
<1>4. /\ d \in DeleterRow(p) /\ d.pc = pc /\ d.at = i /\ d.stage[i] = s
      /\ \A t \in Targets(p) : t # i => d.stage[t] = deleter[p].stage[t]
  BY <1>1, <1>3 DEF DeleterRow
<1> HIDE DEF d
<1> QED BY <1>2, <1>4

\* Looking at a target decides on it in memory.
LEMMA LookTargetKeeps ==
    ASSUME DeletionInv, NEW p \in Deletion, NEW busy, LookTarget(p)
    PROVE  GoodDeletion(busy)
<1> DEFINE i == deleter[p].at  m == deleter[p].stage[deleter[p].at]
           s == deletions[p].payload.stage[deleter[p].at]
<1>1. /\ UNCHANGED <<deletions, content, reindexed, deleteCancel, overwritten, deletionFaults>>
      /\ deleter[p].pc = "look"
  BY DEF LookTarget, DeleterAt
<1>2. i \in Targets(p)
  BY OwnPlan DEF PlanTypes, DeleterRow
<1>3. p \notin overwritten =>
         /\ deletions[p].payload.executing /\ m = s
         /\ TargetTruth(s, content[p][i], i \in reindexed[p])
         /\ \A t \in Targets(p) : t # i => deleter[p].stage[t] = deletions[p].payload.stage[t]
  BY <1>1, <1>2, OwnPlan DEF PlanFine, DeleterOK
<1>4. ASSUME NEW pc \in DeleterPc, NEW n \in DeletionStage, Turn(p, pc, n), pc # "idle",
             pc \in {"mark", "delete"} => content[p][i] = "whole",
             p \notin overwritten =>
                 DeleterOK(pc, n, s) /\ TargetTruth(n, content[p][i], i \in reindexed[p])
      PROVE  GoodDeletion(busy)
  <2>1. PICK d \in DeleterRow(p) :
              /\ deleter' = [deleter EXCEPT ![p] = d]
              /\ d.pc = pc /\ d.at = deleter[p].at /\ d.stage[d.at] = n
              /\ \A t \in Targets(p) : t # d.at => d.stage[t] = deleter[p].stage[t]
    BY <1>4, TurnIs
  <2>2. PlanFine(p, deletions[p].payload, content[p], reindexed[p], d, p \notin overwritten)
    BY <1>3, <1>4, <2>1, OwnPlan DEF PlanFine
  <2> QED BY <1>1, <2>1, <2>2, OwnPlan, InMemory
<1>5. CASE m = "DELETING" /\ Turn(p, "settle", "DELETING")
  BY <1>3, <1>4, <1>5 DEF DeleterOK, TargetTruth, DeleterPc, DeletionStage, Blocking
<1>6. CASE m = "FILES_DELETED" /\ Turn(p, "request", "FILES_DELETED")
  BY <1>3, <1>4, <1>6 DEF DeleterOK, TargetTruth, DeleterPc, DeletionStage, Blocking
<1>7. CASE m = "QUEUED" /\ \E v \in {"CANCELLED", "FAILED"} : Turn(p, "settle", v)
  BY <1>3, <1>4, <1>7 DEF DeleterOK, TargetTruth, DeleterPc, DeletionStage, Blocking
<1>8. CASE m = "QUEUED" /\ content[p][i] = "whole" /\ Turn(p, "mark", "DELETING")
  BY <1>3, <1>4, <1>8 DEF DeleterOK, TargetTruth, DeleterPc, DeletionStage, Blocking
<1> QED BY <1>5, <1>6, <1>7, <1>8 DEF LookTarget, Mine

\* Saving a plan writes the stages and lets the flag of a cancel stand.
LEMMA SavePlanIs ==
    ASSUME DeletionInv, NEW p \in Deletion, NEW m \in [Targets(p) -> DeletionStage],
           SavePlan(p, m)
    PROVE  \E r \in PlanRow(p) :
              /\ deletions' = [deletions EXCEPT ![p] = r]
              /\ r.payload.executing /\ r.payload.stage = m
              /\ r.payload.cancelled = deletions[p].payload.cancelled
<1> DEFINE r == [[deletions[p] EXCEPT !.payload.executing = TRUE] EXCEPT !.payload.stage = m]
<1>1. deletions[p] \in PlanRow(p) /\ p \in DOMAIN deletions
  BY OwnPlan DEF PlanTypes
<1>2. deletions' = [deletions EXCEPT ![p] = r]
  BY <1>1 DEF SavePlan
<1>3. /\ r \in PlanRow(p) /\ r.payload.executing /\ r.payload.stage = m
      /\ r.payload.cancelled = deletions[p].payload.cancelled
  BY <1>1 DEF PlanRow, Payload
<1> HIDE DEF r
<1> QED BY <1>2, <1>3

\* A saved plan, scan requests and a request that goes on.
LEMMA PlanSaved ==
    ASSUME DeletionInv, NEW p \in Deletion, NEW busy,
           NEW m \in [Targets(p) -> DeletionStage], SavePlan(p, m),
           NEW d \in DeleterRow(p), deleter' = [deleter EXCEPT ![p] = d],
           NEW x \in SUBSET Targets(p), DOMAIN reindexed' = Deletion, reindexed'[p] = x,
           \A q \in Deletion \ {p} : reindexed'[q] = reindexed[q],
           UNCHANGED <<content, deleteCancel, overwritten, deletionFaults>>,
           deleter[p].pc # "idle",
           p \notin overwritten => \A t \in Targets(p) : m[t] \in Blocking =>
               deletions[p].payload.stage[t] \in Blocking,
           \A b \in Payload(p) : b.executing /\ b.stage = m =>
               PlanFine(p, b, content[p], x, d, p \notin overwritten)
    PROVE  GoodDeletion(busy)
<1>1. PICK r \in PlanRow(p) :
              /\ deletions' = [deletions EXCEPT ![p] = r]
              /\ r.payload.executing /\ r.payload.stage = m
              /\ r.payload.cancelled = deletions[p].payload.cancelled
  BY SavePlanIs
<1>2. r.payload \in Payload(p)
  BY DEF PlanRow
<1>3. OnlyPlan(p, r, content[p], x, d, deleteCancel[p])
  BY <1>1 DEF OnlyPlan, DeletionInv, DeletionTypes
<1>4. p \notin overwritten => \A t \in Targets(p) :
          Holding(r.payload, t) => Holding(deletions[p].payload, t)
  BY <1>1, OwnPlan DEF Holding, PlanFine
<1> QED BY <1>1, <1>2, <1>3, <1>4, OwnPlan, OnePlan DEF PlanTypes

\* What a request under way knows: its plan is executing, and where it differs
\* from what is saved is its target.
LEMMA UnderwayPlan ==
    ASSUME DeletionInv, NEW p \in Deletion, deleter[p].pc # "idle"
    PROVE  /\ deleter[p] \in DeleterRow(p) /\ deleter[p].at \in Targets(p)
           /\ deleter[p].stage \in [Targets(p) -> DeletionStage]
           /\ reindexed[p] \in SUBSET Targets(p)
           /\ p \notin overwritten =>
                 /\ deletions[p].payload.executing
                 /\ \A t \in Targets(p) :
                       /\ TargetTruth(deleter[p].stage[t], content[p][t], t \in reindexed[p])
                       /\ deleter[p].stage[t] \in Blocking =>
                              deletions[p].payload.stage[t] \in Blocking
<1>1. /\ deleter[p] \in DeleterRow(p) /\ deleter[p].at \in Targets(p)
      /\ deleter[p].stage \in [Targets(p) -> DeletionStage]
      /\ reindexed[p] \in SUBSET Targets(p)
  BY OwnPlan DEF PlanTypes, DeleterRow
<1>2. p \notin overwritten =>
         /\ deletions[p].payload.executing
         /\ \A t \in Targets(p) :
               /\ TargetTruth(deleter[p].stage[t], content[p][t], t \in reindexed[p])
               /\ deleter[p].stage[t] \in Blocking =>
                      deletions[p].payload.stage[t] \in Blocking
  BY OwnPlan DEF PlanFine, DeleterOK
<1> QED BY <1>1, <1>2

\* Saving what the request remembers, then going on with the same target.
LEMMA MarkKeeps ==
    ASSUME DeletionInv, NEW p \in Deletion, NEW busy,
           MarkTarget(p, busy) \/ SaveRemoved(p, busy)
    PROVE  GoodDeletion(busy)
<1> DEFINE pc == IF deleter[p].pc = "mark" THEN "delete" ELSE "request"
           n == IF deleter[p].pc = "mark" THEN "DELETING" ELSE "FILES_DELETED"
           m == deleter[p].stage
<1>1. /\ deleter[p].pc \in {"mark", "deleted"}
      /\ UNCHANGED <<content, reindexed, deleteCancel, overwritten, deletionFaults>>
      /\ IF MayExecute(p, busy) THEN SavePlan(p, m) /\ Turn(p, pc, n)
         ELSE Turn(p, "settle", n) /\ UNCHANGED deletions
  BY DEF MarkTarget, SaveRemoved, DeleterAt
<1>2. p \notin overwritten => m[deleter[p].at] = n
  BY <1>1, OwnPlan DEF PlanFine, DeleterOK
<1>3. n \in DeletionStage /\ pc \in DeleterPc /\ "settle" \in DeleterPc /\ n # "QUEUED"
  BY DEF DeletionStage, DeleterPc
<1>4. \A d \in DeleterRow(p) :
         /\ d.at = deleter[p].at /\ d.stage[d.at] = n
         /\ \A t \in Targets(p) : t # d.at => d.stage[t] = m[t]
         /\ p \notin overwritten
         => \A t \in Targets(p) : d.stage[t] = m[t]
  BY <1>2
<1>5. CASE MayExecute(p, busy)
  <2>1. PICK d \in DeleterRow(p) :
              /\ deleter' = [deleter EXCEPT ![p] = d]
              /\ d.pc = pc /\ d.at = deleter[p].at /\ d.stage[d.at] = n
              /\ \A t \in Targets(p) : t # d.at => d.stage[t] = m[t]
    BY <1>1, <1>3, <1>5, TurnIs
  <2>2. p \notin overwritten => \A t \in Targets(p) : d.stage[t] = m[t]
    BY <1>4, <2>1
  <2>3. pc = "delete" => content[p][d.at] = "whole"
    BY <1>1, <2>1, OwnPlan DEF PlanFine
  <2>4. ASSUME NEW b \in Payload(p), b.executing, b.stage = m
        PROVE  PlanFine(p, b, content[p], reindexed[p], d, p \notin overwritten)
    BY <1>1, <1>2, <2>1, <2>2, <2>3, <2>4, UnderwayPlan DEF PlanFine, DeleterOK, Blocking
  <2>5. DOMAIN reindexed' = Deletion /\ reindexed' = reindexed
    BY <1>1 DEF DeletionInv, DeletionTypes
  <2> HIDE DEF pc, n
  <2> QED BY <1>1, <1>5, <2>1, <2>4, <2>5, UnderwayPlan, PlanSaved
<1>6. CASE ~MayExecute(p, busy)
  <2>1. PICK d \in DeleterRow(p) :
              /\ deleter' = [deleter EXCEPT ![p] = d]
              /\ d.pc = "settle" /\ d.at = deleter[p].at /\ d.stage[d.at] = n
              /\ \A t \in Targets(p) : t # d.at => d.stage[t] = m[t]
    BY <1>1, <1>3, <1>6, TurnIs
  <2>2. p \in overwritten
    BY <1>1, <1>6, UnderwayPlan DEF MayExecute
  <2>3. PlanFine(p, deletions[p].payload, content[p], reindexed[p], d, p \notin overwritten)
    BY <2>1, <2>2 DEF PlanFine
  <2> QED BY <1>1, <1>6, <2>1, <2>3, OwnPlan, InMemory
<1> QED BY <1>5, <1>6

\* Removing a target that is whole and saved as DELETING.
LEMMA RemoveTargetKeeps ==
    ASSUME DeletionInv, NEW p \in Deletion, NEW busy, RemoveTarget(p)
    PROVE  GoodDeletion(busy)
<1> DEFINE i == deleter[p].at
<1>1. /\ deleter[p].pc = "delete"
      /\ UNCHANGED <<deletions, reindexed, deleteCancel, overwritten, deletionFaults>>
  BY DEF RemoveTarget, DeleterAt
<1>2. PICK rest \in {"whole", "part", "none"} :
          /\ content' = [content EXCEPT ![p][i] = rest]
          /\ \/ rest = "none" /\ Turn(p, "deleted", "FILES_DELETED")
             \/ Turn(p, "settle", "DELETING")
  BY DEF RemoveTarget
<1>3. PICK d \in DeleterRow(p) :
          /\ deleter' = [deleter EXCEPT ![p] = d]
          /\ d.at = i /\ \A t \in Targets(p) : t # d.at => d.stage[t] = deleter[p].stage[t]
          /\ \/ rest = "none" /\ d.pc = "deleted" /\ d.stage[i] = "FILES_DELETED"
             \/ d.pc = "settle" /\ d.stage[i] = "DELETING"
  BY <1>2, TurnIs DEF DeleterPc, DeletionStage
<1>4. content[p] \in Contents(p) /\ i \in Targets(p) /\ content[p][i] = "whole"
  BY <1>1, UnderwayPlan, OwnPlan DEF PlanTypes, PlanFine
<1>5. /\ content'[p] \in Contents(p) /\ content'[p][i] = rest
      /\ \A t \in Targets(p) : t # i => content'[p][t] = content[p][t]
  BY <1>2, <1>4, OwnPlan DEF Contents
<1>6. OnlyPlan(p, deletions[p], content'[p], reindexed[p], d, deleteCancel[p])
  BY <1>1, <1>2, <1>3 DEF OnlyPlan, DeletionInv, DeletionTypes
<1> DEFINE c == content'[p]
<1> HIDE DEF c
<1>7. PlanFine(p, deletions[p].payload, c, reindexed[p], d, p \notin overwritten)
  <2>1. p \notin overwritten =>
           /\ deletions[p].payload.executing
           /\ deletions[p].payload.stage[i] = "DELETING"
           /\ \A t \in Targets(p) : t # i => deleter[p].stage[t] = deletions[p].payload.stage[t]
           /\ \A t \in Targets(p) :
                 TargetTruth(deletions[p].payload.stage[t], content[p][t], t \in reindexed[p])
    BY <1>1, OwnPlan DEF PlanFine, DeleterOK
  <2>2. p \notin overwritten => \A t \in Targets(p) :
           TargetTruth(deletions[p].payload.stage[t], c[t], t \in reindexed[p])
    BY <1>5, <2>1 DEF TargetTruth, c
  <2> QED BY <1>3, <1>5, <2>1, <2>2 DEF PlanFine, TargetTruth, DeleterOK, Blocking, c
<1>8. \A t \in Targets(p) : content[p][t] = "new" => c[t] = "new"
  BY <1>4, <1>5 DEF c
<1>9. c \in Contents(p)
  BY <1>5 DEF c
<1> QED BY <1>1, <1>6, <1>7, <1>8, <1>9, OwnPlan, OnePlan DEF PlanTypes, c

\* A target is handed to the index, or the request to settle it.
LEMMA RequestKeeps ==
    ASSUME DeletionInv, NEW p \in Deletion, NEW busy, RequestScan(p, busy)
    PROVE  GoodDeletion(busy)
<1> DEFINE i == deleter[p].at
           m == [deleter[p].stage EXCEPT ![i] = "INDEX_PENDING"]
           x == reindexed[p] \cup {i}
<1>1. /\ deleter[p].pc = "request"
      /\ UNCHANGED <<content, deleteCancel, overwritten, deletionFaults>>
  BY DEF RequestScan, DeleterAt
<1>2. i \in Targets(p) /\ Targets(p) = 1..Len(Doomed[p]) /\ Len(Doomed[p]) \in Nat
  BY <1>1, UnderwayPlan, OwnPlan
<1>3. p \notin overwritten => deleter[p].stage[i] = "FILES_DELETED"
  BY <1>1, OwnPlan DEF PlanFine, DeleterOK
<1>4. CASE /\ SavePlan(p, m) /\ reindexed' = [reindexed EXCEPT ![p] = @ \cup {i}]
           /\ deleter' = [deleter EXCEPT ![p] =
                 IF i < Len(Doomed[p]) THEN [pc |-> "look", at |-> i + 1, stage |-> m]
                 ELSE NoDeleter(p)]
  <2>1. /\ m \in [Targets(p) -> DeletionStage] /\ m[i] = "INDEX_PENDING"
        /\ \A t \in Targets(p) : t # i => m[t] = deleter[p].stage[t]
    BY <1>1, <1>2, UnderwayPlan DEF DeletionStage
  <2> DEFINE d == IF i < Len(Doomed[p]) THEN [pc |-> "look", at |-> i + 1, stage |-> m]
                  ELSE NoDeleter(p)
  <2>2. deleter' = [deleter EXCEPT ![p] = d]
    BY <1>4
  <2>3. Onward(p, d, m)
    <3>1. CASE i < Len(Doomed[p])
      <4>1. i + 1 \in Targets(p)
        BY <1>2, <3>1
      <4> HIDE DEF m
      <4> QED BY <2>1, <3>1, <4>1 DEF Onward, DeleterRow, DeleterPc
    <3>2. CASE ~(i < Len(Doomed[p]))
      BY <3>2 DEF Onward
    <3> QED BY <3>1, <3>2
  <2>4. /\ DOMAIN reindexed' = Deletion /\ reindexed'[p] = x
        /\ \A q \in Deletion \ {p} : reindexed'[q] = reindexed[q]
    BY <1>4 DEF DeletionInv, DeletionTypes
  <2>5. x \in SUBSET Targets(p)
    BY <1>1, <1>2, UnderwayPlan
  <2>9. SavePlan(p, m)
    BY <1>4
  <2> HIDE DEF m, d, x
  <2>6. p \notin overwritten =>
           \A t \in Targets(p) : /\ TargetTruth(m[t], content[p][t], t \in x)
                                 /\ m[t] \in Blocking =>
                                        deletions[p].payload.stage[t] \in Blocking
    BY <1>1, <1>3, <2>1, UnderwayPlan DEF TargetTruth, Blocking, x
  <2>7. ASSUME NEW b \in Payload(p), b.executing, b.stage = m
        PROVE  PlanFine(p, b, content[p], x, d, p \notin overwritten)
    BY <2>1, <2>3, <2>6, <2>7, NextFine
  <2>8. d \in DeleterRow(p)
    BY <2>3, RestingDeleter DEF Onward
  <2> QED BY <1>1, <2>1, <2>2, <2>4, <2>5, <2>6, <2>7, <2>8, <2>9, PlanSaved
<1>5. CASE Turn(p, "settle", "FILES_DELETED") /\ UNCHANGED <<deletions, reindexed>>
  <2>1. PICK d \in DeleterRow(p) :
          /\ deleter' = [deleter EXCEPT ![p] = d]
          /\ d.pc = "settle" /\ d.at = i /\ d.stage[d.at] = "FILES_DELETED"
          /\ \A t \in Targets(p) : t # d.at => d.stage[t] = deleter[p].stage[t]
    BY <1>5, TurnIs DEF DeleterPc, DeletionStage
  <2>2. PlanFine(p, deletions[p].payload, content[p], reindexed[p], d, p \notin overwritten)
    BY <1>1, <1>3, <2>1, OwnPlan DEF PlanFine, DeleterOK, Blocking
  <2> QED BY <1>1, <1>5, <2>1, <2>2, OwnPlan, InMemory
<1> QED BY <1>4, <1>5 DEF RequestScan

\* Saving what became of a target, and going on.
LEMMA SettleTargetKeeps ==
    ASSUME DeletionInv, NEW p \in Deletion, NEW busy, SettleTarget(p, busy)
    PROVE  GoodDeletion(busy)
<1> DEFINE m == deleter[p].stage
<1>1. /\ deleter[p].pc = "settle"
      /\ UNCHANGED <<content, reindexed, deleteCancel, overwritten, deletionFaults>>
  BY DEF SettleTarget, DeleterAt
<1>2. CASE SavePlan(p, m) /\ NextTarget(p)
  <2>1. PICK d : deleter' = [deleter EXCEPT ![p] = d] /\ Onward(p, d, m)
    BY <1>2, NextTargetIs
  <2>2. d \in DeleterRow(p)
    BY <2>1, RestingDeleter DEF Onward
  <2>3. ASSUME NEW b \in Payload(p), b.executing, b.stage = m
        PROVE  PlanFine(p, b, content[p], reindexed[p], d, p \notin overwritten)
    BY <1>1, <2>1, <2>3, UnderwayPlan, NextFine
  <2>4. DOMAIN reindexed' = Deletion /\ reindexed' = reindexed
    BY <1>1 DEF DeletionInv, DeletionTypes
  <2> QED BY <1>1, <1>2, <2>1, <2>2, <2>3, <2>4, UnderwayPlan, PlanSaved
<1>3. CASE deleter' = [deleter EXCEPT ![p] = NoDeleter(p)] /\ UNCHANGED deletions
  <2>1. PlanFine(p, deletions[p].payload, content[p], reindexed[p], NoDeleter(p),
                 p \notin overwritten)
    BY OwnPlan, RestingDeleter DEF PlanFine
  <2> QED BY <1>1, <1>3, <2>1, RestingDeleter, OwnPlan, InMemory
<1> QED BY <1>2, <1>3 DEF SettleTarget

\* Errors, the death of the process, and a new source.
LEMMA DeletionFaultsKeep ==
    ASSUME DeletionInv, NEW p \in Deletion, NEW busy,
           DeletionEscapes(p) \/ CrashDeleters \/ NewSource(p)
    PROVE  GoodDeletion(busy)
<1>1. deletionFaults < MaxDeletionFault => deletionFaults + 1 \in 0..MaxDeletionFault
  BY OwnPlan, DeletionAssumption
<1>2. CASE DeletionEscapes(p)
  <2>1. PlanFine(p, deletions[p].payload, content[p], reindexed[p], NoDeleter(p),
                 p \notin overwritten)
    BY OwnPlan, RestingDeleter DEF PlanFine
  <2> QED BY <1>1, <1>2, <2>1, RestingDeleter, InMemory DEF DeletionEscapes
<1>3. CASE CrashDeleters
  <2>1. /\ deleter' = [q \in Deletion |-> NoDeleter(q)]
        /\ deleteCancel' = [q \in Deletion |-> [pc |-> "idle", payload |-> NewPayload(q)]]
        /\ UNCHANGED <<deletions, content, reindexed, overwritten>>
        /\ deletionFaults' \in 0..MaxDeletionFault
    BY <1>1, <1>3 DEF CrashDeleters
  <2>2. \A q \in Deletion : deleteCancel'[q] \in CancelRow(q)
    BY <2>1 DEF CancelRow, NewPayload, Payload, DeletionStage
  <2>3. \A q \in Deletion : deleter'[q] \in DeleterRow(q) /\ deleter'[q].pc = "idle"
    BY <2>1, RestingDeleter
  <2>4. DOMAIN deleter' = Deletion /\ DOMAIN deleteCancel' = Deletion
    BY <2>1
  <2>5. DeletionTypes'
    BY <2>1, <2>2, <2>3, <2>4 DEF DeletionInv, DeletionTypes, PlanTypes, PlanRow, Contents,
       DeleterRow, CancelRow, Payload, Targets
  <2>6. PlansFine'
    BY <2>1, <2>3 DEF DeletionInv, PlansFine, PlanFine, Targets, TargetTruth
  <2> QED BY <2>1, <2>5, <2>6 DEF GoodDeletion, DeletionInv, NewSourcesKept, DeletesWithin,
             Deleting, Holding, Targets
<1>4. CASE NewSource(p)
  <2>1. PICK t \in Targets(p) :
              content[p][t] = "none" /\ content' = [content EXCEPT ![p][t] = "new"]
    BY <1>4 DEF NewSource
  <2> DEFINE c == content'[p]
  <2>2. UNCHANGED <<deletions, reindexed, deleter, deleteCancel, overwritten, deletionFaults>>
    BY <1>4 DEF NewSource
  <2>3. /\ c \in Contents(p) /\ c[t] = "new"
        /\ \A u \in Targets(p) : u # t => c[u] = content[p][u]
    BY <2>1, OwnPlan DEF PlanTypes, Contents
  <2>4. OnlyPlan(p, deletions[p], c, reindexed[p], deleter[p], deleteCancel[p])
    BY <2>1, <2>2 DEF OnlyPlan, DeletionInv, DeletionTypes
  <2> HIDE DEF c
  <2>5. deleter[p].at \in Targets(p)
    BY OwnPlan DEF PlanTypes, DeleterRow
  <2>6. PlanFine(p, deletions[p].payload, c, reindexed[p], deleter[p], p \notin overwritten)
    BY <2>1, <2>3, <2>5, OwnPlan DEF PlanFine, TargetTruth
  <2> QED BY <2>2, <2>3, <2>4, <2>6, OwnPlan, OnePlan DEF PlanTypes
<1> QED BY <1>2, <1>3, <1>4

\* Every step of a deletion.
LEMMA DeletionStep ==
    ASSUME DeletionInv, NEW p \in Deletion, NEW busy,
           \/ PlanDeletion(p) \/ StartDeletion(p, busy) \/ CancelStep(p)
           \/ DeletionEscapes(p) \/ CrashDeleters \/ NewSource(p) \/ ExecuteDeletion(p, busy)
    PROVE  GoodDeletion(busy)
BY PlanKeeps, SaveCancelKeeps, StartKeeps, SkipKeeps, LookTargetKeeps, MarkKeeps,
   RemoveTargetKeeps, RequestKeeps, SettleTargetKeeps, DeletionFaultsKeep
   DEF CancelStep, ExecuteDeletion

\* A step of another component.
LEMMA DeletionStutter ==
    ASSUME DeletionInv, UNCHANGED deletionVars, NEW busy PROVE GoodDeletion(busy)
BY DEF deletionVars, DeletionInv, DeletionTypes, PlansFine, PlanTypes, PlanFine, PlanRow,
   DeleterRow, CancelRow, Contents, Payload, Targets, TargetTruth, DeleterOK, GoodDeletion,
   NewSourcesKept, DeletesWithin, Deleting, Holding

\* No deletion is planned in the beginning.
LEMMA DeletionInitially == DeletionsInit => DeletionInv
<1> SUFFICES ASSUME DeletionsInit PROVE DeletionInv
  OBVIOUS
<1>1. ASSUME NEW p \in Deletion
      PROVE  /\ PlanTypes(p, deletions[p], content[p], reindexed[p], deleter[p],
                          deleteCancel[p])
             /\ PlanFine(p, deletions[p].payload, content[p], reindexed[p], deleter[p],
                         p \notin overwritten)
  <2>1. Targets(p) = 1..Len(Doomed[p]) /\ Len(Doomed[p]) \in Nat \ {0} /\ 1 \in Targets(p)
    BY DeletionAssumption DEF Targets
  <2>2. NewPayload(p) \in Payload(p) /\ \A t \in Targets(p) : NewPayload(p).stage[t] = "QUEUED"
    BY DEF NewPayload, Payload, DeletionStage
  <2>3. /\ NoDeleter(p) \in DeleterRow(p) /\ NoDeleter(p).pc = "idle"
    BY <2>1, <2>2 DEF NoDeleter, DeleterRow, DeleterPc, Payload
  <2> QED BY <2>2, <2>3 DEF DeletionsInit, PlanTypes, PlanFine, PlanRow, CancelRow, Contents,
             TargetTruth
<1>2. deletionFaults \in 0..MaxDeletionFault
  BY DeletionAssumption DEF DeletionsInit
<1> QED BY <1>1, <1>2 DEF DeletionsInit, DeletionInv, DeletionTypes, PlansFine


----------------------------------------------------------------------------
(* Who holds a library.                                                    *)

\* What leases hold a library: those of standard writes, and those of sidecars.
Writing(l) == Leased(Standard, l)
Sidecar(l) == Leased(Write \ Standard, l)

\* No two kinds of work in one library, but a move may meet a deletion or a
\* replacement, and a sidecar an import, a deletion or a replacement.
Exclusive ==
    \A l \in Library :
        /\ l \in importing => ~Moving(l) /\ ~Deleting(l) /\ ~Replacing(l) /\ ~Writing(l)
        /\ Writing(l) => ~Moving(l) /\ ~Deleting(l) /\ ~Replacing(l)
        /\ ~(Deleting(l) /\ Replacing(l))
        /\ Sidecar(l) => ~Moving(l) /\ ~Writing(l)

\* None of the work that the claim of kind k asks for holds library l.
Vacant(k, l) == \A j \in WorkAsks[k] : ~HeldBy(j, l)

\* Only work of kind k takes libraries in this step, and takes free ones.
OnlyTakes(k) ==
    \A l \in Library :
        /\ l \in importing' => l \in importing \/ (k = "import" /\ Vacant(k, l))
        /\ Moving(l)' => Moving(l) \/ (k = "move" /\ Vacant(k, l))
        /\ Deleting(l)' => Deleting(l) \/ (k = "delete" /\ Vacant(k, l))
        /\ Replacing(l)' => Replacing(l) \/ (k = "replace" /\ Vacant(k, l))
        /\ Writing(l)' => Writing(l) \/ (k = "write" /\ Vacant(k, l))
        /\ Sidecar(l)' => Sidecar(l) \/ (k = "sidecar" /\ Vacant(k, l))

\* A step of LibraryShare, in which k may take free libraries.
Shares ==
    \E k \in WorkKind : \A l \in Library, j \in WorkKind :
        HeldBy(j, l)' => HeldBy(j, l) \/ (j = k /\ Vacant(k, l))

\* The thread serves a standard write that is its own, and a sidecar under its
\* lease, until that lapses.
WriterOwns ==
    /\ writer.pc \in StandardPc => writes[writer.at].own
    /\ writer.pc \in OpfPc => writer.at \in late \/ LiveLease(writer.at)
LapsedAreLate == \A w \in Write : writes[w].lease = "lapsed" => w \in late
QueueTypes ==
    /\ importing \subseteq Library /\ importer \in importing \cup {"none", "down"}
    /\ late \subseteq Write

ActivityInv ==
    /\ MoveInv /\ DeletionInv /\ UploadsTypeOK /\ UploadInv /\ WriteInv
    /\ QueueTypes /\ WriterOwns /\ LapsedAreLate /\ Exclusive

\* Work that the rows show is work that file_operation_blocks_library finds.
LEMMA WorkBlocks ==
    \A l : /\ Moving(l) => l \in MovesBlock
           /\ Deleting(l) => l \in Blocked
           /\ Moving(l) \/ Replacing(l) \/ Writing(l) => l \in Blocked
           /\ Writing(l) \/ Sidecar(l) => l \in WritingLibraries
<1>1. ASSUME NEW l, Moving(l) PROVE l \in MovesBlock
  BY <1>1 DEF Moving, MovesBlock
<1>2. ASSUME NEW l, Deleting(l) PROVE l \in DeletionsBlock
  BY <1>2 DEF Deleting, Holding, Blocking, DeletionsBlock, DeletionBlocks
<1>3. ASSUME NEW l, Replacing(l) PROVE l \in UploadsBlock
  BY <1>3 DEF Replacing, UploadsBlock, Replaces, Status
<1>4. ASSUME NEW l, Writing(l) PROVE l \in WritesBlock /\ l \in WritingLibraries
  BY <1>4, Parts DEF Writing, Leased, WritesBlock, WritingLibraries
<1>5. ASSUME NEW l, Sidecar(l) PROVE l \in WritingLibraries
  BY <1>5 DEF Sidecar, Leased, WritingLibraries
<1> QED BY <1>1, <1>2, <1>3, <1>4, <1>5 DEF Blocked

\* Where its claim finds nothing in the way, a kind of work finds the library free.
LEMMA FreeLibraries ==
    \A l : /\ l \notin Blocked => Vacant("import", l) /\ Vacant("sidecar", l)
           /\ l \notin importing \cup WritingLibraries => Vacant("move", l)
           /\ l \notin Blocked \cup importing =>
                 /\ Vacant("delete", l) /\ Vacant("replace", l)
                 /\ ~Sidecar(l) => Vacant("write", l)
<1> SUFFICES ASSUME NEW l
             PROVE  /\ l \notin Blocked => Vacant("import", l) /\ Vacant("sidecar", l)
                    /\ l \notin importing \cup WritingLibraries => Vacant("move", l)
                    /\ l \notin Blocked \cup importing =>
                          /\ Vacant("delete", l) /\ Vacant("replace", l)
                          /\ ~Sidecar(l) => Vacant("write", l)
  OBVIOUS
<1>1. /\ WorkAsks["import"] = {"move", "delete", "replace", "write"}
      /\ WorkAsks["move"] = {"import", "write", "sidecar"}
      /\ WorkAsks["delete"] = {"import", "move", "replace", "write"}
      /\ WorkAsks["replace"] = {"import", "move", "delete", "write"}
      /\ WorkAsks["write"] = {"import", "move", "delete", "replace", "sidecar"}
      /\ WorkAsks["sidecar"] = {"move", "delete", "replace", "write"}
  BY DEF WorkAsks
<1>2. \A k \in WorkKind : HeldBy(k, l) =>
         /\ k \notin {"import", "sidecar"} => l \in Blocked
         /\ k = "import" => l \in importing
         /\ k \in {"write", "sidecar"} => l \in WritingLibraries
         /\ k = "sidecar" => Sidecar(l)
  BY WorkBlocks DEF HeldBy, WorkKind, Writing, Sidecar
<1> QED BY <1>1, <1>2 DEF Vacant, WorkKind

\* What a claim finds nothing of, by its kind.
LEMMA VacantMeans ==
    ASSUME NEW l
    PROVE  /\ Vacant("import", l) =>
                 ~Moving(l) /\ ~Deleting(l) /\ ~Replacing(l) /\ ~Writing(l)
           /\ Vacant("move", l) => l \notin importing /\ ~Writing(l) /\ ~Sidecar(l)
           /\ Vacant("delete", l) =>
                 l \notin importing /\ ~Moving(l) /\ ~Replacing(l) /\ ~Writing(l)
           /\ Vacant("replace", l) =>
                 l \notin importing /\ ~Moving(l) /\ ~Deleting(l) /\ ~Writing(l)
           /\ Vacant("write", l) =>
                 l \notin importing /\ ~Moving(l) /\ ~Deleting(l) /\ ~Replacing(l) /\ ~Sidecar(l)
           /\ Vacant("sidecar", l) => ~Moving(l) /\ ~Deleting(l) /\ ~Replacing(l) /\ ~Writing(l)
<1>1. /\ HeldBy("import", l) <=> l \in importing
      /\ HeldBy("move", l) <=> Moving(l)
      /\ HeldBy("delete", l) <=> Deleting(l)
      /\ HeldBy("replace", l) <=> Replacing(l)
      /\ HeldBy("write", l) <=> Writing(l)
      /\ HeldBy("sidecar", l) <=> Sidecar(l)
  BY DEF HeldBy, Writing, Sidecar
<1> QED BY <1>1 DEF Vacant, WorkAsks

\* Where one kind of work takes free libraries, no two kinds of work that ask
\* for each other meet.
LEMMA TurnsExclude ==
    ASSUME Exclusive, NEW k \in WorkKind, OnlyTakes(k)
    PROVE  Exclusive' /\ Shares
<1>1. \A l \in Library, j \in WorkKind :
         HeldBy(j, l)' => HeldBy(j, l) \/ (j = k /\ Vacant(k, l))
  BY DEF OnlyTakes, HeldBy, WorkKind, Writing, Sidecar
<1>2. Exclusive'
  <2> SUFFICES ASSUME NEW l \in Library
               PROVE  /\ l \in importing' =>
                            ~Moving(l)' /\ ~Deleting(l)' /\ ~Replacing(l)' /\ ~Writing(l)'
                      /\ Writing(l)' => ~Moving(l)' /\ ~Deleting(l)' /\ ~Replacing(l)'
                      /\ ~(Deleting(l)' /\ Replacing(l)')
                      /\ Sidecar(l)' => ~Moving(l)' /\ ~Writing(l)'
    BY DEF Exclusive
  <2>1. /\ l \in importing' => l \in importing \/ (k = "import" /\ Vacant("import", l))
        /\ Moving(l)' => Moving(l) \/ (k = "move" /\ Vacant("move", l))
        /\ Deleting(l)' => Deleting(l) \/ (k = "delete" /\ Vacant("delete", l))
        /\ Replacing(l)' => Replacing(l) \/ (k = "replace" /\ Vacant("replace", l))
        /\ Writing(l)' => Writing(l) \/ (k = "write" /\ Vacant("write", l))
        /\ Sidecar(l)' => Sidecar(l) \/ (k = "sidecar" /\ Vacant("sidecar", l))
    BY DEF OnlyTakes
  <2>2. /\ l \in importing => ~Moving(l) /\ ~Deleting(l) /\ ~Replacing(l) /\ ~Writing(l)
        /\ Writing(l) => ~Moving(l) /\ ~Deleting(l) /\ ~Replacing(l)
        /\ ~(Deleting(l) /\ Replacing(l))
        /\ Sidecar(l) => ~Moving(l) /\ ~Writing(l)
    BY DEF Exclusive
  <2> QED BY <2>1, <2>2, VacantMeans
<1> QED BY <1>1, <1>2 DEF Shares

----------------------------------------------------------------------------
(* Moves *)

\* An operation with no entry under way does not get an executing status.
LEMMA FinishedRests ==
    ASSUME NEW o \in Op, NEW stage \in [Entries(o) -> MoveStage],
           \A i \in Entries(o) : stage[i] \notin InFlight
    PROVE  Finished(stage) \notin InFlight
<1> DEFINE seen == Stages(stage)
<1>1. seen \subseteq Ended \cup {"QUEUED", "RECOVERY_REQUIRED"}
  BY DEF Stages, MoveStage, InFlight, Ended
<1>2. CASE Cardinality(seen) = 1 /\ seen \subseteq Ended
  <2>1. seen # {}
    BY <1>2, FS_EmptySet
  <2>2. (CHOOSE s \in seen : TRUE) \in seen
    BY <2>1
  <2> QED BY <1>2, <2>2 DEF Finished, InFlight, Ended
<1>3. CASE ~(Cardinality(seen) = 1 /\ seen \subseteq Ended)
  <2> HIDE DEF seen
  <2>1. Finished(stage) =
           IF "RECOVERY_REQUIRED" \in seen THEN "RECOVERY_REQUIRED"
           ELSE IF "QUEUED" \in seen /\ seen \subseteq Ended \cup {"QUEUED"} THEN "QUEUED"
           ELSE IF seen \subseteq Ended THEN "PARTIAL" ELSE "PREPARING"
    BY <1>3 DEF Finished, seen
  <2>2. "RECOVERY_REQUIRED" \notin seen => seen \subseteq Ended \cup {"QUEUED"}
    BY <1>1
  <2>3. "RECOVERY_REQUIRED" \notin seen /\ "QUEUED" \notin seen => seen \subseteq Ended
    BY <1>1
  <2> QED BY <2>1, <2>2, <2>3 DEF InFlight
<1> QED BY <1>2, <1>3

\* Only a claim makes an operation execute.
LEMMA MovesKeepClosed ==
    ASSUME MoveInv,
           MoveRequests \/ CancelWrites \/ ExecuteMove \/ RecoverMoves \/ MoveFaults
           \/ CrashMover \/ StartMover \/ UNCHANGED moveVars
    PROVE  raced \subseteq raced' /\ \A o \in Op \ raced' : Executing(o)' => Executing(o)
<1>0. /\ DOMAIN moves = Op /\ \A o \in Op : moves[o] \in MoveRow(o)
  BY DEF MoveInv, MoveTypes
<1>1. CASE MoveRequests
  BY <1>0, <1>1 DEF MoveRequests, Enqueue, CancelClaimed, CancelReads, Executing, InFlight,
     MoveRow
<1>2. CASE CancelWrites
  <2> DEFINE o == moveCancel.op
             stage == [i \in Entries(o) |-> IF i \in moveCancel.queued THEN "CANCELLED"
                                            ELSE moves[o].stage[i]]
  <2>1. /\ o \in Op
        /\ moves' = [moves EXCEPT ![o] = [status |-> Finished(stage), cancel |-> TRUE,
                                          stage |-> stage]]
        /\ raced \subseteq raced'
        /\ o \notin raced' => o \notin raced /\ moves[o].status = "QUEUED"
    BY <1>2 DEF CancelWrites, MoveInv, ControlTypes
  <2>2. stage \in [Entries(o) -> MoveStage]
    BY <1>0, <2>1 DEF MoveRow, MoveStage, Ended
  <2>3. o \notin raced' => \A i \in Entries(o) : stage[i] \notin InFlight
    BY <2>1 DEF MoveInv, EntriesOK, Executing, InFlight
  <2>4. o \notin raced' => Finished(stage) \notin InFlight
    BY <2>1, <2>2, <2>3, FinishedRests
  <2> HIDE DEF stage
  <2> QED BY <1>0, <2>1, <2>4 DEF Executing
<1>3. CASE ExecuteMove
  <2>1. UNCHANGED raced
    BY <1>3 DEF ExecuteMove, SkipEntry, CancelEntry, LookEntry, CheckEntry, RereadCancel,
       PublishFiles, SavePublished, ApplyIndex, SaveCompleted, SaveFailure, FinishMove
  <2>2. CASE FinishMove
    <3>1. /\ mover.op \in Op /\ mover.op \notin raced => Executing(mover.op)
      BY <2>2, OwnEntry DEF FinishMove, AtPc, Working, MoveInv, ExecutorOK, Executing, InFlight
    <3>2. moves' = [moves EXCEPT ![mover.op].status = Finished(moves[mover.op].stage)]
      BY <2>2 DEF FinishMove
    <3> QED BY <1>0, <2>1, <3>1, <3>2 DEF Executing
  <2>3. CASE ~FinishMove
    <3>1. moves' = moves \/ \E s : Save(s)
      BY <1>3, <2>3 DEF ExecuteMove, SkipEntry, CancelEntry, LookEntry, CheckEntry, RereadCancel,
         PublishFiles, SavePublished, ApplyIndex, SaveCompleted, SaveFailure
    <3>2. ASSUME NEW s, Save(s), NEW o \in Op PROVE moves'[o].status = moves[o].status
      <4>1. moves'[o] = moves[o] \/ moves'[o] = [moves[o] EXCEPT !.stage[mover.at] = s]
        BY <1>0, <3>2 DEF Save
      <4> QED BY <1>0, <4>1 DEF MoveRow
    <3> QED BY <2>1, <3>1, <3>2 DEF Executing
  <2> QED BY <2>2, <2>3
<1>4. CASE RecoverMoves
  BY <1>0, <1>4 DEF RecoverMoves, RecoveryEnds, QuarantineMove, Interrupted, Executing
<1>5. CASE MoveFaults \/ CrashMover \/ StartMover \/ UNCHANGED moveVars
  BY <1>5 DEF MoveFaults, CommitFails, Escape, CrashMover, StartMover, moveVars, Executing
<1> QED BY <1>1, <1>2, <1>3, <1>4, <1>5

\* Moves open libraries, except for the claim, which takes free ones.
LEMMA MovingShrinks ==
    ASSUME MoveInv,
           MoveRequests \/ CancelWrites \/ ExecuteMove \/ RecoverMoves \/ MoveFaults
           \/ CrashMover \/ StartMover \/ UNCHANGED moveVars
    PROVE  \A l : Moving(l)' => Moving(l)
BY MovesKeepClosed DEF Moving, MoveLibraries, Entries

\* See MovingShrinks.
LEMMA MovingClaimed ==
    ASSUME MoveInv, NEW o \in Op, NEW busy, ClaimMove(o, busy)
    PROVE  \A l : Moving(l)' => Moving(l) \/ l \notin busy
<1>1. /\ moves' = [moves EXCEPT ![o].status = "PREPARING"] /\ raced' = raced
      /\ MoveLibraries(o) \cap busy = {}
  BY DEF ClaimMove, Claimable
<1>2. DOMAIN moves = Op
  BY DEF MoveInv, MoveTypes
<1>3. ASSUME NEW p \in Op, p # o, Executing(p)' PROVE Executing(p)
  BY <1>1, <1>2, <1>3 DEF Executing
<1> QED BY <1>1, <1>3 DEF Moving, MoveLibraries, Entries


----------------------------------------------------------------------------
(* Uploads *)

\* A replacement starts to publish only in a library that is not taken.
LEMMA ReplacingStarts ==
    ASSUME UploadsTypeOK, NEW u \in Upload, NEW busy,
           TransferUpload(u) \/ ExpireUpload(u) \/ UploadBreaks(u) \/ FinishUpload(u, busy)
    PROVE  \A l : Replacing(l)' => Replacing(l) \/ l \notin busy
<1> SUFFICES ASSUME NEW v \in Upload, Purpose[v] = "replace", Status(v)' = "PUBLISHING",
                    Status(v) # "PUBLISHING"
             PROVE  UploadLibrary[v] \notin busy
  BY DEF Replacing
<1>0. uploads \in [Upload -> Row]
  BY DEF UploadsTypeOK
<1>1. CASE PreparePublication(u, busy)
  BY <1>0, <1>1 DEF PreparePublication, MayReplace, Status
<1>2. CASE SaveRefusal(u)
  BY <1>0, <1>2 DEF SaveRefusal, Status, Remembered, Row
<1>3. CASE ~PreparePublication(u, busy) /\ ~SaveRefusal(u)
  BY <1>0, <1>3 DEF TransferUpload, BeginUpload, ConfirmChunk, CancelUpload, AppendChunk,
     RepeatChunk, ExpireUpload, UploadElapses, CleanupUpload, UploadBreaks, FinishUpload,
     CompleteUpload, PublishUpload, SaveUpload, RegisterUpload, CleanStaging, DiscardRefused,
     ParentChanges, SaveFails, Status, Row
<1> QED BY <1>1, <1>2, <1>3

\* Other upload steps, and steps of other components.
LEMMA ReplacingStays ==
    ASSUME UploadsTypeOK,
           \/ UNCHANGED uploadVars
           \/ \E u \in Upload :
                 \/ TransferUpload(u) \/ CompleteUpload(u) \/ UploadBreaks(u) \/ ExpireUpload(u)
    PROVE  \A l : Replacing(l)' => Replacing(l)
<1>1. CASE UNCHANGED uploadVars
  BY <1>1 DEF uploadVars, Replacing, Status
<1>2. ASSUME NEW u \in Upload,
             TransferUpload(u) \/ CompleteUpload(u) \/ UploadBreaks(u) \/ ExpireUpload(u)
      PROVE  \A l : Replacing(l)' => Replacing(l)
  <2>1. ASSUME NEW l PROVE Replacing(l)' => Replacing(l) \/ l \notin {l}
    BY <1>2, ReplacingStarts DEF FinishUpload
  <2> QED BY <2>1
<1> QED BY <1>1, <1>2

\* What is proved of the uploads holds whatever the others do.
LEMMA UploadsKept ==
    ASSUME UploadsTypeOK, UploadInv, NEW u \in Upload, UploadStep(u)
    PROVE  UploadsTypeOK' /\ UploadInv'
<1>1. ASSUME NEW v \in Upload, v # u PROVE UploadOK(v)'
  BY <1>1, OthersUntouched, OtherUploads
<1>2. UploadOK(u)'
  BY ThisTransfer, ThisExpiry, ThisCompletion DEF UploadStep
<1> QED BY <1>1, <1>2, TypeStep DEF UploadInv

\* A step of another component.
LEMMA UploadsStutter ==
    ASSUME UploadsTypeOK, UploadInv, UNCHANGED uploadVars PROVE UploadsTypeOK' /\ UploadInv'
BY DEF uploadVars, UploadsTypeOK, UploadInv, UploadOK, RowInv, JournalInv, Status, Journalled

----------------------------------------------------------------------------
(* Writebacks *)

\* A lease is not given to a row that had none, nor lapses unseen.
LeaseFine(w) ==
    \/ writes'[w].lease \in {writes[w].lease, "none"}
    \/ writes'[w].lease = "live" /\ writes[w].lease # "none"
WritingShrinks == \A w \in Write \ late : LiveLease(w)' => LiveLease(w)
GuardsKept == WriterOwns' /\ LapsedAreLate' /\ WritingShrinks

\* Leases that are only kept, renewed or given back.
LEMMA LeasesKept ==
    ASSUME WriteInv, LapsedAreLate, \A w \in Write : LeaseFine(w), late' = late
    PROVE  LapsedAreLate' /\ WritingShrinks
<1>1. ASSUME NEW w \in Write
      PROVE  /\ TargetOK(w, writes[w], written[w]) /\ writes[w].lease \in Leases
             /\ LeaseFine(w)
  BY <1>1 DEF WriteInv, TargetsOK, TargetOK, WriteRow
<1>2. LapsedAreLate'
  BY <1>1 DEF LapsedAreLate, LeaseFine
<1>3. WritingShrinks
  BY <1>1 DEF WritingShrinks, LeaseFine, LiveLease, LapsedAreLate, TargetOK, Leases
<1> QED BY <1>2, <1>3

\* No lease is taken where no live one was.
LEMMA NobodyWrites ==
    ASSUME WritingShrinks, late' = late
    PROVE  \A l : (Writing(l)' => Writing(l)) /\ (Sidecar(l)' => Sidecar(l))
BY Parts DEF WritingShrinks, Writing, Sidecar, Leased

\* A row whose lease is none or as it was
Milder(w) == writes'[w].lease \in {writes[w].lease, "none"}

\* Requests
LEMMA RequestGuards ==
    ASSUME WriteInv, WriterOwns, LapsedAreLate, late' = late, WriteRequests
    PROVE  GuardsKept
<1>0. /\ writes \in [Write -> WriteRow] /\ WriterOK
      /\ \A v \in Write : TargetOK(v, writes[v], written[v])
  BY DEF WriteInv, TargetsOK
<1>1. UNCHANGED writer
  BY DEF WriteRequests, EnqueueIntent, EnqueueStandard, CancelStandard
<1>2. \A w \in Write : /\ writes'[w].lease = writes[w].lease /\ writes'[w].own = writes[w].own
                       /\ writes'[w].row = writes[w].row \/ writes[w].row = "none"
  BY <1>0, Parts DEF WriteRequests, EnqueueIntent, EnqueueStandard, CancelStandard, WriteRow
<1>3. WriterOwns'
  BY <1>0, <1>1, <1>2, Parts DEF WriterOwns, WriterOK, LiveLease
<1> QED BY <1>2, <1>3, LeasesKept DEF GuardsKept, LeaseFine

\* Intents, and steps after which the thread serves no target
LEMMA FreeGuards ==
    ASSUME WriteInv, WriterOwns, LapsedAreLate, late' = late,
           ServeIntents \/ WriteFails \/ CrashWriter \/ RestartWriter \/ RecoverWrites
    PROVE  GuardsKept
<1>0. /\ writes \in [Write -> WriteRow]
      /\ writer \in [pc : WriterPc, at : Intent \cup Write \cup {"none"}, unsure : BOOLEAN]
  BY DEF WriteInv, TargetsOK, WriterOK
<1>1. CASE ServeIntents
  <2>1. writer'.pc \notin StandardPc \cup OpfPc
    <3>1. CASE FinalizeIntent
      <4>1. Free("idle")
        BY <3>1 DEF FinalizeIntent
      <4> QED BY <4>1 DEF Free, StandardPc, OpfPc
    <3>2. ASSUME NEW i \in Intent, ClaimIntent(i) PROVE writer'.pc \notin StandardPc \cup OpfPc
      <4>1. writer'.pc = "expand"
        BY <1>0, <3>2 DEF ClaimIntent
      <4> QED BY <4>1 DEF StandardPc, OpfPc
    <3> QED BY <1>1, <3>1, <3>2 DEF ServeIntents
  <2>2. \A w \in Write : Milder(w)
    <3>1. CASE FinalizeIntent
      <4>1. \/ UNCHANGED writes
            \/ \E found \in SUBSET Expansion[writer.at] :
                  writes' = [w \in Write |-> IF w \in found
                                             THEN [NoWrite EXCEPT !.row = "PENDING"]
                                             ELSE writes[w]]
        BY <3>1 DEF FinalizeIntent
      <4> QED BY <4>1 DEF Milder, NoWrite
    <3>2. CASE \E i \in Intent : ClaimIntent(i)
      BY <3>2 DEF ClaimIntent, Milder
    <3> QED BY <1>1, <3>1, <3>2 DEF ServeIntents
  <2> QED BY <2>1, <2>2, LeasesKept DEF GuardsKept, LeaseFine, Milder, WriterOwns
<1>2. CASE WriteFails
  <2>1. UNCHANGED writes /\ writer'.pc \notin OpfPc
    BY <1>0, <1>2 DEF WriteFails, Step, Free, OpfPc
  <2>2. writer'.pc \in StandardPc => writer.pc \in StandardPc /\ writer'.at = writer.at
    BY <1>0, <1>2 DEF WriteFails, Step, Free, StandardPc
  <2>3. WriterOwns'
    BY <2>1, <2>2 DEF WriterOwns
  <2> QED BY <2>1, <2>3, LeasesKept DEF GuardsKept, LeaseFine
<1>3. CASE CrashWriter \/ RestartWriter \/ RecoverWrites
  <2>1. writer'.pc \notin StandardPc \cup OpfPc
    <3>1. Free("down") \/ Free("recovering") \/ Free("idle")
      BY <1>3 DEF CrashWriter, RestartWriter, RecoverWrites
    <3> QED BY <3>1 DEF Free, StandardPc, OpfPc
  <2>2. \A w \in Write : Milder(w)
    <3>1. CASE CrashWriter \/ RestartWriter
      <4>1. writes' = [w \in Write |-> [writes[w] EXCEPT !.own = FALSE]]
        BY <3>1 DEF CrashWriter, RestartWriter
      <4>2. \A w \in Write : writes'[w].lease = writes[w].lease
        BY <1>0, <4>1 DEF WriteRow
      <4> QED BY <4>2 DEF Milder
    <3>2. CASE RecoverWrites
      <4>1. writes' = [w \in Write |->
               IF writes[w].row = "RUNNING" /\ writes[w].lease = "lapsed"
               THEN [writes[w] EXCEPT !.row = "PENDING", !.lease = "none", !.own = FALSE]
               ELSE writes[w]]
        BY <3>2 DEF RecoverWrites
      <4>2. \A w \in Write : writes'[w].lease \in {writes[w].lease, "none"}
        BY <1>0, <4>1 DEF WriteRow
      <4> QED BY <4>2 DEF Milder
    <3> QED BY <1>3, <3>1, <3>2
  <2> QED BY <2>1, <2>2, LeasesKept DEF GuardsKept, LeaseFine, Milder, WriterOwns
<1> QED BY <1>1, <1>2, <1>3

\* A sidecar is served under its lease, or its lease has lapsed.
LEMMA OpfGuards ==
    ASSUME WriteInv, WriterOwns, LapsedAreLate, late' = late, ServeOpf
    PROVE  GuardsKept
<1> DEFINE w == writer.at
           Stays == writer'.at = w /\ writer'.pc \in OpfPc
<1>0. /\ writes \in [Write -> WriteRow] /\ TargetsOK
      /\ writer \in [pc : WriterPc, at : Intent \cup Write \cup {"none"}, unsure : BOOLEAN]
  BY DEF WriteInv, TargetsOK, WriterOK
<1>1. writer.pc \in OpfPc /\ w \in Write \ Standard
  BY DEF ServeOpf, PrepareOpf, MarkPrepared, PublishOpf, CompleteOpf, At, OpfPc, WriteInv,
     WriterOK
<1>2. TargetOK(w, writes[w], written[w]) /\ writes[w] \in WriteRow
  BY <1>0, <1>1 DEF TargetsOK
<1>3. \/ Stays /\ UNCHANGED writes
      \/ /\ Stays /\ Owned(w)
         /\ writes' = [writes EXCEPT ![w].row = "PREPARED", ![w].lease = "live"]
      \/ /\ writer'.pc \notin StandardPc \cup OpfPc
         /\ UNCHANGED writes \/ \E s : Release(w, s)
  <2>1. CASE PrepareOpf
    BY <1>0, <2>1 DEF PrepareOpf, Step, Free, OpfPc, StandardPc
  <2>2. CASE MarkPrepared
    BY <1>0, <2>2 DEF MarkPrepared, Step, Free, OpfPc, StandardPc
  <2>3. CASE PublishOpf
    BY <1>0, <2>3 DEF PublishOpf, Step, Free, OpfPc, StandardPc
  <2>4. CASE CompleteOpf
    BY <1>0, <2>4 DEF CompleteOpf, Free, OpfPc, StandardPc
  <2> QED BY <2>1, <2>2, <2>3, <2>4 DEF ServeOpf
<1>4. writer'.pc \in OpfPc => writer'.pc \notin StandardPc
  BY DEF OpfPc, StandardPc
<1>5. CASE Stays /\ UNCHANGED writes
  <2>1. WriterOwns'
    BY <1>1, <1>4, <1>5 DEF WriterOwns, LiveLease
  <2> QED BY <1>5, <2>1, LeasesKept DEF GuardsKept, LeaseFine
<1>6. CASE /\ Stays /\ Owned(w)
           /\ writes' = [writes EXCEPT ![w].row = "PREPARED", ![w].lease = "live"]
  <2>1. /\ \A v \in Write : v # w => writes'[v] = writes[v]
        /\ writes'[w].lease = "live" /\ writes'[w].row = "PREPARED" /\ writes[w].lease # "none"
    BY <1>0, <1>1, <1>2, <1>6 DEF WriteRow, Owned, TargetOK
  <2>2. WriterOwns'
    BY <1>4, <1>6, <2>1 DEF WriterOwns, LiveLease
  <2> QED BY <2>1, <2>2, LeasesKept DEF GuardsKept, LeaseFine
<1>7. CASE /\ writer'.pc \notin StandardPc \cup OpfPc
           /\ UNCHANGED writes \/ \E s : Release(w, s)
  <2>1. \A v \in Write : Milder(v)
    <3>1. CASE UNCHANGED writes
      BY <3>1 DEF Milder
    <3>2. CASE \E s : Release(w, s)
      <4>1. PICK s : Release(w, s)
        BY <3>2
      <4>2. writes' = [writes EXCEPT ![w] = [@ EXCEPT !.row = "gone", !.lease = "none",
                                                      !.own = FALSE, !.stage = s]]
        BY <4>1 DEF Release
      <4>3. /\ writes'[w].lease = "none"
            /\ \A v \in Write : v # w => writes'[v] = writes[v]
        BY <1>0, <1>1, <1>2, <4>2 DEF WriteRow
      <4> QED BY <4>3 DEF Milder
    <3> QED BY <1>7, <3>1, <3>2
  <2> QED BY <1>7, <2>1, LeasesKept DEF GuardsKept, LeaseFine, Milder, WriterOwns
<1> QED BY <1>3, <1>5, <1>6, <1>7

\* A move discards rows without a live lease only.
LEMMA DiscardGuards ==
    ASSUME WriteInv, WriterOwns, LapsedAreLate, late' = late,
           NEW i \in Intent, DiscardRelocated(i)
    PROVE  GuardsKept
<1>1. /\ UNCHANGED writer
      /\ \A w \in Write : writes'[w] = writes[w] \/ (~LiveLease(w) /\ writes'[w].lease = "none")
      /\ \A w \in Standard : writes'[w] = writes[w]
  BY Parts DEF DiscardRelocated, NoWrite
<1>2. WriterOwns'
  BY <1>1, Parts DEF WriterOwns, LiveLease, WriteInv, WriterOK
<1> QED BY <1>1, <1>2, LeasesKept DEF GuardsKept, LeaseFine

\* Steps of the queue other than those of a standard write.
LEMMA QueueGuards ==
    ASSUME WriteInv, WriterOwns, LapsedAreLate, late' = late,
           \/ WriteRequests \/ ServeIntents \/ ServeOpf \/ WriteFails \/ CrashWriter
           \/ RestartWriter \/ RecoverWrites \/ (\E i \in Intent : DiscardRelocated(i))
           \/ UNCHANGED writeVars
    PROVE  GuardsKept
<1>1. CASE UNCHANGED writeVars
  <2>1. UNCHANGED <<writes, writer>>
    BY <1>1 DEF writeVars
  <2>2. WriterOwns'
    BY <2>1 DEF WriterOwns, LiveLease
  <2> QED BY <2>1, <2>2, LeasesKept DEF GuardsKept, LeaseFine
<1> QED BY <1>1, RequestGuards, FreeGuards, OpfGuards, DiscardGuards

\* The steps of a standard write.
LEMMA StandardGuards ==
    ASSUME WriteInv, WriterOwns, LapsedAreLate, late' = late, ServeStandard
    PROVE  GuardsKept
<1> DEFINE w == writer.at
<1>0. /\ writes \in [Write -> WriteRow]
      /\ writer \in [pc : WriterPc, at : Intent \cup Write \cup {"none"}, unsure : BOOLEAN]
  BY DEF WriteInv, TargetsOK, WriterOK
<1>1. writer.pc \in StandardPc
  BY DEF ServeStandard, BeginStandard, PrepareStandard, SavePrepared, PublishStandard,
     SwapStandard, DiscardPrepared, CancelPrepared, JournalStandard, RecordStandard,
     FailStandard, At, StandardPc
<1>2. /\ w \in Standard /\ w \in Write /\ writes[w] \in WriteRow /\ writes[w].own
      /\ writes[w].lease # "none"
  BY <1>0, <1>1, Parts DEF WriterOwns, WriteInv, WriterOK, TargetsOK, TargetOK
<1> DEFINE Review == writes' = [writes EXCEPT ![w] =
                [@ EXCEPT !.row = "REVIEW", !.lease = "none", !.own = FALSE,
                          !.stage = "RECOVERY_REQUIRED"]]
           Ends == \E pc \in {"idle", "paused"} : Free(pc)
           Stays == writer'.at = writer.at /\ writer'.pc \notin OpfPc
<1>3. \/ UNCHANGED writes /\ (Ends \/ Stays)
      \/ (\E s : Release(w, s)) /\ Ends
      \/ (\E row, s : Checkpoint(w, row, s)) /\ Stays
      \/ Review /\ Ends
  <2>1. CASE BeginStandard
    BY <1>0, <2>1 DEF BeginStandard, LosesRow, OpfPc
  <2>2. CASE PrepareStandard
    BY <1>0, <2>2 DEF PrepareStandard, OpfPc
  <2>3. CASE SavePrepared
    BY <1>0, <2>3 DEF SavePrepared, LosesRow, Step, OpfPc
  <2>4. CASE PublishStandard
    BY <1>0, <2>4 DEF PublishStandard, Step, OpfPc
  <2>5. CASE JournalStandard
    BY <1>0, <2>5 DEF JournalStandard, LosesRow, Step, OpfPc
  <2>6. CASE RecordStandard
    BY <1>0, <2>6 DEF RecordStandard, LosesRow, Step, OpfPc
  <2>7. CASE FailStandard
    BY <1>0, <2>7 DEF FailStandard, LosesRow
  <2>8. CASE SwapStandard \/ DiscardPrepared
    BY <1>0, <2>8 DEF SwapStandard, DiscardPrepared, Step, OpfPc
  <2>9. CASE CancelPrepared
    BY <1>0, <2>9 DEF CancelPrepared, LosesRow
  <2> QED BY <2>1, <2>2, <2>3, <2>4, <2>5, <2>6, <2>7, <2>8, <2>9 DEF ServeStandard
<1>4. Ends => writer'.pc \notin StandardPc \cup OpfPc
  BY DEF Free, StandardPc, OpfPc
<1>5. CASE UNCHANGED writes /\ (Ends \/ Stays)
  <2>1. WriterOwns'
    BY <1>2, <1>4, <1>5 DEF WriterOwns
  <2> QED BY <1>5, <2>1, LeasesKept DEF GuardsKept, LeaseFine
<1>6. CASE (\E s : Release(w, s)) /\ Ends
  <2>1. \A v \in Write : Milder(v)
    BY <1>0, <1>2, <1>6 DEF Release, WriteRow, Milder
  <2> QED BY <1>4, <1>6, <2>1, LeasesKept DEF GuardsKept, LeaseFine, WriterOwns, Milder
<1>7. CASE (\E row, s : Checkpoint(w, row, s)) /\ Stays
  <2>1. /\ \A v \in Write : v # w => writes'[v] = writes[v]
        /\ writes'[w].lease = "live" /\ writes'[w].own
    BY <1>0, <1>2, <1>7 DEF Checkpoint, WriteRow
  <2>2. WriterOwns'
    BY <1>7, <2>1 DEF WriterOwns
  <2> QED BY <1>2, <2>1, <2>2, LeasesKept DEF GuardsKept, LeaseFine
<1>8. CASE Review /\ Ends
  <2>1. \A v \in Write : Milder(v)
    BY <1>0, <1>2, <1>8 DEF WriteRow, Milder
  <2> QED BY <1>4, <1>8, <2>1, LeasesKept DEF GuardsKept, LeaseFine, WriterOwns, Milder
<1> HIDE DEF Review, Ends, Stays
<1> QED BY <1>3, <1>5, <1>6, <1>7, <1>8

\* A write is claimed where its claim found the library free, or is its holder's
\* already, or its lease had lapsed.
LEMMA WritingClaimed ==
    ASSUME WriteInv, WriterOwns, LapsedAreLate, late' = late,
           NEW w \in Write, NEW blocked, NEW imported, ClaimWrite(w, blocked, imported)
    PROVE  /\ WriterOwns' /\ LapsedAreLate'
           /\ w \in Standard =>
                 \A l : /\ Sidecar(l)' => Sidecar(l)
                        /\ Writing(l)' => \/ Writing(l)
                                          \/ l \notin blocked \cup imported /\ ~Sidecar(l)
           /\ w \notin Standard =>
                 \A l : /\ Writing(l)' => Writing(l)
                        /\ Sidecar(l)' => Sidecar(l) \/ l \notin blocked
<1>0. /\ writes \in [Write -> WriteRow] /\ TargetOK(w, writes[w], written[w])
      /\ writer \in [pc : WriterPc, at : Intent \cup Write \cup {"none"}, unsure : BOOLEAN]
  BY DEF WriteInv, TargetsOK, WriterOK
<1>1. /\ \A v \in Write : v # w => writes'[v] = writes[v]
      /\ writes'[w].lease = "live" /\ writes'[w].own /\ LiveLease(w)'
      /\ writer'.at = w
  BY <1>0 DEF ClaimWrite, WriteClaimable, Due, WriteRow, LiveLease
<1>2. WriterOwns' /\ LapsedAreLate'
  BY <1>1 DEF WriterOwns, LapsedAreLate
<1>3. w \notin late =>
         \/ LiveLease(w)
         \/ writes[w].row = "PENDING" /\ WriteLibrary[w] \notin blocked
  BY <1>0 DEF ClaimWrite, WriteClaimable, Due, LiveLease, LapsedAreLate, TargetOK, Leases,
     WriteRow
<1>4. w \in Standard =>
         /\ WriteLibrary[w] \notin imported
         /\ \A v \in Write \ {w} : LiveLease(v) => WriteLibrary[v] # WriteLibrary[w]
  BY DEF ClaimWrite, WriteClaimable
<1>5. w \in Standard => ~Sidecar(WriteLibrary[w])
  BY <1>4 DEF Sidecar, Leased
<1>6. \A v \in Write \ late : v # w /\ LiveLease(v)' => LiveLease(v)
  BY <1>1 DEF LiveLease
<1>7. ASSUME w \in Standard, NEW l
      PROVE  /\ Sidecar(l)' => Sidecar(l)
             /\ Writing(l)' => Writing(l) \/ (l \notin blocked \cup imported /\ ~Sidecar(l))
  <2>1. Sidecar(l)' => Sidecar(l)
    BY <1>6, <1>7 DEF Sidecar, Leased
  <2>2. Writing(l)' => Writing(l) \/ (l \notin blocked \cup imported /\ ~Sidecar(l))
    BY <1>3, <1>4, <1>5, <1>6, <1>7, Parts DEF Writing, Leased
  <2> QED BY <2>1, <2>2
<1>8. ASSUME w \notin Standard, NEW l
      PROVE  (Writing(l)' => Writing(l)) /\ (Sidecar(l)' => Sidecar(l) \/ l \notin blocked)
  <2>1. Writing(l)' => Writing(l)
    BY <1>6, <1>8, Parts DEF Writing, Leased
  <2>2. Sidecar(l)' => Sidecar(l) \/ l \notin blocked
    BY <1>3, <1>6, <1>8 DEF Sidecar, Leased
  <2> QED BY <2>1, <2>2
<1> QED BY <1>2, <1>7, <1>8

\* A lease that lapses is recorded.
LEMMA WritingLapses ==
    ASSUME WriteInv, WriterOwns, LapsedAreLate, LeaseLapses, QueueTypes
    PROVE  /\ WriteInv' /\ WriterOwns' /\ LapsedAreLate' /\ late' \subseteq Write
           /\ \A l : (Writing(l)' => Writing(l)) /\ (Sidecar(l)' => Sidecar(l))
<1>1. CASE \E w \in Write : WriteLapses(w) /\ late' = late \cup {w}
  <2>1. PICK w \in Write : WriteLapses(w) /\ late' = late \cup {w}
    BY <1>1
  <2>2. /\ writes \in [Write -> WriteRow] /\ UNCHANGED writer
        /\ \A v \in Write : v # w => writes'[v] = writes[v]
        /\ writes'[w].own = writes[w].own /\ writes'[w].lease = "lapsed"
    BY <2>1 DEF WriteInv, TargetsOK, WriteRow, WriteLapses
  <2>3. WriterOwns' /\ LapsedAreLate'
    BY <2>1, <2>2, Parts DEF WriterOwns, LapsedAreLate, LiveLease, WriteInv, WriterOK
  <2>4. \A v \in Write \ late' : LiveLease(v)' => LiveLease(v)
    BY <2>1, <2>2 DEF LiveLease
  <2> QED BY <2>1, <2>3, <2>4, RequestsKeep, Parts DEF Writing, Sidecar, Leased, QueueTypes
<1>2. CASE (\E i \in Intent : IntentLapses(i)) /\ UNCHANGED late
  <2>1. UNCHANGED <<writes, writer>>
    BY <1>2 DEF IntentLapses
  <2>2. \A l : (Writing(l)' => Writing(l)) /\ (Sidecar(l)' => Sidecar(l))
    BY <1>2, <2>1 DEF Writing, Sidecar, Leased, LiveLease
  <2> QED BY <1>2, <2>1, <2>2, IntentsKeep DEF WriterOwns, LapsedAreLate, LiveLease, QueueTypes
<1> QED BY <1>1, <1>2 DEF LeaseLapses


----------------------------------------------------------------------------
(* All together *)

\* What a step that starts no such work leaves behind.
MovesFine == MoveInv' /\ \A l : Moving(l)' => Moving(l)
DeletionsFine == DeletionInv' /\ \A l : Deleting(l)' => Deleting(l)
UploadsFine == UploadsTypeOK' /\ UploadInv' /\ \A l : Replacing(l)' => Replacing(l)
WritesFine ==
    /\ WriteInv' /\ WriterOwns' /\ LapsedAreLate'
    /\ \A l : (Writing(l)' => Writing(l)) /\ (Sidecar(l)' => Sidecar(l))

\* A component that does not move.
LEMMA OthersRest ==
    ASSUME ActivityInv
    PROVE  /\ UNCHANGED moveVars => MovesFine
           /\ UNCHANGED deletionVars => DeletionsFine
           /\ UNCHANGED uploadVars => UploadsFine
           /\ UNCHANGED writeVars /\ late' = late => WritesFine
<1>1. ASSUME UNCHANGED moveVars PROVE MovesFine
  BY <1>1, MovesStutter, MovingShrinks DEF MovesFine, ActivityInv
<1>2. ASSUME UNCHANGED deletionVars PROVE DeletionsFine
  <2>1. ASSUME NEW l PROVE DeletionInv' /\ (Deleting(l)' => Deleting(l) \/ l \notin {l})
    BY <1>2, DeletionStutter DEF ActivityInv, GoodDeletion, DeletesWithin
  <2> QED BY <2>1 DEF DeletionsFine
<1>3. ASSUME UNCHANGED uploadVars PROVE UploadsFine
  BY <1>3, UploadsStutter, ReplacingStays DEF UploadsFine, ActivityInv
<1>4. ASSUME UNCHANGED writeVars, late' = late PROVE WritesFine
  <2>1. WriteInv'
    BY <1>4, WriteStep DEF ActivityInv
  <2>2. GuardsKept
    BY <1>4, QueueGuards DEF ActivityInv
  <2> QED BY <1>4, <2>1, <2>2, NobodyWrites DEF WritesFine, GuardsKept
<1> QED BY <1>1, <1>2, <1>3, <1>4

\* Where no one starts, no two kinds of work meet.
LEMMA NoOneStarts ==
    ASSUME ActivityInv, MovesFine, DeletionsFine, UploadsFine, WritesFine, QueueTypes',
           importing' \subseteq importing
    PROVE  ActivityInv' /\ Shares
<1>1. Exclusive' /\ Shares
  <2>1. OnlyTakes("import")
    BY DEF OnlyTakes, MovesFine, DeletionsFine, UploadsFine, WritesFine
  <2> QED BY <2>1, TurnsExclude DEF ActivityInv, WorkKind
<1> QED BY <1>1 DEF ActivityInv, MovesFine, DeletionsFine, UploadsFine, WritesFine

\* Imports start in a library that file_operation_blocks_library leaves open.
LEMMA ImportStep ==
    ASSUME ActivityInv, RecoverImports \/ FinishImport \/ \E l \in Library : ClaimImport(l)
    PROVE  ActivityInv' /\ Shares
<1>1. MovesFine /\ DeletionsFine /\ UploadsFine /\ WritesFine
  BY OthersRest DEF RecoverImports, FinishImport, ClaimImport
<1>2. CASE RecoverImports \/ FinishImport
  <2>1. importing' \subseteq importing /\ QueueTypes'
    BY <1>2 DEF RecoverImports, FinishImport, ActivityInv, QueueTypes
  <2> QED BY <1>1, <2>1, NoOneStarts
<1>3. CASE \E l \in Library : ClaimImport(l)
  <2>1. PICK k \in Library : k \notin Blocked /\ importing' = importing \cup {k}
                             /\ importer' = k /\ late' = late
    BY <1>3 DEF ClaimImport
  <2>2. QueueTypes'
    BY <2>1 DEF ActivityInv, QueueTypes
  <2>3. Exclusive' /\ Shares
    <3>1. OnlyTakes("import")
      BY <1>1, <2>1, FreeLibraries DEF OnlyTakes, MovesFine, DeletionsFine, UploadsFine,
         WritesFine
    <3> QED BY <3>1, TurnsExclude DEF ActivityInv, WorkKind
  <2> QED BY <1>1, <2>2, <2>3 DEF ActivityInv, MovesFine, DeletionsFine, UploadsFine, WritesFine
<1> QED BY <1>2, <1>3

\* Moves start where nothing is imported and no lease is live.
LEMMA MoveStarts ==
    ASSUME ActivityInv, NEW o \in Op, StartMove(o) PROVE ActivityInv' /\ Shares
<1>1. /\ ClaimMove(o, importing \cup WritingLibraries) /\ UNCHANGED queueVars
      /\ DeletionsFine /\ UploadsFine /\ WritesFine
  BY OthersRest DEF StartMove, queueVars
<1>2. MoveInv' /\ \A l : Moving(l)' => Moving(l) \/ l \notin importing \cup WritingLibraries
  BY <1>1, ClaimKeeps, MovingClaimed DEF ActivityInv
<1>3. QueueTypes'
  BY <1>1 DEF queueVars, ActivityInv, QueueTypes
<1>4. Exclusive' /\ Shares
  <2>1. OnlyTakes("move")
    BY <1>1, <1>2, FreeLibraries DEF OnlyTakes, queueVars, ActivityInv, DeletionsFine,
       UploadsFine, WritesFine
  <2> QED BY <2>1, TurnsExclude DEF ActivityInv, WorkKind
<1> QED BY <1>1, <1>2, <1>3, <1>4 DEF ActivityInv, DeletionsFine, UploadsFine, WritesFine

\* The other steps of moves, with the writebacks they discard.
LEMMA MoveStep ==
    ASSUME ActivityInv, ServeMove \/ SubmitMove PROVE ActivityInv' /\ Shares
<1>1. /\ MoveRequests \/ CancelWrites \/ ExecuteMove \/ RecoverMoves \/ MoveFaults
      /\ UNCHANGED writeVars \/ \E i \in Intent : DiscardRelocated(i)
      /\ UNCHANGED <<deletionVars, uploadVars, queueVars>>
  <2>1. CASE SubmitMove
    BY <2>1 DEF SubmitMove
  <2>2. CASE ServeMove
    <3>1. CASE ExecuteMove /\ index' # index /\ Discards(mover.op)
      <4>1. mover.op \in Op
        BY <3>1, OwnEntry DEF ExecuteMove, SkipEntry, CancelEntry, LookEntry, CheckEntry,
           RereadCancel, PublishFiles, SavePublished, ApplyIndex, SaveCompleted, SaveFailure,
           FinishMove, AtPc, Working, ActivityInv
      <4>2. Relocates[mover.op] \subseteq Intent
        BY <4>1, ActivityAssumption
      <4> QED BY <2>2, <3>1, <4>2 DEF ServeMove, Discards
    <3>2. CASE ~(ExecuteMove /\ index' # index /\ Discards(mover.op))
      BY <2>2, <3>2 DEF ServeMove
    <3> QED BY <3>1, <3>2
  <2> QED BY <2>1, <2>2
<1>2. MovesFine
  BY <1>1, MovesStep, MovingShrinks DEF MovesNext, ActivityInv, MovesFine
<1>3. DeletionsFine /\ UploadsFine
  BY <1>1, OthersRest
<1>4. late' = late
  BY <1>1 DEF queueVars
<1>5. WriteInv'
  BY <1>1, WriteStep DEF WritesNext, ActivityInv
<1>6. GuardsKept
  BY <1>1, <1>4, QueueGuards DEF ActivityInv
<1>7. WritesFine
  BY <1>4, <1>5, <1>6, NobodyWrites DEF GuardsKept, WritesFine
<1>8. QueueTypes' /\ importing' \subseteq importing
  BY <1>1 DEF queueVars, ActivityInv, QueueTypes
<1> QED BY <1>2, <1>3, <1>7, <1>8, NoOneStarts

\* Standard writes start where nothing else works, sidecars where nothing else
\* but an import works.
LEMMA WriteStarts ==
    ASSUME ActivityInv, StartWrite PROVE ActivityInv' /\ Shares
<1>1. PICK w \in Write : ClaimWrite(w, Blocked, importing)
  BY DEF StartWrite
<1>2. UNCHANGED queueVars /\ late' = late /\ MovesFine /\ DeletionsFine /\ UploadsFine
  BY OthersRest DEF StartWrite, queueVars
<1>3. /\ WriteInv' /\ WriterOwns' /\ LapsedAreLate'
      /\ w \in Standard =>
            \A l : /\ Sidecar(l)' => Sidecar(l)
                   /\ Writing(l)' => \/ Writing(l)
                                     \/ l \notin Blocked \cup importing /\ ~Sidecar(l)
      /\ w \notin Standard =>
            \A l : /\ Writing(l)' => Writing(l)
                   /\ Sidecar(l)' => Sidecar(l) \/ l \notin Blocked
  BY <1>1, <1>2, ClaimWriteKeeps, WritingClaimed DEF ActivityInv
<1>4. QueueTypes'
  BY <1>2 DEF queueVars, ActivityInv, QueueTypes
<1>5. Exclusive' /\ Shares
  <2>1. CASE w \in Standard
    <3>1. OnlyTakes("write")
      BY <1>2, <1>3, <2>1, FreeLibraries DEF OnlyTakes, queueVars, MovesFine, DeletionsFine,
         UploadsFine
    <3> QED BY <3>1, TurnsExclude DEF ActivityInv, WorkKind
  <2>2. CASE w \notin Standard
    <3>1. OnlyTakes("sidecar")
      BY <1>2, <1>3, <2>2, FreeLibraries DEF OnlyTakes, queueVars, MovesFine, DeletionsFine,
         UploadsFine
    <3> QED BY <3>1, TurnsExclude DEF ActivityInv, WorkKind
  <2> QED BY <2>1, <2>2
<1> QED BY <1>2, <1>3, <1>4, <1>5 DEF ActivityInv, MovesFine, DeletionsFine, UploadsFine

\* The other steps of writebacks.
LEMMA WritebackStep ==
    ASSUME ActivityInv, ServeWrite \/ SubmitWrite \/ LeaseLapses PROVE ActivityInv' /\ Shares
<1>1. MovesFine /\ DeletionsFine /\ UploadsFine
  BY OthersRest DEF ServeWrite, SubmitWrite, LeaseLapses
<1>2. CASE LeaseLapses
  <2>1. WritesFine /\ late' \subseteq Write
    BY <1>2, WritingLapses DEF ActivityInv, WritesFine
  <2>2. QueueTypes' /\ importing' \subseteq importing
    BY <1>2, <2>1 DEF LeaseLapses, ActivityInv, QueueTypes
  <2> QED BY <1>1, <2>1, <2>2, NoOneStarts
<1>3. CASE ServeWrite \/ SubmitWrite
  <2>1. /\ WriteRequests \/ ServeIntents \/ ServeOpf \/ ServeStandard \/ RecoverWrites
              \/ WriteFails
        /\ UNCHANGED queueVars /\ late' = late
    BY <1>3 DEF ServeWrite, SubmitWrite, queueVars
  <2>2. WriteInv'
    BY <2>1, WriteStep DEF WritesNext, WriteStops, ActivityInv
  <2>3. GuardsKept
    BY <2>1, QueueGuards, StandardGuards DEF ActivityInv
  <2>4. WritesFine
    BY <2>1, <2>2, <2>3, NobodyWrites DEF GuardsKept, WritesFine
  <2>5. QueueTypes' /\ importing' \subseteq importing
    BY <2>1 DEF queueVars, ActivityInv, QueueTypes
  <2> QED BY <1>1, <2>4, <2>5, NoOneStarts
<1> QED BY <1>2, <1>3

\* Deletions start in libraries that are not taken.
LEMMA DeletionWorks ==
    ASSUME ActivityInv, NEW p \in Deletion, ServeDeletion(p) \/ DeleteFiles(p)
    PROVE  ActivityInv' /\ NewSourcesKept /\ Shares
<1>1. MovesFine /\ UploadsFine /\ WritesFine /\ UNCHANGED queueVars
  BY OthersRest DEF ServeDeletion, DeleteFiles, queueVars
<1>2. GoodDeletion(Taken)
  BY DeletionStep DEF ServeDeletion, DeleteFiles, ActivityInv
<1>3. DeletionInv' /\ NewSourcesKept /\ \A l : Deleting(l)' => Deleting(l) \/ l \notin Taken
  BY <1>2 DEF GoodDeletion, DeletesWithin
<1>4. QueueTypes'
  BY <1>1 DEF queueVars, ActivityInv, QueueTypes
<1>5. Exclusive' /\ Shares
  <2>1. OnlyTakes("delete")
    BY <1>1, <1>3, FreeLibraries DEF OnlyTakes, queueVars, MovesFine, UploadsFine, WritesFine,
       Taken
  <2> QED BY <2>1, TurnsExclude DEF ActivityInv, WorkKind
<1> QED BY <1>1, <1>3, <1>4, <1>5 DEF ActivityInv, MovesFine, UploadsFine, WritesFine

\* Replacements are published in libraries that are not taken.
LEMMA UploadWorks ==
    ASSUME ActivityInv, NEW u \in Upload,
           ServeUpload(u) \/ FinishReplacement(u) \/ ExpireReplacement(u)
    PROVE  ActivityInv' /\ Shares
<1>1. MovesFine /\ DeletionsFine /\ WritesFine /\ UNCHANGED queueVars
  BY OthersRest DEF ServeUpload, FinishReplacement, ExpireReplacement, queueVars
<1>2. UploadStep(u)
  BY DEF ServeUpload, FinishReplacement, ExpireReplacement, UploadStep, FinishUpload
<1>3. TransferUpload(u) \/ ExpireUpload(u) \/ UploadBreaks(u) \/ FinishUpload(u, Taken)
  BY DEF ServeUpload, FinishReplacement, ExpireReplacement, FinishUpload
<1>4. /\ UploadsTypeOK' /\ UploadInv'
      /\ \A l : Replacing(l)' => Replacing(l) \/ l \notin Taken
  BY <1>2, <1>3, UploadsKept, ReplacingStarts DEF ActivityInv
<1>5. QueueTypes'
  BY <1>1 DEF queueVars, ActivityInv, QueueTypes
<1>6. Exclusive' /\ Shares
  <2>1. OnlyTakes("replace")
    BY <1>1, <1>4, FreeLibraries DEF OnlyTakes, queueVars, MovesFine, DeletionsFine,
       WritesFine, Taken
  <2> QED BY <2>1, TurnsExclude DEF ActivityInv, WorkKind
<1> QED BY <1>1, <1>4, <1>5, <1>6 DEF ActivityInv, MovesFine, DeletionsFine, WritesFine

\* The rows survive the worker process.
LEMMA WorkerRestarts ==
    ASSUME ActivityInv, CrashWorker \/ StartWorker PROVE ActivityInv' /\ Shares
<1>1. DeletionsFine /\ UploadsFine /\ late' = late /\ importing' = importing
  BY OthersRest DEF CrashWorker, StartWorker, queueVars
<1>2. MovesFine
  BY MovesStep, MovingShrinks DEF CrashWorker, StartWorker, MovesNext, ActivityInv, MovesFine
<1>3. WriteInv'
  BY WriteStep DEF CrashWorker, StartWorker, WritesNext, WriteStops, ActivityInv
<1>4. GuardsKept
  BY <1>1, QueueGuards DEF CrashWorker, StartWorker, ActivityInv
<1>5. WritesFine
  BY <1>1, <1>3, <1>4, NobodyWrites DEF GuardsKept, WritesFine
<1>6. QueueTypes'
  BY <1>1 DEF CrashWorker, StartWorker, queueVars, ActivityInv, QueueTypes
<1> QED BY <1>1, <1>2, <1>5, <1>6, NoOneStarts


----------------------------------------------------------------------------
(* Theorems *)

\* In the beginning nobody holds a library.
LEMMA ActivityFree == ActivityInit => importing = {} /\ \A l, k : ~HeldBy(k, l)
<1> SUFFICES ASSUME ActivityInit PROVE importing = {} /\ \A l, k : ~HeldBy(k, l)
  OBVIOUS
<1>1. importing = {}
  BY DEF ActivityInit
<1>2. \A w \in Write : writes[w].lease = "none"
  BY DEF ActivityInit, WritesInit, NoWrite
<1>3. \A l : ~Leased(Standard, l) /\ ~Leased(Write \ Standard, l)
  BY <1>2, Parts DEF Leased, LiveLease
<1>4. \A l : ~Moving(l)
  BY DEF ActivityInit, MovesInit, Moving, Executing, InFlight
<1>5. \A l : ~Deleting(l) /\ ~Replacing(l)
  BY DEF ActivityInit, DeletionsInit, UploadsInit, Deleting, Holding, NewPayload, Replacing,
     Status
<1> QED BY <1>1, <1>3, <1>4, <1>5 DEF HeldBy

\* In the beginning the worker has not recovered its imports, and nobody works.
LEMMA ActivityInitially == ActivityInit => ActivityInv
<1> SUFFICES ASSUME ActivityInit PROVE ActivityInv
  OBVIOUS
<1>1. MoveInv /\ DeletionInv /\ UploadsTypeOK /\ UploadInv /\ WriteInv
  BY MovesInitially, DeletionInitially, UploadInitially, WriteInitially DEF ActivityInit
<1>2. QueueTypes
  BY DEF ActivityInit, QueueTypes
<1>3. WriterOwns
  BY DEF ActivityInit, WritesInit, WriterOwns, StandardPc, OpfPc
<1>4. LapsedAreLate
  BY DEF ActivityInit, WritesInit, NoWrite, LapsedAreLate
<1>5. Exclusive
  BY ActivityFree DEF Exclusive, HeldBy, Writing, Sidecar
<1> QED BY <1>1, <1>2, <1>3, <1>4, <1>5 DEF ActivityInv

\* Every step of every component keeps the invariant and the new sources, and is
\* one in which at most one kind of work takes libraries.
LEMMA ActivityStep ==
    ASSUME ActivityInv, [ActivityNext]_activityVars
    PROVE  ActivityInv' /\ NewSourcesKept /\ Shares
<1>1. CASE UNCHANGED activityVars
  <2>1. MovesFine /\ DeletionsFine /\ UploadsFine /\ WritesFine /\ NewSourcesKept
    BY <1>1, OthersRest, DeletionStutter DEF activityVars, queueVars, ActivityInv, GoodDeletion
  <2>2. QueueTypes' /\ importing' = importing
    BY <1>1 DEF activityVars, queueVars, ActivityInv, QueueTypes
  <2> QED BY <2>1, <2>2, NoOneStarts
<1>2. CASE \E p \in Deletion : ServeDeletion(p) \/ DeleteFiles(p)
  BY <1>2, DeletionWorks
<1>3. CASE \E u \in Upload : ServeUpload(u) \/ FinishReplacement(u) \/ ExpireReplacement(u)
  <2>1. ActivityInv' /\ Shares
    BY <1>3, UploadWorks
  <2>2. UNCHANGED deletionVars
    BY <1>3 DEF ServeUpload, FinishReplacement, ExpireReplacement
  <2> QED BY <2>1, <2>2, DeletionStutter DEF ActivityInv, GoodDeletion
<1>4. CASE \/ RecoverImports \/ FinishImport \/ \E l \in Library : ClaimImport(l)
           \/ ServeMove \/ SubmitMove \/ \E o \in Op : StartMove(o)
           \/ StartWrite \/ ServeWrite \/ SubmitWrite \/ LeaseLapses
           \/ CrashWorker \/ StartWorker
  <2>1. ActivityInv' /\ Shares
    BY <1>4, ImportStep, MoveStep, MoveStarts, WriteStarts, WritebackStep, WorkerRestarts
  <2>2. UNCHANGED deletionVars
    BY <1>4 DEF RecoverImports, FinishImport, ClaimImport, ServeMove, SubmitMove, StartMove,
       StartWrite, ServeWrite, SubmitWrite, LeaseLapses, CrashWorker, StartWorker
  <2> QED BY <2>1, <2>2, DeletionStutter DEF ActivityInv, GoodDeletion
<1> QED BY <1>1, <1>2, <1>3, <1>4 DEF ActivityNext

\* ActivityInv, the invariants of the components with Exclusive and what it
\* rests on, is an inductive invariant of the composition.
THEOREM ActivityInductive == ActivitySpec => []ActivityInv
BY ActivityInitially, ActivityStep, PTL DEF ActivitySpec

\* Rows, places and requests of all components keep their types.
THEOREM ActivityKeepsTypes == ActivitySpec => []ActivityTypeOK
<1>1. MoveInv => MovesTypeOK
  BY DEF MoveInv, MoveTypes, MoveRow, ControlTypes, MovesTypeOK
<1>2. DeletionInv => DeletionsTypeOK
  BY DEF DeletionInv, DeletionTypes, PlanTypes, PlanRow, DeleterRow, CancelRow, Contents,
     DeletionsTypeOK
<1>3. WriteInv => WritesTypeOK
  BY DEF WriteInv, TargetsOK, TargetOK, WriterOK, IntentsOK, CountsOK, WriteRow, IntentRow,
     FileState, WritesTypeOK
<1>4. ActivityInv => ActivityTypeOK
  BY <1>1, <1>2, <1>3 DEF ActivityInv, QueueTypes, ActivityTypeOK
<1> QED BY <1>4, ActivityInductive, PTL

\* A plan reports of each target what is true of the files, through failures,
\* crashes and repeated calls (FileDeletions.execute, SqlAlchemyDeleteStore.save),
\* except for a plan whose newer payload a cancel overwrote.
THEOREM DeletionsTellTheTruth == ActivitySpec => []DeletionIsTrue
<1>1. ActivityInv => DeletionIsTrue
  BY DEF ActivityInv, DeletionInv, PlansFine, PlanFine, TargetTruth, DeletionIsTrue
<1> QED BY <1>1, ActivityInductive, PTL

\* No call deletes a source that was put where an earlier call deleted one
\* (StandardDeleteFiles.check).
THEOREM DeletionsSpareNewSources == ActivitySpec => NewSourceStays
<1>1. ASSUME ActivityInv, [ActivityNext]_activityVars
      PROVE  [\A p \in Deletion : \A t \in Targets(p) :
                 content[p][t] = "new" => content'[p][t] = "new"]_deletionVars
  BY <1>1, ActivityStep DEF NewSourcesKept
<1> QED BY <1>1, ActivityInductive, PTL DEF ActivitySpec, NewSourceStays

\* Imports, deletions, replacements, moves, standard writes and sidecars that
\* work on files now never meet in one library, but for a move with a deletion
\* or a replacement, and a sidecar with an import, a deletion or a replacement:
\* whatever the number of libraries and operations, and whoever crashed in
\* between (file_operation_blocks_library, claim_next, claim_next_target, save).
THEOREM LibrariesStayShared == ActivitySpec => []LibrariesAreShared
<1>1. ASSUME ActivityInv, NEW l \in Library
      PROVE  \/ Cardinality(Works(l)) <= 1
             \/ Works(l) \in Meetings
  <2>1. /\ "import" \in Works(l) => l \in importing
        /\ "move" \in Works(l) => Moving(l)
        /\ "delete" \in Works(l) => Deleting(l)
        /\ "replace" \in Works(l) => Replacing(l)
        /\ "write" \in Works(l) => Writing(l)
        /\ "sidecar" \in Works(l) => Sidecar(l)
    <3>1. "import" \in Works(l) => l \in importing
      BY <1>1, ActivityAssumption DEF Works, ActivityInv, QueueTypes
    <3>2. "move" \in Works(l) => Moving(l)
      BY <1>1, OpNotZero DEF Works, ActivityInv, MoveInv, ExecutorOK, Moving, Executing, InFlight
    <3>3. "delete" \in Works(l) => Deleting(l)
      <4>1. ASSUME NEW p \in Deletion \ overwritten, deleter[p].pc = "delete",
                   ~deletions[p].payload.cancelled, Doomed[p][deleter[p].at] = l
            PROVE  Deleting(l)
        <5>1. /\ deleter[p].at \in Targets(p)
              /\ PlanFine(p, deletions[p].payload, content[p], reindexed[p], deleter[p], TRUE)
          BY <1>1, <4>1 DEF ActivityInv, DeletionInv, DeletionTypes, PlanTypes, DeleterRow,
             PlansFine
        <5> QED BY <4>1, <5>1 DEF PlanFine, DeleterOK, Deleting, Holding, Blocking
      <4> QED BY <4>1 DEF Works
    <3>4. "replace" \in Works(l) => Replacing(l)
      BY <1>1 DEF Works, ActivityInv, UploadInv, UploadOK, RowInv, Replacing
    <3>5. "write" \in Works(l) => Writing(l)
      <4>1. ASSUME NEW w \in Standard \ late, writer.at = w, WriteLibrary[w] = l,
                   writer.pc \in {"prepare", "publish", "swap", "discard"}
            PROVE  Writing(l)
        <5>1. writer.pc \in StandardPc /\ writes[w].own /\ writes[w].lease # "lapsed"
          BY <1>1, <4>1, Parts DEF StandardPc, ActivityInv, WriterOwns, LapsedAreLate
        <5>2. TargetOK(w, writes[w], written[w]) /\ writes[w].lease \in Leases
          BY <1>1, Parts DEF ActivityInv, WriteInv, TargetsOK, TargetOK, WriteRow
        <5> QED BY <4>1, <5>1, <5>2 DEF TargetOK, Leases, LiveLease, Writing, Leased
      <4> QED BY <4>1 DEF Works
    <3>6. "sidecar" \in Works(l) => Sidecar(l)
      BY <1>1 DEF Works, ActivityInv, WriterOwns, OpfPc, Sidecar, Leased
    <3> QED BY <3>1, <3>2, <3>3, <3>4, <3>5, <3>6
  <2>2. Works(l) \subseteq {"import", "move", "delete", "replace", "write", "sidecar"}
    BY DEF Works
  <2>3. Exclusive
    BY <1>1 DEF ActivityInv
  <2> DEFINE W == Works(l)
  <2>4. W = {} \/ (\E k : W = {k}) \/ W \in Meetings
    <3> HIDE DEF W
    <3>1. /\ "import" \in W => W \subseteq {"import", "sidecar"}
          /\ "write" \in W => W = {"write"}
          /\ "delete" \in W => W \subseteq {"delete", "move", "sidecar"}
          /\ "replace" \in W => W \subseteq {"replace", "move", "sidecar"}
          /\ "sidecar" \in W => "move" \notin W
      BY <2>1, <2>2, <2>3 DEF W, Exclusive
    <3>2. CASE "import" \in W
      <4>1. W = {"import"} \/ W = {"sidecar", "import"}
        BY <3>1, <3>2
      <4> QED BY <4>1 DEF Meetings
    <3>3. CASE "write" \in W
      BY <3>1, <3>3
    <3>4. CASE "delete" \in W
      <4>1. W = {"delete"} \/ W = {"move", "delete"} \/ W = {"sidecar", "delete"}
        <5>1. "sidecar" \in W => W = {"sidecar", "delete"}
          BY <3>1, <3>4
        <5>2. "sidecar" \notin W => W = {"delete"} \/ W = {"move", "delete"}
          BY <3>1, <3>4
        <5> QED BY <5>1, <5>2
      <4> QED BY <4>1 DEF Meetings
    <3>5. CASE "replace" \in W
      <4>1. W = {"replace"} \/ W = {"move", "replace"} \/ W = {"sidecar", "replace"}
        <5>1. "sidecar" \in W => W = {"sidecar", "replace"}
          BY <3>1, <3>5
        <5>2. "sidecar" \notin W => W = {"replace"} \/ W = {"move", "replace"}
          BY <3>1, <3>5
        <5> QED BY <5>1, <5>2
      <4> QED BY <4>1 DEF Meetings
    <3>6. CASE W \subseteq {"move", "sidecar"}
      <4>1. W = {} \/ W = {"move"} \/ W = {"sidecar"}
        BY <3>1, <3>6
      <4> QED BY <4>1
    <3> QED BY <2>2, <3>2, <3>3, <3>4, <3>5, <3>6 DEF W
  <2> HIDE DEF W
  <2>5. CASE W = {}
    <3>1. Cardinality(W) = 0
      BY <2>5, FS_EmptySet
    <3> QED BY <3>1 DEF W
  <2>6. CASE W \in Meetings
    BY <2>6 DEF W
  <2>7. CASE \E s : W = {s}
    <3>1. Cardinality(W) = 1
      BY <2>7, FS_Singleton
    <3> QED BY <3>1 DEF W
  <2> QED BY <2>4, <2>5, <2>6, <2>7
<1>2. ActivityInv => LibrariesAreShared
  BY <1>1 DEF LibrariesAreShared
<1> QED BY <1>2, ActivityInductive, PTL

\* Every step of the six kinds of work is one of LibraryShare: at most one kind
\* takes libraries in it, and only those where nothing that its claim asks for is
\* at work (claim_next, claim_next_target, SqlAlchemyDeleteStore.save, publish).
THEOREM ActivitySharesLibraries == ActivitySpec => SharesLibraries
<1> DEFINE held == [l \in Library |-> {k \in WorkKind : HeldBy(k, l)}]
<1>1. ActivityInit => Share!Init
  <2>1. ASSUME ActivityInit, NEW l \in Library, NEW k \in WorkKind
        PROVE  ~HeldBy(k, l)
    BY <2>1, ActivityFree DEF HeldBy
  <2> QED BY <2>1 DEF Share!Init
<1>2. ActivityInv /\ [ActivityNext]_activityVars => [Share!Next]_held
  <2> SUFFICES ASSUME ActivityInv, [ActivityNext]_activityVars
               PROVE  Share!Next
    OBVIOUS
  <2>1. PICK k \in WorkKind : \A l \in Library, j \in WorkKind :
                HeldBy(j, l)' => HeldBy(j, l) \/ (j = k /\ Vacant(k, l))
    BY ActivityStep DEF Shares
  <2>2. held' = [l \in Library |-> {j \in WorkKind : HeldBy(j, l)'}]
    OBVIOUS
  <2>3. ASSUME NEW l \in Library
        PROVE  /\ held'[l] \subseteq held[l] \cup {k}
               /\ k \in held'[l] \ held[l] => held[l] \cap WorkAsks[k] = {}
    BY <2>1, <2>2, <2>3 DEF Vacant
  <2>4. held' \in [Library -> SUBSET WorkKind]
    BY <2>2
  <2> HIDE DEF held
  <2>5. Share!Step(k)
    BY <2>3, <2>4 DEF Share!Step, held
  <2> QED BY <2>5 DEF Share!Next
<1> QED BY <1>1, <1>2, ActivityInductive, PTL DEF ActivitySpec, SharesLibraries, Share!Spec
=============================================================================
