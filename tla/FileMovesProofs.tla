-------------------------- MODULE FileMovesProofs --------------------------
(***************************************************************************)
(* Theorems about file moves: what an entry's stage says is where its      *)
(* files are, a move that is under way keeps its libraries locked, and     *)
(* what is settled stays.                                                  *)
(***************************************************************************)
EXTENDS FileMoves, TLAPS, FiniteSetTheorems

MoveRow(o) == [status : MoveStatus, cancel : BOOLEAN, stage : [Entries(o) -> MoveStage]]

MoveTypes ==
    /\ DOMAIN moves = Op /\ DOMAIN files = Op /\ DOMAIN index = Op
    /\ \A o \in Op :
          /\ moves[o] \in MoveRow(o)
          /\ files[o] \in [Entries(o) -> {"source", "both", "destination"}]
          /\ index[o] \in [Entries(o) -> {"source", "destination"}]

Working == {"look", "check", "reread", "publish", "moved", "indexing", "indexed",
            "failing", "finish"}
ControlTypes ==
    /\ mover \in Mover
    /\ mover.op # 0 <=> mover.pc \in Working
    /\ mover.op # 0 => mover.at \in Entries(mover.op)
    /\ mover.pc = "failing" => mover.verdict # "none"
    /\ moveCancel.op \in Op \cup {0} /\ moveCancel.queued \subseteq Nat
    /\ raced \subseteq Op /\ moveFaults \in 0..MaxMoveFault

\* What a stage s says of the place f of the files and the index x
EntryOK(s, f, x) ==
    /\ s \in {"QUEUED", "CANCELLED", "FAILED"} => f = "source" /\ x = "source"
    /\ s \in {"COMPLETED", "INDEX_UPDATED"} => f = "destination" /\ x = "destination"
    /\ s = "FILES_PUBLISHED" => f = "destination"
    /\ x = "destination" => f = "destination"
EntriesOK(o) ==
    /\ \A i \in Entries(o) : EntryOK(moves[o].stage[i], files[o][i], index[o][i])
    /\ (\E i \in Entries(o) : moves[o].stage[i] \in InFlight) => Executing(o)

\* What the executor knows of the entry it works on
Underway == {"reread", "publish", "moved", "indexing", "indexed", "failing"}
EntryTurnOK(pc, v, s, f, x) ==
    /\ pc = "check" => s = "QUEUED"
    /\ pc \in {"reread", "publish"} => s = "PREPARING" /\ f = "source" /\ x = "source"
    /\ pc = "moved" => s = "PREPARING" /\ f = "destination"
    /\ pc = "indexing" => s = "FILES_PUBLISHED"
    /\ pc = "indexed" => s = "INDEX_UPDATED"
    /\ pc = "failing" => /\ s \in {"QUEUED"} \cup InFlight
                         /\ v = "FAILED" => f = "source" /\ x = "source"
ExecutorOK ==
    LET o == mover.op
        i == mover.at
    IN (o # 0 /\ o \notin raced) =>
          /\ moves[o].status = "PREPARING"
          /\ \A j \in Entries(o) : moves[o].stage[j] \in InFlight =>
                j = i /\ mover.pc \in Underway
          /\ EntryTurnOK(mover.pc, mover.verdict, moves[o].stage[i], files[o][i], index[o][i])

MoveInv ==
    /\ MoveTypes /\ ControlTypes
    /\ \A o \in Op \ raced : EntriesOK(o)
    /\ ExecutorOK

----------------------------------------------------------------------------
(* What one step does *)

Settled == Ended \cup {"RECOVERY_REQUIRED"}
SettledStay ==
    \A o \in Op : o \notin raced' =>
        \A i \in Entries(o) : moves[o].stage[i] \in Settled =>
            moves'[o].stage[i] = moves[o].stage[i] /\ files'[o][i] = files[o][i]

\* The executor's entry gets stage s, place f and index x; no other entry changes.
OnlyEntry(s, f, x) ==
    LET o == mover.op
        i == mover.at
    IN /\ \A p \in Op : p # o => /\ moves'[p] = moves[p]
                                 /\ files'[p] = files[p] /\ index'[p] = index[p]
       /\ moves'[o].status = moves[o].status
       /\ \A j \in Entries(o) : j # i =>
             /\ moves'[o].stage[j] = moves[o].stage[j]
             /\ files'[o][j] = files[o][j] /\ index'[o][j] = index[o][j]
       /\ moves'[o].stage[i] = s /\ files'[o][i] = f /\ index'[o][i] = x

\* An operation's status is one of the statuses whatever its entries' stages are.
LEMMA FinishedType ==
    ASSUME NEW stage PROVE Finished(stage) \in MoveStatus
<1> DEFINE seen == Stages(stage)
<1>1. CASE Cardinality(seen) = 1 /\ seen \subseteq Ended
  <2>1. seen # {}
    BY <1>1, FS_EmptySet
  <2>2. (CHOOSE s \in seen : TRUE) \in seen
    BY <2>1
  <2> QED BY <1>1, <2>2 DEF Finished, MoveStatus, MoveStage, Ended
<1>2. CASE ~(Cardinality(seen) = 1 /\ seen \subseteq Ended)
  BY <1>2 DEF Finished, MoveStatus, MoveStage, InFlight
<1> QED BY <1>1, <1>2

\* Operations are not numbered 0, which stands for none.
LEMMA OpNotZero == 0 \notin Op
BY MoveAssumption

\* The executor's save of a stage writes its own entry.
LEMMA SaveWrites ==
    ASSUME MoveTypes, ControlTypes, mover.op # 0, NEW s \in MoveStage, Save(s),
           UNCHANGED <<files, index>>
    PROVE  MoveTypes' /\ OnlyEntry(s, files[mover.op][mover.at], index[mover.op][mover.at])
<1> DEFINE o == mover.op  i == mover.at  r == moves'[o]
<1>1. o \in Op /\ i \in Entries(o)
  BY DEF ControlTypes, Mover
<1>2. moves[o] \in MoveRow(o)
  BY <1>1 DEF MoveTypes
<1>3. DOMAIN moves' = Op /\ \A p \in Op : p # o => moves'[p] = moves[p]
  BY DEF Save, MoveTypes
<1>4. r = [moves[o] EXCEPT !.stage[i] = s]
  BY <1>1 DEF Save, MoveTypes
<1>5. r \in MoveRow(o) /\ r.status = moves[o].status /\ r.stage[i] = s
  BY <1>1, <1>2, <1>4 DEF MoveRow
<1>6. \A j \in Entries(o) : j # i => r.stage[j] = moves[o].stage[j]
  BY <1>1, <1>2, <1>4 DEF MoveRow
<1>7. MoveTypes'
  BY <1>3, <1>5 DEF MoveTypes, MoveRow
<1> QED BY <1>3, <1>5, <1>6, <1>7 DEF OnlyEntry

\* A step of the executor that changes no row.
LEMMA NothingWritten ==
    ASSUME MoveTypes, UNCHANGED <<moves, files, index>>
    PROVE  /\ MoveTypes'
           /\ OnlyEntry(moves[mover.op].stage[mover.at],
                        files[mover.op][mover.at], index[mover.op][mover.at])
BY DEF MoveTypes, MoveRow, OnlyEntry

\* When the executor writes its entry truthfully, all entries stay truthful
\* and what was settled stays.
LEMMA EntryWritten ==
    ASSUME MoveInv, mover.op # 0, NEW s, NEW f, NEW x, OnlyEntry(s, f, x),
           UNCHANGED raced,
           mover.op \notin raced => EntryOK(s, f, x),
           mover.op \notin raced /\ moves[mover.op].stage[mover.at] \in Settled =>
               s = moves[mover.op].stage[mover.at] /\ f = files[mover.op][mover.at]
    PROVE  (\A o \in Op \ raced : EntriesOK(o))' /\ SettledStay
<1>1. mover.op \in Op /\ mover.at \in Entries(mover.op)
  BY DEF MoveInv, ControlTypes, Mover
<1>2. ASSUME NEW o \in Op, o \notin raced PROVE EntriesOK(o)'
  <2>1. EntriesOK(o)
    BY <1>2 DEF MoveInv
  <2>2. CASE o # mover.op
    BY <2>1, <2>2, <1>2 DEF OnlyEntry, EntriesOK, Executing
  <2>3. CASE o = mover.op
    <3>1. Executing(o)'
      BY <2>3, <1>1, <1>2 DEF MoveInv, ExecutorOK, OnlyEntry, Executing, InFlight
    <3>2. \A i \in Entries(o) :
             EntryOK(moves'[o].stage[i], files'[o][i], index'[o][i])
      BY <2>1, <2>3, <1>1, <1>2 DEF OnlyEntry, EntriesOK
    <3> QED BY <3>1, <3>2 DEF EntriesOK, Entries
  <2> QED BY <2>2, <2>3
<1>3. (\A o \in Op \ raced : EntriesOK(o))'
  BY <1>2
<1>4. SettledStay
  BY <1>1 DEF OnlyEntry, SettledStay, Settled
<1> QED BY <1>3, <1>4

\* The executor goes on with the same entry.
LEMMA SameEntry ==
    ASSUME MoveInv, mover.op # 0, NEW s, NEW f, NEW x, OnlyEntry(s, f, x),
           UNCHANGED raced, mover'.op = mover.op, mover'.at = mover.at,
           s \in InFlight => mover'.pc \in Underway,
           mover.op \notin raced => EntryTurnOK(mover'.pc, mover'.verdict, s, f, x)
    PROVE  ExecutorOK'
<1> SUFFICES ASSUME mover.op \notin raced
             PROVE  /\ moves'[mover.op].status = "PREPARING"
                    /\ \A j \in Entries(mover.op) :
                          moves'[mover.op].stage[j] \in InFlight =>
                              j = mover.at /\ mover'.pc \in Underway
                    /\ EntryTurnOK(mover'.pc, mover'.verdict,
                              moves'[mover.op].stage[mover.at],
                              files'[mover.op][mover.at], index'[mover.op][mover.at])
  BY DEF ExecutorOK, EntryTurnOK, Entries
<1> QED BY DEF MoveInv, ExecutorOK, OnlyEntry

\* The executor goes on with the next entry, or to the end of its turn, which
\* it may when the entry it leaves is not under way.
LEMMA OtherEntry ==
    ASSUME MoveInv, mover.op # 0, NEW s, NEW f, NEW x, OnlyEntry(s, f, x),
           UNCHANGED <<raced, moveCancel, moveFaults>>, mover' = NextEntry,
           s \notin InFlight
    PROVE  ExecutorOK' /\ ControlTypes'
<1>1. mover \in Mover /\ mover.op \in Op /\ mover.at \in Entries(mover.op)
  BY DEF MoveInv, ControlTypes, Mover
<1>2. Plan[mover.op] \in Seq([from : Library, to : Library, owner : Nat])
  BY <1>1, MoveAssumption
<1>3. /\ mover' \in Mover /\ mover'.op = mover.op
      /\ mover'.pc \in {"look", "finish"} /\ mover'.at \in Entries(mover.op)
  <2>1. CASE mover.at < Len(Plan[mover.op])
    <3>1. mover' = [mover EXCEPT !.pc = "look", !.at = mover.at + 1,
                                 !.kept = FALSE, !.verdict = "none"]
      BY <2>1 DEF NextEntry
    <3>2. mover.at + 1 \in Entries(mover.op)
      BY <1>1, <1>2, <2>1 DEF Entries
    <3>3. mover.at + 1 \in Nat
      BY <1>2, <3>2 DEF Entries
    <3> QED BY <1>1, <3>1, <3>2, <3>3 DEF Mover, MoverPc
  <2>2. CASE ~(mover.at < Len(Plan[mover.op]))
    BY <1>1, <2>2 DEF NextEntry, Mover, MoverPc
  <2> QED BY <2>1, <2>2
<1>4. ControlTypes'
  BY <1>1, <1>3 DEF MoveInv, ControlTypes, Working, Entries
<1>5. ASSUME mover.op \notin raced
      PROVE  /\ moves'[mover.op].status = "PREPARING"
             /\ \A j \in Entries(mover.op) : moves'[mover.op].stage[j] \notin InFlight
  BY <1>5 DEF MoveInv, ExecutorOK, OnlyEntry
<1>6. ExecutorOK'
  BY <1>3, <1>5 DEF ExecutorOK, EntryTurnOK, Entries
<1> QED BY <1>4, <1>6

\* A step that leaves the rows alone and the worker without an operation.
LEMMA WorkerRests ==
    ASSUME MoveInv, UNCHANGED <<moves, files, index, moveCancel, raced>>,
           NEW p \in {"down", "recovering", "free"}, mover' = Resting(p),
           moveFaults' \in 0..MaxMoveFault
    PROVE  MoveInv' /\ SettledStay
<1>1. mover' \in Mover /\ mover'.op = 0 /\ mover'.pc = p
  BY DEF Resting, Mover, MoverPc
<1>2. ControlTypes'
  BY <1>1, OpNotZero DEF MoveInv, ControlTypes, Working
<1>3. ExecutorOK'
  BY <1>1 DEF ExecutorOK
<1>4. MoveTypes' /\ (\A o \in Op \ raced : EntriesOK(o))'
  BY DEF MoveInv, MoveTypes, MoveRow, EntriesOK, Executing, Entries
<1> QED BY <1>2, <1>3, <1>4 DEF MoveInv, SettledStay

----------------------------------------------------------------------------
(* The actions *)

\* A request or a recovery changes one row, which is not the executor's.
OnlyRow(o) ==
    /\ MoveTypes' /\ \A p \in Op : p # o => moves'[p] = moves[p]
    /\ UNCHANGED <<files, index, mover, moveFaults>>

\* Such a step preserves the invariant when the row it writes does.
LEMMA RowWritten ==
    ASSUME MoveInv, NEW o \in Op, OnlyRow(o), mover.op = o => o \in raced',
           raced \subseteq raced', raced' \subseteq Op,
           moveCancel'.op \in Op \cup {0}, moveCancel'.queued \subseteq Nat,
           o \notin raced' => EntriesOK(o)',
           o \notin raced' =>
               \A i \in Entries(o) : moves[o].stage[i] \in Settled =>
                   moves'[o].stage[i] = moves[o].stage[i]
    PROVE  MoveInv' /\ SettledStay
<1>1. ControlTypes'
  BY DEF MoveInv, ControlTypes, OnlyRow, Entries
<1>2. ASSUME NEW p \in Op, p \notin raced' PROVE EntriesOK(p)'
  BY <1>2 DEF MoveInv, OnlyRow, EntriesOK, Executing, Entries
<1>3. ExecutorOK'
  <2> SUFFICES ASSUME mover.op # 0, mover.op \notin raced' PROVE ExecutorOK'
    BY DEF ExecutorOK, OnlyRow
  <2>1. mover.op \in Op /\ mover.op # o
    BY DEF MoveInv, ControlTypes, Mover
  <2> QED BY <2>1 DEF MoveInv, ExecutorOK, OnlyRow, Entries
<1>4. MoveInv'
  BY <1>1, <1>2, <1>3 DEF MoveInv, OnlyRow
<1>5. SettledStay
  BY DEF SettledStay, OnlyRow
<1> QED BY <1>4, <1>5

\* A new row or a raised flag changes no stage.
LEMMA SubmitsAndFlags ==
    ASSUME MoveInv, NEW o \in Op, Enqueue(o) \/ CancelClaimed(o) \/ CancelReads(o)
    PROVE  MoveInv' /\ SettledStay
<1>1. moves[o] \in MoveRow(o) /\ DOMAIN moves = Op
  BY DEF MoveInv, MoveTypes
<1>2. CASE Enqueue(o)
  <2>1. moves' = [moves EXCEPT ![o].status = "QUEUED"] /\ moves[o].status = "ABSENT"
    BY <1>2 DEF Enqueue
  <2>2. /\ moves'[o] = [moves[o] EXCEPT !.status = "QUEUED"]
        /\ DOMAIN moves' = Op /\ \A p \in Op : p # o => moves'[p] = moves[p]
    BY <1>1, <2>1
  <2>3. moves'[o] \in MoveRow(o) /\ moves'[o].stage = moves[o].stage
    BY <1>1, <2>2 DEF MoveRow, MoveStatus, MoveStage
  <2>4. OnlyRow(o)
    BY <1>2, <2>2, <2>3 DEF MoveInv, MoveTypes, MoveRow, OnlyRow, Enqueue
  <2>5. mover.op = o => o \in raced
    BY <2>1, OpNotZero DEF MoveInv, ExecutorOK
  <2>6. o \notin raced => EntriesOK(o)'
    BY <1>2, <2>1, <2>3 DEF MoveInv, EntriesOK, Executing, InFlight, Enqueue, Entries
  <2> QED BY <1>2, <2>3, <2>4, <2>5, <2>6, RowWritten DEF Enqueue, MoveInv, ControlTypes
<1>3. CASE CancelClaimed(o)
  <2>1. moves' = [moves EXCEPT ![o].cancel = TRUE]
    BY <1>3 DEF CancelClaimed
  <2>2. /\ moves'[o] = [moves[o] EXCEPT !.cancel = TRUE]
        /\ DOMAIN moves' = Op /\ \A p \in Op : p # o => moves'[p] = moves[p]
    BY <1>1, <2>1
  <2>3. /\ moves'[o] \in MoveRow(o) /\ moves'[o].stage = moves[o].stage
        /\ moves'[o].status = moves[o].status
    BY <1>1, <2>2 DEF MoveRow
  <2>4. MoveTypes'
    BY <1>3, <2>2, <2>3 DEF MoveInv, MoveTypes, MoveRow, CancelClaimed
  <2>5. \A p \in Op : /\ moves'[p].stage = moves[p].stage
                      /\ moves'[p].status = moves[p].status
    BY <2>2, <2>3
  <2>6. (\A p \in Op \ raced : EntriesOK(p))'
    BY <1>3, <2>5 DEF MoveInv, EntriesOK, Executing, CancelClaimed, Entries
  <2>7. ExecutorOK' /\ ControlTypes' /\ SettledStay
    BY <1>3, <2>5 DEF MoveInv, ExecutorOK, ControlTypes, Mover, CancelClaimed, SettledStay,
       Entries
  <2> QED BY <2>4, <2>6, <2>7 DEF MoveInv
<1>4. CASE CancelReads(o)
  <2>1. moveCancel'.op = o /\ moveCancel'.queued \subseteq Nat
    BY <1>4, MoveAssumption DEF CancelReads, Waiting, Entries
  <2>2. MoveTypes' /\ (\A p \in Op \ raced : EntriesOK(p))' /\ ExecutorOK' /\ SettledStay
    BY <1>4 DEF MoveInv, MoveTypes, MoveRow, EntriesOK, Executing, ExecutorOK, CancelReads,
       SettledStay, Entries
  <2>3. ControlTypes'
    BY <1>4, <2>1 DEF MoveInv, ControlTypes, CancelReads, Entries
  <2> QED BY <2>2, <2>3 DEF MoveInv
<1> QED BY <1>2, <1>3, <1>4

\* Cancelling either finds the entries it read still waiting, or is a race.
LEMMA CancelWritten ==
    ASSUME MoveInv, CancelWrites PROVE MoveInv' /\ SettledStay
<1>0. moveCancel.op \in Op
  BY DEF MoveInv, ControlTypes, CancelWrites
<1> SUFFICES ASSUME NEW o \in Op, o = moveCancel.op PROVE MoveInv' /\ SettledStay
  BY <1>0
<1> DEFINE stage == [i \in Entries(o) |-> IF i \in moveCancel.queued THEN "CANCELLED"
                                          ELSE moves[o].stage[i]]
<1>1. o \in Op /\ moves[o] \in MoveRow(o) /\ DOMAIN moves = Op
  BY DEF MoveInv, MoveTypes, ControlTypes, CancelWrites
<1>2. stage \in [Entries(o) -> MoveStage]
  BY <1>1 DEF MoveRow, MoveStage, Ended
<1>3. /\ moves' = [moves EXCEPT ![o] = [status |-> Finished(stage), cancel |-> TRUE,
                                        stage |-> stage]]
      /\ moveCancel' = NoCancel /\ UNCHANGED <<files, index, mover, moveFaults>>
      /\ raced' = IF moves[o].status = "QUEUED" /\ moveCancel.queued \subseteq Waiting(o)
                  THEN raced ELSE raced \cup {o}
  BY DEF CancelWrites
<1>4. \A i \in Entries(o) : stage[i] = IF i \in moveCancel.queued THEN "CANCELLED"
                                       ELSE moves[o].stage[i]
  OBVIOUS
<1> HIDE DEF stage
<1>5. moves'[o].stage = stage /\ moves'[o] \in MoveRow(o)
  BY <1>1, <1>2, <1>3, FinishedType DEF MoveRow
<1>6. OnlyRow(o)
  BY <1>1, <1>3, <1>5 DEF MoveInv, MoveTypes, MoveRow, OnlyRow
<1>7. moveCancel'.op = 0 /\ moveCancel'.queued = {}
  BY <1>3 DEF NoCancel
<1>8. ASSUME o \notin raced'
      PROVE  /\ o \notin raced /\ moves[o].status = "QUEUED"
             /\ \A i \in Entries(o) :
                   i \in moveCancel.queued => moves[o].stage[i] = "QUEUED"
  BY <1>3, <1>8 DEF Waiting
<1>9. ASSUME o \notin raced' PROVE EntriesOK(o)'
  <2>1. EntriesOK(o) /\ ~Executing(o)
    BY <1>1, <1>8, <1>9 DEF MoveInv, Executing, InFlight
  <2>2. \A i \in Entries(o) : /\ EntryOK(stage[i], files[o][i], index[o][i])
                              /\ stage[i] \notin InFlight
    BY <1>4, <1>8, <1>9, <2>1 DEF EntriesOK, EntryOK, InFlight
  <2>3. UNCHANGED <<files, index>>
    BY <1>3
  <2> QED BY <1>5, <2>2, <2>3 DEF EntriesOK, Entries
<1>10. mover.op = o => o \in raced'
  BY <1>1, <1>8, OpNotZero DEF MoveInv, ExecutorOK
<1>11. ASSUME o \notin raced'
       PROVE  \A i \in Entries(o) : moves[o].stage[i] \in Settled =>
                  moves'[o].stage[i] = moves[o].stage[i]
  BY <1>4, <1>5, <1>8, <1>11 DEF Settled, Ended
<1>12. raced \subseteq raced' /\ raced' \subseteq Op
  BY <1>1, <1>3 DEF MoveInv, ControlTypes
<1> QED BY <1>1, <1>6, <1>7, <1>9, <1>10, <1>11, <1>12, RowWritten

\* Recovery quarantines what was under way and settles the rest.
LEMMA QuarantineKeeps ==
    ASSUME MoveInv, NEW o \in Op, QuarantineMove(o) PROVE MoveInv' /\ SettledStay
<1> DEFINE q == Quarantined(o)
<1>1. moves[o] \in MoveRow(o) /\ DOMAIN moves = Op
  BY DEF MoveInv, MoveTypes
<1>2. q \in [Entries(o) -> MoveStage]
  BY <1>1 DEF Quarantined, MoveRow, MoveStage
<1>3. \A i \in Entries(o) :
         q[i] = IF moves[o].stage[i] \in InFlight THEN "RECOVERY_REQUIRED"
                ELSE moves[o].stage[i]
  BY DEF Quarantined
<1>4. moves' = [moves EXCEPT ![o].stage = q, ![o].status = Finished(q)]
  BY DEF QuarantineMove
<1> DEFINE st == Finished(q)
<1>st. st \in MoveStatus
  BY FinishedType
<1> HIDE DEF q, st
<1>5. /\ moves'[o] = [moves[o] EXCEPT !.stage = q, !.status = st]
      /\ DOMAIN moves' = Op /\ \A p \in Op : p # o => moves'[p] = moves[p]
  BY <1>1, <1>4 DEF st
<1>6. moves'[o] \in MoveRow(o) /\ moves'[o].stage = q
  BY <1>1, <1>2, <1>5, <1>st DEF MoveRow
<1>7. OnlyRow(o) /\ UNCHANGED <<raced, moveCancel>>
  BY <1>5, <1>6 DEF MoveInv, MoveTypes, MoveRow, OnlyRow, QuarantineMove
<1>8. mover.op = 0
  BY DEF MoveInv, ControlTypes, Working, QuarantineMove
<1>9. ASSUME o \notin raced PROVE EntriesOK(o)'
  <2>0. EntriesOK(o)
    BY <1>9 DEF MoveInv
  <2>1. \A i \in Entries(o) : /\ EntryOK(q[i], files[o][i], index[o][i])
                              /\ q[i] \notin InFlight
    BY <1>3, <2>0 DEF MoveInv, EntriesOK, EntryOK, InFlight
  <2> QED BY <1>6, <1>7, <2>1 DEF EntriesOK, OnlyRow, Entries
<1>10. \A i \in Entries(o) : moves[o].stage[i] \in Settled =>
          moves'[o].stage[i] = moves[o].stage[i]
  BY <1>3, <1>6 DEF Settled, Ended, InFlight
<1> QED BY <1>7, <1>8, <1>9, <1>10, OpNotZero, RowWritten DEF MoveInv, ControlTypes

\* Only an operation with nothing under way is claimed.
LEMMA ClaimKeeps ==
    ASSUME MoveInv, NEW o \in Op, NEW busy, ClaimMove(o, busy)
    PROVE  MoveInv' /\ SettledStay
<1>1. moves[o] \in MoveRow(o) /\ DOMAIN moves = Op
  BY DEF MoveInv, MoveTypes
<1>2. /\ moves' = [moves EXCEPT ![o].status = "PREPARING"]
      /\ UNCHANGED <<files, index, moveCancel, raced, moveFaults>>
      /\ ~Executing(o) /\ Waiting(o) # {}
  BY DEF ClaimMove, Claimable, Executing, InFlight
<1>3. /\ moves'[o] = [moves[o] EXCEPT !.status = "PREPARING"]
      /\ DOMAIN moves' = Op /\ \A p \in Op : p # o => moves'[p] = moves[p]
  BY <1>1, <1>2
<1>4. /\ moves'[o] \in MoveRow(o) /\ moves'[o].stage = moves[o].stage
      /\ moves'[o].status = "PREPARING"
  BY <1>1, <1>3 DEF MoveRow, MoveStatus, MoveStage, InFlight
<1>5. MoveTypes'
  BY <1>2, <1>3, <1>4 DEF MoveInv, MoveTypes, MoveRow
<1>6. \A p \in Op : moves'[p].stage = moves[p].stage
  BY <1>3, <1>4
<1>7. (\A p \in Op \ raced : EntriesOK(p))'
  BY <1>2, <1>3, <1>4 DEF MoveInv, EntriesOK, Executing, InFlight, Entries
<1>8. /\ mover'.pc = "look" /\ mover'.op = o /\ mover'.at = 1
      /\ mover' \in Mover
  BY DEF ClaimMove, Resting, Mover, MoverPc
<1>9. 1 \in Entries(o)
  <2>1. Plan[o] \in Seq([from : Library, to : Library, owner : Nat])
    BY MoveAssumption
  <2> QED BY <1>2, <2>1 DEF Waiting, Entries
<1>10. ControlTypes'
  BY <1>2, <1>8, <1>9, OpNotZero DEF MoveInv, ControlTypes, Working, Entries
<1>11. ExecutorOK'
  BY <1>2, <1>4, <1>6, <1>8 DEF MoveInv, EntriesOK, ExecutorOK, EntryTurnOK, Entries
<1>12. SettledStay
  BY <1>2, <1>6 DEF SettledStay
<1> QED BY <1>5, <1>7, <1>10, <1>11, <1>12 DEF MoveInv

\* A step of the executor that stays with its entry.
LEMMA GoesOn ==
    ASSUME MoveInv, mover.op # 0, NEW s, NEW f, NEW x, OnlyEntry(s, f, x), MoveTypes',
           UNCHANGED <<raced, moveCancel>>, moveFaults' \in 0..MaxMoveFault,
           mover' \in Mover, mover'.op = mover.op, mover'.at = mover.at,
           mover'.pc \in Working, mover'.pc = "failing" => mover'.verdict # "none",
           s \in InFlight => mover'.pc \in Underway,
           mover.op \notin raced =>
               EntryOK(s, f, x) /\ EntryTurnOK(mover'.pc, mover'.verdict, s, f, x),
           mover.op \notin raced /\ moves[mover.op].stage[mover.at] \in Settled =>
               s = moves[mover.op].stage[mover.at] /\ f = files[mover.op][mover.at]
    PROVE  MoveInv' /\ SettledStay
<1>1. (\A o \in Op \ raced : EntriesOK(o))' /\ SettledStay
  BY EntryWritten
<1>2. ExecutorOK'
  BY SameEntry
<1>3. ControlTypes'
  BY DEF MoveInv, ControlTypes, Entries
<1> QED BY <1>1, <1>2, <1>3 DEF MoveInv

\* A step of the executor that leaves its entry.
LEMMA LeavesEntry ==
    ASSUME MoveInv, mover.op # 0, NEW s, NEW f, NEW x, OnlyEntry(s, f, x), MoveTypes',
           UNCHANGED <<raced, moveCancel, moveFaults>>, mover' = NextEntry,
           s \notin InFlight, mover.op \notin raced => EntryOK(s, f, x),
           mover.op \notin raced /\ moves[mover.op].stage[mover.at] \in Settled =>
               s = moves[mover.op].stage[mover.at] /\ f = files[mover.op][mover.at]
    PROVE  MoveInv' /\ SettledStay
<1>1. (\A o \in Op \ raced : EntriesOK(o))' /\ SettledStay
  BY EntryWritten
<1>2. ExecutorOK' /\ ControlTypes'
  BY OtherEntry
<1> QED BY <1>1, <1>2 DEF MoveInv

\* What the invariant says of the executor's own entry.
LEMMA OwnEntry ==
    ASSUME MoveInv, mover.pc \in Working
    PROVE  /\ mover \in Mover /\ mover.op # 0 /\ mover.op \in Op
           /\ mover.at \in Entries(mover.op) /\ MoveTypes /\ ControlTypes
           /\ moves[mover.op] \in MoveRow(mover.op)
           /\ moves[mover.op].stage[mover.at] \in MoveStage
           /\ mover.op \notin raced =>
                 /\ moves[mover.op].stage[mover.at] \in InFlight => mover.pc \in Underway
                 /\ EntryOK(moves[mover.op].stage[mover.at],
                            files[mover.op][mover.at], index[mover.op][mover.at])
                 /\ EntryTurnOK(mover.pc, mover.verdict, moves[mover.op].stage[mover.at],
                           files[mover.op][mover.at], index[mover.op][mover.at])
<1>1. mover \in Mover /\ mover.op # 0 /\ mover.op \in Op /\ mover.at \in Entries(mover.op)
  BY DEF MoveInv, ControlTypes, Mover
<1>2. moves[mover.op] \in MoveRow(mover.op)
  BY <1>1 DEF MoveInv, MoveTypes
<1>3. moves[mover.op].stage[mover.at] \in MoveStage
  BY <1>1, <1>2 DEF MoveRow
<1>4. mover.op \notin raced => EntriesOK(mover.op)
  BY <1>1 DEF MoveInv
<1> QED BY <1>1, <1>2, <1>3, <1>4 DEF MoveInv, ExecutorOK, EntriesOK

\* Giving up an entry before anything is uncertain, or as uncertain.
LEMMA GivesUp ==
    ASSUME MoveInv, mover.pc \in Working, NEW v \in {"FAILED", "RECOVERY_REQUIRED"},
           FailWith(v), UNCHANGED <<moves, files, index, raced, moveCancel>>,
           moveFaults' \in 0..MaxMoveFault,
           mover.op \notin raced =>
               moves[mover.op].stage[mover.at] \in {"QUEUED"} \cup InFlight,
           mover.op \notin raced /\ v = "FAILED" =>
               files[mover.op][mover.at] = "source" /\ index[mover.op][mover.at] = "source"
    PROVE  MoveInv' /\ SettledStay
<1> DEFINE s == moves[mover.op].stage[mover.at]
           f == files[mover.op][mover.at]
           x == index[mover.op][mover.at]
<1>1. MoveTypes' /\ OnlyEntry(s, f, x)
  BY OwnEntry, NothingWritten
<1>2. /\ mover' \in Mover /\ mover'.op = mover.op /\ mover'.at = mover.at
      /\ mover'.pc = "failing" /\ mover'.verdict = v
  BY OwnEntry DEF FailWith, Mover, MoverPc
<1>3. mover.op \notin raced => EntryOK(s, f, x) /\ EntryTurnOK("failing", v, s, f, x)
  BY OwnEntry DEF EntryTurnOK
<1> QED BY <1>1, <1>2, <1>3, OwnEntry, GoesOn DEF Working, Underway

\* Looking at an entry, and validating it, writes nothing that is not true.
LEMMA LookKeeps ==
    ASSUME MoveInv, SkipEntry \/ CancelEntry \/ LookEntry PROVE MoveInv' /\ SettledStay
<1> DEFINE s == moves[mover.op].stage[mover.at]
           f == files[mover.op][mover.at]
           x == index[mover.op][mover.at]
<1>1. mover.pc = "look" /\ mover.pc \in Working /\ moveFaults' = moveFaults
  BY DEF SkipEntry, CancelEntry, LookEntry, AtPc, Working
<1>f. moveFaults \in 0..MaxMoveFault
  BY DEF MoveInv, ControlTypes
<1>2. CASE SkipEntry
  <2>1. MoveTypes' /\ OnlyEntry(s, f, x)
    BY <1>1, <1>2, OwnEntry, NothingWritten DEF SkipEntry
  <2>2. s \notin InFlight
    BY <1>2 DEF SkipEntry, Now, Ended, InFlight
  <2> QED BY <1>1, <1>2, <2>1, <2>2, OwnEntry, LeavesEntry DEF SkipEntry
<1>3. CASE CancelEntry /\ Companions(mover.op, mover.at)
  <2>1. /\ FailWith("RECOVERY_REQUIRED") /\ s = "QUEUED"
        /\ UNCHANGED <<moves, files, index, raced, moveCancel>>
    BY <1>3 DEF CancelEntry, Now
  <2> QED BY <1>1, <1>f, <2>1, GivesUp
<1>4. CASE CancelEntry /\ ~Companions(mover.op, mover.at)
  <2>1. /\ Save("CANCELLED") /\ mover' = NextEntry /\ s = "QUEUED"
        /\ UNCHANGED <<files, index, raced, moveCancel, moveFaults>>
    BY <1>4 DEF CancelEntry, Now
  <2>2. MoveTypes' /\ OnlyEntry("CANCELLED", f, x)
    BY <1>1, <2>1, OwnEntry, SaveWrites DEF MoveStage, Ended
  <2>3. mover.op \notin raced => EntryOK("CANCELLED", f, x)
    BY <1>1, <2>1, OwnEntry DEF EntryOK
  <2> QED BY <1>1, <2>1, <2>2, <2>3, OwnEntry, LeavesEntry DEF InFlight, Settled, Ended
<1>5. CASE LookEntry
  <2>1. MoveTypes' /\ OnlyEntry(s, f, x)
    BY <1>1, <1>5, OwnEntry, NothingWritten DEF LookEntry
  <2> DEFINE kept == Companions(mover.op, mover.at)
  <2>2. mover' = [mover EXCEPT !.pc = "check", !.kept = kept] /\ s = "QUEUED"
    BY <1>5 DEF LookEntry, Now
  <2>3. kept \in BOOLEAN
    BY DEF Companions
  <2> HIDE DEF kept
  <2>4. /\ mover' \in Mover /\ mover'.op = mover.op /\ mover'.at = mover.at
        /\ mover'.pc = "check"
    BY <1>1, <2>2, <2>3, OwnEntry DEF Mover, MoverPc
  <2>5. mover.op \notin raced => EntryOK(s, f, x) /\ EntryTurnOK("check", mover'.verdict, s, f, x)
    BY <1>1, <2>2, OwnEntry DEF EntryTurnOK
  <2> QED BY <1>1, <1>f, <1>5, <2>1, <2>2, <2>4, <2>5, OwnEntry, GoesOn
          DEF LookEntry, Working, InFlight
<1> QED BY <1>2, <1>3, <1>4, <1>5

\* A saved checkpoint of an entry that is worked on.
LEMMA EntryCheckpoint ==
    ASSUME MoveInv, mover.pc \in Working, NEW s \in InFlight, Save(s),
           NEW p \in Underway \ {"failing"}, Goto(p),
           UNCHANGED <<files, index, raced, moveCancel, moveFaults>>,
           mover.op \notin raced =>
               /\ moves[mover.op].stage[mover.at] \notin Settled
               /\ EntryOK(s, files[mover.op][mover.at], index[mover.op][mover.at])
               /\ EntryTurnOK(p, mover.verdict, s, files[mover.op][mover.at],
                         index[mover.op][mover.at])
    PROVE  MoveInv' /\ SettledStay
<1> DEFINE f == files[mover.op][mover.at]
           x == index[mover.op][mover.at]
<1>1. MoveTypes' /\ OnlyEntry(s, f, x)
  BY OwnEntry, SaveWrites DEF MoveStage
<1>2. /\ mover' \in Mover /\ mover'.op = mover.op /\ mover'.at = mover.at
      /\ mover'.pc = p /\ mover'.verdict = mover.verdict
  BY OwnEntry DEF Goto, Mover, MoverPc, Underway
<1> QED BY <1>1, <1>2, OwnEntry, GoesOn DEF Working, Underway, MoveInv, ControlTypes

\* The checks before a publication: whatever they decide, nothing has moved.
LEMMA CheckKeeps ==
    ASSUME MoveInv, CheckEntry \/ RereadCancel PROVE MoveInv' /\ SettledStay
<1> DEFINE s == moves[mover.op].stage[mover.at]
           f == files[mover.op][mover.at]
           x == index[mover.op][mover.at]
<1>1. /\ mover.pc \in {"check", "reread"} /\ mover.pc \in Working
      /\ moveFaults' \in 0..MaxMoveFault
      /\ UNCHANGED <<files, index, moveCancel, raced, moveFaults>>
  BY DEF CheckEntry, RereadCancel, AtPc, Working, MoveInv, ControlTypes
<1>2. mover.op \notin raced =>
         s \in {"QUEUED", "PREPARING"} /\ f = "source" /\ x = "source"
  BY <1>1, OwnEntry DEF EntryTurnOK, EntryOK
<1>3. CASE (\E v \in {"FAILED", "RECOVERY_REQUIRED"} : FailWith(v)) /\ UNCHANGED moves
  BY <1>1, <1>2, <1>3, GivesUp DEF InFlight
<1>4. CASE AtPc("check") /\ Save("PREPARING") /\ Goto("reread")
  <2>1. mover.op \notin raced => EntryOK("PREPARING", f, x) /\ s = "QUEUED"
    BY <1>2, <1>4, OwnEntry DEF EntryOK, EntryTurnOK, AtPc, Working
  <2>2. mover.op \notin raced => EntryTurnOK("reread", mover.verdict, "PREPARING", f, x)
    BY <1>2 DEF EntryTurnOK
  <2> QED BY <1>1, <1>4, <2>1, <2>2, EntryCheckpoint DEF InFlight, Underway, Settled, Ended
<1>5. CASE AtPc("reread") /\ Goto("publish") /\ UNCHANGED moves
  <2>1. MoveTypes' /\ OnlyEntry(s, f, x)
    BY <1>1, <1>5, OwnEntry, NothingWritten
  <2>2. /\ mover' \in Mover /\ mover'.op = mover.op /\ mover'.at = mover.at
        /\ mover'.pc = "publish"
    BY <1>1, <1>5, OwnEntry DEF Goto, Mover, MoverPc
  <2>3. mover.op \notin raced =>
           EntryOK(s, f, x) /\ EntryTurnOK("publish", mover'.verdict, s, f, x)
    BY <1>1, <1>2, <1>5, OwnEntry DEF EntryTurnOK, AtPc
  <2> QED BY <1>1, <2>1, <2>2, <2>3, OwnEntry, GoesOn DEF Working, Underway
<1>6. CASE Save("CANCELLED") /\ mover' = NextEntry
  <2>1. MoveTypes' /\ OnlyEntry("CANCELLED", f, x)
    BY <1>1, <1>6, OwnEntry, SaveWrites DEF MoveStage, Ended
  <2>2. mover.op \notin raced => EntryOK("CANCELLED", f, x)
    BY <1>2 DEF EntryOK
  <2> QED BY <1>1, <1>2, <1>6, <2>1, <2>2, OwnEntry, LeavesEntry
          DEF InFlight, Settled, Ended
<1>7. CASE CheckEntry
  BY <1>3, <1>4, <1>7 DEF CheckEntry, Fails
<1>8. CASE RereadCancel
  BY <1>3, <1>5, <1>6, <1>8 DEF RereadCancel, Fails
<1> QED BY <1>7, <1>8

\* The publication and the checkpoints that follow it.
LEMMA PublishKeeps ==
    ASSUME MoveInv, PublishFiles \/ SavePublished \/ ApplyIndex
    PROVE  MoveInv' /\ SettledStay
<1> DEFINE o == mover.op  i == mover.at
           s == moves[mover.op].stage[mover.at]
           f == files[mover.op][mover.at]
           x == index[mover.op][mover.at]
<1>1. /\ mover.pc \in {"publish", "moved", "indexing"} /\ mover.pc \in Working
      /\ moveFaults' \in 0..MaxMoveFault
      /\ UNCHANGED <<moveCancel, raced, moveFaults>>
  BY DEF PublishFiles, SavePublished, ApplyIndex, AtPc, Working, MoveInv, ControlTypes
<1>2. /\ files[o] \in [Entries(o) -> {"source", "both", "destination"}]
      /\ index[o] \in [Entries(o) -> {"source", "destination"}]
  BY <1>1, OwnEntry DEF MoveTypes
<1>3. CASE PublishFiles
  <2>1. PICK place \in {"source", "both", "destination"} :
          /\ files' = [files EXCEPT ![o][i] = place]
          /\ (place = "destination" /\ Goto("moved")) \/ FailWith("RECOVERY_REQUIRED")
    BY <1>3 DEF PublishFiles
  <2>2. MoveTypes' /\ OnlyEntry(s, place, x)
    BY <1>1, <1>2, <1>3, <2>1, OwnEntry DEF PublishFiles, MoveTypes, MoveRow, OnlyEntry
  <2>3. mover.op \notin raced => s = "PREPARING" /\ x = "source"
    BY <1>1, <1>3, OwnEntry DEF EntryTurnOK, PublishFiles, AtPc
  <2>4. mover.op \notin raced => EntryOK(s, place, x)
    BY <2>3 DEF EntryOK
  <2>5. CASE place = "destination" /\ Goto("moved")
    <3>1. /\ mover' \in Mover /\ mover'.op = mover.op /\ mover'.at = mover.at
          /\ mover'.pc = "moved"
      BY <1>1, <2>5, OwnEntry DEF Goto, Mover, MoverPc
    <3>2. mover.op \notin raced => EntryTurnOK("moved", mover'.verdict, s, place, x)
      BY <2>3, <2>5 DEF EntryTurnOK
    <3> QED BY <1>1, <2>2, <2>3, <2>4, <3>1, <3>2, OwnEntry, GoesOn
            DEF Working, Underway, Settled, Ended
  <2>6. CASE FailWith("RECOVERY_REQUIRED")
    <3>1. /\ mover' \in Mover /\ mover'.op = mover.op /\ mover'.at = mover.at
          /\ mover'.pc = "failing" /\ mover'.verdict = "RECOVERY_REQUIRED"
      BY <1>1, <2>6, OwnEntry DEF FailWith, Mover, MoverPc
    <3>2. mover.op \notin raced => EntryTurnOK("failing", "RECOVERY_REQUIRED", s, place, x)
      BY <2>3 DEF EntryTurnOK, InFlight
    <3> QED BY <1>1, <2>2, <2>3, <2>4, <3>1, <3>2, OwnEntry, GoesOn
            DEF Working, Underway, Settled, Ended
  <2> QED BY <2>1, <2>5, <2>6
<1>4. CASE SavePublished
  <2>1. Save("FILES_PUBLISHED") /\ Goto("indexing") /\ UNCHANGED <<files, index>>
    BY <1>4 DEF SavePublished
  <2>2. mover.op \notin raced => s = "PREPARING" /\ f = "destination"
    BY <1>1, <1>4, OwnEntry DEF EntryTurnOK, SavePublished, AtPc
  <2>3. mover.op \notin raced =>
           /\ EntryOK("FILES_PUBLISHED", f, x)
           /\ EntryTurnOK("indexing", mover.verdict, "FILES_PUBLISHED", f, x)
    BY <2>2 DEF EntryOK, EntryTurnOK
  <2> QED BY <1>1, <2>1, <2>2, <2>3, EntryCheckpoint DEF InFlight, Underway, Settled, Ended
<1>5. CASE ApplyIndex /\ FailWith("RECOVERY_REQUIRED") /\ UNCHANGED <<moves, index>>
  <2>1. mover.op \notin raced => s \in InFlight
    BY <1>1, <1>5, OwnEntry DEF EntryTurnOK, ApplyIndex, AtPc, InFlight
  <2> QED BY <1>1, <1>5, <2>1, GivesUp DEF ApplyIndex
<1>6. CASE /\ ApplyIndex /\ index' = [index EXCEPT ![o][i] = "destination"]
           /\ Save("INDEX_UPDATED") /\ Goto("indexed")
  <2>1. mover.op \notin raced => s = "FILES_PUBLISHED" /\ f = "destination"
    BY <1>1, <1>6, OwnEntry DEF EntryTurnOK, EntryOK, ApplyIndex, AtPc
  <2>2. MoveTypes' /\ OnlyEntry("INDEX_UPDATED", f, "destination")
    <3> DEFINE r == [moves[o] EXCEPT !.stage[i] = "INDEX_UPDATED"]
    <3>1. moves' = [moves EXCEPT ![o] = r] /\ UNCHANGED files
      BY <1>6, OwnEntry, <1>1 DEF Save, ApplyIndex, MoveTypes
    <3>2. /\ r \in MoveRow(o) /\ r.status = moves[o].status
          /\ r.stage[i] = "INDEX_UPDATED"
          /\ \A j \in Entries(o) : j # i => r.stage[j] = moves[o].stage[j]
      BY <1>1, OwnEntry DEF MoveRow, MoveStage, InFlight
    <3> HIDE DEF r
    <3>3. /\ DOMAIN moves' = Op /\ moves'[o] = r
          /\ \A p \in Op : p # o => moves'[p] = moves[p]
      BY <1>1, <3>1, OwnEntry DEF MoveTypes
    <3>4. /\ DOMAIN index' = Op /\ index'[o] = [index[o] EXCEPT ![i] = "destination"]
          /\ \A p \in Op : p # o => index'[p] = index[p]
      BY <1>1, <1>6, OwnEntry DEF MoveTypes
    <3>5. /\ index'[o] \in [Entries(o) -> {"source", "destination"}]
          /\ index'[o][i] = "destination"
          /\ \A j \in Entries(o) : j # i => index'[o][j] = index[o][j]
      BY <1>1, <1>2, <3>4, OwnEntry
    <3>6. MoveTypes'
      BY <1>1, <3>1, <3>2, <3>3, <3>4, <3>5, OwnEntry DEF MoveTypes, MoveRow, Entries
    <3> QED BY <3>1, <3>2, <3>3, <3>4, <3>5, <3>6 DEF OnlyEntry
  <2>3. /\ mover' \in Mover /\ mover'.op = mover.op /\ mover'.at = mover.at
        /\ mover'.pc = "indexed"
    BY <1>1, <1>6, OwnEntry DEF Goto, Mover, MoverPc
  <2>4. mover.op \notin raced =>
           /\ EntryOK("INDEX_UPDATED", f, "destination")
           /\ EntryTurnOK("indexed", mover'.verdict, "INDEX_UPDATED", f, "destination")
    BY <2>1 DEF EntryOK, EntryTurnOK
  <2> QED BY <1>1, <2>1, <2>2, <2>3, <2>4, OwnEntry, GoesOn
          DEF Working, Underway, Settled, Ended
<1>7. CASE ApplyIndex
  BY <1>5, <1>6, <1>7 DEF ApplyIndex
<1> QED BY <1>3, <1>4, <1>7

\* The end of an entry, told as it is.
LEMMA SettleKeeps ==
    ASSUME MoveInv, SaveCompleted \/ SaveFailure PROVE MoveInv' /\ SettledStay
<1> DEFINE s == moves[mover.op].stage[mover.at]
           f == files[mover.op][mover.at]
           x == index[mover.op][mover.at]
           n == IF mover.pc = "indexed" THEN "COMPLETED" ELSE mover.verdict
<1>1. /\ mover.pc \in {"indexed", "failing"} /\ mover.pc \in Working
      /\ Save(n) /\ mover' = NextEntry
      /\ UNCHANGED <<files, index, moveCancel, raced, moveFaults>>
  BY DEF SaveCompleted, SaveFailure, AtPc, Working
<1>2. n \in MoveStage /\ n \notin InFlight
  BY <1>1, OwnEntry DEF MoveStage, Ended, InFlight, Mover, ControlTypes
<1>3. mover.op \notin raced => s \notin Settled /\ EntryOK(n, f, x)
  BY <1>1, OwnEntry DEF EntryTurnOK, EntryOK, InFlight, Settled, Ended, Mover
<1> HIDE DEF n
<1>4. MoveTypes' /\ OnlyEntry(n, f, x)
  BY <1>1, <1>2, OwnEntry, SaveWrites
<1> QED BY <1>1, <1>2, <1>3, <1>4, OwnEntry, LeavesEntry

\* The end of a turn: the status says no entry is under way, and none is.
LEMMA FinishKeeps ==
    ASSUME MoveInv, FinishMove PROVE MoveInv' /\ SettledStay
<1> SUFFICES ASSUME NEW o \in Op, o = mover.op PROVE MoveInv' /\ SettledStay
  BY OwnEntry DEF FinishMove, AtPc, Working
<1>1. /\ mover.pc = "finish" /\ mover.pc \in Working /\ mover' = Resting("free")
      /\ UNCHANGED <<files, index, moveCancel, raced, moveFaults>>
  BY DEF FinishMove, AtPc, Working
<1> DEFINE st == Finished(moves[o].stage)
<1>2. st \in MoveStatus
  BY FinishedType
<1>3. moves' = [moves EXCEPT ![o].status = st]
  BY DEF FinishMove
<1> HIDE DEF st
<1>4. /\ DOMAIN moves' = Op /\ moves'[o] = [moves[o] EXCEPT !.status = st]
      /\ \A p \in Op : p # o => moves'[p] = moves[p]
  BY <1>1, <1>3, OwnEntry DEF MoveTypes
<1>5. moves'[o] \in MoveRow(o) /\ moves'[o].stage = moves[o].stage
  BY <1>1, <1>2, <1>4, OwnEntry DEF MoveRow
<1>6. MoveTypes'
  BY <1>1, <1>4, <1>5 DEF MoveInv, MoveTypes, MoveRow
<1>7. o \notin raced => \A j \in Entries(o) : moves[o].stage[j] \notin InFlight
  BY <1>1, OpNotZero DEF MoveInv, ExecutorOK, Underway
<1>8. ASSUME NEW p \in Op, p \notin raced PROVE EntriesOK(p)'
  BY <1>1, <1>4, <1>5, <1>7, <1>8 DEF MoveInv, EntriesOK, Executing, Entries
<1>9. mover' \in Mover /\ mover'.op = 0 /\ mover'.pc = "free"
  BY <1>1 DEF Resting, Mover, MoverPc
<1>10. ControlTypes' /\ ExecutorOK'
  BY <1>1, <1>9, OpNotZero DEF MoveInv, ControlTypes, ExecutorOK, Working
<1>11. SettledStay
  BY <1>1, <1>4, <1>5 DEF SettledStay
<1> QED BY <1>1, <1>6, <1>8, <1>10, <1>11 DEF MoveInv

\* Failed commits, crashes and restarts.
LEMMA FaultsKeep ==
    ASSUME MoveInv, MoveFaults \/ CrashMover \/ StartMover \/ RecoveryEnds
    PROVE  MoveInv' /\ SettledStay
<1>1. moveFaults \in 0..MaxMoveFault /\ MaxMoveFault \in Nat
  BY MoveAssumption DEF MoveInv, ControlTypes
<1>2. CASE CommitFails
  <2>1. /\ mover.pc \in {"moved", "indexed", "look"} /\ mover.pc \in Working
        /\ FailWith("RECOVERY_REQUIRED") /\ moveFaults' \in 0..MaxMoveFault
        /\ UNCHANGED <<moves, files, index, moveCancel, raced>>
        /\ mover.pc = "look" => moves[mover.op].stage[mover.at] = "QUEUED"
    BY <1>1, <1>2 DEF CommitFails, AtPc, Now, Working
  <2>2. mover.op \notin raced =>
           moves[mover.op].stage[mover.at] \in {"QUEUED"} \cup InFlight
    BY <2>1, OwnEntry DEF EntryTurnOK, InFlight
  <2> QED BY <2>1, <2>2, GivesUp
<1>3. CASE Escape \/ CrashMover \/ StartMover \/ RecoveryEnds
  <2>1. /\ UNCHANGED <<moves, files, index, moveCancel, raced>>
        /\ moveFaults' \in 0..MaxMoveFault
        /\ \E p \in {"down", "recovering", "free"} : mover' = Resting(p)
    BY <1>1, <1>3 DEF Escape, CrashMover, StartMover, RecoveryEnds
  <2> QED BY <2>1, WorkerRests
<1> QED BY <1>2, <1>3 DEF MoveFaults

----------------------------------------------------------------------------
(* Theorems *)

\* Nothing is claimed and nothing has moved in the beginning.
LEMMA MovesInitially == MovesInit => MoveInv
<1> SUFFICES ASSUME MovesInit PROVE MoveInv
  OBVIOUS
<1>1. MoveTypes
  BY DEF MovesInit, MoveTypes, MoveRow, MoveStatus, MoveStage
<1>2. mover \in Mover /\ mover.op = 0 /\ mover.pc = "recovering"
  BY DEF MovesInit, Resting, Mover, MoverPc
<1>c. moveCancel.op = 0 /\ moveCancel.queued = {} /\ raced = {} /\ moveFaults = 0
  BY DEF MovesInit, NoCancel
<1>3. ControlTypes /\ ExecutorOK
  <2>1. 0 \in 0..MaxMoveFault
    BY MoveAssumption
  <2> QED BY <1>2, <1>c, <2>1 DEF ControlTypes, ExecutorOK, Working
<1>4. \A o \in Op : EntriesOK(o)
  BY DEF MovesInit, EntriesOK, EntryOK, InFlight
<1> QED BY <1>1, <1>3, <1>4 DEF MoveInv

\* A step that changes nothing.
LEMMA MovesStutter == ASSUME MoveInv, UNCHANGED moveVars PROVE MoveInv' /\ SettledStay
BY DEF moveVars, MoveInv, MoveTypes, MoveRow, ControlTypes, EntriesOK, Executing,
   ExecutorOK, SettledStay, Entries

\* Every step keeps the invariant and what is settled.
LEMMA MovesStep == ASSUME MoveInv, [MovesNext]_moveVars PROVE MoveInv' /\ SettledStay
<1>1. CASE MoveRequests
  BY <1>1, SubmitsAndFlags DEF MoveRequests
<1>2. CASE CancelWrites
  BY <1>2, CancelWritten
<1>3. CASE ExecuteMove
  BY <1>3, LookKeeps, CheckKeeps, PublishKeeps, SettleKeeps, FinishKeeps DEF ExecuteMove
<1>4. CASE \E o \in Op : QuarantineMove(o)
  BY <1>4, QuarantineKeeps
<1>5. CASE MoveFaults \/ CrashMover \/ StartMover \/ RecoveryEnds
  BY <1>5, FaultsKeep
<1>6. CASE \E o \in Op, busy \in SUBSET Library : ClaimMove(o, busy)
  BY <1>6, ClaimKeeps
<1>7. CASE UNCHANGED moveVars
  BY <1>7, MovesStutter
<1> QED BY <1>1, <1>2, <1>3, <1>4, <1>5, <1>6, <1>7 DEF MovesNext, RecoverMoves

\* MoveInv is an inductive invariant of the file moves.
THEOREM MovesInductive == MovesSpec => []MoveInv
BY MovesInitially, MovesStep, PTL DEF MovesSpec

\* Rows, places and the executor's control state keep their types
\* (LibraryFileMoveOperation, LibraryFileMoveTarget, ExecuteFileMoveOperation).
THEOREM MovesKeepTypes == MovesSpec => []MovesTypeOK
<1>1. MoveInv => MovesTypeOK
  BY DEF MoveInv, MoveTypes, MoveRow, ControlTypes, MovesTypeOK
<1> QED BY <1>1, MovesInductive, PTL

\* What the stage of an entry tells the user is where its files and its index
\* are, through failures, crashes and recovery (ExecuteFileMoveOperation.execute,
\* prepare_recovery), except for an operation a late cancel overwrote.
THEOREM MovesTellTheTruth == MovesSpec => []OutcomeIsTrue
<1>1. MoveInv => OutcomeIsTrue
  BY DEF MoveInv, EntriesOK, EntryOK, OutcomeIsTrue
<1> QED BY <1>1, MovesInductive, PTL

\* An entry that is being moved keeps its libraries locked: blocks_library
\* reads only the operation's status.
THEOREM MovesStayLocked == MovesSpec => []MovingIsLocked
<1>1. MoveInv => MovingIsLocked
  BY DEF MoveInv, EntriesOK, MovingIsLocked
<1> QED BY <1>1, MovesInductive, PTL

\* No step of the worker, of a request or of recovery changes a settled or
\* quarantined entry or moves its files again.
THEOREM MovesSettleOnce == MovesSpec => SettledEntriesStay
<1>1. ASSUME MoveInv, [MovesNext]_moveVars
      PROVE  [\A o \in Op : o \notin raced' =>
                 \A i \in Entries(o) :
                     moves[o].stage[i] \in Ended \cup {"RECOVERY_REQUIRED"} =>
                         /\ moves'[o].stage[i] = moves[o].stage[i]
                         /\ files'[o][i] = files[o][i]]_moveVars
  BY <1>1, MovesStep DEF SettledStay, Settled
<1> QED BY <1>1, MovesInductive, PTL DEF MovesSpec, SettledEntriesStay
----------------------------------------------------------------------------
(* One attempt to move the files of an entry, raced operations included *)

\* Files that are not at their source are behind every point where they would be
\* moved: the entry does not wait, and the executor does not stand before it.
PlacesInv ==
    /\ \A o \in Op : \A i \in Entries(o) :
          files[o][i] # "source" => moves[o].stage[i] # "QUEUED"
    /\ mover.pc \in {"check", "reread", "publish"} => files[mover.op][mover.at] = "source"
    /\ mover.pc \in {"reread", "publish"} => moves[mover.op].stage[mover.at] # "QUEUED"

Attempted ==
    \A o \in Op : \A i \in Entries(o) :
        files[o][i] # "source" => files'[o][i] = files[o][i]
NoneWaitsAgain ==
    \A o \in Op : \A i \in Entries(o) :
        moves'[o].stage[i] = "QUEUED" => moves[o].stage[i] = "QUEUED"

\* Every other step leaves the files where they are and puts no entry back into the queue.
LEMMA PlacesKept ==
    ASSUME PlacesInv, UNCHANGED files, NoneWaitsAgain, ControlTypes,
           \/ mover'.pc \notin {"check", "reread", "publish"}
           \/ mover' = mover
           \/ /\ mover.pc \in {"check", "reread"} /\ mover'.pc \in {"reread", "publish"}
              /\ mover'.op = mover.op /\ mover'.at = mover.at
              /\ moves'[mover.op].stage[mover.at] # "QUEUED"
           \/ /\ moves[mover.op].stage[mover.at] = "QUEUED" /\ mover'.pc = "check"
              /\ mover.op # 0 /\ mover'.op = mover.op /\ mover'.at = mover.at
    PROVE  PlacesInv' /\ Attempted
<1>1. mover.pc \in {"check", "reread", "publish"} =>
          mover.op \in Op /\ mover.at \in Entries(mover.op)
  BY DEF ControlTypes, Mover, Working
<1>2. mover.op # 0 => mover.op \in Op /\ mover.at \in Entries(mover.op)
  BY DEF ControlTypes, Mover
<1> QED BY <1>1, <1>2 DEF PlacesInv, NoneWaitsAgain, Attempted

\* A save of the executor puts nothing back into the queue.
LEMMA SaveAdvances ==
    ASSUME MoveTypes, ControlTypes, mover.op # 0, NEW s \in MoveStage \ {"QUEUED"}, Save(s)
    PROVE  NoneWaitsAgain /\ moves'[mover.op].stage[mover.at] = s
<1>1. mover.op \in Op /\ mover.at \in Entries(mover.op)
  BY DEF ControlTypes, Mover
<1> QED BY <1>1 DEF Save, MoveTypes, MoveRow, NoneWaitsAgain

\* The steps of the executor
LEMMA ExecutorMovesOnce ==
    ASSUME MoveInv, PlacesInv, ExecuteMove
    PROVE  PlacesInv' /\ Attempted
<1> DEFINE o == mover.op  i == mover.at
<1>0. /\ MoveTypes /\ ControlTypes
      /\ {"PREPARING", "CANCELLED", "FILES_PUBLISHED", "INDEX_UPDATED", "COMPLETED", "FAILED",
          "RECOVERY_REQUIRED"} \subseteq MoveStage \ {"QUEUED"}
  BY DEF MoveInv, MoveStage, InFlight, Ended
<1>1. mover.op # 0 /\ o \in Op /\ i \in Entries(o) /\ mover \in Mover
  BY <1>0 DEF ControlTypes, Mover, Working, ExecuteMove, SkipEntry, CancelEntry, LookEntry,
     CheckEntry, RereadCancel, PublishFiles, SavePublished, ApplyIndex, SaveCompleted,
     SaveFailure, FinishMove, AtPc
<1>2. NextEntry.pc \notin {"check", "reread", "publish"}
  BY <1>1 DEF NextEntry, Mover
<1>3. \A v : FailWith(v) => mover'.pc = "failing"
  BY <1>1 DEF FailWith, Mover
<1>4. \A p : Goto(p) => mover'.pc = p /\ mover'.op = o /\ mover'.at = i
  BY <1>1 DEF Goto, Mover
<1>5. UNCHANGED moves => NoneWaitsAgain
  BY DEF NoneWaitsAgain
<1>6. CASE SkipEntry
  BY <1>0, <1>2, <1>5, <1>6, PlacesKept DEF SkipEntry
<1>7. CASE CancelEntry
  BY <1>0, <1>1, <1>2, <1>3, <1>5, <1>7, PlacesKept, SaveAdvances DEF CancelEntry
<1>8. CASE LookEntry
  <2>1. mover'.pc = "check" /\ mover'.op = o /\ mover'.at = i
    BY <1>1, <1>8 DEF LookEntry, Mover
  <2> QED BY <1>0, <1>1, <1>5, <1>8, <2>1, PlacesKept DEF LookEntry, Now
<1>9. CASE CheckEntry
  <2>1. CASE Save("PREPARING") /\ Goto("reread")
    BY <1>0, <1>1, <1>4, <1>9, <2>1, PlacesKept, SaveAdvances DEF CheckEntry, AtPc
  <2>2. CASE Fails(mover.kept) /\ UNCHANGED moves
    BY <1>0, <1>3, <1>5, <1>9, <2>2, PlacesKept DEF CheckEntry, Fails
  <2> QED BY <1>9, <2>1, <2>2 DEF CheckEntry
<1>10. CASE RereadCancel
  <2>1. CASE Goto("publish") /\ UNCHANGED moves
    <3>1. mover.pc = "reread" /\ moves'[o].stage[i] # "QUEUED"
      BY <1>10, <2>1 DEF RereadCancel, AtPc, PlacesInv
    <3> QED BY <1>0, <1>4, <1>5, <1>10, <2>1, <3>1, PlacesKept DEF RereadCancel
  <2>2. CASE (Fails(mover.kept) \/ FailWith("RECOVERY_REQUIRED")) /\ UNCHANGED moves
    BY <1>0, <1>3, <1>5, <1>10, <2>2, PlacesKept DEF RereadCancel, Fails
  <2>3. CASE Save("CANCELLED") /\ mover' = NextEntry
    BY <1>0, <1>1, <1>2, <1>10, <2>3, PlacesKept, SaveAdvances DEF RereadCancel
  <2> QED BY <1>10, <2>1, <2>2, <2>3 DEF RereadCancel
<1>11. CASE PublishFiles
  <2>1. PICK place : files' = [files EXCEPT ![o][i] = place]
    BY <1>11 DEF PublishFiles
  <2>2. files[o][i] = "source" /\ moves[o].stage[i] # "QUEUED"
    BY <1>11 DEF PublishFiles, AtPc, PlacesInv
  <2>3. \A p \in Op : \A j \in Entries(p) :
            p # o \/ j # i => files'[p][j] = files[p][j]
    BY <1>0, <1>1, <2>1 DEF MoveTypes
  <2>4. mover'.pc \in {"moved", "failing"} /\ UNCHANGED moves
    BY <1>3, <1>4, <1>11 DEF PublishFiles
  <2> QED BY <2>2, <2>3, <2>4 DEF PlacesInv, Attempted
<1>12. CASE SavePublished
  BY <1>0, <1>1, <1>4, <1>12, PlacesKept, SaveAdvances DEF SavePublished
<1>13. CASE ApplyIndex
  <2>1. CASE Save("INDEX_UPDATED") /\ Goto("indexed")
    BY <1>0, <1>1, <1>4, <1>13, <2>1, PlacesKept, SaveAdvances DEF ApplyIndex
  <2>2. CASE FailWith("RECOVERY_REQUIRED") /\ UNCHANGED moves
    BY <1>0, <1>3, <1>5, <1>13, <2>2, PlacesKept DEF ApplyIndex
  <2> QED BY <1>13, <2>1, <2>2 DEF ApplyIndex
<1>14. CASE SaveCompleted
  BY <1>0, <1>1, <1>2, <1>14, PlacesKept, SaveAdvances DEF SaveCompleted
<1>15. CASE SaveFailure
  <2>1. mover.verdict \in MoveStage \ {"QUEUED"}
    BY <1>0, <1>1, <1>15 DEF SaveFailure, AtPc, ControlTypes, Mover
  <2> QED BY <1>0, <1>1, <1>2, <1>15, <2>1, PlacesKept, SaveAdvances DEF SaveFailure
<1>16. CASE FinishMove
  <2>1. NoneWaitsAgain
    BY <1>0, <1>1, <1>16 DEF FinishMove, NoneWaitsAgain, MoveTypes, MoveRow
  <2> QED BY <1>0, <1>16, <2>1, PlacesKept DEF FinishMove, Resting
<1> QED BY <1>6, <1>7, <1>8, <1>9, <1>10, <1>11, <1>12, <1>13, <1>14, <1>15, <1>16
        DEF ExecuteMove

\* Requests, claims, recovery and faults
LEMMA OthersMoveOnce ==
    ASSUME MoveInv, PlacesInv,
           \/ MoveRequests \/ CancelWrites \/ RecoverMoves \/ MoveFaults \/ CrashMover
           \/ StartMover \/ \E o \in Op, busy \in SUBSET Library : ClaimMove(o, busy)
    PROVE  PlacesInv' /\ Attempted
<1>0. MoveTypes /\ ControlTypes /\ mover \in Mover
  BY DEF MoveInv, ControlTypes
<1>1. UNCHANGED moves => NoneWaitsAgain
  BY DEF NoneWaitsAgain
<1>2. CASE MoveRequests
  <2>1. UNCHANGED <<files, mover>>
    BY <1>2 DEF MoveRequests, Enqueue, CancelClaimed, CancelReads
  <2>2. NoneWaitsAgain
    BY <1>0, <1>2 DEF MoveRequests, Enqueue, CancelClaimed, CancelReads, NoneWaitsAgain,
       MoveTypes, MoveRow
  <2> QED BY <1>0, <2>1, <2>2, PlacesKept
<1>3. CASE CancelWrites
  <2>1. UNCHANGED <<files, mover>> /\ moveCancel.op \in Op
    BY <1>0, <1>3 DEF CancelWrites, ControlTypes
  <2>2. NoneWaitsAgain
    <3> DEFINE p == moveCancel.op
    <3>1. moves' = [moves EXCEPT ![p] =
             [status |-> Finished([i \in Entries(p) |-> IF i \in moveCancel.queued
                                     THEN "CANCELLED" ELSE moves[p].stage[i]]),
              cancel |-> TRUE,
              stage |-> [i \in Entries(p) |-> IF i \in moveCancel.queued THEN "CANCELLED"
                                              ELSE moves[p].stage[i]]]]
      BY <1>3 DEF CancelWrites
    <3>2. moves'[p].stage = [i \in Entries(p) |-> IF i \in moveCancel.queued THEN "CANCELLED"
                                                  ELSE moves[p].stage[i]]
      BY <1>0, <2>1, <3>1 DEF MoveTypes
    <3>3. \A o \in Op : o # p => moves'[o] = moves[o]
      BY <1>0, <2>1, <3>1 DEF MoveTypes
    <3> QED BY <3>2, <3>3 DEF NoneWaitsAgain
  <2> QED BY <1>0, <2>1, <2>2, PlacesKept
<1>4. CASE RecoverMoves
  <2>1. CASE RecoveryEnds
    BY <1>0, <1>1, <2>1, PlacesKept DEF RecoveryEnds, Resting
  <2>2. ASSUME NEW o \in Op, QuarantineMove(o)
        PROVE  PlacesInv' /\ Attempted
    <3>1. UNCHANGED <<files, mover>>
      BY <2>2 DEF QuarantineMove
    <3>2. /\ moves'[o].stage = Quarantined(o)
          /\ \A p \in Op : p # o => moves'[p] = moves[p]
      BY <1>0, <2>2 DEF QuarantineMove, MoveTypes, MoveRow
    <3>3. NoneWaitsAgain
      BY <3>2 DEF Quarantined, NoneWaitsAgain, InFlight
    <3> QED BY <1>0, <3>1, <3>3, PlacesKept
  <2> QED BY <1>4, <2>1, <2>2 DEF RecoverMoves
<1>5. CASE MoveFaults \/ CrashMover \/ StartMover
  <2>1. UNCHANGED <<files, moves>> /\ mover'.pc \notin {"check", "reread", "publish"}
    <3>1. CASE CommitFails
      <4>1. UNCHANGED <<files, moves>> /\ FailWith("RECOVERY_REQUIRED")
        BY <3>1 DEF CommitFails
      <4> QED BY <1>0, <4>1 DEF FailWith, Mover
    <3>2. CASE Escape \/ CrashMover \/ StartMover
      BY <3>2 DEF Escape, CrashMover, StartMover, Resting
    <3> QED BY <1>5, <3>1, <3>2 DEF MoveFaults
  <2> QED BY <1>0, <1>1, <2>1, PlacesKept
<1>6. ASSUME NEW o \in Op, NEW busy \in SUBSET Library, ClaimMove(o, busy)
      PROVE  PlacesInv' /\ Attempted
  <2>1. UNCHANGED files /\ mover'.pc = "look"
    BY <1>6 DEF ClaimMove, Resting
  <2>2. NoneWaitsAgain
    BY <1>0, <1>6 DEF ClaimMove, NoneWaitsAgain, MoveTypes, MoveRow
  <2> QED BY <1>0, <2>1, <2>2, PlacesKept
<1> QED BY <1>2, <1>3, <1>4, <1>5, <1>6

\* The files of an entry are moved by one attempt at most, also when a cancel overwrites
\* the row of the operation while its worker moves them.
THEOREM MovesMoveOnce == MovesSpec => FilesMoveOnce
<1>1. MovesInit => MoveInv /\ PlacesInv
  BY MovesInitially DEF MovesInit, PlacesInv, Resting
<1>2. ASSUME MoveInv, PlacesInv, [MovesNext]_moveVars
      PROVE  MoveInv' /\ PlacesInv' /\ Attempted
  <2>1. CASE UNCHANGED moveVars
    BY <1>2, <2>1, MovesStutter DEF moveVars, PlacesInv, Attempted
  <2>2. CASE MovesNext
    BY <1>2, <2>2, MovesStep, ExecutorMovesOnce, OthersMoveOnce DEF MovesNext
  <2> QED BY <1>2, <2>1, <2>2
<1>3. MoveInv /\ PlacesInv /\ [MovesNext]_moveVars =>
          [\A o \in Op : \A i \in Entries(o) :
              files[o][i] # "source" => files'[o][i] = files[o][i]]_moveVars
  BY <1>2 DEF Attempted
<1> QED BY <1>1, <1>2, <1>3, PTL DEF MovesSpec, FilesMoveOnce
----------------------------------------------------------------------------
(* A book and its companions *)

Gone == {"CANCELLED", "FAILED"}
BookStays(o) ==
    \A i, j \in Entries(o) :
        Plan[o][j].owner = i /\ moves[o].stage[j] = "COMPLETED" => moves[o].stage[i] \notin Gone
\* Without faults an operation waits as a whole until it is executed to its end.
WaitsAsOne(o) ==
    \/ \A i \in Entries(o) : moves[o].stage[i] = "QUEUED"
    \/ \A i \in Entries(o) : moves[o].stage[i] # "QUEUED"

\* What the executor knows of the entries before and after its own, and of the
\* companions of its own.
TurnKept ==
    LET o == mover.op
        i == mover.at
    IN /\ \A j \in Entries(o) : /\ j > i => moves[o].stage[j] = "QUEUED"
                                /\ j < i => moves[o].stage[j] # "QUEUED"
       /\ mover.pc = "finish" => i = Len(Plan[o]) /\ moves[o].stage[i] # "QUEUED"
       /\ mover.pc \in {"check", "reread"} => (Companions(o, i) => mover.kept)
       /\ mover.pc = "failing" /\ mover.verdict = "FAILED" => ~Companions(o, i)

BookInv ==
    moveFaults = 0 =>
        /\ \A o \in Op \ raced : BookStays(o) /\ (mover.op # o => WaitsAsOne(o))
        /\ mover.op # 0 /\ mover.op \notin raced => TurnKept
        /\ moveCancel.op \in Op \ raced =>
              moveCancel.queued \in {{}, Entries(moveCancel.op)}

Was == moves[mover.op].stage[mover.at]
Is == moves'[mover.op].stage[mover.at]
OthersSame ==
    \A p \in Op : \A j \in Entries(p) :
        p # mover.op \/ j # mover.at => moves'[p].stage[j] = moves[p].stage[j]

\* A step of the executor that stays with its entry, or leaves it.
StaysAt ==
    /\ mover'.at = mover.at /\ mover'.pc # "finish"
    /\ mover'.pc \in {"check", "reread"} => (Companions(mover.op, mover.at)' => mover'.kept)
    /\ mover'.pc = "failing" /\ mover'.verdict = "FAILED" => ~Companions(mover.op, mover.at)'
KeptTurn ==
    /\ OthersSame /\ mover'.op = mover.op
    /\ UNCHANGED <<raced, moveCancel, moveFaults>>
    /\ mover.op \notin raced =>
          /\ Is \in Gone => Is = Was \/ ~Companions(mover.op, mover.at)
          /\ StaysAt \/ (mover' = NextEntry /\ Is # "QUEUED")

\* The executor's operation and entry.
LEMMA MoverAt ==
    ASSUME MoveInv, mover.op # 0
    PROVE  mover \in Mover /\ mover.op \in Op /\ mover.at \in Entries(mover.op)
BY DEF MoveInv, ControlTypes, Mover

\* A companion names its book, which is not a companion and comes after it.
LEMMA BookAfterCompanion ==
    ASSUME NEW o \in Op, NEW i \in Entries(o), NEW j \in Entries(o), Plan[o][j].owner = i
    PROVE  j < i /\ OwnerOf(o, i) = i /\ i \in Nat /\ j \in Nat
<1>1. Plan[o] \in Seq([from : Library, to : Library, owner : Nat])
  BY MoveAssumption
<1>2. i \in Nat \ {0} /\ j \in Nat
  BY <1>1 DEF Entries
<1> QED BY <1>1, <1>2, MoveAssumption DEF Entries, OwnerOf

\* The companions of the executor's entry are reported at their place by no
\* step that does not say so of the entry itself.
LEMMA CompanionsSame ==
    ASSUME OthersSame, mover.op \in Op, mover'.op = mover.op, mover'.at = mover.at,
           Is = Was \/ Is \notin {"COMPLETED", "INDEX_UPDATED", "FILES_PUBLISHED"},
           Companions(mover.op, mover.at)'
    PROVE  Companions(mover.op, mover.at)
BY DEF OthersSame, Companions, Is, Was, OwnerOf, Entries

\* A turn that keeps to its entry keeps books and companions together.
LEMMA TurnKeepsBooks ==
    ASSUME MoveInv, BookInv, moveFaults = 0, mover.op # 0, KeptTurn
    PROVE  BookInv'
<1>1. mover \in Mover /\ mover.op \in Op /\ mover.at \in Entries(mover.op)
  BY MoverAt
<1>2. Plan[mover.op] \in Seq([from : Library, to : Library, owner : Nat])
  BY <1>1, MoveAssumption
<1>3. ASSUME NEW o \in Op, o \notin raced, o # mover.op
      PROVE  (BookStays(o) /\ WaitsAsOne(o))'
  <2>1. BookStays(o) /\ WaitsAsOne(o)
    BY <1>3 DEF BookInv
  <2>2. \A j \in Entries(o) : moves'[o].stage[j] = moves[o].stage[j]
    BY <1>3 DEF KeptTurn, OthersSame
  <2> QED BY <2>1, <2>2 DEF BookStays, WaitsAsOne, Entries
<1>4. ASSUME mover.op \notin raced PROVE BookStays(mover.op)'
  <2> DEFINE o == mover.op
  <2> SUFFICES ASSUME NEW i \in Entries(o), NEW j \in Entries(o), Plan[o][j].owner = i,
                      moves'[o].stage[j] = "COMPLETED"
               PROVE  moves'[o].stage[i] \notin Gone
    BY <1>1 DEF KeptTurn, BookStays, Entries
  <2>1. j < i /\ OwnerOf(o, i) = i /\ i \in Nat /\ j \in Nat
    BY <1>1, BookAfterCompanion
  <2>2. BookStays(o) /\ TurnKept
    BY <1>1, <1>4 DEF BookInv
  <2>3. CASE i = mover.at
    <3>1. moves[o].stage[j] = "COMPLETED"
      BY <1>1, <2>1, <2>3 DEF KeptTurn, OthersSame
    <3>2. Companions(o, i)
      BY <2>1, <3>1 DEF Companions
    <3> QED BY <1>4, <2>2, <2>3, <3>1, <3>2 DEF KeptTurn, BookStays, Is, Was
  <2>4. CASE j = mover.at
    <3>1. moves'[o].stage[i] = "QUEUED"
      BY <1>1, <2>1, <2>2, <2>4 DEF KeptTurn, OthersSame, TurnKept
    <3> QED BY <3>1 DEF Gone
  <2>5. CASE i # mover.at /\ j # mover.at
    BY <1>1, <2>2, <2>5 DEF KeptTurn, OthersSame, BookStays
  <2> QED BY <2>3, <2>4, <2>5
<1>5. ASSUME mover.op \notin raced PROVE TurnKept'
  <2> DEFINE o == mover.op  i == mover.at
  <2>1. TurnKept
    BY <1>1, <1>5 DEF BookInv
  <2>2. i \in 1..Len(Plan[o]) /\ Entries(o) = 1..Len(Plan[o]) /\ Len(Plan[o]) \in Nat
    BY <1>1, <1>2 DEF Entries
  <2>3. \A j \in Entries(o) : j # i => moves'[o].stage[j] = moves[o].stage[j]
    BY <1>1 DEF KeptTurn, OthersSame
  <2>4. CASE StaysAt
    BY <1>1, <2>1, <2>2, <2>3, <2>4 DEF KeptTurn, StaysAt, TurnKept, Entries
  <2>5. CASE mover' = NextEntry /\ Is # "QUEUED" /\ i < Len(Plan[o])
    <3>1. mover'.pc = "look" /\ mover'.at = i + 1 /\ mover'.op = o
      BY <1>1, <2>5 DEF NextEntry, Mover
    <3>2. \A j \in 1..Len(Plan[o]) : /\ j > i + 1 => j > i
                                     /\ j < i + 1 => j < i \/ j = i
      BY <2>2
    <3>3. \A j \in Entries(o) : /\ j > i + 1 => moves'[o].stage[j] = "QUEUED"
                                /\ j < i + 1 => moves'[o].stage[j] # "QUEUED"
      BY <2>1, <2>2, <2>3, <2>5, <3>2 DEF TurnKept, Is
    <3> QED BY <3>1, <3>3 DEF TurnKept, Entries
  <2>6. CASE mover' = NextEntry /\ Is # "QUEUED" /\ ~(i < Len(Plan[o]))
    <3>1. mover'.pc = "finish" /\ mover'.at = i /\ mover'.op = o
      BY <1>1, <2>6 DEF NextEntry, Mover
    <3>2. i = Len(Plan[o])
      BY <2>2, <2>6
    <3> QED BY <2>1, <2>2, <2>3, <2>6, <3>1, <3>2 DEF TurnKept, Is, Entries
  <2> QED BY <1>5, <2>4, <2>5, <2>6 DEF KeptTurn
<1>6. moveFaults' = 0 /\ UNCHANGED <<raced, moveCancel>> /\ mover'.op = mover.op
  BY DEF KeptTurn
<1>7. moveCancel'.op \in Op \ raced' => moveCancel'.queued \in {{}, Entries(moveCancel'.op)}
  BY <1>6 DEF BookInv
<1>8. ASSUME NEW o \in Op, o \notin raced'
      PROVE  BookStays(o)' /\ (mover'.op # o => WaitsAsOne(o)')
  BY <1>3, <1>4, <1>6, <1>8
<1> QED BY <1>5, <1>6, <1>7, <1>8 DEF BookInv, Entries

\* A save of the executor leaves other entries alone.
LEMMA SaveIsOwn ==
    ASSUME MoveInv, mover.op # 0, NEW s \in MoveStage, Save(s) PROVE OthersSame /\ Is = s
<1>1. mover \in Mover /\ mover.op \in Op /\ mover.at \in Entries(mover.op)
  BY MoverAt
<1>2. moves[mover.op] \in MoveRow(mover.op) /\ DOMAIN moves = Op
  BY <1>1 DEF MoveInv, MoveTypes
<1>3. moves' = [moves EXCEPT ![mover.op] = [@ EXCEPT !.stage[mover.at] = s]]
  BY <1>1, <1>2 DEF Save
<1>4. \A p \in Op : moves'[p] = IF p = mover.op THEN [moves[p] EXCEPT !.stage[mover.at] = s]
                                ELSE moves[p]
  BY <1>2, <1>3
<1> QED BY <1>1, <1>2, <1>4 DEF OthersSame, Is, MoveRow

\* Giving up as FAILED is for an entry without companions at their place.
LEMMA FailsKept ==
    ASSUME MoveInv, mover.op # 0, UNCHANGED <<moves, raced, moveCancel, moveFaults>>,
           NEW v \in {"FAILED", "RECOVERY_REQUIRED"}, FailWith(v),
           v = "FAILED" /\ mover.op \notin raced => ~Companions(mover.op, mover.at)
    PROVE  KeptTurn
<1>1. /\ mover'.op = mover.op /\ mover'.at = mover.at
      /\ mover'.pc = "failing" /\ mover'.verdict = v /\ mover.op \in Op
  BY MoverAt DEF FailWith, Mover
<1>2. OthersSame /\ Is = Was
  BY DEF OthersSame, Is, Was
<1> QED BY <1>1, <1>2, CompanionsSame DEF KeptTurn, StaysAt

\* A checkpoint on the way of an entry.
LEMMA CheckpointKept ==
    ASSUME MoveInv, mover.op # 0, UNCHANGED <<raced, moveCancel, moveFaults>>,
           NEW s \in InFlight, Save(s), NEW p, Goto(p), p \notin {"finish", "check", "failing"},
           p = "reread" => s = "PREPARING" /\
               (mover.op \notin raced => (Companions(mover.op, mover.at) => mover.kept))
    PROVE  KeptTurn
<1>1. /\ mover'.op = mover.op /\ mover'.at = mover.at /\ mover'.kept = mover.kept
      /\ mover'.pc = p /\ mover.op \in Op
  BY MoverAt DEF Goto, Mover
<1>2. OthersSame /\ Is = s
  BY SaveIsOwn DEF MoveStage
<1> QED BY <1>1, <1>2, CompanionsSame DEF KeptTurn, StaysAt, InFlight, Gone

\* Every step of the executor but the last keeps to its entry.
LEMMA ExecutorKeepsTurn ==
    ASSUME MoveInv, BookInv, moveFaults = 0, ExecuteMove, ~FinishMove
    PROVE  mover.op # 0 /\ KeptTurn
<1>1. /\ mover.pc \in Working /\ mover.op # 0 /\ mover.op \in Op
      /\ mover.at \in Entries(mover.op) /\ mover \in Mover
  <2>1. mover.pc \in Working
    BY DEF ExecuteMove, SkipEntry, CancelEntry, LookEntry, CheckEntry, RereadCancel,
       PublishFiles, SavePublished, ApplyIndex, SaveCompleted, SaveFailure, AtPc, Working
  <2> QED BY <2>1, OwnEntry
<1>2. mover.op \notin raced => TurnKept
  BY <1>1 DEF BookInv
<1>3. NextEntry.op = mover.op
  BY <1>1 DEF NextEntry, Mover
<1>4. CASE SkipEntry
  <2>1. OthersSame /\ Is = Was /\ Was # "QUEUED"
    BY <1>4 DEF SkipEntry, OthersSame, Is, Was, Now, Ended
  <2> QED BY <1>1, <1>3, <1>4, <2>1 DEF SkipEntry, KeptTurn
<1>5. CASE CancelEntry /\ Companions(mover.op, mover.at)
  <2>1. FailWith("RECOVERY_REQUIRED") /\ UNCHANGED <<moves, raced, moveCancel, moveFaults>>
    BY <1>5 DEF CancelEntry
  <2> QED BY <1>1, <2>1, FailsKept
<1>6. CASE CancelEntry /\ ~Companions(mover.op, mover.at)
  <2>1. /\ Save("CANCELLED") /\ mover' = NextEntry
        /\ UNCHANGED <<raced, moveCancel, moveFaults>>
    BY <1>6 DEF CancelEntry
  <2>2. OthersSame /\ Is = "CANCELLED"
    BY <1>1, <2>1, SaveIsOwn DEF MoveStage, Ended
  <2> QED BY <1>1, <1>3, <1>6, <2>1, <2>2 DEF KeptTurn
<1>7. CASE LookEntry
  <2> DEFINE kept == Companions(mover.op, mover.at)
  <2>1. /\ mover' = [mover EXCEPT !.pc = "check", !.kept = kept]
        /\ UNCHANGED <<moves, raced, moveCancel, moveFaults>>
    BY <1>7 DEF LookEntry
  <2>2. OthersSame /\ Is = Was
    BY <2>1 DEF OthersSame, Is, Was
  <2>3. /\ mover'.op = mover.op /\ mover'.at = mover.at /\ mover'.pc = "check"
        /\ mover'.kept = kept
    <3> HIDE DEF kept
    <3> QED BY <1>1, <2>1 DEF Mover
  <2>4. Companions(mover.op, mover.at)' => kept
    BY <1>1, <2>2, <2>3, CompanionsSame
  <2> QED BY <1>1, <2>1, <2>2, <2>3, <2>4 DEF KeptTurn, StaysAt
<1>8. CASE /\ mover.pc \in {"check", "reread"} /\ Fails(mover.kept)
           /\ UNCHANGED <<moves, raced, moveCancel, moveFaults>>
  <2>1. PICK v \in {"FAILED", "RECOVERY_REQUIRED"} :
           FailWith(v) /\ (v = "FAILED" => ~mover.kept)
    BY <1>8 DEF Fails
  <2> QED BY <1>1, <1>2, <1>8, <2>1, FailsKept DEF TurnKept
<1>9. CASE CheckEntry
  <2>1. CASE Save("PREPARING") /\ Goto("reread")
    BY <1>1, <1>2, <1>9, <2>1, CheckpointKept DEF CheckEntry, TurnKept, AtPc, InFlight
  <2> QED BY <1>8, <1>9, <2>1 DEF CheckEntry, AtPc
<1>10. CASE RereadCancel
  <2>1. CASE Goto("publish") /\ UNCHANGED moves
    <3>1. OthersSame /\ Is = Was
      BY <2>1 DEF OthersSame, Is, Was
    <3>2. mover'.op = mover.op /\ mover'.at = mover.at /\ mover'.pc = "publish"
      BY <1>1, <2>1 DEF Goto, Mover
    <3> QED BY <1>1, <1>10, <3>1, <3>2 DEF RereadCancel, KeptTurn, StaysAt
  <2>2. CASE mover.kept /\ FailWith("RECOVERY_REQUIRED") /\ UNCHANGED moves
    BY <1>1, <1>10, <2>2, FailsKept DEF RereadCancel
  <2>3. CASE ~mover.kept /\ Save("CANCELLED") /\ mover' = NextEntry
    <3>1. OthersSame /\ Is = "CANCELLED"
      BY <1>1, <2>3, SaveIsOwn DEF MoveStage, Ended
    <3> QED BY <1>1, <1>2, <1>3, <1>10, <2>3, <3>1 DEF RereadCancel, KeptTurn, TurnKept, AtPc
  <2> QED BY <1>8, <1>10, <2>1, <2>2, <2>3 DEF RereadCancel, AtPc
<1>11. CASE PublishFiles
  <2>1. OthersSame /\ Is = Was /\ UNCHANGED <<moves, raced, moveCancel, moveFaults>>
    BY <1>11 DEF PublishFiles, OthersSame, Is, Was
  <2>2. CASE FailWith("RECOVERY_REQUIRED")
    BY <1>1, <2>1, <2>2, FailsKept
  <2>3. CASE Goto("moved")
    <3>1. mover'.op = mover.op /\ mover'.at = mover.at /\ mover'.pc = "moved"
      BY <1>1, <2>3 DEF Goto, Mover
    <3> QED BY <1>1, <2>1, <3>1 DEF KeptTurn, StaysAt
  <2> QED BY <1>11, <2>2, <2>3 DEF PublishFiles
<1>12. CASE SavePublished
  BY <1>1, <1>12, CheckpointKept DEF SavePublished, InFlight
<1>13. CASE ApplyIndex
  <2>1. CASE Save("INDEX_UPDATED") /\ Goto("indexed")
    BY <1>1, <1>13, <2>1, CheckpointKept DEF ApplyIndex, InFlight
  <2>2. CASE FailWith("RECOVERY_REQUIRED") /\ UNCHANGED <<moves, index>>
    BY <1>1, <1>13, <2>2, FailsKept DEF ApplyIndex
  <2> QED BY <1>13, <2>1, <2>2 DEF ApplyIndex
<1>14. CASE SaveCompleted
  <2>1. OthersSame /\ Is = "COMPLETED"
    BY <1>1, <1>14, SaveIsOwn DEF SaveCompleted, MoveStage, Ended
  <2> QED BY <1>1, <1>3, <1>14, <2>1 DEF SaveCompleted, KeptTurn, Gone
<1>15. CASE SaveFailure
  <2>1. mover.pc = "failing" /\ mover.verdict \in {"FAILED", "RECOVERY_REQUIRED"}
    BY <1>1, <1>15 DEF SaveFailure, AtPc, MoveInv, ControlTypes, Mover
  <2>2. OthersSame /\ Is = mover.verdict
    BY <1>1, <1>15, <2>1, SaveIsOwn DEF SaveFailure, MoveStage, Ended
  <2> QED BY <1>1, <1>2, <1>3, <1>15, <2>1, <2>2 DEF SaveFailure, KeptTurn, TurnKept, Gone
<1> QED BY <1>1, <1>4, <1>5, <1>6, <1>7, <1>9, <1>10, <1>11, <1>12, <1>13, <1>14, <1>15
        DEF ExecuteMove

\* The end of a turn finds no entry waiting.
LEMMA FinishKeepsBooks ==
    ASSUME MoveInv, BookInv, moveFaults = 0, FinishMove PROVE BookInv'
<1>1. /\ mover.op \in Op /\ mover.at \in Entries(mover.op) /\ mover.op # 0
      /\ mover.pc = "finish"
  BY OwnEntry DEF FinishMove, AtPc, Working
<1>2. Plan[mover.op] \in Seq([from : Library, to : Library, owner : Nat])
  BY <1>1, MoveAssumption
<1>3. \A o \in Op : moves'[o].stage = moves[o].stage
  <2>1. DOMAIN moves = Op /\ moves[mover.op] \in MoveRow(mover.op)
    BY <1>1 DEF MoveInv, MoveTypes
  <2> DEFINE st == Finished(moves[mover.op].stage)
  <2>2. moves' = [moves EXCEPT ![mover.op].status = st]
    BY DEF FinishMove
  <2> HIDE DEF st
  <2>3. \A o \in Op : moves'[o] = IF o = mover.op THEN [moves[o] EXCEPT !.status = st]
                                  ELSE moves[o]
    BY <2>1, <2>2
  <2> QED BY <1>1, <2>1, <2>3 DEF MoveRow
<1>4. ASSUME mover.op \notin raced PROVE WaitsAsOne(mover.op)
  <2>1. TurnKept
    BY <1>1, <1>4 DEF BookInv
  <2>2. \A j \in Entries(mover.op) : j < mover.at \/ j = mover.at
    BY <1>1, <1>2, <2>1 DEF TurnKept, Entries
  <2> QED BY <1>1, <2>1, <2>2 DEF TurnKept, WaitsAsOne
<1>5. /\ mover'.op = 0 /\ UNCHANGED <<raced, moveCancel, moveFaults>>
  BY DEF FinishMove, Resting
<1>6. ASSUME NEW o \in Op, o \notin raced PROVE (BookStays(o) /\ WaitsAsOne(o))'
  <2>1. BookStays(o) /\ WaitsAsOne(o)
    BY <1>4, <1>6 DEF BookInv
  <2> QED BY <1>3, <2>1 DEF BookStays, WaitsAsOne, Entries
<1> QED BY <1>5, <1>6, OpNotZero DEF BookInv, Entries

\* A claimed operation waits as a whole.
LEMMA ClaimKeepsBooks ==
    ASSUME MoveInv, BookInv, moveFaults = 0, NEW o \in Op, NEW busy, ClaimMove(o, busy)
    PROVE  BookInv'
<1>1. \A p \in Op : moves'[p].stage = moves[p].stage
  <2>1. DOMAIN moves = Op /\ moves[o] \in MoveRow(o)
    BY DEF MoveInv, MoveTypes
  <2>2. \A p \in Op : moves'[p] = IF p = o THEN [moves[p] EXCEPT !.status = "PREPARING"]
                                  ELSE moves[p]
    BY <2>1 DEF ClaimMove
  <2> QED BY <2>1, <2>2 DEF MoveRow
<1>2. /\ mover'.op = o /\ mover'.at = 1 /\ mover'.pc = "look" /\ o # 0
      /\ UNCHANGED <<raced, moveCancel, moveFaults>> /\ Waiting(o) # {}
  BY OpNotZero DEF ClaimMove, Resting, Claimable
<1>3. mover.op = 0
  BY DEF ClaimMove, MoveInv, ControlTypes, Working
<1>4. ASSUME NEW p \in Op, p \notin raced PROVE (BookStays(p) /\ WaitsAsOne(p))'
  <2>1. BookStays(p) /\ WaitsAsOne(p)
    BY <1>3, <1>4, OpNotZero DEF BookInv
  <2> QED BY <1>1, <2>1 DEF BookStays, WaitsAsOne, Entries
<1>5. ASSUME o \notin raced PROVE TurnKept'
  <2>1. \A i \in Entries(o) : moves'[o].stage[i] = "QUEUED"
    BY <1>1, <1>2, <1>4, <1>5 DEF Waiting, WaitsAsOne, Entries
  <2>2. \A j \in Entries(o) : ~(j < 1)
    <3>1. Plan[o] \in Seq([from : Library, to : Library, owner : Nat])
      BY MoveAssumption
    <3> QED BY <3>1 DEF Entries
  <2> QED BY <1>2, <2>1, <2>2 DEF TurnKept, Entries
<1> QED BY <1>2, <1>4, <1>5 DEF BookInv, Entries

\* A request, or a recovery, of an operation that is not executed.
LEMMA RowKeepsBooks ==
    ASSUME MoveInv, BookInv, moveFaults = 0, NEW o \in Op, UNCHANGED <<mover, moveFaults>>,
           raced \subseteq raced',
           \A p \in Op : p # o => moves'[p].stage = moves[p].stage,
           o \notin raced' /\ moves'[o].stage # moves[o].stage =>
               mover.op # o /\ (BookStays(o) /\ WaitsAsOne(o))',
           moveCancel'.op \in Op \ raced' =>
               moveCancel'.queued \in {{}, Entries(moveCancel'.op)}
    PROVE  BookInv'
<1>1. ASSUME NEW p \in Op, moves'[p].stage = moves[p].stage
      PROVE  /\ BookStays(p) => BookStays(p)'
             /\ WaitsAsOne(p) => WaitsAsOne(p)'
             /\ mover.op = p /\ TurnKept => TurnKept'
  BY <1>1 DEF BookStays, WaitsAsOne, TurnKept, Companions, OwnerOf, Entries
<1>2. ASSUME NEW p \in Op, p \notin raced'
      PROVE  BookStays(p)' /\ (mover'.op # p => WaitsAsOne(p)')
  BY <1>1, <1>2 DEF BookInv
<1>3. ASSUME mover.op # 0, mover.op \notin raced' PROVE TurnKept'
  <2>1. mover.op \in Op
    BY <1>3 DEF MoveInv, ControlTypes, Mover
  <2> QED BY <1>1, <1>3, <2>1 DEF BookInv
<1> QED BY <1>2, <1>3 DEF BookInv, Entries

\* Requests read or write an operation as a whole.
LEMMA RequestsKeepBooks ==
    ASSUME MoveInv, BookInv, moveFaults = 0, MoveRequests \/ CancelWrites
    PROVE  BookInv'
<1>0. DOMAIN moves = Op /\ \A o \in Op : moves[o] \in MoveRow(o)
  BY DEF MoveInv, MoveTypes
<1>1. ASSUME NEW o \in Op, Enqueue(o) \/ CancelClaimed(o) PROVE BookInv'
  <2>1. \A p \in Op : moves'[p].stage = moves[p].stage
    <3>1. \A p \in Op : moves'[p] = moves[p]
                        \/ moves'[p] = [moves[p] EXCEPT !.status = "QUEUED"]
                        \/ moves'[p] = [moves[p] EXCEPT !.cancel = TRUE]
      BY <1>0, <1>1 DEF Enqueue, CancelClaimed
    <3> QED BY <1>0, <3>1 DEF MoveRow
  <2>2. UNCHANGED <<mover, moveCancel, raced, moveFaults>>
    BY <1>1 DEF Enqueue, CancelClaimed
  <2>3. moveCancel'.op \in Op \ raced' => moveCancel'.queued \in {{}, Entries(moveCancel'.op)}
    BY <2>2 DEF BookInv
  <2> QED BY <2>1, <2>2, <2>3, RowKeepsBooks
<1>2. ASSUME NEW o \in Op, CancelReads(o) PROVE BookInv'
  <2>1. /\ moveCancel'.op = o /\ moveCancel'.queued = Waiting(o)
        /\ UNCHANGED <<moves, mover, raced, moveFaults>> /\ moves[o].status = "QUEUED"
    BY <1>2 DEF CancelReads
  <2>2. ASSUME o \notin raced PROVE Waiting(o) \in {{}, Entries(o)}
    <3>1. mover.op # o
      BY <2>1, <2>2, OpNotZero DEF MoveInv, ExecutorOK
    <3>2. WaitsAsOne(o)
      BY <2>2, <3>1 DEF BookInv
    <3> QED BY <3>2 DEF WaitsAsOne, Waiting
  <2> QED BY <2>1, <2>2, RowKeepsBooks
<1>3. CASE CancelWrites
  <2>0. moveCancel.op \in Op
    BY <1>3 DEF MoveInv, ControlTypes, CancelWrites
  <2> SUFFICES ASSUME NEW o \in Op, o = moveCancel.op PROVE BookInv'
    BY <2>0
  <2> DEFINE stage == [i \in Entries(o) |-> IF i \in moveCancel.queued THEN "CANCELLED"
                                            ELSE moves[o].stage[i]]
             st == Finished(stage)
  <2>1. /\ moves' = [moves EXCEPT ![o] = [status |-> st, cancel |-> TRUE, stage |-> stage]]
        /\ moveCancel' = NoCancel /\ UNCHANGED <<mover, moveFaults>>
        /\ raced' = IF moves[o].status = "QUEUED" /\ moveCancel.queued \subseteq Waiting(o)
                    THEN raced ELSE raced \cup {o}
    BY <1>3 DEF CancelWrites
  <2>2. \A i \in Entries(o) : stage[i] = IF i \in moveCancel.queued THEN "CANCELLED"
                                         ELSE moves[o].stage[i]
    OBVIOUS
  <2> HIDE DEF stage, st
  <2>3. moves'[o].stage = stage /\ \A p \in Op : p # o => moves'[p] = moves[p]
    BY <1>0, <2>1
  <2>4. ASSUME o \notin raced' PROVE mover.op # o /\ (BookStays(o) /\ WaitsAsOne(o))'
    <3>1. o \notin raced /\ moves[o].status = "QUEUED"
      BY <2>1, <2>4
    <3>2. mover.op # o
      BY <3>1, OpNotZero DEF MoveInv, ExecutorOK
    <3>3. BookStays(o) /\ WaitsAsOne(o) /\ moveCancel.queued \in {{}, Entries(o)}
      BY <3>1, <3>2 DEF BookInv
    <3>4. CASE moveCancel.queued = {}
      BY <2>2, <2>3, <3>2, <3>3, <3>4 DEF BookStays, WaitsAsOne, Entries
    <3>5. CASE moveCancel.queued = Entries(o)
      BY <2>2, <2>3, <3>2, <3>5 DEF BookStays, WaitsAsOne, Entries
    <3> QED BY <3>3, <3>4, <3>5
  <2>5. moveCancel'.op \notin Op /\ raced \subseteq raced'
    BY <2>1, OpNotZero DEF NoCancel
  <2> QED BY <2>1, <2>3, <2>4, <2>5, RowKeepsBooks
<1> QED BY <1>1, <1>2, <1>3 DEF MoveRequests

\* Recovery cancels and fails nothing.
LEMMA QuarantineKeepsBooks ==
    ASSUME MoveInv, BookInv, moveFaults = 0, NEW o \in Op, QuarantineMove(o)
    PROVE  BookInv'
<1> DEFINE q == Quarantined(o)  st == Finished(q)
<1>1. DOMAIN moves = Op /\ moves[o] \in MoveRow(o)
  BY DEF MoveInv, MoveTypes
<1>2. \A i \in Entries(o) :
         q[i] = IF moves[o].stage[i] \in InFlight THEN "RECOVERY_REQUIRED"
                ELSE moves[o].stage[i]
  BY DEF Quarantined
<1>3. /\ moves' = [moves EXCEPT ![o].stage = q, ![o].status = st]
      /\ UNCHANGED <<mover, moveCancel, raced, moveFaults>>
  BY DEF QuarantineMove
<1> HIDE DEF q, st
<1>4. /\ moves'[o] = [moves[o] EXCEPT !.stage = q, !.status = st]
      /\ \A p \in Op : p # o => moves'[p] = moves[p]
  BY <1>1, <1>3
<1>5. moves'[o].stage = q
  BY <1>1, <1>4 DEF MoveRow
<1>6. mover.op = 0
  BY DEF MoveInv, ControlTypes, Working, QuarantineMove
<1>7. ASSUME o \notin raced PROVE (BookStays(o) /\ WaitsAsOne(o))'
  <2>1. BookStays(o) /\ WaitsAsOne(o)
    BY <1>6, <1>7, OpNotZero DEF BookInv
  <2> QED BY <1>2, <1>5, <2>1 DEF BookStays, WaitsAsOne, InFlight, Gone, Entries
<1>8. moveCancel'.op \in Op \ raced' => moveCancel'.queued \in {{}, Entries(moveCancel'.op)}
  BY <1>3 DEF BookInv
<1> QED BY <1>3, <1>4, <1>6, <1>7, <1>8, OpNotZero, RowKeepsBooks

\* A step that leaves the stages alone and the worker without an operation.
LEMMA RestKeepsBooks ==
    ASSUME MoveInv, BookInv, mover.op = 0, mover'.op = 0,
           UNCHANGED <<moves, moveCancel, raced, moveFaults>>
    PROVE  BookInv'
BY OpNotZero DEF BookInv, BookStays, WaitsAsOne, Entries

\* Every step keeps books and companions together.
LEMMA BooksStep == ASSUME MoveInv, BookInv, [MovesNext]_moveVars PROVE BookInv'
<1>f. moveFaults \in Nat
  BY MoveAssumption DEF MoveInv, ControlTypes
<1>0. moveFaults' \in {moveFaults, moveFaults + 1}
  <2>2. CASE MoveFaults \/ CrashMover
    BY <2>2 DEF MoveFaults, CommitFails, Escape, CrashMover
  <2>3. CASE MoveRequests \/ CancelWrites \/ RecoverMoves \/ StartMover
    BY <2>3 DEF MoveRequests, Enqueue, CancelClaimed, CancelReads, CancelWrites, RecoverMoves,
       RecoveryEnds, QuarantineMove, StartMover
  <2>4. CASE ExecuteMove
    BY <2>4 DEF ExecuteMove, SkipEntry, CancelEntry, LookEntry, CheckEntry, RereadCancel,
       PublishFiles, SavePublished, ApplyIndex, SaveCompleted, SaveFailure, FinishMove
  <2>5. CASE \E o \in Op, busy \in SUBSET Library : ClaimMove(o, busy)
    BY <2>5 DEF ClaimMove
  <2>6. CASE UNCHANGED moveVars
    BY <2>6 DEF moveVars
  <2> QED BY <2>2, <2>3, <2>4, <2>5, <2>6 DEF MovesNext
<1> SUFFICES ASSUME moveFaults = 0, moveFaults' = 0 PROVE BookInv'
  BY <1>f, <1>0 DEF BookInv
<1>1. CASE MoveRequests \/ CancelWrites
  BY <1>1, RequestsKeepBooks
<1>2. CASE ExecuteMove
  BY <1>2, ExecutorKeepsTurn, TurnKeepsBooks, FinishKeepsBooks
<1>3. CASE \E o \in Op : QuarantineMove(o)
  BY <1>3, QuarantineKeepsBooks
<1>4. CASE RecoveryEnds \/ StartMover
  <2>1. /\ mover.op = 0 /\ mover'.op = 0
        /\ UNCHANGED <<moves, moveCancel, raced, moveFaults>>
    BY <1>4 DEF RecoveryEnds, StartMover, Resting, MoveInv, ControlTypes, Working
  <2> QED BY <2>1, RestKeepsBooks
<1>5. CASE MoveFaults \/ CrashMover
  BY <1>5 DEF MoveFaults, CommitFails, Escape, CrashMover
<1>6. CASE \E o \in Op, busy \in SUBSET Library : ClaimMove(o, busy)
  BY <1>6, ClaimKeepsBooks
<1>7. CASE UNCHANGED moveVars
  BY <1>7 DEF moveVars, BookInv, BookStays, WaitsAsOne, TurnKept, Companions, OwnerOf, Entries
<1> QED BY <1>1, <1>2, <1>3, <1>4, <1>5, <1>6, <1>7 DEF MovesNext, RecoverMoves

\* Nothing is complete in the beginning.
LEMMA BooksInitially == MovesInit => BookInv
BY OpNotZero DEF MovesInit, BookInv, BookStays, WaitsAsOne, Resting, NoCancel

\* Without a fault, no order of cancels, failures and checkpoints reports a book
\* as cancelled or failed after a companion of it has moved: the executor looks
\* at companions_published before it says so (ExecuteFileMoveOperation.execute).
THEOREM MovesKeepCompanions == MovesSpec => []BooksKeepCompanions
<1>1. BookInv => BooksKeepCompanions
  BY DEF BookInv, BookStays, Gone, BooksKeepCompanions
<1>2. MovesSpec => []BookInv
  <2>1. MovesInit => MoveInv /\ BookInv
    BY MovesInitially, BooksInitially
  <2>2. MoveInv /\ BookInv /\ [MovesNext]_moveVars => MoveInv' /\ BookInv'
    BY MovesStep, BooksStep
  <2> QED BY <2>1, <2>2, PTL DEF MovesSpec
<1> QED BY <1>1, <1>2, PTL
=============================================================================
