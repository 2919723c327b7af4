----------------------------- MODULE CacheProofs -----------------------------
(***************************************************************************)
(* Proofs about CacheMigration for any keys, contents, limits and batch    *)
(* sizes: the types, and CacheInv, which follows every steady key from     *)
(* SCAN through page and batch into the target.                            *)
(***************************************************************************)
EXTENDS CacheMigration, FiniteSetTheorems, TLAPS

\* The initial state has the right types.
LEMMA CacheTypeInit == Init => TypeOK
  <1> SUFFICES ASSUME Init PROVE TypeOK
    OBVIOUS
  <1> USE CacheAssumption DEF Init
  <1>1. /\ source \in [Keys -> Contents \cup {Missing}]
        /\ target \in [Keys -> Contents \cup {Missing}]
        /\ values \in [Keys -> Contents \cup {Missing}]
    OBVIOUS
  <1>2. limit \in Nat /\ scans \in Nat /\ processed \in Nat /\ faults \in 0..MaxFaults
    OBVIOUS
  <1>3. pc \in Points /\ status \in Terminal \cup {"pending", "running", "paused"}
    BY DEF Points
  <1>4. QED
    BY <1>1, <1>2, <1>3 DEF TypeOK

\* Every step preserves the types.
LEMMA CacheTypeNext == TypeOK /\ [Next]_vars => TypeOK'
  <1> SUFFICES ASSUME TypeOK, [Next]_vars PROVE TypeOK'
    OBVIOUS
  <1> USE CacheAssumption
      DEF TypeOK, redisVars, scanVars, batchVars, countVars, controlVars, Points, Terminal
  <1>1. CASE Start
    BY <1>1 DEF Start
  <1>2. CASE Scan
    BY <1>2 DEF Scan
  <1>3. CASE ReadFails
    BY <1>3 DEF ReadFails, Reject, End
  <1>4. CASE NextBatch
    <2>1. batch' \subseteq page /\ page' \subseteq page /\ pc' = "top"
      BY <1>4 DEF NextBatch
    <2>2. todo' = todo /\ todo = {}
      BY <1>4 DEF NextBatch
    <2>3. UNCHANGED <<redisVars, limit, scanVars, values, live, countVars, status,
                      controlVars, faults>>
      BY <1>4 DEF NextBatch
    <2>4. QED
      BY <2>1, <2>2, <2>3
  <1>5. CASE NextScan
    BY <1>5 DEF NextScan
  <1>6. CASE Complete
    BY <1>6 DEF Complete, End
  <1>7. CASE Top
    BY <1>7 DEF Top, End
  <1>8. CASE ReadValues
    BY <1>8 DEF ReadValues
  <1>9. CASE AllRead
    BY <1>9 DEF AllRead
  <1>10. CASE EndBatch
    BY <1>10 DEF EndBatch, End
  <1>11. CASE SleepOver
    BY <1>11 DEF SleepOver
  <1>12. ASSUME NEW k \in Keys, ReadTtl(k) PROVE TypeOK'
    BY <1>12 DEF ReadTtl
  <1>13. ASSUME NEW k \in Keys, WriteKey(k) PROVE TypeOK'
    <2>1. target' = target \/ target' = [target EXCEPT ![k] = values[k]]
      BY <1>13 DEF WriteKey
    <2>2. /\ errors' \subseteq Keys /\ unlisted' \subseteq Keys /\ failed' \in Nat
          /\ faults' \in 0..MaxFaults
      BY <1>13 DEF WriteKey, Reject
    <2>3. QED
      BY <1>13, <2>1, <2>2 DEF WriteKey
  <1>14. CASE Abort
    BY <1>14 DEF Abort, End
  <1>15. CASE Pause
    BY <1>15 DEF Pause
  <1>16. CASE Resume
    BY <1>16 DEF Resume
  <1>17. ASSUME NEW k \in Written, SourceChanges(k) PROVE TypeOK'
    BY <1>17 DEF SourceChanges
  <1>18. CASE UNCHANGED vars
    BY <1>18 DEF vars
  <1>19. QED
    BY <1>1, <1>2, <1>3, <1>4, <1>5, <1>6, <1>7, <1>8, <1>9, <1>10, <1>11, <1>12,
       <1>13, <1>14, <1>15, <1>16, <1>17, <1>18
       DEF Next, RunStep, Control, Cancel, Destroy

\* A cache migration keeps its types: in particular the bodies of its loops only look at
\* keys of the batch in hand.
THEOREM CacheTypeCorrect == Spec => []TypeOK
  BY CacheTypeInit, CacheTypeNext, PTL DEF Spec

------------------------------------------------------------------------------

\* To begin with nothing is on its way.
LEMMA CacheInvInit == Init => CacheInv
  BY CacheAssumption, FS_EmptySet DEF Init, CacheInv, Beyond, Terminal

\* A key more adds at most one to a cardinality.
LEMMA OneMore ==
  ASSUME NEW S, NEW x, IsFiniteSet(S)
  PROVE  Cardinality(S \cup {x}) <= Cardinality(S) + 1 /\ Cardinality(S \cup {x}) \in Nat
  <1>1. Cardinality(S) \in Nat
    BY FS_CardinalityType
  <1>2. Cardinality(S \cup {x}) = IF x \in S THEN Cardinality(S) ELSE Cardinality(S) + 1
    BY FS_AddElement
  <1>3. QED
    BY <1>1, <1>2

\* Every step preserves the invariant.
LEMMA CacheInvNext == TypeOK /\ CacheInv /\ [Next]_vars => CacheInv'
  <1> SUFFICES ASSUME TypeOK, CacheInv, [Next]_vars PROVE CacheInv'
    OBVIOUS
  <1> USE DEF CacheInv, Ahead, Accounted, Beyond, LimitReached,
              redisVars, scanVars, batchVars, countVars, controlVars, Terminal
  <1>1. CASE Start
    BY <1>1 DEF Start, TypeOK
  <1>2. CASE Scan
    <2>1. PICK returned \in SUBSET Keys :
            /\ open' \in BOOLEAN /\ (~open' => unseen \subseteq returned)
            /\ page' = returned /\ unseen' = unseen \ returned
      BY <1>2 DEF Scan
    <2>2. pc = "scan" /\ pc' = "next"
      BY <1>2 DEF Scan
    <2>3. UNCHANGED <<source, target, steady, countVars, batch, status>>
      BY <1>2 DEF Scan
    <2>4. ~open' => unseen' = {}
      BY <2>1
    <2>5. ASSUME NEW k \in steady, source[k] # Missing
          PROVE  Accounted(k)' \/ Ahead(k)'
      <3>1. Accounted(k) \/ k \in unseen \/ k \in page
        BY <2>2, <2>5
      <3>2. page = {}
        BY <2>2
      <3>3. k \in unseen => k \in unseen' \/ k \in page'
        BY <2>1
      <3>4. QED
        BY <2>3, <3>1, <3>2, <3>3
    <2>6. status' \in Terminal <=> pc' = "ended"
      BY <2>2, <2>3
    <2>7. ~(status' = "completed")
      BY <2>2, <2>3, <2>6
    <2>8. QED
      BY <2>2, <2>3, <2>4, <2>5, <2>6, <2>7
  <1>3. CASE ReadFails
    BY <1>3 DEF ReadFails, End, TypeOK
  <1>4. CASE NextBatch
    <2>1. PICK slice \in SUBSET page : batch' = slice /\ page' = page \ slice
      BY <1>4 DEF NextBatch
    <2>2. pc = "next" /\ pc' = "top"
      BY <1>4 DEF NextBatch
    <2>3. UNCHANGED <<source, target, steady, countVars, unseen, open, status>>
      BY <1>4 DEF NextBatch
    <2>4. ASSUME NEW k \in steady, source[k] # Missing
          PROVE  Accounted(k)' \/ Ahead(k)'
      BY <2>1, <2>2, <2>3, <2>4
    <2>5. status' \in Terminal <=> pc' = "ended"
      BY <2>2, <2>3
    <2>6. ~(status' = "completed")
      BY <2>2, <2>3, <2>5
    <2>7. QED
      BY <2>2, <2>3, <2>4, <2>5, <2>6
  <1>5. CASE NextScan
    BY <1>5 DEF NextScan, TypeOK
  <1>6. CASE Complete
    BY <1>6 DEF Complete, End, TypeOK
  <1>7. CASE Top
    BY <1>7 DEF Top, End, TypeOK
  <1>8. CASE ReadValues
    BY <1>8 DEF ReadValues, TypeOK
  <1>9. CASE AllRead
    BY <1>9 DEF AllRead, TypeOK
  <1>10. CASE EndBatch
    BY <1>10 DEF EndBatch, End, TypeOK
  <1>11. CASE SleepOver
    BY <1>11 DEF SleepOver, TypeOK
  <1>12. ASSUME NEW k \in Keys, ReadTtl(k) PROVE CacheInv'
    BY <1>12 DEF ReadTtl, TypeOK
  <1>13. ASSUME NEW k \in Keys, WriteKey(k) PROVE CacheInv'
    <2>1. pc = "write" /\ pc' = "write" /\ k \in todo /\ k \in batch /\ todo' = todo \ {k}
      BY <1>13 DEF WriteKey, TypeOK
    <2>2. UNCHANGED <<source, steady, batch, page, unseen, open, values, live, status>>
      BY <1>13 DEF WriteKey
    <2>3. \A x \in Keys \ {k} : target'[x] = target[x]
      BY <1>13 DEF WriteKey, TypeOK
    <2>4. k \in steady => values[k] = source[k]
      BY <2>1
    <2>5. /\ errors \subseteq errors' /\ unlisted \subseteq unlisted'
          /\ target'[k] = target[k] \/ target'[k] = values[k]
      BY <1>13 DEF WriteKey, TypeOK
    <2>6. Copyable(k) => target'[k] = values[k] \/ k \in errors' \/ k \in unlisted'
      BY <1>13 DEF WriteKey, TypeOK
    <2>7. ASSUME NEW x \in steady, source[x] # Missing
          PROVE  Accounted(x)' \/ Ahead(x)'
      <3>1. CASE x = k
        <4>1. CASE k \in live
          BY <2>2, <2>4, <2>6, <2>7, <3>1, <4>1 DEF Copyable
        <4>2. CASE k \notin live
          BY <2>1, <2>2, <2>4, <2>5, <2>7, <3>1, <4>2
        <4>3. QED
          BY <4>1, <4>2
      <3>2. CASE x # k
        BY <2>1, <2>2, <2>3, <2>5, <2>7, <3>2 DEF TypeOK
      <3>3. QED
        BY <3>1, <3>2
    <2>8. Cardinality(unlisted') <= Beyond'
      <3>0. IsFiniteSet(unlisted) /\ Cardinality(unlisted) \in Nat
        BY CacheAssumption, FS_Subset, FS_CardinalityType DEF TypeOK
      <3>1. CASE UNCHANGED unlisted
        <4>1. failed' = failed \/ failed' = failed + 1
          BY <1>13 DEF WriteKey
        <4>2. Beyond <= Beyond' /\ Beyond \in Nat /\ Beyond' \in Nat
          BY <4>1, CacheAssumption DEF TypeOK
        <4>3. Cardinality(unlisted') = Cardinality(unlisted)
          BY <3>1
        <4>4. Cardinality(unlisted) <= Beyond
          OBVIOUS
        <4>5. \A x, y, z \in Nat : x <= y /\ y <= z => x <= z
          OBVIOUS
        <4>6. Cardinality(unlisted) <= Beyond'
          <5> DEFINE x == Cardinality(unlisted)
                     y == Beyond
                     z == Beyond'
          <5>1. x \in Nat /\ y \in Nat /\ z \in Nat /\ x <= y /\ y <= z
            BY <3>0, <4>2, <4>4
          <5> HIDE DEF x, y, z
          <5>2. x <= z
            BY <5>1, <4>5
          <5>3. QED
            BY <5>2 DEF x, z
        <4>7. QED
          BY <4>3, <4>6
      <3>2. CASE unlisted' = unlisted \cup {k} /\ ~(failed < MaxErrors) /\ failed' = failed + 1
        <4>1. /\ Cardinality(unlisted \cup {k}) <= Cardinality(unlisted) + 1
              /\ Cardinality(unlisted \cup {k}) \in Nat
          BY <3>0, OneMore
        <4>2. unlisted' = unlisted \cup {k}
          BY <3>2
        <4>3. QED
          BY <3>0, <3>2, <4>1, <4>2, CacheAssumption DEF TypeOK
      <3>3. QED
        BY <1>13, <3>1, <3>2 DEF WriteKey
    <2>9. QED
      BY <2>1, <2>2, <2>7, <2>8
  <1>14. CASE Abort
    BY <1>14 DEF Abort, End
  <1>15. CASE Pause
    BY <1>15 DEF Pause
  <1>16. CASE Resume
    BY <1>16 DEF Resume
  <1>17. ASSUME NEW k \in Written, SourceChanges(k) PROVE CacheInv'
    <2>1. /\ steady' = steady \ {k} /\ \A x \in steady' : source'[x] = source[x]
          /\ unseen \ {k} \subseteq unseen' /\ unseen' \subseteq unseen
      BY <1>17 DEF SourceChanges, TypeOK
    <2>2. UNCHANGED <<target, limit, pc, open, page, batch, todo, values, live, countVars,
                      status>>
      BY <1>17 DEF SourceChanges
    <2>3. QED
      BY <2>1, <2>2
  <1>18. CASE UNCHANGED vars
    BY <1>18 DEF vars
  <1>19. QED
    BY <1>1, <1>2, <1>3, <1>4, <1>5, <1>6, <1>7, <1>8, <1>9, <1>10, <1>11, <1>12,
       <1>13, <1>14, <1>15, <1>16, <1>17, <1>18
       DEF Next, RunStep, Control, Cancel, Destroy

\* The invariant holds of any keys, however SCAN returns them.
LEMMA CacheInvAlways == Spec => []CacheInv
  BY CacheTypeCorrect, CacheInvInit, CacheInvNext, PTL DEF Spec

\* What is neither copied nor listed is among the errors the list had no room for.
LEMMA UnreportedCounted == TypeOK /\ CacheInv => CompletedCopiesAll
  <1> SUFFICES ASSUME TypeOK, CacheInv, status = "completed", ~LimitReached
               PROVE  Cardinality(Unreported) <= Beyond
    BY DEF CompletedCopiesAll
  <1>1. Unreported \subseteq unlisted
    BY DEF Unreported, CacheInv, Accounted
  <1>2. IsFiniteSet(unlisted)
    BY CacheAssumption, FS_Subset DEF TypeOK
  <1>3. /\ Cardinality(Unreported) <= Cardinality(unlisted)
        /\ Cardinality(Unreported) \in Nat /\ Cardinality(unlisted) \in Nat
    BY <1>1, <1>2, FS_Subset, FS_CardinalityType
  <1>4. Beyond \in Nat /\ Cardinality(unlisted) <= Beyond
    BY CacheAssumption DEF CacheInv, Beyond, TypeOK
  <1>5. QED
    BY <1>3, <1>4

\* A completed cache migration without a limit has copied every key that was left alone
\* meanwhile, or lists it, but for as many as it counts beyond its list of errors: for any
\* number of keys, batch size, length of the list, pauses and failing commands.
THEOREM CompletedIsComplete == Spec => []CompletedCopiesAll
  BY CacheTypeCorrect, CacheInvAlways, UnreportedCounted, PTL

------------------------------------------------------------------------------

\* What waits to be resumed: the pause flag and the status go together while a run is
\* under way, so that the flag that parks a run is one resumeCacheMigration can clear.
ParkInv ==
  /\ ParkedCanBeResumed
  /\ pc = "idle" => status = "pending"
  /\ pc # "ended" => (isPaused <=> status = "paused")

\* Every step keeps them together; an abort takes a parked run to its end.
LEMMA ParkInvNext == TypeOK /\ CacheInv /\ ParkInv /\ [Next]_vars => ParkInv'
  <1> SUFFICES ASSUME TypeOK, CacheInv, ParkInv, [Next]_vars PROVE ParkInv'
    OBVIOUS
  <1> USE DEF ParkInv, ParkedCanBeResumed
  <1>0. status \in {"paused", "running", "pending"} => pc # "ended"
    BY DEF CacheInv, Terminal
  <1>1. CASE Start
    BY <1>1 DEF Start, controlVars
  <1>2. CASE RunStep
    <2>1. UNCHANGED controlVars /\ pc' # "idle"
      BY <1>2 DEF RunStep, Scan, ReadFails, NextBatch, NextScan, Complete, Top, ReadValues,
                  AllRead, EndBatch, SleepOver, ReadTtl, WriteKey, End, controlVars
    <2>2. pc' = "ended" \/ status' = status
      BY <1>2 DEF RunStep, Scan, ReadFails, NextBatch, NextScan, Complete, Top, ReadValues,
                  AllRead, EndBatch, SleepOver, ReadTtl, WriteKey, End
    <2>3. pc # "ended" /\ (pc' = "parked" => Top)
      BY <1>2 DEF RunStep, Scan, ReadFails, NextBatch, NextScan, Complete, Top, ReadValues,
                  AllRead, EndBatch, SleepOver, ReadTtl, WriteKey, End
    <2>4. QED
      BY <2>1, <2>2, <2>3 DEF Top, End, controlVars
  <1>3. CASE Abort /\ pc # "idle"
    BY <1>3 DEF Abort, End
  <1>4. CASE Pause
    BY <1>0, <1>4 DEF Pause
  <1>5. CASE Resume
    BY <1>0, <1>5 DEF Resume
  <1>6. ASSUME NEW k \in Written, SourceChanges(k) PROVE ParkInv'
    BY <1>6 DEF SourceChanges, controlVars
  <1>7. CASE UNCHANGED vars
    BY <1>7 DEF vars, controlVars
  <1>8. QED
    BY <1>1, <1>2, <1>3, <1>4, <1>5, <1>6, <1>7 DEF Next, Control, Cancel, Destroy

\* They go together in every reachable state.
LEMMA ParkInvAlways == Spec => []ParkInv
  <1>1. Init => ParkInv
    BY DEF Init, ParkInv, ParkedCanBeResumed
  <1>2. QED
    BY <1>1, ParkInvNext, CacheTypeCorrect, CacheInvAlways, PTL DEF Spec

\* No cache migration waits for a resume that would be refused, and none waits that was
\* cancelled.
THEOREM ParkedIsResumable == Spec => []ParkedCanBeResumed
  BY ParkInvAlways, PTL DEF ParkInv

\* The reads of a batch are only sent at the top of the loop, where the signal is looked
\* at, or by a resume, which finds no cancelled run waiting.
LEMMA NoReadStep ==
  ParkInv /\ [Next]_vars => [aborted /\ pc # "read" => pc' # "read"]_vars
  <1> SUFFICES ASSUME ParkInv, [Next]_vars, aborted, pc # "read" PROVE pc' # "read"
    OBVIOUS
  <1>1. CASE Start
    BY <1>1 DEF Start
  <1>2. CASE RunStep
    <2>1. CASE Top
      BY <2>1 DEF Top, End
    <2>2. CASE ~Top
      BY <1>2, <2>2 DEF RunStep, Scan, ReadFails, NextBatch, NextScan, Complete, ReadValues,
                        AllRead, EndBatch, SleepOver, ReadTtl, WriteKey, End
    <2>3. QED
      BY <2>1, <2>2
  <1>3. CASE Cancel \/ Destroy
    BY <1>3 DEF Cancel, Destroy, Abort
  <1>4. CASE Pause
    BY <1>4 DEF Pause
  <1>5. CASE Resume
    BY <1>5 DEF Resume, ParkInv, ParkedCanBeResumed
  <1>6. ASSUME NEW k \in Written, SourceChanges(k) PROVE pc' # "read"
    BY <1>6 DEF SourceChanges
  <1>7. CASE UNCHANGED vars
    BY <1>7 DEF vars
  <1>8. QED
    BY <1>1, <1>2, <1>3, <1>4, <1>5, <1>6, <1>7 DEF Next, Control

\* A cancelled run reads no further batch, however often it was paused and resumed before.
THEOREM CancelStopsReads == Spec => NoReadAfterCancel
  <1>1. []ParkInv /\ [][Next]_vars => NoReadAfterCancel
    BY NoReadStep, PTL DEF NoReadAfterCancel
  <1>2. QED
    BY <1>1, ParkInvAlways, PTL DEF Spec

------------------------------------------------------------------------------

\* The limit: the keys of the batch in hand are within what is left of it.
LimitInv == limit > 0 =>
  /\ processed <= limit
  /\ pc \in {"top", "parked", "read", "ttls"} => processed + Cardinality(batch) <= limit
  /\ pc = "write" => processed + Cardinality(todo) <= limit

\* Every step stays within the limit: a slice is cut to what is left, and every key of it
\* counts once.
LEMMA LimitInvNext == TypeOK /\ LimitInv /\ [Next]_vars => LimitInv'
  <1> SUFFICES ASSUME TypeOK, LimitInv, [Next]_vars PROVE LimitInv'
    OBVIOUS
  <1>a. limit' = limit
    <2>1. Start \/ RunStep => limit' = limit
      BY DEF RunStep, Start, Scan, ReadFails, NextBatch, NextScan, Complete, Top, ReadValues,
             AllRead, EndBatch, SleepOver, ReadTtl, WriteKey
    <2>2. Control => limit' = limit
      BY DEF Control, Cancel, Destroy, Abort, Pause, Resume
    <2>3. QED
      BY <2>1, <2>2 DEF Next, SourceChanges, vars
  <1> SUFFICES ASSUME limit > 0 PROVE LimitInv'
    BY <1>a DEF LimitInv
  <1> USE DEF LimitInv, TypeOK, batchVars, countVars
  <1>0. \A S \in SUBSET Keys : IsFiniteSet(S) /\ Cardinality(S) \in Nat
    BY CacheAssumption, FS_Subset, FS_CardinalityType
  <1>1. CASE Start
    BY <1>1 DEF Start
  <1>2. CASE Scan
    BY <1>2 DEF Scan
  <1>3. CASE ReadFails
    BY <1>3 DEF ReadFails, End
  <1>4. CASE NextBatch
    <2>1. PICK slice \in SUBSET page :
            /\ Cardinality(slice) = IF Cardinality(page) < SliceSize THEN Cardinality(page)
                                    ELSE SliceSize
            /\ batch' = slice
      BY <1>4 DEF NextBatch
    <2>2. Cardinality(page) \in Nat /\ BatchSize \in Nat
      BY <1>0, CacheAssumption
    <2>3. SliceSize <= limit - processed /\ SliceSize \in Int
      BY <2>2 DEF SliceSize
    <2>4. Cardinality(batch') <= limit - processed
      BY <2>1, <2>2, <2>3
    <2>5. pc' = "top" /\ UNCHANGED <<limit, processed>>
      BY <1>4 DEF NextBatch
    <2>6. Cardinality(batch') \in Nat
      BY <1>0, <2>1
    <2>7. QED
      BY <2>4, <2>5, <2>6
  <1>5. CASE NextScan
    BY <1>5 DEF NextScan
  <1>6. CASE Complete
    BY <1>6 DEF Complete, End
  <1>7. CASE Top
    BY <1>7 DEF Top, End
  <1>8. CASE ReadValues
    BY <1>8 DEF ReadValues
  <1>9. CASE AllRead
    BY <1>9 DEF AllRead
  <1>10. CASE EndBatch
    BY <1>10 DEF EndBatch, End
  <1>11. CASE SleepOver
    BY <1>11 DEF SleepOver
  <1>12. ASSUME NEW k \in Keys, ReadTtl(k) PROVE LimitInv'
    BY <1>12 DEF ReadTtl
  <1>13. ASSUME NEW k \in Keys, WriteKey(k) PROVE LimitInv'
    <2>1. IsFiniteSet(todo) /\ k \in todo /\ Cardinality(todo) \in Nat
      BY <1>0, <1>13 DEF WriteKey
    <2>2. Cardinality(todo \ {k}) = Cardinality(todo) - 1
      BY <2>1, FS_RemoveElement
    <2>3. /\ pc = "write" /\ pc' = "write" /\ todo' = todo \ {k}
          /\ processed' = processed + 1 /\ limit' = limit
      BY <1>13 DEF WriteKey
    <2>4. Cardinality(todo \ {k}) \in Nat
      BY <1>0
    <2>5. QED
      BY <2>1, <2>2, <2>3, <2>4
  <1>14. CASE Abort
    BY <1>14 DEF Abort, End
  <1>15. CASE Pause
    BY <1>15 DEF Pause
  <1>16. CASE Resume
    BY <1>16 DEF Resume
  <1>17. ASSUME NEW k \in Written, SourceChanges(k) PROVE LimitInv'
    BY <1>17 DEF SourceChanges
  <1>18. CASE UNCHANGED vars
    BY <1>18 DEF vars
  <1>19. QED
    BY <1>1, <1>2, <1>3, <1>4, <1>5, <1>6, <1>7, <1>8, <1>9, <1>10, <1>11, <1>12,
       <1>13, <1>14, <1>15, <1>16, <1>17, <1>18
       DEF Next, RunStep, Control, Cancel, Destroy

\* A cache migration looks at no more keys than its limit, however many SCAN returns.
THEOREM CacheLimit == Spec => []LimitRespected
  <1>1. Init => LimitInv
    BY CacheAssumption DEF Init, LimitInv
  <1>2. LimitInv => LimitRespected
    BY DEF LimitInv, LimitRespected
  <1>3. QED
    BY <1>1, <1>2, LimitInvNext, CacheTypeCorrect, PTL DEF Spec
==============================================================================
