---------------------------- MODULE GridOpenProofs ----------------------------
(***************************************************************************)
(* Proofs about Sync and GridOpen, for every number of threads, nodes and  *)
(* levels, whatever the application and its files are.                     *)
(***************************************************************************)
EXTENDS GridOpen, FiniteSetTheorems, WellFoundedInduction, TLAPS

LEMMA NumThreadsFacts == NumThreads \in Nat \ {0} /\ IsFiniteSet(Thread)
<1>1. IsFiniteSet(Thread) /\ Thread # {}
  BY SyncAssumption
<1>2. Cardinality(Thread) \in Nat /\ Cardinality(Thread) # 0
  BY <1>1, FS_CardinalityType, FS_EmptySet
<1> QED  BY <1>1, <1>2 DEF NumThreads

(* The threads in the barrier, counted.                                    *)
LEMMA SyncedFacts ==
  /\ IsFiniteSet(Synced) /\ Cardinality(Synced) \in 0 .. NumThreads
  /\ Cardinality(Synced) = NumThreads => Synced = Thread
  /\ Cardinality(Synced) = 0 => Synced = {}
<1>1. Synced \in SUBSET Thread
  BY DEF Synced
<1>2. IsFiniteSet(Synced) /\ Cardinality(Synced) <= NumThreads
      /\ (Cardinality(Synced) = NumThreads => Synced = Thread)
  BY <1>1, NumThreadsFacts, FS_Subset DEF NumThreads
<1> QED  BY <1>2, FS_CardinalityType, FS_EmptySet, NumThreadsFacts

(* Those of them that leave last: none, all or some.                       *)
LEMMA LastFacts ==
  ASSUME NEW S, IsFiniteSet(S), NEW f
  PROVE  /\ IsFiniteSet({ t \in S : f[t] })
         /\ Cardinality({ t \in S : f[t] }) \in Nat
         /\ Cardinality({ t \in S : f[t] }) <= Cardinality(S)
         /\ Cardinality({ t \in S : f[t] }) = Cardinality(S) <=> \A t \in S : f[t]
<1> DEFINE L == { t \in S : f[t] }
<1>1. L \in SUBSET S
  OBVIOUS
<1>2. IsFiniteSet(L) /\ Cardinality(L) <= Cardinality(S)
      /\ (Cardinality(S) = Cardinality(L) => S = L)
  BY <1>1, FS_Subset
<1>3. (\A t \in S : f[t]) <=> L = S
  OBVIOUS
<1> QED  BY <1>2, <1>3, FS_CardinalityType

-----------------------------------------------------------------------------
LEMMA MoveFacts ==
  ASSUME at \in [Thread -> Position], NEW t \in Thread, NEW q \in Position, NEW woken,
         Move(t, q, woken)
  PROVE  /\ at' \in [Thread -> Position]
         /\ at'[t] = q
         /\ \A u \in Thread : u # t =>
               \/ at[u] = "wait" /\ "wait" \in woken /\ at'[u] = "wait_woken"
               \/ at[u] = "last" /\ "last" \in woken /\ at'[u] = "last_woken"
               \/ at[u] = "finish" /\ "finish" \in woken /\ at'[u] = "finish_woken"
               \/ /\ ~(at[u] = "wait" /\ "wait" \in woken)
                  /\ ~(at[u] = "last" /\ "last" \in woken)
                  /\ ~(at[u] = "finish" /\ "finish" \in woken)
                  /\ at'[u] = at[u]
BY DEF Move, Position

(* A step that wakes nobody and leaves the counters alone.                 *)
LEMMA PlainMove ==
  ASSUME SyncInv, NEW t \in Thread, NEW q \in Position, Move(t, q, {}),
         UNCHANGED <<last, syncedThreads, lastThreads, finishing>>,
         q \in Waiting <=> at[t] \in Waiting,
         finishing => q \notin {"inside", "wait", "finish_woken"},
         ~finishing => q \in {"out", "start", "finish_woken", "inside", "wait", "through"},
         q # "last_woken",
         q = "last" => syncedThreads > lastThreads,
         mutex' \in Thread \cup {NoThread},
         mutex' = t <=> q \in {"inside", "leaving", "through"},
         \A u \in Thread \ {t} : mutex' = u <=> mutex = u
  PROVE  /\ SyncInv'
         /\ \A u \in Thread : at'[u] = IF u = t THEN q ELSE at[u]
<1>1. at' \in [Thread -> Position] /\ (\A u \in Thread : at'[u] = IF u = t THEN q ELSE at[u])
  BY MoveFacts DEF SyncInv, SyncTypeOK
<1>2. SyncTypeOK'
  BY <1>1 DEF SyncInv, SyncTypeOK
<1>3. Synced' = Synced
  BY <1>1 DEF Synced
<1>4. { u \in Synced : last[u] }' = { u \in Synced : last[u] }
  BY <1>3
<1>5. NoLostWakeUp'
  <2>1. (syncedThreads = Cardinality(Synced))'
    BY <1>3 DEF SyncInv, NoLostWakeUp
  <2>2. (lastThreads = Cardinality({ u \in Synced : last[u] }))'
    BY <1>4 DEF SyncInv, NoLostWakeUp
  <2>3. (finishing => \A u \in Thread : at[u] \notin {"inside", "wait"})'
    BY <1>1 DEF SyncInv, NoLostWakeUp
  <2>4. (~finishing =>
          \A u \in Thread : at[u] \in {"out", "start", "finish_woken", "inside", "wait", "through"})'
    BY <1>1 DEF SyncInv, NoLostWakeUp
  <2>5. ASSUME NEW u \in Thread, at'[u] = "last"
        PROVE  \E v \in Synced : ~last[v]
    <3>1. CASE u = t
      <4>1. syncedThreads > lastThreads
        BY <1>1, <2>5, <3>1
      <4>2. syncedThreads = Cardinality(Synced)
            /\ lastThreads = Cardinality({ v \in Synced : last[v] })
        BY DEF SyncInv, NoLostWakeUp
      <4>3. ~ \A v \in Synced : last[v]
        BY <4>1, <4>2, LastFacts, SyncedFacts
      <4> QED  BY <4>3
    <3>2. CASE u # t
      BY <1>1, <2>5, <3>2 DEF SyncInv, NoLostWakeUp
    <3> QED  BY <3>1, <3>2
  <2> QED  BY <1>3, <2>1, <2>2, <2>3, <2>4, <2>5 DEF NoLostWakeUp
<1>6. ASSUME NEW u \in Thread
      PROVE  /\ mutex' = u <=> at'[u] \in {"inside", "leaving", "through"}
             /\ finishing' => at'[u] # "finish_woken"
             /\ at'[u] = "last_woken" => \A v \in Synced' : last'[v]
  BY <1>1, <1>3 DEF SyncInv
<1> QED  BY <1>1, <1>2, <1>5, <1>6 DEF SyncInv

LEMMA StartBarrierSync ==
  ASSUME SyncInv, NEW t \in Thread, StartBarrier(t)
  PROVE  /\ SyncInv'
         /\ \A u \in Thread : at'[u] = IF u = t THEN "start" ELSE at[u]
         /\ UNCHANGED <<last, syncedThreads, finishing>>
<1>1. mutex \in Thread \cup {NoThread} /\ (mutex = t <=> at[t] \in {"inside", "leaving", "through"})
  BY DEF SyncInv, SyncTypeOK
<1> QED  BY <1>1, PlainMove DEF StartBarrier, Waiting, Position

LEMMA EndBarrierSync ==
  ASSUME SyncInv, NEW t \in Thread, EndBarrier(t)
  PROVE  /\ SyncInv'
         /\ at[t] = "through"
         /\ \A u \in Thread : at'[u] = IF u = t THEN "out" ELSE at[u]
         /\ UNCHANGED <<last, syncedThreads, finishing>>
<1>1. mutex = t
  BY DEF EndBarrier, SyncInv
<1>2. \A u \in Thread \ {t} : mutex' = u <=> mutex = u
  BY <1>1, SyncAssumption DEF EndBarrier
<1>3. mutex' \in Thread \cup {NoThread} /\ mutex' # t
  BY SyncAssumption DEF EndBarrier
<1>4. finishing => "out" \notin {"inside", "wait", "finish_woken"}
  OBVIOUS
<1> QED  BY <1>2, <1>3, <1>4, PlainMove DEF EndBarrier, Waiting, Position

(* Before the last thread arrives, the barrier is complete for nobody;     *)
(* then it is for all.                                                     *)
LEMMA ArriveSync ==
  ASSUME SyncInv, NEW t \in Thread, NEW isLast \in BOOLEAN, Arrive(t, isLast)
  PROVE  /\ SyncInv'
         /\ \A u \in Thread : ~Complete(u)
         /\ \A u \in Thread : Arrived(u)' <=> u = t \/ Arrived(u)
         /\ \A u \in Thread : at'[u] = "out" <=> at[u] = "out"
         /\ \A u \in Thread : last'[u] = IF u = t THEN isLast ELSE last[u]
         /\ ~Arrived(t) /\ syncedThreads' = syncedThreads + 1
         /\ syncedThreads < NumThreads
         /\ IF syncedThreads' = NumThreads
            THEN \A u \in Thread : Arrived(u)' /\ Complete(u)' /\ at'[u] # "through"
            ELSE \A u \in Thread : ~Complete(u)'
<1>1. at[t] = "inside" /\ ~finishing /\ mutex = t
  BY DEF Arrive, SyncInv, NoLostWakeUp
<1>2. \A u \in Thread : at[u] \in {"out", "start", "finish_woken", "inside", "wait"}
  BY <1>1 DEF SyncInv, NoLostWakeUp
<1>3. PICK q \in {"leaving", "wait"}, woken \in {{}, {"wait"}} :
        /\ Move(t, q, woken)
        /\ q = "leaving" => woken = {"wait"} /\ mutex' = t /\ finishing' = TRUE
        /\ q = "wait" => woken = {} /\ mutex' = NoThread /\ finishing' = FALSE
        /\ q = "leaving" <=> syncedThreads' = NumThreads
  BY <1>1 DEF Arrive, SyncInv, SyncTypeOK
<1>4. /\ syncedThreads' = syncedThreads + 1
      /\ lastThreads' = lastThreads + One(isLast)
      /\ \A u \in Thread : last'[u] = IF u = t THEN isLast ELSE last[u]
      /\ last' \in [Thread -> BOOLEAN]
  BY DEF Arrive, SyncInv, SyncTypeOK
<1>5. /\ at' \in [Thread -> Position] /\ at'[t] = q
      /\ \A u \in Thread \ {t} :
            at'[u] = IF q = "leaving" /\ at[u] = "wait" THEN "wait_woken" ELSE at[u]
  <2>1. at \in [Thread -> Position] /\ q \in Position
    BY DEF SyncInv, SyncTypeOK, Position
  <2> QED  BY <1>2, <1>3, <2>1, MoveFacts
<1>6. /\ Synced = { u \in Thread : at[u] = "wait" }
      /\ Synced' = Synced \cup {t} /\ t \notin Synced
  BY <1>1, <1>2, <1>3, <1>5 DEF Synced, Waiting
<1>7. /\ syncedThreads = Cardinality(Synced) /\ syncedThreads' = Cardinality(Synced')
      /\ syncedThreads \in Nat /\ syncedThreads' \in 0 .. NumThreads
      /\ IsFiniteSet(Synced')
      /\ syncedThreads' = NumThreads => Synced' = Thread
  <2>1. syncedThreads = Cardinality(Synced) /\ syncedThreads \in Nat
    BY SyncedFacts DEF SyncInv, NoLostWakeUp
  <2>2. syncedThreads' = Cardinality(Synced') /\ IsFiniteSet(Synced')
    BY <1>4, <1>6, <2>1, SyncedFacts, FS_AddElement
  <2>3. Synced' \in SUBSET Thread
    BY DEF Synced
  <2>4. Cardinality(Synced') <= NumThreads /\ (NumThreads = Cardinality(Synced') => Thread = Synced')
    BY <2>3, NumThreadsFacts, FS_Subset DEF NumThreads
  <2> QED  BY <1>4, <2>1, <2>2, <2>4, NumThreadsFacts
<1>8. lastThreads' = Cardinality({ u \in Synced' : last'[u] }) /\ lastThreads' \in 0 .. NumThreads
  <2> DEFINE L == { u \in Synced : last[u] }
             M == { u \in Synced' : last'[u] }
  <2>1. lastThreads = Cardinality(L) /\ IsFiniteSet(L) /\ Cardinality(L) \in Nat
    BY SyncedFacts, LastFacts DEF SyncInv, NoLostWakeUp
  <2>2. M = IF isLast THEN L \cup {t} ELSE L
    BY <1>4, <1>6
  <2>3. t \notin L
    BY <1>6
  <2> HIDE DEF L, M
  <2>4. Cardinality(L \cup {t}) = Cardinality(L) + 1
    BY <2>1, <2>3, FS_AddElement
  <2>5. lastThreads' = Cardinality(M)
    BY <1>4, <2>1, <2>2, <2>4 DEF One
  <2>6. Cardinality(M) \in Nat /\ Cardinality(M) <= Cardinality(Synced')
    BY <1>7, LastFacts DEF M
  <2> QED  BY <1>7, <2>5, <2>6, NumThreadsFacts DEF M
<1>9. syncedThreads' = NumThreads => \A u \in Thread : at'[u] \in {"wait_woken", "leaving"}
  BY <1>3, <1>5, <1>6, <1>7
<1>10. SyncTypeOK'
  BY <1>3, <1>4, <1>5, <1>7, <1>8, SyncAssumption DEF SyncTypeOK
<1>11. NoLostWakeUp'
  <2>1. finishing' => \A u \in Thread : at'[u] \notin {"inside", "wait", "last"}
    BY <1>3, <1>9
  <2>2. ~finishing' => \A u \in Thread : at'[u] \in {"out", "start", "finish_woken", "inside", "wait"}
    BY <1>2, <1>3, <1>5
  <2> QED  BY <1>7, <1>8, <2>1, <2>2 DEF NoLostWakeUp
<1>12. ASSUME NEW u \in Thread
       PROVE  /\ mutex' = u <=> at'[u] \in {"inside", "leaving", "through"}
              /\ finishing' => at'[u] # "finish_woken"
              /\ at'[u] # "last_woken"
  <2>1. u # t => at[u] # "inside"
    BY <1>1 DEF SyncInv
  <2> QED  BY <1>1, <1>2, <1>3, <1>5, <1>9, <2>1, SyncAssumption
<1>13. SyncInv'
  BY <1>10, <1>11, <1>12 DEF SyncInv
<1>14. \A u \in Thread : ~Complete(u)
  BY <1>1, <1>2 DEF Complete
<1>15. \A u \in Thread : Arrived(u)' <=> u = t \/ Arrived(u)
  BY <1>2, <1>3, <1>5 DEF Arrived, Waiting
<1>16. \A u \in Thread : at'[u] = "out" <=> at[u] = "out"
  BY <1>1, <1>3, <1>5
<1>17. CASE syncedThreads' = NumThreads
  <2>1. \A u \in Thread : Arrived(u)' /\ Complete(u)' /\ at'[u] # "through"
    BY <1>3, <1>9, <1>17 DEF Arrived, Complete, Waiting
  <2> QED  BY <1>1, <1>4, <1>7, <1>13, <1>14, <1>15, <1>16, <1>17, <2>1, NumThreadsFacts DEF Arrived, Waiting
<1>18. CASE syncedThreads' # NumThreads
  <2>1. \A u \in Thread : ~Complete(u)'
    BY <1>2, <1>3, <1>5, <1>18 DEF Complete
  <2> QED  BY <1>1, <1>4, <1>7, <1>13, <1>14, <1>15, <1>16, <1>18, <2>1, NumThreadsFacts DEF Arrived, Waiting
<1> QED  BY <1>17, <1>18

(* A thread with the flag departs when the others have.                    *)
LEMMA DepartSync ==
  ASSUME SyncInv, NEW t \in Thread, Depart(t)
  PROVE  /\ SyncInv'
         /\ \A u \in Thread : Arrived(u)' <=> Arrived(u)
         /\ \A u \in Thread : Complete(u)' <=> Complete(u)
         /\ \A u \in Thread : at'[u] = "out" <=> at[u] = "out"
         /\ \A u \in Thread : u # t => (at'[u] = "through" <=> at[u] = "through")
         /\ last[t] => \A u \in Thread : Complete(u) => at[u] # "through" /\ last[u]
<1>1. /\ \/ at[t] = "leaving" /\ ~MustWait(t) /\ mutex = t
         \/ at[t] = "last_woken" /\ mutex = NoThread
      /\ mutex' = t
      /\ syncedThreads' = syncedThreads - 1
      /\ lastThreads' = lastThreads - One(last[t])
      /\ finishing' = (finishing /\ syncedThreads' # 0)
      /\ Move(t, "through", Woken(t))
      /\ last' = last
  BY DEF Depart, SyncInv
<1>2. /\ finishing = TRUE
      /\ \A u \in Thread : at[u] \notin {"inside", "wait", "finish_woken"}
      /\ \A u \in Thread \ {t} : at[u] \notin {"inside", "leaving", "through"}
  BY <1>1, SyncAssumption DEF SyncInv, SyncTypeOK, NoLostWakeUp
<1>3. /\ at' \in [Thread -> Position] /\ at'[t] = "through"
      /\ \A u \in Thread : u # t =>
            \/ at[u] = "last" /\ "last" \in Woken(t) /\ at'[u] = "last_woken"
            \/ at[u] = "finish" /\ "finish" \in Woken(t) /\ at'[u] = "finish_woken"
            \/ /\ ~(at[u] = "last" /\ "last" \in Woken(t))
               /\ ~(at[u] = "finish" /\ "finish" \in Woken(t))
               /\ at'[u] = at[u]
  <2>1. at \in [Thread -> Position] /\ "through" \in Position
    BY DEF SyncInv, SyncTypeOK, Position
  <2> HIDE DEF Woken
  <2> QED  BY <1>1, <1>2, <2>1, MoveFacts
<1>4. /\ "last" \in Woken(t) <=> syncedThreads' = lastThreads' /\ ~last[t]
      /\ "finish" \in Woken(t) <=> syncedThreads' = 0
  BY DEF Woken
<1> HIDE DEF Woken
<1>5. t \in Synced /\ Synced' = Synced \ {t}
  BY <1>1, <1>3 DEF Synced, Waiting
<1>6. /\ syncedThreads = Cardinality(Synced) /\ syncedThreads' = Cardinality(Synced')
      /\ syncedThreads' \in 0 .. NumThreads
      /\ IsFiniteSet(Synced')
      /\ syncedThreads' = 0 => Synced' = {}
  <2>1. syncedThreads = Cardinality(Synced) /\ syncedThreads \in 0 .. NumThreads
    BY SyncedFacts DEF SyncInv, NoLostWakeUp
  <2>2. IsFiniteSet(Synced') /\ Cardinality(Synced') = Cardinality(Synced) - 1
    BY <1>5, SyncedFacts, FS_RemoveElement
  <2>3. Cardinality(Synced') \in Nat /\ (Cardinality(Synced') = 0 => Synced' = {})
    BY <2>2, FS_CardinalityType, FS_EmptySet
  <2> QED  BY <1>1, <2>1, <2>2, <2>3, NumThreadsFacts
<1>7. /\ lastThreads' = Cardinality({ u \in Synced' : last'[u] })
      /\ lastThreads' \in 0 .. NumThreads
      /\ lastThreads' = syncedThreads' <=> \A u \in Synced' : last'[u]
  <2> DEFINE L == { u \in Synced : last[u] }
             M == { u \in Synced' : last'[u] }
  <2>1. lastThreads = Cardinality(L) /\ IsFiniteSet(L) /\ Cardinality(L) \in Nat
    BY SyncedFacts, LastFacts DEF SyncInv, NoLostWakeUp
  <2>2. M = IF last[t] THEN L \ {t} ELSE L
    BY <1>1, <1>5
  <2>3. t \in L <=> last[t]
    BY <1>5
  <2> HIDE DEF L, M
  <2>4. t \in L => Cardinality(L \ {t}) = Cardinality(L) - 1
    BY <2>1, FS_RemoveElement
  <2>5. lastThreads' = Cardinality(M)
    BY <1>1, <2>1, <2>2, <2>3, <2>4 DEF One
  <2>6. /\ Cardinality(M) \in Nat /\ Cardinality(M) <= Cardinality(Synced')
        /\ Cardinality(M) = Cardinality(Synced') <=> \A u \in Synced' : last'[u]
    BY <1>6, LastFacts DEF M
  <2> QED  BY <1>6, <2>5, <2>6, NumThreadsFacts DEF M
<1>8. SyncTypeOK'
  BY <1>1, <1>2, <1>3, <1>6, <1>7 DEF SyncInv, SyncTypeOK
<1>9. finishing' <=> syncedThreads' # 0
  BY <1>1, <1>2
<1>10. NoLostWakeUp'
  <2>1. \A u \in Thread : at'[u] \notin {"inside", "wait"}
    BY <1>2, <1>3
  <2>2. ASSUME ~finishing', NEW u \in Thread
        PROVE  at'[u] \in {"out", "start", "finish_woken", "inside", "wait", "through"}
    <3>1. syncedThreads' = 0 /\ at'[u] \notin Waiting
      BY <1>6, <1>9, <2>2 DEF Synced
    <3>2. at'[u] # "finish"
      BY <1>3, <1>4, <3>1
    <3> QED  BY <1>3, <3>1, <3>2 DEF Waiting, Position
  <2>3. ASSUME NEW u \in Thread, at'[u] = "last"
        PROVE  \E v \in Synced' : ~last'[v]
    <3>1. u # t /\ at[u] = "last" /\ "last" \notin Woken(t)
      BY <1>3, <2>3
    <3>2. PICK v \in Synced : ~last[v]
      BY <3>1 DEF SyncInv, NoLostWakeUp
    <3>3. CASE v = t
      BY <1>4, <1>7, <3>1, <3>2, <3>3
    <3>4. CASE v # t
      BY <1>1, <1>5, <3>2, <3>4
    <3> QED  BY <3>3, <3>4
  <2> QED  BY <1>6, <1>7, <2>1, <2>2, <2>3 DEF NoLostWakeUp
<1>11. ASSUME NEW u \in Thread
       PROVE  /\ mutex' = u <=> at'[u] \in {"inside", "leaving", "through"}
              /\ finishing' => at'[u] # "finish_woken"
              /\ at'[u] = "last_woken" => \A v \in Synced' : last'[v]
  <2>1. mutex' = u <=> at'[u] \in {"inside", "leaving", "through"}
    BY <1>1, <1>2, <1>3
  <2>2. finishing' => at'[u] # "finish_woken"
    BY <1>2, <1>3, <1>4, <1>9
  <2>3. ASSUME at'[u] = "last_woken"
        PROVE  \A v \in Synced' : last'[v]
    <3>1. CASE at[u] = "last_woken"
      BY <1>1, <1>5, <3>1 DEF SyncInv
    <3>2. CASE at[u] # "last_woken"
      BY <1>3, <1>4, <1>7, <2>3, <3>2
    <3> QED  BY <3>1, <3>2
  <2> QED  BY <2>1, <2>2, <2>3
<1>12. SyncInv'
  BY <1>8, <1>10, <1>11 DEF SyncInv
<1>13. \A u \in Thread : Arrived(u)' <=> Arrived(u)
  BY <1>1, <1>3 DEF Arrived, Waiting
<1>14. \A u \in Thread : Complete(u)' <=> Complete(u)
  <2> TAKE u \in Thread
  <2>1. CASE u = t
    BY <1>1, <1>2, <1>3, <2>1 DEF Complete, Waiting
  <2>2. CASE u # t
    <3>1. (at'[u] \in Waiting <=> at[u] \in Waiting) /\ at'[u] # "through" /\ at[u] # "through"
      BY <1>2, <1>3, <2>2 DEF Waiting
    <3>2. at'[u] \in Waiting => finishing'
      BY <1>6, <1>9 DEF Synced
    <3> QED  BY <1>2, <3>1, <3>2 DEF Complete
  <2> QED  BY <2>1, <2>2
<1>15. \A u \in Thread : at'[u] = "out" <=> at[u] = "out"
  BY <1>1, <1>3
<1>16. \A u \in Thread : u # t => (at'[u] = "through" <=> at[u] = "through")
  BY <1>3
<1>17. ASSUME last[t]
       PROVE  \A u \in Thread : Complete(u) => at[u] # "through" /\ last[u]
  <2>1. \A u \in Synced : last[u]
    <3>1. CASE at[t] = "last_woken"
      BY <3>1 DEF SyncInv
    <3>2. CASE ~MustWait(t)
      <4>1. /\ lastThreads = Cardinality({ u \in Synced : last[u] })
            /\ syncedThreads \in Nat /\ lastThreads \in Nat
        BY NumThreadsFacts DEF SyncInv, NoLostWakeUp, SyncTypeOK
      <4>2. syncedThreads <= lastThreads
        BY <1>17, <3>2, <4>1 DEF MustWait
      <4>3. Cardinality({ u \in Synced : last[u] }) <= Cardinality(Synced)
        BY SyncedFacts, LastFacts
      <4>4. Cardinality({ u \in Synced : last[u] }) = Cardinality(Synced)
        BY <1>6, <4>1, <4>2, <4>3
      <4> QED  BY <4>4, SyncedFacts, LastFacts
    <3> QED  BY <1>1, <3>1, <3>2
  <2> QED  BY <1>1, <1>2, <2>1 DEF Complete, Synced
<1> QED  BY <1>12, <1>13, <1>14, <1>15, <1>16, <1>17

(* What a thread does in the barrier between the steps of its caller.      *)
LEMMA SynchroniseSync ==
  ASSUME SyncInv, NEW t \in Thread, Synchronise(t)
  PROVE  /\ SyncInv'
         /\ UNCHANGED last
         /\ \A u \in Thread : Arrived(u)' <=> Arrived(u)
         /\ \A u \in Thread : Complete(u)' <=> Complete(u)
         /\ \A u \in Thread : at'[u] = "out" <=> at[u] = "out"
         /\ \A u \in Thread : at'[u] = "through" /\ at[u] # "through" /\ last[u] =>
               \A v \in Thread : Complete(v) => at[v] # "through" /\ last[v]
         /\ (\E u \in Thread : Complete(u)) \/ UNCHANGED syncedThreads
<1> DEFINE Goal == /\ SyncInv'
                   /\ UNCHANGED last
                   /\ \A u \in Thread : Arrived(u)' <=> Arrived(u)
                   /\ \A u \in Thread : Complete(u)' <=> Complete(u)
                   /\ \A u \in Thread : at'[u] = "out" <=> at[u] = "out"
                   /\ \A u \in Thread : at'[u] = "through" /\ at[u] # "through" /\ last[u] =>
                         \A v \in Thread : Complete(v) => at[v] # "through" /\ last[v]
                   /\ (\E u \in Thread : Complete(u)) \/ UNCHANGED syncedThreads
<1>1. ASSUME NEW q \in Position, SyncInv',
             \A u \in Thread : at'[u] = IF u = t THEN q ELSE at[u],
             UNCHANGED <<last, syncedThreads, finishing>>,
             q \in Waiting <=> at[t] \in Waiting,
             q \notin {"out", "through"}, at[t] \notin {"out", "through"}
      PROVE  Goal
  BY <1>1 DEF Arrived, Complete
<1> SUFFICES Goal  OBVIOUS
<1> HIDE DEF Goal
<1>2. ASSUME mutex \in {t, NoThread}, mutex' \in {t, NoThread}
      PROVE  /\ \A u \in Thread \ {t} : mutex' = u <=> mutex = u
             /\ mutex' \in Thread \cup {NoThread}
             /\ mutex' = t <=> mutex' # NoThread
  BY <1>2, SyncAssumption
<1>3. CASE Lock(t)
  <2>1. PICK q \in {"finish", "inside"} :
          /\ Move(t, q, {}) /\ at[t] = "start" /\ mutex = NoThread
          /\ q = "finish" => finishing /\ mutex' = NoThread
          /\ q = "inside" => ~finishing /\ mutex' = t
          /\ UNCHANGED <<last, syncedThreads, lastThreads, finishing>>
    BY <1>3 DEF Lock
  <2>2. /\ q \in Position /\ q \notin Waiting /\ at[t] \notin Waiting
        /\ q \notin {"out", "through", "last", "last_woken"}
        /\ finishing => q \notin {"inside", "wait", "finish_woken"}
        /\ ~finishing => q \in {"out", "start", "finish_woken", "inside", "wait", "through"}
    BY <2>1 DEF Waiting, Position
  <2>3. /\ mutex' = t <=> q \in {"inside", "leaving", "through"}
        /\ \A u \in Thread \ {t} : mutex' = u <=> mutex = u
        /\ mutex' \in Thread \cup {NoThread}
    BY <1>2, <2>1
  <2>4. SyncInv' /\ \A u \in Thread : at'[u] = IF u = t THEN q ELSE at[u]
    BY <2>1, <2>2, <2>3, PlainMove
  <2> QED  BY <1>1, <2>1, <2>2, <2>4
<1>4. CASE LockAgain(t)
  <2>1. /\ at[t] = "finish_woken" /\ mutex = NoThread /\ mutex' = t /\ Move(t, "inside", {})
        /\ UNCHANGED <<last, syncedThreads, lastThreads, finishing>>
        /\ ~finishing
    BY <1>4 DEF LockAgain, SyncInv
  <2>2. "inside" \in Position /\ "inside" \notin Waiting /\ at[t] \notin Waiting
    BY <2>1 DEF Waiting, Position
  <2>3. /\ \A u \in Thread \ {t} : mutex' = u <=> mutex = u
        /\ mutex' \in Thread \cup {NoThread}
    BY <1>2, <2>1
  <2>4. SyncInv' /\ \A u \in Thread : at'[u] = IF u = t THEN "inside" ELSE at[u]
    BY <2>1, <2>2, <2>3, PlainMove
  <2> QED  BY <1>1, <2>1, <2>2, <2>4
<1>5. CASE WakeUp(t)
  <2>1. /\ at[t] = "wait_woken" /\ mutex = NoThread /\ mutex' = t /\ Move(t, "leaving", {})
        /\ UNCHANGED <<last, syncedThreads, lastThreads, finishing>>
        /\ finishing
    BY <1>5 DEF WakeUp, SyncInv, NoLostWakeUp
  <2>2. "leaving" \in Position /\ "leaving" \in Waiting /\ at[t] \in Waiting
    BY <2>1 DEF Waiting, Position
  <2>3. /\ \A u \in Thread \ {t} : mutex' = u <=> mutex = u
        /\ mutex' \in Thread \cup {NoThread}
    BY <1>2, <2>1
  <2>4. SyncInv' /\ \A u \in Thread : at'[u] = IF u = t THEN "leaving" ELSE at[u]
    BY <2>1, <2>2, <2>3, PlainMove
  <2> QED  BY <1>1, <2>1, <2>2, <2>4
<1>6. CASE WaitForOthers(t)
  <2>1. /\ at[t] = "leaving" /\ mutex = t /\ mutex' = NoThread /\ Move(t, "last", {})
        /\ UNCHANGED <<last, syncedThreads, lastThreads, finishing>>
        /\ finishing /\ syncedThreads > lastThreads
    BY <1>6 DEF WaitForOthers, MustWait, SyncInv, NoLostWakeUp
  <2>2. "last" \in Position /\ "last" \in Waiting /\ at[t] \in Waiting
    BY <2>1 DEF Waiting, Position
  <2>3. /\ \A u \in Thread \ {t} : mutex' = u <=> mutex = u
        /\ mutex' \in Thread \cup {NoThread} /\ mutex' # t
    BY <1>2, <2>1, SyncAssumption
  <2>4. SyncInv' /\ \A u \in Thread : at'[u] = IF u = t THEN "last" ELSE at[u]
    BY <2>1, <2>2, <2>3, PlainMove
  <2> QED  BY <1>1, <2>1, <2>2, <2>4
<1>7. CASE Depart(t)
  <2>1. Complete(t)
    BY <1>7 DEF Depart, Complete, Waiting, SyncInv, NoLostWakeUp
  <2> QED  BY <1>7, <2>1, DepartSync DEF Goal, Depart
<1> QED  BY <1>3, <1>4, <1>5, <1>6, <1>7 DEF Synchronise

-----------------------------------------------------------------------------
(* The files and types of the application.                                 *)
LEMMA SetupFacts ==
  ASSUME setup \in Setup
  PROVE  /\ setup.kind \in {"basic", "array", "struct"}
         /\ ElementSize \in {1, 4, 8}
         /\ NumLevels \in Nat \ {0}
         /\ setup.passThrough \in BOOLEAN
         /\ \A l : <<l, 0>> \notin setup.failing
         /\ \A k \in 1 .. NumLevels :
               /\ setup.order[k] \in LevelId
               /\ setup.order[k] \in Nat /\ setup.order[k] < NumLevels
               /\ setup.variable[setup.order[k]].varSize \in Nat \ {0}
               /\ ReaderOpen(setup.variable[setup.order[k]]) \in
                     {"NOT_OPEN", "VAR_NOT_FOUND", "UNSUPPORTED_DIMENSIONS", "SUCCESS"}
<1>1. /\ setup.kind \in {"basic", "array", "struct"}
      /\ setup.members \in Seq(Member) \ {<< >>}
      /\ setup.variable \in [LevelId -> Variable]
      /\ setup.order \in [1 .. NumLevels -> LevelId]
      /\ NumLevels \in Nat \ {0}
      /\ setup.passThrough \in BOOLEAN
      /\ setup.failing \subseteq LevelId \X (Nat \ {0})
  BY GridOpenAssumption
<1>2. setup.members[1] \in Member
  BY <1>1
<1>3. ElementSize \in {1, 4, 8}
  <2>1. setup.members[1].type \in {"BYTE", "INT", "LONG", "FLOAT", "DOUBLE"}
    BY <1>2 DEF Member, BasicType, SizeOf
  <2> QED  BY <2>1 DEF ElementSize, SizeOf
<1>4. ASSUME NEW k \in 1 .. NumLevels
      PROVE  /\ setup.order[k] \in LevelId
             /\ setup.order[k] \in Nat /\ setup.order[k] < NumLevels
             /\ setup.variable[setup.order[k]].varSize \in Nat \ {0}
             /\ ReaderOpen(setup.variable[setup.order[k]]) \in
                   {"NOT_OPEN", "VAR_NOT_FOUND", "UNSUPPORTED_DIMENSIONS", "SUCCESS"}
  <2>1. setup.order[k] \in LevelId
    BY <1>1
  <2>2. setup.variable[setup.order[k]] \in Variable
    BY <1>1, <2>1
  <2>3. setup.order[k] \in Nat /\ setup.order[k] < NumLevels
    BY <1>1, <2>1 DEF LevelId
  <2>4. setup.variable[setup.order[k]].varSize \in Nat \ {0}
    BY <2>2 DEF Variable
  <2> QED  BY <2>1, <2>3, <2>4 DEF ReaderOpen, Success
<1>5. \A l : <<l, 0>> \notin setup.failing
  BY <1>1
<1> QED  BY <1>1, <1>3, <1>4, <1>5

(* A value is a whole number of elements if division leaves nothing.       *)
LEMMA WholeElements ==
  ASSUME NEW size \in Nat \ {0}, NEW e \in {1, 4, 8}
  PROVE  /\ (\E n \in 1 .. size : size = n * e) <=> size % e = 0
         /\ size % e = 0 => (size \div e) * e = size
<1>1. CASE e = 1
  BY <1>1
<1>2. CASE e = 4
  <2>1. size % 4 = 0 => (size \div 4) \in 1 .. size /\ size = (size \div 4) * 4
    OBVIOUS
  <2>2. \A n \in 1 .. size : size = n * 4 => size % 4 = 0
    OBVIOUS
  <2> QED  BY <1>2, <2>1, <2>2
<1>3. CASE e = 8
  <2>1. size % 8 = 0 => (size \div 8) \in 1 .. size /\ size = (size \div 8) * 8
    OBVIOUS
  <2>2. \A n \in 1 .. size : size = n * 8 => size % 8 = 0
    OBVIOUS
  <2> QED  BY <1>3, <2>1, <2>2
<1> QED  BY <1>1, <1>2, <1>3

FileOf(k) == setup.variable[setup.order[k]]

LEMMA FitsFacts ==
  ASSUME setup \in Setup, NEW k \in 1 .. NumLevels
  PROVE  /\ Fits(FileOf(k)) <=>
               /\ ReaderOpen(FileOf(k)) = Success
               /\ setup.kind = "array" => FileOf(k).varSize % ElementSize = 0
         /\ Fits(FileOf(k)) /\ setup.kind # "basic" => Extent(FileOf(k).varSize) = FileOf(k).varSize
<1>1. /\ setup.kind \in {"basic", "array", "struct"} /\ ElementSize \in {1, 4, 8}
      /\ FileOf(k).varSize \in Nat \ {0}
  BY SetupFacts DEF FileOf
<1>2. /\ (\E n \in 1 .. FileOf(k).varSize : FileOf(k).varSize = n * ElementSize)
            <=> FileOf(k).varSize % ElementSize = 0
      /\ FileOf(k).varSize % ElementSize = 0
            => (FileOf(k).varSize \div ElementSize) * ElementSize = FileOf(k).varSize
  BY <1>1, WholeElements
<1> HIDE DEF FileOf
<1>3. Fits(FileOf(k)) <=>
               /\ ReaderOpen(FileOf(k)) = Success
               /\ setup.kind = "array" => FileOf(k).varSize % ElementSize = 0
  BY <1>2 DEF Fits
<1>4. ASSUME Fits(FileOf(k)), setup.kind # "basic"
      PROVE  Extent(FileOf(k).varSize) = FileOf(k).varSize
  BY <1>1, <1>2, <1>3, <1>4 DEF Extent
<1> QED  BY <1>3, <1>4

(* At most one level is the first that fits, and there is one if any fits. *)
LEMMA FirstFitFacts ==
  ASSUME setup \in Setup
  PROVE  /\ \A i, j \in 1 .. NumLevels : FirstFit(i) /\ FirstFit(j) => i = j
         /\ \A j \in 1 .. NumLevels : Fits(FileOf(j)) =>
               \E i \in 1 .. NumLevels : FirstFit(i) /\ i <= j
<1>1. NumLevels \in Nat
  BY SetupFacts
<1>2. ASSUME NEW i \in 1 .. NumLevels, NEW j \in 1 .. NumLevels, FirstFit(i), FirstFit(j)
      PROVE  i = j
  <2>1. ~(i < j) /\ ~(j < i)
    BY <1>1, <1>2 DEF FirstFit
  <2> QED  BY <1>1, <2>1
<1>3. ASSUME NEW j \in 1 .. NumLevels, Fits(FileOf(j))
      PROVE  \E i \in 1 .. NumLevels : FirstFit(i) /\ i <= j
  <2> DEFINE F == { i \in 1 .. NumLevels : Fits(FileOf(i)) }
  <2>1. F \in SUBSET Nat /\ j \in F
    BY <1>3
  <2>2. PICK i \in F : \A n \in F : ~ (<<n, i>> \in OpToRel(<, Nat))
    BY <2>1, NatLessThanWellFounded, WFMin
  <2>3. \A n \in F : i <= n
    <3> HIDE DEF F
    <3>1. \A n \in F : ~ (n < i)
      BY <2>1, <2>2 DEF OpToRel
    <3> QED  BY <2>1, <3>1
  <2>4. FirstFit(i) /\ i <= j
    BY <1>1, <2>1, <2>3 DEF FirstFit, FileOf
  <2> QED  BY <2>4
<1> QED  BY <1>2, <1>3

(* What open() owes depends on the application and its files only.         *)
LEMMA OwedKept ==
  ASSUME setup' = setup
  PROVE  /\ \A k \in 1 .. NumLevels : Owed(k)' = Owed(k)
         /\ \A k \in 1 .. NumLevels : FirstFit(k)' <=> FirstFit(k)
<1>1. \A k \in 1 .. NumLevels : FirstFit(k)' <=> FirstFit(k)
  BY DEF FirstFit, Fits, ElementSize
<1>2. \A k \in 1 .. NumLevels : Owed(k)' = Owed(k)
  BY DEF Owed, Fits, ElementSize
<1> QED  BY <1>1, <1>2

(* ... and is one of the errors, or success.                               *)
LEMMA OwedFacts ==
  ASSUME setup \in Setup, NEW k \in 1 .. NumLevels
  PROVE  /\ Owed(k) \in Error
         /\ ReaderOpen(FileOf(k)) # Success => Owed(k) = ReaderOpen(FileOf(k))
         /\ ReaderOpen(FileOf(k)) = Success /\ ~Fits(FileOf(k)) => Owed(k) = "INVALID_VAR_SIZE"
         /\ Fits(FileOf(k)) =>
               Owed(k) = IF setup.kind # "basic" /\ \E i \in 1 .. k - 1 :
                               FirstFit(i) /\ FileOf(i).varSize # FileOf(k).varSize
                         THEN "WRONG_SIZE" ELSE Success
<1>1. ReaderOpen(FileOf(k)) \in {"NOT_OPEN", "VAR_NOT_FOUND", "UNSUPPORTED_DIMENSIONS", "SUCCESS"}
  BY SetupFacts DEF FileOf
<1>2. Fits(FileOf(k)) => ReaderOpen(FileOf(k)) = Success
  BY DEF Fits
<1>3. Owed(k) =
        IF ReaderOpen(FileOf(k)) # Success THEN ReaderOpen(FileOf(k))
        ELSE IF ~Fits(FileOf(k)) THEN "INVALID_VAR_SIZE"
        ELSE IF setup.kind # "basic" /\ \E i \in 1 .. k - 1 :
                    FirstFit(i) /\ FileOf(i).varSize # FileOf(k).varSize
             THEN "WRONG_SIZE" ELSE Success
  BY DEF Owed, FirstFit, FileOf
<1> QED  BY <1>1, <1>2, <1>3 DEF Error, Success

-----------------------------------------------------------------------------
(* What the invariant says of a thread by its place in open.               *)
LEMMA PlaceFacts ==
  ASSUME Inv, NEW t \in Thread
  PROVE  /\ pc[t] \in PC /\ calls[t] \in 0 .. NumLevels /\ NumLevels \in Nat \ {0}
         /\ pc[t] # "idle" => calls[t] \in 1 .. NumLevels
         /\ pc[t] \notin {"idle", "register"} => t \in Registered
         /\ t \in Registered => initialized = TRUE /\ HasId(t)
         /\ Complete(t) => Arrived(t) /\ initialized = TRUE
         /\ Arrived(t) => pc[t] \in {"register", "report"}
         /\ pc[t] \in MasterPC => Completed(t) = calls[t] /\ Master(t)
         /\ pc[t] = "idle" => Completed(t) = IF calls[t] = 0 THEN 0 ELSE calls[t] + 1
         /\ pc[t] = "other" => Completed(t) = calls[t]
         /\ pc[t] = "report" => Completed(t) = IF Complete(t) THEN calls[t] + 1 ELSE calls[t]
         /\ pc[t] = "register" => calls[t] = 1 /\ Completed(t) = IF Complete(t) THEN 1 ELSE 0
<1>1. pc[t] \in PC /\ calls[t] \in 0 .. NumLevels /\ NumLevels \in Nat \ {0}
  BY GridOpenAssumption DEF Inv, TypeOK
<1>2. /\ at[t] = "out" <=> pc[t] \notin {"register", "report"}
      /\ pc[t] # "idle" => calls[t] > 0
      /\ pc[t] = "register" => calls[t] = 1
      /\ pc[t] \in MasterPC => Master(t)
  BY DEF Inv, CallsBegun
<1>3. /\ HasId(t) <=> t \in Registered \/ (pc[t] = "register" /\ Arrived(t))
      /\ initialized \in BOOLEAN
      /\ ~initialized => ~Complete(t) /\ (pc[t] = "register" \/ calls[t] = 0)
  BY DEF Inv, IdsGiven, TypeOK
<1>4. Complete(t) => Arrived(t)
  BY DEF Complete, Arrived
<1>5. Arrived(t) => at[t] # "out"
  BY DEF Arrived, Waiting
<1>6. t \in Registered <=> pc[t] # "register" /\ calls[t] > 0
  BY DEF Registered
<1>7. /\ Completed(t) = calls[t] + One((pc[t] = "idle" /\ calls[t] > 0) \/ (pc[t] = "report" /\ Complete(t)))
                                 - One(pc[t] = "register" /\ ~Complete(t))
  BY DEF Completed
<1> HIDE DEF HasId, Registered, Complete, Arrived, Completed, Master
<1>8. /\ pc[t] \in MasterPC => Completed(t) = calls[t]
      /\ pc[t] = "idle" => Completed(t) = IF calls[t] = 0 THEN 0 ELSE calls[t] + 1
      /\ pc[t] = "other" => Completed(t) = calls[t]
      /\ pc[t] = "report" => Completed(t) = IF Complete(t) THEN calls[t] + 1 ELSE calls[t]
      /\ pc[t] = "register" => Completed(t) = IF Complete(t) THEN 1 ELSE 0
  BY <1>1, <1>2, <1>7 DEF One, MasterPC
<1> QED  BY <1>1, <1>2, <1>3, <1>4, <1>5, <1>6, <1>8

(* The root, the thread with id 0, is there and is a master.               *)
LEMMA RootFacts ==
  ASSUME Inv, initialized
  PROVE  \E r \in Thread : threadId[r] = 0 /\ Master(r)
<1>1. 0 \in 0 .. NumThreads - 1
  BY NumThreadsFacts
<1>2. PICK r \in Thread : threadId[r] = 0
  BY <1>1 DEF Inv, IdsGiven
<1>3. Master(r)
  BY <1>2 DEF Inv, DomainsOwned
<1> QED  BY <1>2, <1>3

(* ... whose domain does not fail alone.                                   *)
LEMMA RootDoesNotFail ==
  ASSUME Inv, NEW r \in Thread, threadId[r] = 0
  PROVE  Master(r) /\ ~FailsAlone(r) /\ \A k : OwnResult(r, k) = Owed(k)
<1>1. Master(r) /\ domainId[r] = 0 /\ setup \in Setup
  BY DEF Inv, DomainsOwned, TypeOK
<1>2. ~FailsAlone(r)
  BY <1>1, SetupFacts DEF FailsAlone
<1> QED  BY <1>1, <1>2 DEF OwnResult

(* Whether a domain fails alone depends on the thread's call only.         *)
LEMMA FailsKept ==
  ASSUME UNCHANGED <<setup, domainId>>, NEW u \in Thread, calls'[u] = calls[u]
  PROVE  Level(u)' = Level(u) /\ (FailsAlone(u)' <=> FailsAlone(u))
BY DEF Level, FailsAlone

(* A step that makes no room for levels.                                   *)
LEMMA GrownKept ==
  ASSUME Inv, UNCHANGED <<setup, levels>>,
         \A u \in Thread : Master(u)' <=> Master(u),
         \A u \in Thread, i \in 1 .. NumLevels : Master(u) => (Grown(u, i)' <=> Grown(u, i))
  PROVE  LevelsGrown'
BY DEF Inv, LevelsGrown

(* A step in which the root does not come back from open with success.     *)
LEMMA TogetherKept ==
  ASSUME Inv, UNCHANGED <<setup, threadId, domainId>>,
         \A u \in Thread : Master(u)' <=> Master(u),
         \A u \in Thread, k \in 1 .. NumLevels :
             threadId[u] = 0 /\ BackFrom(u, k)' /\ Owed(k) = Success => BackFrom(u, k)
  PROVE  LoadedTogether'
<1>1. \A k \in 1 .. NumLevels : Owed(k)' = Owed(k)
  BY OwedKept
<1> QED  BY <1>1 DEF Inv, LoadedTogether

(* The steps of the masters between registerThread and the broadcast.      *)
MasterStep(t, q) ==
  /\ pc[t] \in MasterPC /\ q \in MasterPC \cup {"other"}
  /\ pc' = [pc EXCEPT ![t] = q]
  /\ UNCHANGED <<syncVars, setup, numaVars, calls, data>>

MasterStepResult(t, q) ==
  /\ SyncInv' /\ CallsBegun' /\ LastIsRoot' /\ IdsGiven' /\ DomainsOwned' /\ RoundsEqual'
  /\ RootOffers' /\ RootStays'
  /\ \A u \in Thread : pc'[u] = IF u = t THEN q ELSE pc[u]
  /\ \A u \in Thread : Completed(u)' = Completed(u)
  /\ \A u \in Thread : Master(u)' <=> Master(u)
  /\ \A u \in Thread : Complete(u)' <=> Complete(u)
  /\ \A u \in Thread : Level(u)' = Level(u) /\ (FailsAlone(u)' <=> FailsAlone(u))

LEMMA MasterStepKeeps ==
  ASSUME Inv, NEW t \in Thread, NEW q, MasterStep(t, q)
  PROVE  MasterStepResult(t, q)
<1>1. /\ \A u \in Thread : pc'[u] = IF u = t THEN q ELSE pc[u]
      /\ q \notin {"idle", "register", "report"} /\ pc[t] \notin {"idle", "register", "report"}
      /\ calls[t] > 0 /\ Master(t)
  BY DEF MasterStep, Inv, TypeOK, CallsBegun, MasterPC
<1>2. /\ UNCHANGED <<mutex, at, last, syncedThreads, lastThreads, finishing>>
      /\ UNCHANGED <<setup, initialized, domains, masterThreads, threadId, domainId, calls, data>>
  BY DEF MasterStep, syncVars, numaVars
<1>3. SyncInv'
  BY <1>2 DEF Inv, SyncInv, SyncTypeOK, NoLostWakeUp, Synced
<1>4. /\ \A u \in Thread : Complete(u)' <=> Complete(u)
      /\ \A u \in Thread : Arrived(u)' <=> Arrived(u)
      /\ \A u \in Thread : Master(u)' <=> Master(u)
      /\ \A u \in Thread : HasId(u)' <=> HasId(u)
  BY <1>2 DEF Complete, Arrived, Master, HasId
<1>5. Registered' = Registered
  BY <1>1, <1>2 DEF Registered
<1>6. CallsBegun'
  BY <1>1, <1>2, <1>4 DEF Inv, CallsBegun
<1>7. LastIsRoot'
  BY <1>1, <1>2, <1>4 DEF Inv, LastIsRoot
<1>8. IdsGiven'
  BY <1>1, <1>2, <1>4, <1>5 DEF Inv, IdsGiven
<1>9. DomainsOwned'
  BY <1>2, <1>4 DEF Inv, DomainsOwned, HasId, TotalDomains
<1>10. \A u \in Thread : Completed(u)' = Completed(u)
  BY <1>1, <1>2, <1>4 DEF Completed
<1>11. RoundsEqual'
  BY <1>10 DEF Inv, RoundsEqual
<1>12. RootOffers'
  BY <1>1, <1>2, <1>4 DEF Inv, RootOffers
<1>13. RootStays'
  BY <1>1, <1>2, <1>4 DEF Inv, RootStays
<1>14. \A u \in Thread : Level(u)' = Level(u) /\ (FailsAlone(u)' <=> FailsAlone(u))
  BY <1>2, FailsKept
<1> QED  BY <1>1, <1>3, <1>4, <1>6, <1>7, <1>8, <1>9, <1>10, <1>11, <1>12, <1>13, <1>14
         DEF MasterStepResult

LEMMA MasterStepGrown ==
  ASSUME Inv, NEW t \in Thread, NEW q, MasterStep(t, q), UNCHANGED levels,
         pc[t] \in {"once", "create"} <=> q \in {"create", "comm"}, pc[t] # "comm", q # "once"
  PROVE  LevelsGrown'
<1>1. MasterStepResult(t, q) /\ UNCHANGED <<setup, calls>> /\ pc[t] \in MasterPC
      /\ q \in MasterPC \cup {"other"}
  BY MasterStepKeeps DEF MasterStep
<1>2. \A u \in Thread : Master(u)' <=> Master(u)
  BY <1>1 DEF MasterStepResult
<1>3. ASSUME NEW u \in Thread, NEW i \in 1 .. NumLevels
      PROVE  Grown(u, i)' <=> Grown(u, i)
  <2>1. CASE u = t
    <3>1. pc'[u] = q /\ calls' = calls
      BY <1>1, <2>1 DEF MasterStepResult
    <3> QED  BY <1>1, <2>1, <3>1 DEF Grown, MasterPC
  <2>2. CASE u # t
    <3>1. pc'[u] = pc[u] /\ calls' = calls
      BY <1>1, <2>2 DEF MasterStepResult
    <3> QED  BY <3>1 DEF Grown
  <2> QED  BY <2>1, <2>2
<1> QED  BY <1>1, <1>2, <1>3, GrownKept

LEMMA MasterStepTogether ==
  ASSUME Inv, NEW t \in Thread, NEW q, MasterStep(t, q),
         q = "other" => Owed(calls[t]) # Success \/ threadId[t] # 0
  PROVE  LoadedTogether'
<1>1. MasterStepResult(t, q) /\ UNCHANGED <<setup, threadId, domainId, calls>>
      /\ q \in MasterPC \cup {"other"}
  BY MasterStepKeeps DEF MasterStep, numaVars
<1>2. \A u \in Thread : Master(u)' <=> Master(u)
  BY <1>1 DEF MasterStepResult
<1>3. ASSUME NEW u \in Thread, NEW k \in 1 .. NumLevels,
             threadId[u] = 0, BackFrom(u, k)', Owed(k) = Success
      PROVE  BackFrom(u, k)
  <2>1. CASE u = t
    <3>1. pc'[u] = q /\ calls' = calls
      BY <1>1, <2>1 DEF MasterStepResult
    <3> QED  BY <1>1, <1>3, <2>1, <3>1 DEF BackFrom, MasterPC
  <2>2. CASE u # t
    <3>1. pc'[u] = pc[u] /\ calls' = calls
      BY <1>1, <2>2 DEF MasterStepResult
    <3> QED  BY <1>3, <3>1 DEF BackFrom
  <2> QED  BY <2>1, <2>2
<1> QED  BY <1>1, <1>2, <1>3, TogetherKept

(* What else such a step must do to keep the rest of the invariant.        *)
LEMMA ContainersKept ==
  ASSUME Inv, NEW t \in Thread, NEW q, MasterStep(t, q),
         UNCHANGED <<once, containers>>,
         q \notin {"once", "create"} => once \/ pc[t] \notin {"once", "create"}
  PROVE  ContainersReady'
<1>1. /\ MasterStepResult(t, q) /\ UNCHANGED <<initialized, domains, calls>>
      /\ pc[t] \in MasterPC /\ Master(t) /\ calls[t] > 0
  BY MasterStepKeeps DEF MasterStep, numaVars, Inv, CallsBegun, MasterPC
<1>2. (once => initialized /\ containers = TotalDomains)'
  BY <1>1 DEF Inv, ContainersReady, TotalDomains
<1>3. ASSUME NEW u \in Thread, Master(u), calls[u] > 0,
             calls[u] = 1 => pc'[u] \notin {"register", "once", "create"}
      PROVE  once
  <2>1. CASE u = t
    BY <1>1, <1>3, <2>1 DEF Inv, ContainersReady, MasterPC, MasterStepResult
  <2>2. CASE u # t
    BY <1>1, <1>3, <2>2 DEF Inv, ContainersReady, MasterStepResult
  <2> QED  BY <2>1, <2>2
<1> QED  BY <1>1, <1>2, <1>3 DEF ContainersReady, MasterStepResult

LEMMA ResultsKept ==
  ASSUME Inv, NEW t \in Thread, NEW q, MasterStep(t, q),
         \A u \in Thread : u # t => err'[u] = err[u],
         q \in MasterPC => err'[t] = Success,
         q \in {"commit", "allocate", "load"} => Owed(calls[t]) = Success /\ ~FailsAlone(t),
         q = "allocate" => ~setup.passThrough,
         q = "other" => err'[t] = OwnResult(t, calls[t])
  PROVE  Results'
<1>1. /\ MasterStepResult(t, q) /\ UNCHANGED <<setup, calls>>
      /\ pc[t] \in MasterPC /\ Master(t) /\ calls[t] > 0 /\ q \in MasterPC \cup {"other"}
  BY MasterStepKeeps DEF MasterStep, Inv, CallsBegun, MasterPC
<1>2. \A k \in 1 .. NumLevels : Owed(k)' = Owed(k)
  BY <1>1, OwedKept
<1>3. ASSUME NEW u \in Thread, NEW k \in 1 .. NumLevels, calls'[u] = k
      PROVE  /\ pc'[u] \in MasterPC \cup {"register"} => err'[u] = Success
             /\ pc'[u] \in {"commit", "allocate", "load"} => Owed(k)' = Success /\ ~FailsAlone(u)'
             /\ pc'[u] = "allocate" => ~setup'.passThrough
             /\ pc'[u] \in {"other", "report"} => err'[u] = OwnResult(u, k)'
             /\ pc'[u] = "idle" => err'[u] = Owed(k)'
  <2>1. OwnResult(u, k)' = OwnResult(u, k) /\ Owed(k)' = Owed(k)
        /\ (FailsAlone(u)' <=> FailsAlone(u)) /\ calls[u] = k
    <3>1. (Master(u)' <=> Master(u)) /\ (FailsAlone(u)' <=> FailsAlone(u)) /\ Owed(k)' = Owed(k)
      BY <1>1, <1>2 DEF MasterStepResult
    <3> QED  BY <1>1, <1>3, <3>1 DEF OwnResult
  <2>2. CASE u = t
    <3>1. k = calls[t] /\ pc'[u] = q
      BY <1>1, <1>3, <2>2 DEF MasterStepResult
    <3> QED  BY <1>1, <2>1, <2>2, <3>1 DEF MasterPC
  <2>3. CASE u # t
    <3>1. pc'[u] = pc[u] /\ err'[u] = err[u]
      BY <1>1, <1>3, <2>3 DEF MasterStepResult
    <3> QED  BY <1>1, <2>1, <3>1 DEF Inv, Results
  <2> QED  BY <2>2, <2>3
<1> QED  BY <1>3 DEF Results

LEMMA SizeKept ==
  ASSUME Inv, NEW t \in Thread, NEW q, MasterStep(t, q),
         UNCHANGED <<typeSize, mpiExtent>>,
         pc[t] # "commit" /\ q # "commit",
         q \in {"allocate", "load", "other"} =>
             \/ pc[t] \in {"allocate", "load", "other"}
             \/ typeSize # 0
             \/ ~FirstFit(calls[t])
             \/ q = "other" /\ FailsAlone(t),
         q = "other" /\ pc[t] \in {"allocate", "load"} => ~FailsAlone(t)
  PROVE  SizeKnown'
<1>1. /\ MasterStepResult(t, q) /\ UNCHANGED <<setup, calls>>
      /\ pc[t] \in MasterPC /\ Master(t) /\ q \in MasterPC \cup {"other"}
  BY MasterStepKeeps DEF MasterStep, Inv, CallsBegun
<1>2. \A k \in 1 .. NumLevels : FirstFit(k)' <=> FirstFit(k)
  BY <1>1, OwedKept
<1>3. (setup.kind = "basic" => typeSize = ElementSize)'
  BY <1>1 DEF Inv, SizeKnown, ElementSize
<1>4. ASSUME setup.kind # "basic", typeSize # 0
      PROVE  \E i \in 1 .. NumLevels :
                /\ FirstFit(i)' /\ typeSize = setup.variable[setup.order[i]].varSize
                /\ \A u \in Thread : i <= Completed(u)'
  <2>1. PICK i \in 1 .. NumLevels :
          /\ FirstFit(i) /\ typeSize = setup.variable[setup.order[i]].varSize
          /\ \A u \in Thread : i <= Completed(u)
    BY <1>4 DEF Inv, SizeKnown
  <2> QED  BY <1>1, <1>2, <2>1 DEF MasterStepResult
<1>5. ASSUME NEW u \in Thread, NEW i \in 1 .. NumLevels, Master(u)', FirstFit(i)', Checked(u, i)'
      PROVE  typeSize # 0
  <2>1. Master(u) /\ FirstFit(i)
    BY <1>1, <1>2, <1>5 DEF MasterStepResult
  <2>2. CASE Checked(u, i)
    BY <2>1, <2>2 DEF Inv, SizeKnown
  <2>3. CASE ~Checked(u, i)
    <3>1. u = t /\ i = calls[t] /\ q \in {"allocate", "load", "other"}
          /\ (q = "other" => ~FailsAlone(t))
          /\ pc[t] \notin {"allocate", "load", "other"}
      BY <1>1, <1>5, <2>3 DEF Checked, MasterStepResult, MasterPC
    <3> QED  BY <2>1, <3>1
  <2> QED  BY <2>2, <2>3
<1>6. ASSUME mpiExtent # typeSize
      PROVE  \E u \in Thread : pc'[u] = "commit"
  <2>1. PICK u \in Thread : pc[u] = "commit"
    BY <1>6 DEF Inv, SizeKnown
  <2> QED  BY <1>1, <2>1 DEF MasterStepResult
<1>7. \A u \in Thread : pc'[u] = "commit" => setup.kind # "basic" /\ typeSize # 0
  BY <1>1 DEF Inv, SizeKnown, MasterStepResult
<1> QED  BY <1>1, <1>3, <1>4, <1>5, <1>6, <1>7 DEF SizeKnown

LEMMA JoinedKept ==
  ASSUME Inv, NEW t \in Thread, NEW q, MasterStep(t, q),
         NEW more \in {0, 1},
         \A u \in Thread : u # t => joined'[u] = joined[u] /\ err'[u] = err[u],
         joined'[t] = joined[t] + more,
         JoinedNow(t)' = JoinedNow(t) + more,
         joined'[t] <= 2 * calls[t],
         q \in {"once", "create", "comm"} => joined'[t] <= 2 * calls[t] - 2,
         q \in {"check", "commit", "allocate"} => joined'[t] <= 2 * calls[t] - 1
  PROVE  JoinedEqually'
<1>1. /\ MasterStepResult(t, q) /\ UNCHANGED <<setup, calls>>
      /\ Master(t) /\ q \in MasterPC \cup {"other"} /\ q # "register"
  BY MasterStepKeeps DEF MasterStep, Inv, CallsBegun, MasterPC
<1>2. /\ \A u \in Thread : joined[u] \in Nat /\ JoinedNow(u) \in 0 .. 2
      /\ \A u \in Thread : calls[u] \in Nat
  <2>1. NumLevels \in Nat /\ 2 * NumLevels \in Nat
    BY GridOpenAssumption
  <2>2. /\ \A u \in Thread : joined[u] \in 0 .. 2 * NumLevels
        /\ \A u \in Thread : calls[u] \in 0 .. NumLevels
    BY DEF Inv, TypeOK
  <2>3. \A u \in Thread : JoinedNow(u) \in 0 .. 2
    BY DEF JoinedNow, One
  <2> QED  BY <2>1, <2>2, <2>3
<1>3. \A u \in Thread : u # t => JoinedNow(u)' = JoinedNow(u)
  BY <1>1 DEF JoinedNow, MasterStepResult, Grows
<1>4. \A u \in Thread : joined'[u] - JoinedNow(u)' = joined[u] - JoinedNow(u)
  <2> HIDE DEF JoinedNow
  <2> QED  BY <1>2, <1>3
<1>5. ASSUME NEW u \in Thread, NEW v \in Thread, Master(u)', Master(v)'
      PROVE  joined'[u] - JoinedNow(u)' = joined'[v] - JoinedNow(v)'
  <2> HIDE DEF JoinedNow
  <2>1. Master(u) /\ Master(v)
    BY <1>1, <1>5 DEF MasterStepResult
  <2> QED  BY <1>4, <2>1 DEF Inv, JoinedEqually
<1>6. ASSUME NEW u \in Thread
      PROVE  /\ joined'[u] <= 2 * calls'[u]
             /\ pc'[u] \in {"register", "once", "create", "comm"} => joined'[u] <= 2 * calls'[u] - 2
             /\ pc'[u] \in {"check", "commit", "allocate"} => joined'[u] <= 2 * calls'[u] - 1
  BY <1>1, <1>6 DEF Inv, JoinedEqually, MasterStepResult
<1> QED  BY <1>5, <1>6 DEF JoinedEqually

LEMMA LoadedKept ==
  ASSUME Inv, NEW t \in Thread, NEW q, MasterStep(t, q),
         \A u \in Thread : u # t => usable'[u] = usable[u] /\ err'[u] = err[u],
         q = "other" /\ err'[t] = Success /\ ~FailsAlone(t) => Level(t) \in usable'[t]
  PROVE  LevelsLoaded'
<1>1. /\ MasterStepResult(t, q) /\ UNCHANGED <<setup, calls>> /\ q \in MasterPC \cup {"other"}
  BY MasterStepKeeps DEF MasterStep
<1>2. \A u \in Thread : Level(u)' = Level(u) /\ (FailsAlone(u)' <=> FailsAlone(u))
  BY <1>1 DEF MasterStepResult
<1>3. ASSUME NEW u \in Thread, Master(u)', calls'[u] > 0, ~FailsAlone(u)',
             pc'[u] \in {"other", "report", "idle"}, err'[u] = Success
      PROVE  Level(u)' \in usable'[u]
  <2>1. CASE u = t
    BY <1>1, <1>2, <1>3, <2>1 DEF MasterStepResult, MasterPC
  <2>2. CASE u # t
    BY <1>1, <1>2, <1>3, <2>2 DEF MasterStepResult, Inv, LevelsLoaded
  <2> QED  BY <2>1, <2>2
<1> QED  BY <1>3 DEF LevelsLoaded

LEMMA TypeKept ==
  ASSUME Inv, NEW t \in Thread, NEW q, MasterStep(t, q),
         once' \in BOOLEAN, onceMutex' \in Thread \cup {NoThread},
         containers' \in 0 .. Cardinality(Node),
         typeSize' \in Nat, mpiExtent' \in {0, typeSize'},
         levels' \in [Thread -> 0 .. NumLevels],
         usable' \in [Thread -> SUBSET LevelId],
         joined' \in [Thread -> 0 .. 2 * NumLevels],
         err' \in [Thread -> Error]
  PROVE  TypeOK'
<1>1. SyncTypeOK'
  BY MasterStepKeeps DEF MasterStepResult, SyncInv
<1>2. pc' \in [Thread -> PC]
  BY DEF Inv, TypeOK, MasterStep, MasterPC, PC
<1> QED  BY <1>1, <1>2 DEF Inv, TypeOK, MasterStep, numaVars

-----------------------------------------------------------------------------
(* One lemma for each action: it preserves the invariant.                  *)
LEMMA OnceSteps ==
  ASSUME Inv, NEW t \in Thread, OnceSkip(t) \/ OnceStart(t) \/ InitContainers(t)
  PROVE  Inv'
<1>1. PICK q \in {"create", "comm"} :
        /\ MasterStep(t, q) /\ pc[t] \in {"once", "create"}
        /\ UNCHANGED <<typeSize, mpiExtent, levels, usable, joined, err>>
        /\ \/ q = "create" /\ UNCHANGED <<once, containers>> /\ onceMutex' = t
           \/ q = "comm" /\ once /\ UNCHANGED <<once, containers, onceMutex>>
           \/ q = "comm" /\ once' = TRUE /\ containers' = TotalDomains /\ onceMutex' = NoThread
  BY DEF OnceSkip, OnceStart, InitContainers, MasterStep, MasterPC, Goto, typeVars, levelVars, onceVars
<1>2. /\ MasterStepResult(t, q) /\ UNCHANGED <<setup, calls, initialized, domains>>
      /\ q \in MasterPC /\ pc[t] \in MasterPC
      /\ initialized = TRUE /\ err[t] = Success /\ calls[t] \in 1 .. NumLevels
  <2>1. calls[t] \in 1 .. NumLevels /\ initialized = TRUE
    BY <1>1, PlaceFacts
  <2>2. err[t] = Success
    BY <1>1, <2>1 DEF Inv, Results, MasterPC
  <2> QED  BY <1>1, <2>1, <2>2, MasterStepKeeps DEF MasterStep, numaVars, MasterPC
<1>3. TypeOK'
  <2>1. TotalDomains \in 0 .. Cardinality(Node)
    <3>1. Len(domains) \in Nat /\ Len(domains) <= Cardinality(Node) /\ Cardinality(Node) \in Nat
      BY GridOpenAssumption, FS_CardinalityType DEF Inv, TypeOK
    <3> QED  BY <3>1 DEF TotalDomains
  <2>2. once' \in BOOLEAN /\ onceMutex' \in Thread \cup {NoThread}
        /\ containers' \in 0 .. Cardinality(Node)
    BY <1>1, <2>1 DEF Inv, TypeOK
  <2> QED  BY <1>1, <2>2, TypeKept DEF Inv, TypeOK
<1>4. ContainersReady'
  <2>1. CASE UNCHANGED <<once, containers>>
    BY <1>1, <2>1, ContainersKept
  <2>2. CASE once' = TRUE /\ containers' = TotalDomains
    BY <1>2, <2>2 DEF ContainersReady, TotalDomains
  <2> QED  BY <1>1, <2>1, <2>2
<1>5. Results'
  BY <1>1, <1>2, ResultsKept
<1>6. SizeKnown'
  BY <1>1, <1>2, SizeKept
<1>7. JoinedEqually'
  <2>1. joined' = joined /\ joined'[t] = joined[t] + 0
    <3>1. joined[t] \in 0 .. 2 * NumLevels
      BY DEF Inv, TypeOK
    <3> QED  BY <1>1, <3>1
  <2>2. JoinedNow(t)' = JoinedNow(t) + 0
    BY <1>1, <1>2 DEF JoinedNow, MasterStepResult
  <2>3. joined'[t] <= 2 * calls[t] /\ joined'[t] <= 2 * calls[t] - 2
    BY <1>1, <2>1 DEF Inv, JoinedEqually
  <2> HIDE DEF JoinedNow
  <2>4. /\ \A u \in Thread : u # t => joined'[u] = joined[u] /\ err'[u] = err[u]
        /\ q \notin {"check", "commit", "allocate"}
    BY <1>1, <2>1
  <2> QED  BY <1>1, <2>1, <2>2, <2>3, <2>4, JoinedKept
<1>8. LevelsLoaded'
  BY <1>1, LoadedKept
<1>9. LevelsGrown' /\ LoadedTogether'
  <2>1. pc[t] \in {"once", "create"} /\ q \in {"create", "comm"} /\ levels' = levels
    BY <1>1
  <2> QED  BY <1>1, <2>1, MasterStepGrown, MasterStepTogether
<1> QED  BY <1>2, <1>3, <1>4, <1>5, <1>6, <1>7, <1>8, <1>9 DEF Inv, MasterStepResult

LEMMA GrowLevelsStep ==
  ASSUME Inv, NEW t \in Thread, GrowLevels(t)
  PROVE  Inv'
<1>1. /\ MasterStep(t, "check") /\ pc[t] = "comm"
      /\ UNCHANGED <<once, onceMutex, containers, typeSize, mpiExtent, err>>
      /\ \/ /\ levels[t] <= Level(t)
            /\ levels' = [levels EXCEPT ![t] = Level(t) + 1]
            /\ usable' = [usable EXCEPT ![t] = {}] \/ UNCHANGED usable
            /\ joined' = [joined EXCEPT ![t] = @ + 1]
         \/ levels[t] > Level(t) /\ UNCHANGED <<levels, usable, joined>>
  BY DEF GrowLevels, MasterStep, MasterPC, Goto, typeVars, onceVars, levelVars, Join
<1>2. PICK k \in 1 .. NumLevels : k = calls[t]
  BY <1>1, PlaceFacts
<1>3. /\ MasterStepResult(t, "check") /\ err[t] = Success /\ setup \in Setup
      /\ setup' = setup /\ calls' = calls
      /\ Master(t) /\ NumLevels \in Nat
      /\ Level(t) = setup.order[k] /\ Level(t) \in LevelId
      /\ Level(t) \in Nat /\ Level(t) < NumLevels
      /\ \A i \in 1 .. NumLevels : setup.order[i] \in Nat
      /\ levels[t] \in 0 .. NumLevels /\ levels[t] \in Nat /\ joined[t] \in Nat /\ calls[t] \in Nat
      /\ \A u \in Thread : u # t =>
            joined'[u] = joined[u] /\ usable'[u] = usable[u] /\ levels'[u] = levels[u]
  <2>1. err[t] = Success
    BY <1>1, <1>2 DEF Inv, Results, MasterPC
  <2>2. Master(t)
    BY <1>1, PlaceFacts DEF MasterPC
  <2>3. setup \in Setup /\ NumLevels \in Nat
    BY GridOpenAssumption DEF Inv, TypeOK
  <2>4. /\ Level(t) = setup.order[k] /\ Level(t) \in LevelId
        /\ Level(t) \in Nat /\ Level(t) < NumLevels
        /\ \A i \in 1 .. NumLevels : setup.order[i] \in Nat
    BY <1>2, <2>3, SetupFacts DEF Level
  <2>5. /\ levels[t] \in 0 .. NumLevels /\ calls[t] \in 0 .. NumLevels
        /\ joined[t] \in 0 .. 2 * NumLevels
    BY DEF Inv, TypeOK
  <2>6. \A u \in Thread : u # t =>
            joined'[u] = joined[u] /\ usable'[u] = usable[u] /\ levels'[u] = levels[u]
    BY <1>1 DEF Inv, TypeOK
  <2>7. levels[t] \in Nat /\ joined[t] \in Nat /\ calls[t] \in Nat
    BY <2>3, <2>5
  <2> QED  BY <1>1, <2>1, <2>2, <2>3, <2>4, <2>5, <2>6, <2>7, MasterStepKeeps DEF MasterStep
<1>4. /\ levels[t] > Level(t) <=> \E i \in 1 .. k - 1 : setup.order[i] >= setup.order[k]
      /\ levels[t] <= Level(t) <=> Grows(k)
  <2>1. \A i \in 1 .. NumLevels : Grown(t, i) <=> i < k
    BY <1>1, <1>2 DEF Grown
  <2>2. levels[t] > Level(t) <=> \E i \in 1 .. NumLevels : i < k /\ setup.order[i] >= Level(t)
    BY <1>3, <2>1 DEF Inv, LevelsGrown
  <2>3. levels[t] > Level(t) <=> \E i \in 1 .. k - 1 : setup.order[i] >= setup.order[k]
    BY <1>3, <2>2
  <2>4. \A i \in 1 .. k - 1 : setup.order[i] \in Nat /\ setup.order[k] \in Nat
    BY <1>3
  <2> QED  BY <1>3, <2>3, <2>4 DEF Grows
<1>5. PICK more \in {0, 1} : more = One(Grows(k)) /\ joined'[t] = joined[t] + more
  <2>1. CASE Grows(k)
    <3>1. joined' = [joined EXCEPT ![t] = joined[t] + 1]
      BY <1>1, <1>3, <1>4, <2>1
    <3>2. joined'[t] = joined[t] + 1
      BY <3>1 DEF Inv, TypeOK
    <3> QED  BY <2>1, <3>2 DEF One
  <2>2. CASE ~Grows(k)
    <3>1. joined' = joined
      BY <1>1, <1>3, <1>4, <2>2
    <3> QED  BY <1>3, <2>2, <3>1 DEF One
  <2> QED  BY <2>1, <2>2
<1>6. joined'[t] <= 2 * calls[t] - 1
  <2>1. joined[t] <= 2 * calls[t] - 2
    BY <1>1 DEF Inv, JoinedEqually
  <2> QED  BY <1>3, <1>5, <2>1
<1>7. TypeOK'
  <2>1. Level(t) + 1 \in 0 .. NumLevels
    BY <1>3
  <2>2. levels' \in [Thread -> 0 .. NumLevels] /\ usable' \in [Thread -> SUBSET LevelId]
    BY <1>1, <2>1 DEF Inv, TypeOK
  <2>3. joined[t] + 1 \in 0 .. 2 * NumLevels
    <3>1. joined[t] <= 2 * k - 2
      BY <1>1, <1>2 DEF Inv, JoinedEqually
    <3> QED  BY <1>3, <3>1
  <2>4. joined' \in [Thread -> 0 .. 2 * NumLevels]
    BY <1>1, <2>3 DEF Inv, TypeOK
  <2> QED  BY <1>1, <2>2, <2>4, TypeKept DEF Inv, TypeOK
<1>8. ContainersReady'
  BY <1>1, ContainersKept
<1>9. Results'
  BY <1>1, <1>3, ResultsKept DEF MasterPC
<1>10. SizeKnown'
  BY <1>1, SizeKept
<1>11. JoinedEqually'
  <2>1. JoinedNow(t) = 0
    BY <1>1 DEF JoinedNow
  <2>2. JoinedNow(t)' = One(Grows(k))
    BY <1>2, <1>3 DEF JoinedNow, MasterStepResult, Grows
  <2>3. joined'[t] <= 2 * calls[t] /\ joined'[t] \in Nat
    BY <1>3, <1>5, <1>6
  <2> HIDE DEF JoinedNow
  <2>4. JoinedNow(t)' = JoinedNow(t) + more
    BY <1>5, <2>1, <2>2
  <2> QED  BY <1>1, <1>3, <1>5, <1>6, <2>3, <2>4, JoinedKept
<1>12. LevelsLoaded'
  BY <1>1, <1>3, LoadedKept
<1>13. LevelsGrown'
  <2>1. ASSUME NEW u \in Thread, u # t
        PROVE  /\ (Master(u)' <=> Master(u)) /\ levels'[u] = levels[u]
               /\ \A i \in 1 .. NumLevels : Grown(u, i)' <=> Grown(u, i)
    BY <1>3, <2>1 DEF Grown, MasterStepResult
  <2>2. Master(t)' /\ \A i \in 1 .. NumLevels : Grown(t, i)' <=> i <= k
    BY <1>2, <1>3 DEF Grown, MasterStepResult
  <2>3. \A i \in 1 .. NumLevels : Grown(t, i) <=> i < k
    BY <1>1, <1>2 DEF Grown
  <2>4. ASSUME NEW l \in LevelId
        PROVE  levels'[t] > l <=> \E i \in 1 .. NumLevels : i <= k /\ setup.order[i] >= l
    <3>1. l \in Nat
      BY <2>4 DEF LevelId
    <3>2. CASE Grows(k)
      <4>1. levels'[t] = setup.order[k] + 1
        <5>1. levels' = [levels EXCEPT ![t] = Level(t) + 1]
          BY <1>1, <1>3, <1>4, <3>2
        <5> QED  BY <1>3, <5>1 DEF Inv, TypeOK
      <4>2. levels'[t] > l <=> setup.order[k] >= l
        BY <1>3, <3>1, <4>1
      <4>3. ASSUME NEW i \in 1 .. NumLevels, i <= k, setup.order[i] >= l
            PROVE  setup.order[k] >= l
        <5>1. CASE i = k
          BY <4>3, <5>1
        <5>2. CASE i # k
          <6>1. setup.order[i] < setup.order[k]
            BY <1>3, <3>2, <4>3, <5>2 DEF Grows
          <6> QED  BY <1>3, <3>1, <4>3, <6>1
        <5> QED  BY <5>1, <5>2
      <4> QED  BY <4>2, <4>3
    <3>3. CASE ~Grows(k)
      <4>1. levels' = levels /\ levels[t] > setup.order[k]
        BY <1>1, <1>3, <1>4, <3>3
      <4>2. levels[t] > l <=> \E i \in 1 .. NumLevels : i < k /\ setup.order[i] >= l
        BY <1>3, <2>3, <2>4 DEF Inv, LevelsGrown
      <4>3. setup.order[k] >= l => levels[t] > l
        BY <1>3, <3>1, <4>1
      <4> QED  BY <1>3, <4>1, <4>2, <4>3
    <3> QED  BY <3>2, <3>3
  <2>5. ASSUME NEW u \in Thread, u # t
        PROVE  /\ ~Master(u)' => levels'[u] = 0
               /\ Master(u)' => \A l \in LevelId : levels'[u] > l <=>
                    \E i \in 1 .. NumLevels : Grown(u, i)' /\ setup'.order[i] >= l
    BY <1>3, <2>1, <2>5 DEF Inv, LevelsGrown
  <2>6. \A l \in LevelId : levels'[t] > l <=>
            \E i \in 1 .. NumLevels : Grown(t, i)' /\ setup'.order[i] >= l
    BY <1>3, <2>2, <2>4
  <2> QED  BY <2>2, <2>5, <2>6 DEF LevelsGrown
<1>14. LoadedTogether'
  BY <1>1, MasterStepTogether
<1> QED  BY <1>3, <1>7, <1>8, <1>9, <1>10, <1>11, <1>12, <1>13, <1>14 DEF Inv, MasterStepResult

(* A master's checks of its file and of the type give the result that      *)
(* open() owes for the level, whatever levels came before.                 *)
LEMMA CheckFacts ==
  ASSUME Inv, NEW t \in Thread, pc[t] = "check"
  PROVE  /\ calls[t] \in 1 .. NumLevels
         /\ Completed(t) = calls[t]
         /\ (IF ReaderOpen(File(t)) = Success THEN Check(setup.kind, typeSize, File(t))
             ELSE ReaderOpen(File(t))) = Owed(calls[t])
         /\ typeSize = 0 => setup.kind # "basic" /\ \A i \in 1 .. calls[t] - 1 : ~FirstFit(i)
         /\ Owed(calls[t]) = Success => Fits(FileOf(calls[t]))
         /\ Owed(calls[t]) = Success /\ typeSize = 0 => FirstFit(calls[t])
         /\ Owed(calls[t]) # Success /\ FirstFit(calls[t]) => typeSize # 0
<1> DEFINE k == calls[t]
<1>1. /\ k \in 1 .. NumLevels /\ Completed(t) = k /\ Master(t) /\ setup \in Setup
      /\ NumLevels \in Nat /\ typeSize \in Nat
  BY PlaceFacts DEF MasterPC, Inv, TypeOK
<1> HIDE DEF k
<1>2. File(t) = FileOf(k)
  BY DEF File, FileOf, Level, k
<1>3. /\ setup.kind \in {"basic", "array", "struct"} /\ ElementSize \in {1, 4, 8}
      /\ FileOf(k).varSize \in Nat \ {0}
  BY <1>1, SetupFacts DEF FileOf
<1>4. Fits(FileOf(k)) <=>
        /\ ReaderOpen(FileOf(k)) = Success
        /\ setup.kind = "array" => FileOf(k).varSize % ElementSize = 0
  BY <1>1, FitsFacts
<1>5. /\ ReaderOpen(FileOf(k)) # Success => Owed(k) = ReaderOpen(FileOf(k))
      /\ ReaderOpen(FileOf(k)) = Success /\ ~Fits(FileOf(k)) => Owed(k) = "INVALID_VAR_SIZE"
      /\ Fits(FileOf(k)) =>
            Owed(k) = IF setup.kind # "basic" /\ \E i \in 1 .. k - 1 :
                            FirstFit(i) /\ FileOf(i).varSize # FileOf(k).varSize
                      THEN "WRONG_SIZE" ELSE Success
  BY <1>1, OwedFacts
<1> HIDE DEF FileOf
<1>6. setup.kind = "basic" => typeSize = ElementSize
  BY DEF Inv, SizeKnown
<1>7. \A i \in 1 .. k - 1 : FirstFit(i) => typeSize # 0
  <2>1. \A i \in 1 .. k - 1 : i \in 1 .. NumLevels /\ Checked(t, i)
    BY <1>1 DEF Checked, k
  <2> QED  BY <1>1, <2>1 DEF Inv, SizeKnown
<1>8. ASSUME setup.kind # "basic", typeSize # 0
      PROVE  (\E i \in 1 .. k - 1 : FirstFit(i) /\ FileOf(i).varSize # FileOf(k).varSize)
                <=> typeSize # FileOf(k).varSize
  <2>1. PICK i \in 1 .. NumLevels :
          FirstFit(i) /\ typeSize = FileOf(i).varSize /\ i <= Completed(t)
    BY <1>8 DEF Inv, SizeKnown, FileOf
  <2>2. \A j \in 1 .. k - 1 : FirstFit(j) => j = i
    <3>1. \A j \in 1 .. k - 1 : j \in 1 .. NumLevels
      BY <1>1
    <3> QED  BY <1>1, <2>1, <3>1, FirstFitFacts
  <2>3. i = k \/ i \in 1 .. k - 1
    BY <1>1, <2>1
  <2> QED  BY <2>1, <2>2, <2>3
<1>9. (IF ReaderOpen(File(t)) = Success THEN Check(setup.kind, typeSize, File(t))
       ELSE ReaderOpen(File(t))) = Owed(k)
  <2>1. CASE ReaderOpen(FileOf(k)) # Success
    BY <1>2, <1>5, <2>1
  <2>2. CASE ReaderOpen(FileOf(k)) = Success /\ ~Fits(FileOf(k))
    BY <1>2, <1>4, <1>5, <2>2 DEF Check
  <2>3. CASE Fits(FileOf(k))
    <3>1. ReaderOpen(FileOf(k)) = Success
      BY <1>4, <2>3
    <3>2. Check(setup.kind, typeSize, FileOf(k))
            = IF setup.kind # "basic" /\ typeSize # 0 /\ typeSize # FileOf(k).varSize
              THEN "WRONG_SIZE" ELSE Success
      BY <1>4, <2>3 DEF Check
    <3>3. setup.kind # "basic" /\ typeSize # 0 /\ typeSize # FileOf(k).varSize
            <=> setup.kind # "basic" /\ \E i \in 1 .. k - 1 :
                                           FirstFit(i) /\ FileOf(i).varSize # FileOf(k).varSize
      BY <1>7, <1>8
    <3> QED  BY <1>2, <1>5, <2>3, <3>1, <3>2, <3>3
  <2> QED  BY <1>4, <2>1, <2>2, <2>3
<1>10. Owed(k) = Success => Fits(FileOf(k))
  BY <1>5 DEF Success
<1>11. ASSUME typeSize = 0
       PROVE  setup.kind # "basic" /\ \A i \in 1 .. k - 1 : ~FirstFit(i)
  BY <1>3, <1>6, <1>7, <1>11
<1>12. ASSUME Owed(k) = Success, typeSize = 0
       PROVE  FirstFit(k)
  <2>1. PICK i \in 1 .. NumLevels : FirstFit(i) /\ i <= k
    BY <1>1, <1>10, <1>12, FirstFitFacts
  <2>2. i \notin 1 .. k - 1
    BY <1>11, <1>12, <2>1
  <2>3. i = k
    BY <1>1, <2>1, <2>2
  <2> QED  BY <2>1, <2>3
<1>13. ASSUME Owed(k) # Success, FirstFit(k)
       PROVE  typeSize # 0
  <2>1. Fits(FileOf(k))
    BY <1>13 DEF FirstFit, FileOf
  <2> QED  BY <1>5, <1>7, <1>13, <2>1
<1> QED  BY <1>1, <1>9, <1>10, <1>11, <1>12, <1>13 DEF k

LEMMA OpenFailsStep ==
  ASSUME Inv, NEW t \in Thread, OpenFails(t)
  PROVE  Inv'
<1>1. /\ MasterStep(t, "other") /\ pc[t] = "check"
      /\ UNCHANGED <<once, onceMutex, containers, typeSize, mpiExtent, levels, usable, joined>>
      /\ err' = [err EXCEPT ![t] = OwnResult(t, calls[t])] /\ OwnResult(t, calls[t]) # Success
      /\ FailsAlone(t) \/ Owed(calls[t]) # Success
  <2>1. pc[t] = "check" /\ Master(t) /\ "NOT_OPEN" # Success
    BY PlaceFacts DEF OpenFails, MasterPC, Success
  <2>2. (IF ReaderOf(t) = Success THEN Check(setup.kind, typeSize, File(t)) ELSE ReaderOf(t))
          = OwnResult(t, calls[t])
    BY <2>1, CheckFacts DEF ReaderOf, OwnResult
  <2> QED  BY <2>1, <2>2 DEF OpenFails, MasterStep, MasterPC, Goto, typeVars, onceVars, levelVars,
                             OwnResult
<1>2. /\ MasterStepResult(t, "other") /\ calls[t] \in 1 .. NumLevels /\ setup \in Setup
      /\ \A u \in Thread : u # t => err'[u] = err[u]
      /\ err'[t] = OwnResult(t, calls[t])
  BY <1>1, MasterStepKeeps, CheckFacts DEF Inv, TypeOK
<1>3. TypeOK'
  <2>1. OwnResult(t, calls[t]) \in Error
    BY <1>2, OwedFacts DEF OwnResult, Error, Success
  <2> QED  BY <1>1, <2>1, TypeKept DEF Inv, TypeOK
<1>4. ContainersReady'
  BY <1>1, ContainersKept
<1>5. Results'
  BY <1>1, <1>2, ResultsKept DEF MasterPC
<1>6. SizeKnown'
  <2>1. typeSize # 0 \/ ~FirstFit(calls[t]) \/ FailsAlone(t)
    BY <1>1, CheckFacts
  <2> QED  BY <1>1, <2>1, SizeKept
<1>7. JoinedEqually'
  <2>1. joined' = joined /\ joined'[t] = joined[t] + 0
    <3>1. joined[t] \in 0 .. 2 * NumLevels
      BY DEF Inv, TypeOK
    <3> QED  BY <1>1, <3>1
  <2>2. JoinedNow(t)' = JoinedNow(t) + 0
    <3>1. setup' = setup /\ calls' = calls /\ pc'[t] = "other"
      BY <1>1, <1>2 DEF MasterStep, MasterStepResult
    <3>2. JoinedNow(t) = One(Grows(calls[t])) /\ JoinedNow(t)' = One(Grows(calls[t])) + One(FALSE)
      BY <1>1, <1>2, <3>1 DEF JoinedNow, Grows
    <3> QED  BY <3>2 DEF One
  <2>3. joined'[t] <= 2 * calls[t]
    BY <1>1, <2>1 DEF Inv, JoinedEqually
  <2> HIDE DEF JoinedNow
  <2>4. /\ \A u \in Thread : u # t => joined'[u] = joined[u] /\ err'[u] = err[u]
        /\ "other" \notin {"once", "create", "comm"}
        /\ "other" \notin {"check", "commit", "allocate"}
    BY <1>2, <2>1
  <2> QED  BY <1>1, <2>1, <2>2, <2>3, <2>4, JoinedKept
<1>8. LevelsLoaded'
  BY <1>1, <1>2, LoadedKept
<1>9. LevelsGrown'
  BY <1>1, MasterStepGrown
<1>10. LoadedTogether'
  <2>1. Owed(calls[t]) # Success \/ threadId[t] # 0
    BY <1>1, RootDoesNotFail
  <2> QED  BY <1>1, <2>1, MasterStepTogether
<1> QED  BY <1>2, <1>3, <1>4, <1>5, <1>6, <1>7, <1>8, <1>9, <1>10 DEF Inv, MasterStepResult

LEMMA CheckTypeStep ==
  ASSUME Inv, NEW t \in Thread, CheckType(t)
  PROVE  Inv'
<1>1. PICK q \in {"commit", AfterCheck} :
        /\ MasterStep(t, q) /\ pc[t] = "check"
        /\ UNCHANGED <<once, onceMutex, containers, mpiExtent, levels, usable, joined, err>>
        /\ q = "commit" <=> typeSize = 0
        /\ typeSize' = IF typeSize = 0 THEN FileOf(calls[t]).varSize ELSE typeSize
        /\ Owed(calls[t]) = Success /\ ~FailsAlone(t)
  <2>1. File(t) = FileOf(calls[t])
    BY DEF File, FileOf, Level
  <2>2. pc[t] = "check" /\ Owed(calls[t]) = Success /\ ~FailsAlone(t)
    <3>1. ~FailsAlone(t) /\ ReaderOpen(File(t)) = Success
      BY DEF CheckType, ReaderOf, Success
    <3> QED  BY <3>1, CheckFacts DEF CheckType
  <2>3. AfterCheck \in {"allocate", "load"}
    BY DEF AfterCheck
  <2> QED  BY <2>1, <2>2, <2>3 DEF CheckType, MasterStep, MasterPC, Goto, onceVars, levelVars
<1>2. /\ MasterStepResult(t, q) /\ calls[t] \in 1 .. NumLevels /\ setup \in Setup
      /\ setup' = setup /\ calls' = calls
      /\ q \in MasterPC /\ err[t] = Success
      /\ typeSize \in Nat /\ FileOf(calls[t]).varSize \in Nat \ {0}
      /\ q \in {"commit", "allocate", "load"}
      /\ q = "allocate" => ~setup.passThrough
      /\ q = "load" => setup.passThrough
  <2>1. calls[t] \in 1 .. NumLevels /\ setup \in Setup /\ typeSize \in Nat
    BY <1>1, CheckFacts DEF Inv, TypeOK
  <2>2. err[t] = Success
    BY <1>1, <2>1 DEF Inv, Results, MasterPC
  <2>3. FileOf(calls[t]).varSize \in Nat \ {0}
    BY <2>1, SetupFacts DEF FileOf
  <2>4. /\ q \in {"commit", "allocate", "load"}
        /\ q = "allocate" => ~setup.passThrough
        /\ q = "load" => setup.passThrough
    BY DEF AfterCheck
  <2> QED  BY <1>1, <2>1, <2>2, <2>3, <2>4, MasterStepKeeps DEF MasterStep, MasterPC
<1> HIDE DEF FileOf
<1>3. TypeOK'
  <2>1. typeSize' \in Nat /\ mpiExtent' \in {0, typeSize'}
    BY <1>1, <1>2 DEF Inv, TypeOK
  <2> QED  BY <1>1, <2>1, TypeKept DEF Inv, TypeOK
<1>4. ContainersReady'
  BY <1>1, ContainersKept
<1>5. Results'
  BY <1>1, <1>2, ResultsKept
<1>6. SizeKnown'
  <2>1. CASE typeSize # 0
    <3>1. q \in {"allocate", "load"} /\ typeSize' = typeSize
      BY <1>1, <1>2, <2>1
    <3> QED  BY <1>1, <2>1, <3>1, SizeKept
  <2>2. CASE typeSize = 0
    <3>1. PICK k \in 1 .. NumLevels : k = calls[t]
      BY <1>2
    <3>2. /\ setup.kind # "basic" /\ FirstFit(k) /\ Completed(t) = k
          /\ typeSize' = FileOf(k).varSize /\ typeSize' # 0 /\ q = "commit"
      BY <1>1, <1>2, <2>2, <3>1, CheckFacts
    <3>3. FirstFit(k)'
      BY <1>2, <3>2, OwedKept
    <3>4. \A u \in Thread : k <= Completed(u)'
      <4>1. \A u \in Thread : Completed(u) = k
        BY <3>2 DEF Inv, RoundsEqual
      <4> QED  BY <1>2, <4>1 DEF MasterStepResult
    <3>5. \E i \in 1 .. NumLevels :
            /\ FirstFit(i)'
            /\ typeSize' = setup'.variable[setup'.order[i]].varSize
            /\ \A u \in Thread : i <= Completed(u)'
      BY <1>2, <3>2, <3>3, <3>4 DEF FileOf
    <3>6. pc'[t] = "commit"
      BY <1>2, <3>2 DEF MasterStepResult
    <3> QED  BY <1>2, <3>2, <3>5, <3>6 DEF SizeKnown
  <2> QED  BY <2>1, <2>2
<1>7. JoinedEqually'
  <2>1. joined' = joined /\ joined'[t] = joined[t] + 0
    <3>1. joined[t] \in 0 .. 2 * NumLevels
      BY DEF Inv, TypeOK
    <3> QED  BY <1>1, <3>1
  <2>2. JoinedNow(t)' = JoinedNow(t) + 0
    <3>1. pc'[t] = q /\ JoinedNow(t) = One(Grows(calls[t]))
      BY <1>1, <1>2 DEF JoinedNow, MasterStepResult
    <3>2. CASE q = "load"
      <4>1. JoinedNow(t)' = One(Grows(calls[t])) + One(FALSE)
        BY <1>2, <3>1, <3>2 DEF JoinedNow, Grows
      <4> QED  BY <3>1, <4>1 DEF One
    <3>3. CASE q # "load"
      <4>1. JoinedNow(t)' = One(Grows(calls[t]))
        BY <1>2, <3>1, <3>3 DEF JoinedNow, Grows
      <4> QED  BY <3>1, <4>1 DEF One
    <3> QED  BY <3>2, <3>3
  <2>3. joined'[t] <= 2 * calls[t] /\ joined'[t] <= 2 * calls[t] - 1
    BY <1>1, <2>1 DEF Inv, JoinedEqually
  <2> HIDE DEF JoinedNow
  <2>4. /\ \A u \in Thread : u # t => joined'[u] = joined[u] /\ err'[u] = err[u]
        /\ q \notin {"once", "create", "comm"}
    BY <1>1, <1>2, <2>1
  <2> QED  BY <1>1, <2>1, <2>2, <2>3, <2>4, JoinedKept
<1>8. LevelsLoaded'
  BY <1>1, <1>2, LoadedKept
<1>9. LevelsGrown' /\ LoadedTogether'
  <2>1. /\ pc[t] \notin {"once", "create", "comm"}
        /\ q \notin {"once", "create", "comm", "other"} /\ levels' = levels
    BY <1>1, <1>2
  <2> QED  BY <1>1, <2>1, MasterStepGrown, MasterStepTogether
<1> QED  BY <1>2, <1>3, <1>4, <1>5, <1>6, <1>7, <1>8, <1>9 DEF Inv, MasterStepResult

(* What a master past the check knows.                                     *)
LEMMA PastCheckFacts ==
  ASSUME Inv, NEW t \in Thread, pc[t] \in {"commit", "allocate", "load"}
  PROVE  /\ calls[t] \in 1 .. NumLevels /\ err[t] = Success /\ Owed(calls[t]) = Success
         /\ ~FailsAlone(t)
         /\ pc[t] = "allocate" => ~setup.passThrough
<1>1. calls[t] \in 1 .. NumLevels
  BY PlaceFacts
<1> QED  BY <1>1 DEF Inv, Results, MasterPC

LEMMA CommitTypeStep ==
  ASSUME Inv, NEW t \in Thread, CommitType(t)
  PROVE  Inv'
<1> DEFINE q == AfterCheck
<1>1. /\ MasterStep(t, q) /\ pc[t] = "commit"
      /\ UNCHANGED <<once, onceMutex, containers, typeSize, levels, usable, joined, err>>
      /\ mpiExtent' = Extent(typeSize)
      /\ q = IF setup.passThrough THEN "load" ELSE "allocate"
  BY DEF CommitType, MasterStep, MasterPC, Goto, onceVars, levelVars, AfterCheck
<1> HIDE DEF q
<1>2. /\ MasterStepResult(t, q) /\ calls[t] \in 1 .. NumLevels /\ setup \in Setup
      /\ setup' = setup /\ calls' = calls
      /\ err[t] = Success /\ Owed(calls[t]) = Success /\ ~FailsAlone(t)
      /\ q \in {"allocate", "load"} /\ q \in MasterPC
  BY <1>1, MasterStepKeeps, PastCheckFacts DEF Inv, TypeOK, MasterStep, MasterPC
<1>3. setup.kind # "basic" /\ typeSize # 0 /\ mpiExtent' = typeSize
  <2>1. setup.kind # "basic" /\ typeSize # 0
    BY <1>1 DEF Inv, SizeKnown
  <2>2. PICK i \in 1 .. NumLevels : FirstFit(i) /\ typeSize = FileOf(i).varSize
    BY <2>1 DEF Inv, SizeKnown, FileOf
  <2>3. Fits(FileOf(i))
    BY <2>2 DEF FirstFit, FileOf
  <2> HIDE DEF FileOf
  <2>4. Extent(FileOf(i).varSize) = FileOf(i).varSize
    BY <1>2, <2>1, <2>3, FitsFacts
  <2> QED  BY <1>1, <2>1, <2>2, <2>4
<1>4. TypeOK'
  <2>1. mpiExtent' \in {0, typeSize'}
    BY <1>1, <1>3
  <2> QED  BY <1>1, <2>1, TypeKept DEF Inv, TypeOK
<1>5. ContainersReady'
  BY <1>1, ContainersKept
<1>6. Results'
  BY <1>1, <1>2, ResultsKept
<1>7. SizeKnown'
  <2>1. PICK i \in 1 .. NumLevels :
          /\ FirstFit(i) /\ typeSize = setup.variable[setup.order[i]].varSize
          /\ \A u \in Thread : i <= Completed(u)
    BY <1>3 DEF Inv, SizeKnown
  <2>2. /\ FirstFit(i)'
        /\ typeSize' = setup'.variable[setup'.order[i]].varSize
        /\ \A u \in Thread : i <= Completed(u)'
    BY <1>1, <1>2, <2>1, OwedKept DEF MasterStepResult
  <2> QED  BY <1>1, <1>2, <1>3, <2>2 DEF SizeKnown
<1>8. JoinedEqually'
  <2>1. joined' = joined /\ joined'[t] = joined[t] + 0
    <3>1. joined[t] \in 0 .. 2 * NumLevels
      BY DEF Inv, TypeOK
    <3> QED  BY <1>1, <3>1
  <2>2. JoinedNow(t)' = JoinedNow(t) + 0
    <3>1. pc'[t] = q /\ JoinedNow(t) = One(Grows(calls[t]))
      BY <1>1, <1>2 DEF JoinedNow, MasterStepResult
    <3>2. CASE q = "load"
      <4>1. JoinedNow(t)' = One(Grows(calls[t])) + One(FALSE)
        BY <1>1, <1>2, <3>1, <3>2 DEF JoinedNow, Grows
      <4> QED  BY <3>1, <4>1 DEF One
    <3>3. CASE q # "load"
      <4>1. JoinedNow(t)' = One(Grows(calls[t]))
        BY <1>2, <3>1, <3>3 DEF JoinedNow, Grows
      <4> QED  BY <3>1, <4>1 DEF One
    <3> QED  BY <3>2, <3>3
  <2>3. joined'[t] <= 2 * calls[t] /\ joined'[t] <= 2 * calls[t] - 1
    BY <1>1, <2>1 DEF Inv, JoinedEqually
  <2> HIDE DEF JoinedNow
  <2>4. /\ \A u \in Thread : u # t => joined'[u] = joined[u] /\ err'[u] = err[u]
        /\ q \notin {"once", "create", "comm"}
    BY <1>1, <1>2, <2>1
  <2> QED  BY <1>1, <2>1, <2>2, <2>3, <2>4, JoinedKept
<1>9. LevelsLoaded'
  BY <1>1, <1>2, LoadedKept
<1>10. LevelsGrown' /\ LoadedTogether'
  <2>1. q \notin {"once", "create", "comm", "other"} /\ levels' = levels
    BY <1>1, <1>2
  <2> QED  BY <1>1, <2>1, MasterStepGrown, MasterStepTogether
<1> QED  BY <1>2, <1>4, <1>5, <1>6, <1>7, <1>8, <1>9, <1>10 DEF Inv, MasterStepResult

LEMMA AllocateStep ==
  ASSUME Inv, NEW t \in Thread, Allocate(t)
  PROVE  Inv'
<1>1. /\ MasterStep(t, "load") /\ pc[t] = "allocate"
      /\ UNCHANGED <<once, onceMutex, containers, typeSize, mpiExtent, levels, usable, err>>
      /\ joined' = [joined EXCEPT ![t] = @ + 1]
  BY DEF Allocate, MasterStep, MasterPC, Goto, onceVars, typeVars, Join
<1>2. /\ MasterStepResult(t, "load") /\ calls[t] \in 1 .. NumLevels
      /\ err[t] = Success /\ Owed(calls[t]) = Success
      /\ ~FailsAlone(t) /\ ~setup.passThrough /\ setup' = setup /\ calls' = calls
      /\ \A u \in Thread : u # t => joined'[u] = joined[u]
  BY <1>1, MasterStepKeeps, PastCheckFacts DEF Inv, TypeOK, MasterStep
<1>3. joined'[t] = joined[t] + 1 /\ joined'[t] <= 2 * calls[t] /\ joined[t] \in Nat
  <2>1. joined[t] \in Nat /\ calls[t] \in Nat
    BY <1>2, GridOpenAssumption DEF Inv, TypeOK
  <2>2. joined[t] <= 2 * calls[t] - 1
    BY <1>1 DEF Inv, JoinedEqually
  <2>3. joined'[t] = joined[t] + 1
    BY <1>1 DEF Inv, TypeOK
  <2> QED  BY <2>1, <2>2, <2>3
<1>4. TypeOK'
  <2>1. joined[t] + 1 \in 0 .. 2 * NumLevels
    BY <1>2, <1>3, GridOpenAssumption
  <2>2. joined' \in [Thread -> 0 .. 2 * NumLevels]
    BY <1>1, <2>1 DEF Inv, TypeOK
  <2> QED  BY <1>1, <2>2, TypeKept DEF Inv, TypeOK
<1>5. ContainersReady'
  BY <1>1, ContainersKept
<1>6. Results'
  BY <1>1, <1>2, ResultsKept DEF MasterPC
<1>7. SizeKnown'
  BY <1>1, SizeKept
<1>8. JoinedEqually'
  <2>1. JoinedNow(t)' = JoinedNow(t) + 1
    <3>1. JoinedNow(t) = One(Grows(calls[t])) /\ JoinedNow(t)' = One(Grows(calls[t])) + One(TRUE)
      BY <1>1, <1>2 DEF JoinedNow, MasterStepResult, Grows
    <3> QED  BY <3>1 DEF One
  <2> HIDE DEF JoinedNow
  <2>2. /\ \A u \in Thread : u # t => joined'[u] = joined[u] /\ err'[u] = err[u]
        /\ "load" \notin {"once", "create", "comm"}
        /\ "load" \notin {"check", "commit", "allocate"}
    BY <1>1, <1>2
  <2> QED  BY <1>1, <1>3, <2>1, <2>2, JoinedKept
<1>9. LevelsLoaded'
  BY <1>1, LoadedKept
<1>10. LevelsGrown' /\ LoadedTogether'
  BY <1>1, MasterStepGrown, MasterStepTogether
<1> QED  BY <1>2, <1>4, <1>5, <1>6, <1>7, <1>8, <1>9, <1>10 DEF Inv, MasterStepResult

(* When a master has met the others in the broadcast of the memory, none   *)
(* of them is a domain that fails alone.                                   *)
LEMMA AllCame ==
  ASSUME Inv, NEW t \in Thread, pc[t] = "load", Met(t), MasterStep(t, "other")
  PROVE  LoadedTogether'
<1>1. /\ MasterStepResult(t, "other") /\ UNCHANGED <<setup, threadId, domainId, calls>>
      /\ setup \in Setup /\ Master(t)
  BY MasterStepKeeps, PlaceFacts DEF MasterStep, numaVars, Inv, TypeOK, MasterPC
<1>2. PICK k \in 1 .. NumLevels : k = calls[t] /\ Completed(t) = k
  BY PlaceFacts DEF MasterPC
<1>3. ASSUME ~setup.passThrough, NEW u \in Thread, Master(u)
      PROVE  <<setup.order[k], domainId[u]>> \notin setup.failing
  <2>1. /\ JoinedNow(t) = One(Grows(k)) + 1
        /\ One(Grows(k)) \in {0, 1}
    BY <1>2, <1>3 DEF JoinedNow, One
  <2>2. joined[u] >= joined[t] /\ joined[t] \in Nat /\ joined[u] \in Nat
    <3>1. joined[t] \in 0 .. 2 * NumLevels /\ joined[u] \in 0 .. 2 * NumLevels
      BY DEF Inv, TypeOK
    <3> QED  BY <1>3, <3>1 DEF Met
  <2>3. JoinedNow(u) \in 0 .. 2
    BY DEF JoinedNow, One
  <2>4. JoinedNow(u) >= One(Grows(k)) + 1
    <3>1. joined[t] - JoinedNow(t) = joined[u] - JoinedNow(u)
      BY <1>1, <1>3 DEF Inv, JoinedEqually
    <3> HIDE DEF JoinedNow
    <3> QED  BY <2>1, <2>2, <2>3, <3>1
  <2>5. Completed(u) = k
    BY <1>2 DEF Inv, RoundsEqual
  <2>6. JoinedNow(u) > 0
    BY <2>1, <2>3, <2>4
  <2>7. /\ \/ pc[u] \in {"check", "commit", "allocate", "load", "other"}
           \/ pc[u] = "report" /\ ~Complete(u)
        /\ calls[u] = k
    <3>1. \/ pc[u] \in {"check", "commit", "allocate", "load", "other"}
          \/ pc[u] = "report" /\ ~Complete(u)
      BY <2>6 DEF JoinedNow
    <3> QED  BY <2>5, <3>1, PlaceFacts DEF MasterPC
  <2>8. pc[u] \notin {"check", "commit", "allocate"}
    <3>1. pc[u] \in {"check", "commit", "allocate"} => JoinedNow(u) = One(Grows(k))
      BY <2>7 DEF JoinedNow
    <3> QED  BY <2>1, <2>4, <3>1
  <2>9. ~FailsAlone(u)
    <3>1. CASE pc[u] = "load"
      BY <2>7, <3>1 DEF Inv, Results
    <3>2. CASE pc[u] \in {"other", "report"}
      <4>1. JoinedNow(u) = One(Grows(k)) + One(err[u] = Success /\ ~setup.passThrough)
        BY <2>7, <3>2 DEF JoinedNow
      <4>2. err[u] = Success
        BY <2>1, <2>4, <4>1 DEF One
      <4>3. err[u] = OwnResult(u, k)
        BY <2>7, <3>2 DEF Inv, Results
      <4> QED  BY <1>3, <4>2, <4>3 DEF OwnResult, Success
    <3> QED  BY <2>7, <2>8, <3>1, <3>2
  <2> QED  BY <2>7, <2>9 DEF FailsAlone, Level
<1>4. \A j \in 1 .. NumLevels : Owed(j)' = Owed(j)
  BY <1>1, OwedKept
<1>5. ASSUME ~setup.passThrough, NEW v \in Thread, NEW u \in Thread, NEW j \in 1 .. NumLevels,
             threadId[v] = 0, BackFrom(v, j)', Owed(j) = Success, Master(u)
      PROVE  <<setup.order[j], domainId[u]>> \notin setup.failing
  <2>1. CASE BackFrom(v, j)
    BY <1>5, <2>1 DEF Inv, LoadedTogether
  <2>2. CASE ~BackFrom(v, j)
    <3>1. v = t
      <4>1. v # t => pc'[v] = pc[v] /\ calls' = calls
        BY <1>1 DEF MasterStepResult
      <4> QED  BY <1>5, <2>2, <4>1 DEF BackFrom
    <3>2. j = k
      BY <1>1, <1>2, <1>5, <2>2, <3>1 DEF BackFrom
    <3> QED  BY <1>3, <1>5, <3>2
  <2> QED  BY <2>1, <2>2
<1>6. \A u \in Thread : Master(u)' <=> Master(u)
  BY <1>1 DEF MasterStepResult
<1> QED  BY <1>1, <1>4, <1>5, <1>6 DEF LoadedTogether

LEMMA LoadStep ==
  ASSUME Inv, NEW t \in Thread, Load(t)
  PROVE  Inv'
<1>1. /\ MasterStep(t, "other") /\ pc[t] = "load"
      /\ UNCHANGED <<once, onceMutex, containers, typeSize, mpiExtent, levels, joined, err>>
      /\ usable' = [usable EXCEPT ![t] = @ \cup {Level(t)}]
  BY DEF Load, MasterStep, MasterPC, Goto, onceVars, typeVars
<1>2. /\ MasterStepResult(t, "other") /\ calls[t] \in 1 .. NumLevels /\ setup \in Setup
      /\ err[t] = Success /\ Owed(calls[t]) = Success /\ ~FailsAlone(t)
      /\ \A u \in Thread : u # t => usable'[u] = usable[u]
      /\ Level(t) \in usable'[t]
  BY <1>1, MasterStepKeeps, PastCheckFacts DEF Inv, TypeOK
<1>3. TypeOK'
  <2>1. Level(t) \in LevelId
    BY <1>2, SetupFacts DEF Level
  <2>2. usable' \in [Thread -> SUBSET LevelId]
    BY <1>1, <2>1 DEF Inv, TypeOK
  <2> QED  BY <1>1, <2>2, TypeKept DEF Inv, TypeOK
<1>4. ContainersReady'
  BY <1>1, ContainersKept
<1>5. Results'
  <2>1. OwnResult(t, calls[t]) = Success
    BY <1>1, <1>2, PlaceFacts DEF OwnResult, MasterPC
  <2> QED  BY <1>1, <1>2, <2>1, ResultsKept DEF MasterPC
<1>6. SizeKnown'
  BY <1>1, <1>2, SizeKept
<1>7. JoinedEqually'
  <2>1. joined' = joined /\ joined'[t] = joined[t] + 0
    <3>1. joined[t] \in 0 .. 2 * NumLevels
      BY DEF Inv, TypeOK
    <3> QED  BY <1>1, <3>1
  <2>2. JoinedNow(t)' = JoinedNow(t) + 0
    <3>1. pc'[t] = "other" /\ setup' = setup /\ calls' = calls /\ err' = err
      BY <1>1, <1>2 DEF MasterStep, MasterStepResult
    <3>2. /\ JoinedNow(t) = One(Grows(calls[t])) + One(~setup.passThrough)
          /\ JoinedNow(t)' = One(Grows(calls[t])) + One(err[t] = Success /\ ~setup.passThrough)
      BY <1>1, <3>1 DEF JoinedNow, Grows
    <3> QED  BY <1>2, <3>2 DEF One
  <2>3. joined'[t] <= 2 * calls[t]
    BY <1>1, <2>1 DEF Inv, JoinedEqually
  <2> HIDE DEF JoinedNow
  <2>4. /\ \A u \in Thread : u # t => joined'[u] = joined[u] /\ err'[u] = err[u]
        /\ "other" \notin {"once", "create", "comm"}
        /\ "other" \notin {"check", "commit", "allocate"}
    BY <1>1, <2>1
  <2> QED  BY <1>1, <2>1, <2>2, <2>3, <2>4, JoinedKept
<1>8. LevelsLoaded'
  BY <1>1, <1>2, LoadedKept
<1>9. LevelsGrown'
  BY <1>1, MasterStepGrown
<1>10. LoadedTogether'
  BY <1>1, MasterStepKeeps, AllCame DEF Load
<1> QED  BY <1>2, <1>3, <1>4, <1>5, <1>6, <1>7, <1>8, <1>9, <1>10 DEF Inv, MasterStepResult

(* Between the steps of open, a thread moves in the barrier only.  The     *)
(* root leaves it when nobody is left who would copy its variable.         *)
LEMMA InBarrierStep ==
  ASSUME Inv, NEW t \in Thread, InBarrier(t)
  PROVE  Inv'
<1>1. /\ UNCHANGED <<setup, initialized, domains, masterThreads, threadId, domainId, once,
                     onceMutex, containers, typeSize, mpiExtent, levels, usable, joined, err,
                     data, calls, pc>>
      /\ Synchronise(t) /\ SyncInv
  BY DEF InBarrier, Inv, numaVars, onceVars, typeVars, levelVars, callVars
<1>2. /\ SyncInv'
      /\ UNCHANGED last
      /\ \A u \in Thread : Arrived(u)' <=> Arrived(u)
      /\ \A u \in Thread : Complete(u)' <=> Complete(u)
      /\ \A u \in Thread : at'[u] = "out" <=> at[u] = "out"
      /\ \A u \in Thread : at'[u] = "through" /\ at[u] # "through" /\ last[u] =>
            \A v \in Thread : Complete(v) => at[v] # "through" /\ last[v]
      /\ (\E u \in Thread : Complete(u)) \/ UNCHANGED syncedThreads
  BY <1>1, SynchroniseSync
<1>3. Registered' = Registered /\ \A u \in Thread : Master(u)' <=> Master(u)
  BY <1>1 DEF Registered, Master
<1>4. TypeOK'
  BY <1>1, <1>2 DEF Inv, TypeOK, SyncInv
<1>5. CallsBegun'
  BY <1>1, <1>2, <1>3 DEF Inv, CallsBegun
<1>6. LastIsRoot'
  BY <1>1, <1>2 DEF Inv, LastIsRoot
<1>7. IdsGiven'
  <2>1. initialized \/ UNCHANGED syncedThreads
    BY <1>2 DEF Inv, IdsGiven
  <2> QED  BY <1>1, <1>2, <1>3, <2>1 DEF Inv, IdsGiven, HasId
<1>8. DomainsOwned'
  BY <1>1, <1>3 DEF Inv, DomainsOwned, HasId, TotalDomains
<1>9. ContainersReady'
  BY <1>1, <1>3 DEF Inv, ContainersReady, TotalDomains
<1>10. \A u \in Thread : Completed(u)' = Completed(u)
  BY <1>1, <1>2 DEF Completed
<1>11. RoundsEqual'
  BY <1>10 DEF Inv, RoundsEqual
<1>12. Results'
  BY <1>1, <1>3, OwedKept DEF Inv, Results, OwnResult, FailsAlone, Level
<1>13. RootOffers'
  BY <1>1, <1>2 DEF Inv, RootOffers
<1>14. RootStays'
  <2> SUFFICES ASSUME NEW u \in Thread, NEW r \in Thread,
                      threadId[r] = 0, u # r, pc[u] = "report", Complete(u)
               PROVE  pc[r] = "report" /\ Complete(r) /\ at'[r] # "through"
    BY <1>1, <1>2 DEF RootStays
  <2>1. pc[r] = "report" /\ Complete(r) /\ at[r] # "through"
    BY DEF Inv, RootStays
  <2>2. Arrived(r) /\ Arrived(u)
    BY <2>1, PlaceFacts
  <2>3. last[r] /\ (last[u] <=> threadId[u] = 0)
    BY <2>1, <2>2 DEF Inv, LastIsRoot
  <2>4. threadId[u] # 0
    BY NumThreadsFacts DEF Inv, IdsGiven, HasId, NoId
  <2> QED  BY <1>2, <2>1, <2>3, <2>4
<1>15. SizeKnown'
  BY <1>1, <1>3, <1>10, OwedKept DEF Inv, SizeKnown, Checked, ElementSize, FailsAlone, Level
<1>16. JoinedEqually'
  <2>1. \A u \in Thread : JoinedNow(u)' = JoinedNow(u)
    BY <1>1, <1>2 DEF JoinedNow, Grows
  <2> QED  BY <1>1, <1>3, <2>1 DEF Inv, JoinedEqually
<1>17. LevelsLoaded'
  BY <1>1, <1>3 DEF Inv, LevelsLoaded, FailsAlone, Level
<1>18. LevelsGrown' /\ LoadedTogether'
  <2>1. \A u \in Thread, i \in 1 .. NumLevels : Master(u) => (Grown(u, i)' <=> Grown(u, i))
    BY <1>1 DEF Grown
  <2>2. \A u \in Thread, k \in 1 .. NumLevels : threadId[u] = 0 /\ BackFrom(u, k)' => BackFrom(u, k)
    BY <1>1 DEF BackFrom
  <2> QED  BY <1>1, <1>3, <2>1, <2>2, GrownKept, TogetherKept
<1> QED  BY <1>2, <1>4, <1>5, <1>6, <1>7, <1>8, <1>9, <1>11, <1>12, <1>13, <1>14, <1>15,
            <1>16, <1>17, <1>18 DEF Inv

LEMMA CallStep ==
  ASSUME Inv, NEW t \in Thread, Call(t)
  PROVE  Inv'
<1>1. /\ UNCHANGED <<setup, initialized, domains, masterThreads, threadId, domainId, once,
                     onceMutex, containers, typeSize, mpiExtent, levels, usable, joined, data>>
      /\ pc[t] = "idle" /\ calls[t] < NumLevels /\ SyncInv
      /\ calls' = [calls EXCEPT ![t] = @ + 1]
      /\ err' = [err EXCEPT ![t] = Success]
  BY DEF Call, Inv, numaVars, onceVars, typeVars, levelVars
<1>2. PICK q \in {"register", "once", "other"} :
        /\ pc' = [pc EXCEPT ![t] = q]
        /\ \/ q = "register" /\ ~initialized /\ StartBarrier(t)
           \/ q = "once" /\ initialized /\ Master(t) /\ UNCHANGED syncVars
           \/ q = "other" /\ initialized /\ ~Master(t) /\ UNCHANGED syncVars
  BY DEF Call, Goto
<1>3. /\ \A u \in Thread : pc'[u] = IF u = t THEN q ELSE pc[u]
      /\ \A u \in Thread : calls'[u] = IF u = t THEN calls[t] + 1 ELSE calls[u]
      /\ \A u \in Thread : err'[u] = IF u = t THEN Success ELSE err[u]
      /\ calls[t] \in 0 .. NumLevels /\ calls[t] + 1 \in 1 .. NumLevels
      /\ setup \in Setup
  <2>1. calls[t] \in 0 .. NumLevels /\ NumLevels \in Nat
    BY GridOpenAssumption DEF Inv, TypeOK
  <2>2. calls[t] + 1 \in 1 .. NumLevels
    BY <1>1, <2>1
  <2> QED  BY <1>1, <1>2, <2>1, <2>2 DEF Inv, TypeOK
<1>4. /\ q = "register" <=> ~initialized
      /\ q = "register" => calls[t] = 0
      /\ q # "register" => calls[t] > 0
      /\ q = "other" => ~Master(t)
      /\ q = "once" => Master(t)
  <2>1. ~initialized => pc[t] = "register" \/ calls[t] = 0
    BY DEF Inv, IdsGiven
  <2>2. initialized => t \in Registered
    BY <1>1 DEF Inv, IdsGiven
  <2> QED  BY <1>1, <1>2, <2>1, <2>2 DEF Registered
<1>5. /\ SyncInv'
      /\ \A u \in Thread : at'[u] = IF u = t /\ q = "register" THEN "start" ELSE at[u]
      /\ at[t] = "out"
      /\ UNCHANGED <<last, syncedThreads, finishing>>
  <2>1. CASE q = "register"
    BY <1>1, <1>2, <2>1, StartBarrierSync DEF StartBarrier
  <2>2. CASE q # "register"
    <3>1. UNCHANGED <<mutex, at, last, syncedThreads, lastThreads, finishing>>
      BY <1>2, <2>2 DEF syncVars
    <3>2. SyncInv'
      BY <1>1, <3>1 DEF SyncInv, SyncTypeOK, NoLostWakeUp, Synced
    <3> QED  BY <1>1, <2>2, <3>1, <3>2 DEF Inv, CallsBegun
  <2> QED  BY <2>1, <2>2
<1>6. /\ \A u \in Thread : Arrived(u)' <=> Arrived(u)
      /\ \A u \in Thread : Complete(u)' <=> Complete(u)
      /\ ~Arrived(t) /\ ~Complete(t)
  BY <1>5 DEF Arrived, Complete, Waiting
<1>7. Registered' = Registered
  BY <1>1, <1>3, <1>4 DEF Registered
<1>8. \A u \in Thread : (Master(u)' <=> Master(u)) /\ (HasId(u)' <=> HasId(u))
  BY <1>1 DEF Master, HasId
<1>9. \A u \in Thread : Completed(u)' = Completed(u)
  <2>1. \A u \in Thread : u # t => Completed(u)' = Completed(u)
    BY <1>3, <1>6 DEF Completed
  <2>2. Completed(t) = IF calls[t] = 0 THEN 0 ELSE calls[t] + 1
    BY <1>1, PlaceFacts
  <2>3. Completed(t)' = IF q = "register" THEN calls[t] + 1 - 1 ELSE calls[t] + 1
    BY <1>3, <1>6 DEF Completed, One
  <2> QED  BY <1>3, <1>4, <2>1, <2>2, <2>3
<1>23. /\ \A u \in Thread \ {t} : FailsAlone(u)' <=> FailsAlone(u)
       /\ \A u \in Thread \ {t} : \A k \in 1 .. NumLevels : OwnResult(u, k)' = OwnResult(u, k)
  <2>1. \A u \in Thread \ {t} : FailsAlone(u)' <=> FailsAlone(u)
    BY <1>1, <1>3 DEF FailsAlone, Level
  <2>2. \A k \in 1 .. NumLevels : Owed(k)' = Owed(k)
    BY <1>1, OwedKept
  <2> QED  BY <1>8, <2>1, <2>2 DEF OwnResult
<1>10. TypeOK'
  <2>1. Success \in Error /\ q \in PC
    BY DEF Success, Error, PC
  <2>2. calls' \in [Thread -> 0 .. NumLevels]
    BY <1>1, <1>3, SMTT(30) DEF Inv, TypeOK
  <2> QED  BY <1>1, <1>2, <1>5, <2>1, <2>2 DEF Inv, TypeOK, SyncInv
<1>11. CallsBegun'
  BY <1>3, <1>4, <1>5, <1>8 DEF Inv, CallsBegun, MasterPC
<1>12. LastIsRoot'
  BY <1>1, <1>3, <1>5, <1>6 DEF Inv, LastIsRoot
<1>13. IdsGiven'
  BY <1>1, <1>3, <1>4, <1>5, <1>6, <1>7, <1>8 DEF Inv, IdsGiven
<1>14. DomainsOwned'
  BY <1>1, <1>8 DEF Inv, DomainsOwned, TotalDomains
<1>15. ContainersReady'
  <2>1. ASSUME NEW u \in Thread, Master(u), calls'[u] > 0,
               calls'[u] = 1 => pc'[u] \notin {"register", "once", "create"}
        PROVE  once
    <3>1. calls[t] # 0 \/ u # t
      BY <1>3, <1>4, <2>1
    <3> QED  BY <1>1, <1>3, <2>1, <3>1 DEF Inv, ContainersReady
  <2> QED  BY <1>1, <1>8, <2>1 DEF Inv, ContainersReady, TotalDomains
<1>16. RoundsEqual'
  BY <1>9 DEF Inv, RoundsEqual
<1>17. Results'
  <2>1. \A k \in 1 .. NumLevels : Owed(k)' = Owed(k)
    BY <1>1, OwedKept
  <2>2. ASSUME NEW u \in Thread, NEW k \in 1 .. NumLevels, calls'[u] = k
        PROVE  /\ pc'[u] \in MasterPC \cup {"register"} => err'[u] = Success
               /\ pc'[u] \in {"commit", "allocate", "load"} => Owed(k)' = Success /\ ~FailsAlone(u)'
               /\ pc'[u] = "allocate" => ~setup'.passThrough
               /\ pc'[u] \in {"other", "report"} => err'[u] = OwnResult(u, k)'
               /\ pc'[u] = "idle" => err'[u] = Owed(k)'
    <3>1. CASE u = t
      <4>1. q = "other" => OwnResult(t, k)' = Success
        BY <1>4, <1>8 DEF OwnResult
      <4> QED  BY <1>3, <3>1, <4>1
    <3>2. CASE u # t
      <4>1. OwnResult(u, k)' = OwnResult(u, k) /\ (FailsAlone(u)' <=> FailsAlone(u))
        BY <1>23, <3>2
      <4> QED  BY <1>1, <1>3, <2>1, <2>2, <3>2, <4>1 DEF Inv, Results
    <3> QED  BY <3>1, <3>2
  <2> QED  BY <2>2 DEF Results
<1>18. RootOffers'
  BY <1>1, <1>3, <1>4, <1>6 DEF Inv, RootOffers
<1>19. RootStays'
  BY <1>1, <1>3, <1>5, <1>6 DEF Inv, RootStays
<1>20. SizeKnown'
  <2>1. \A k \in 1 .. NumLevels : FirstFit(k)' <=> FirstFit(k)
    BY <1>1, OwedKept
  <2>2. ASSUME NEW u \in Thread, NEW i \in 1 .. NumLevels, Master(u), Checked(u, i)'
        PROVE  Checked(u, i)
    <3>1. CASE u = t
      BY <1>1, <1>3, <1>4, <2>2, <3>1 DEF Checked
    <3>2. CASE u # t
      BY <1>3, <1>23, <2>2, <3>2 DEF Checked
    <3> QED  BY <3>1, <3>2
  <2> QED  BY <1>1, <1>3, <1>8, <1>9, <2>1, <2>2 DEF Inv, SizeKnown, ElementSize
<1>21. JoinedEqually'
  <2>1. ASSUME NEW u \in Thread, Master(u)
        PROVE  JoinedNow(u)' = JoinedNow(u)
    BY <1>1, <1>3, <1>4, <1>6, <2>1 DEF JoinedNow, Grows
  <2>2. \A u, v \in Thread : Master(u)' /\ Master(v)' =>
              joined'[u] - JoinedNow(u)' = joined'[v] - JoinedNow(v)'
    <3> HIDE DEF JoinedNow
    <3> QED  BY <1>1, <1>8, <2>1 DEF Inv, JoinedEqually
  <2>3. ASSUME NEW u \in Thread
        PROVE  /\ joined'[u] <= 2 * calls'[u]
               /\ pc'[u] \in {"register", "once", "create", "comm"} => joined'[u] <= 2 * calls'[u] - 2
               /\ pc'[u] \in {"check", "commit", "allocate"} => joined'[u] <= 2 * calls'[u] - 1
    <3>1. CASE u = t
      <4>1. joined[t] <= 2 * calls[t] /\ joined[t] \in 0 .. 2 * NumLevels
        BY DEF Inv, JoinedEqually, TypeOK
      <4> QED  BY <1>1, <1>3, <3>1, <4>1
    <3>2. CASE u # t
      BY <1>1, <1>3, <3>2 DEF Inv, JoinedEqually
    <3> QED  BY <3>1, <3>2
  <2> QED  BY <2>2, <2>3 DEF JoinedEqually
<1>22. LevelsLoaded'
  <2>1. ASSUME NEW u \in Thread, Master(u)', calls'[u] > 0, ~FailsAlone(u)',
               pc'[u] \in {"other", "report", "idle"}, err'[u] = Success
        PROVE  Level(u)' \in usable'[u]
    <3>1. u # t
      BY <1>3, <1>4, <1>8, <2>1
    <3>2. Level(u)' = Level(u) /\ ~FailsAlone(u)
      BY <1>1, <1>3, <1>23, <2>1, <3>1 DEF Level
    <3> QED  BY <1>1, <1>3, <1>8, <2>1, <3>1, <3>2 DEF Inv, LevelsLoaded
  <2> QED  BY <2>1 DEF LevelsLoaded
<1>24. LevelsGrown' /\ LoadedTogether'
  <2>1. ASSUME NEW u \in Thread, NEW i \in 1 .. NumLevels, Master(u)
        PROVE  Grown(u, i)' <=> Grown(u, i)
    <3>1. CASE u = t
      <4>1. q \in {"register", "once"}
        BY <1>4, <2>1, <3>1
      <4> QED  BY <1>1, <1>3, <3>1, <4>1 DEF Grown
    <3>2. CASE u # t
      BY <1>3, <3>2 DEF Grown
    <3> QED  BY <3>1, <3>2
  <2>2. ASSUME NEW u \in Thread, NEW k \in 1 .. NumLevels, threadId[u] = 0, BackFrom(u, k)'
        PROVE  BackFrom(u, k)
    <3>1. Master(u)
      BY <2>2 DEF Inv, DomainsOwned
    <3>2. CASE u = t
      BY <1>1, <1>3, <1>4, <2>2, <3>1, <3>2 DEF BackFrom
    <3>3. CASE u # t
      BY <1>3, <2>2, <3>3 DEF BackFrom
    <3> QED  BY <3>2, <3>3
  <2> QED  BY <1>1, <1>8, <2>1, <2>2, GrownKept, TogetherKept
<1> QED  BY <1>5, <1>10, <1>11, <1>12, <1>13, <1>14, <1>15, <1>16, <1>17, <1>18, <1>19, <1>20,
            <1>21, <1>22, <1>24 DEF Inv

LEMMA EndRegisterStep ==
  ASSUME Inv, NEW t \in Thread, EndRegister(t)
  PROVE  Inv'
<1>1. /\ UNCHANGED <<setup, initialized, domains, masterThreads, threadId, domainId, once,
                     onceMutex, containers, typeSize, mpiExtent, levels, usable, joined, err,
                     data, calls>>
      /\ pc[t] = "register" /\ EndBarrier(t) /\ SyncInv
  BY DEF EndRegister, Inv, numaVars, onceVars, typeVars, levelVars
<1>2. PICK q \in {"once", "other"} :
        pc' = [pc EXCEPT ![t] = q] /\ (q = "once" <=> Master(t))
  BY DEF EndRegister, Goto
<1>3. /\ SyncInv'
      /\ at[t] = "through"
      /\ \A u \in Thread : at'[u] = IF u = t THEN "out" ELSE at[u]
      /\ UNCHANGED <<last, syncedThreads, finishing>>
  BY <1>1, EndBarrierSync
<1>4. /\ \A u \in Thread : pc'[u] = IF u = t THEN q ELSE pc[u]
      /\ Complete(t) /\ initialized = TRUE /\ calls[t] = 1 /\ 1 \in 1 .. NumLevels
      /\ Completed(t) = 1 /\ setup \in Setup /\ HasId(t)
  <2>1. Complete(t)
    BY <1>3 DEF Complete
  <2> QED  BY <1>1, <1>2, <2>1, PlaceFacts DEF Inv, TypeOK, IdsGiven
<1>5. /\ \A u \in Thread : Arrived(u)' <=> u # t /\ Arrived(u)
      /\ \A u \in Thread : Complete(u)' <=> u # t /\ Complete(u)
  BY <1>3 DEF Arrived, Complete, Waiting
<1>6. Registered' = Registered \cup {t}
  BY <1>1, <1>4 DEF Registered
<1>7. \A u \in Thread : (Master(u)' <=> Master(u)) /\ (HasId(u)' <=> HasId(u))
  BY <1>1 DEF Master, HasId
<1>8. \A u \in Thread : Completed(u)' = Completed(u)
  <2>1. \A u \in Thread : u # t => Completed(u)' = Completed(u)
    BY <1>1, <1>4, <1>5 DEF Completed
  <2>2. Completed(t)' = 1
    BY <1>1, <1>4, <1>5 DEF Completed, One
  <2> QED  BY <1>4, <2>1, <2>2
<1>22. \A u \in Thread : FailsAlone(u)' <=> FailsAlone(u)
  BY <1>1 DEF FailsAlone, Level
<1>9. TypeOK'
  <2>1. q \in PC
    BY DEF PC
  <2> QED  BY <1>1, <1>2, <1>3, <2>1 DEF Inv, TypeOK, SyncInv
<1>10. CallsBegun'
  BY <1>1, <1>2, <1>3, <1>4, <1>7 DEF Inv, CallsBegun, MasterPC
<1>11. LastIsRoot'
  BY <1>1, <1>3, <1>4, <1>5 DEF Inv, LastIsRoot
<1>12. IdsGiven'
  BY <1>1, <1>3, <1>4, <1>5, <1>6, <1>7 DEF Inv, IdsGiven
<1>13. DomainsOwned'
  BY <1>1, <1>7 DEF Inv, DomainsOwned, TotalDomains
<1>14. ContainersReady'
  BY <1>1, <1>2, <1>4, <1>7 DEF Inv, ContainersReady, TotalDomains
<1>15. RoundsEqual'
  BY <1>8 DEF Inv, RoundsEqual
<1>16. Results'
  <2>1. \A k \in 1 .. NumLevels : Owed(k)' = Owed(k)
    BY <1>1, OwedKept
  <2>2. \A u \in Thread, k \in 1 .. NumLevels : OwnResult(u, k)' = OwnResult(u, k)
    BY <1>7, <1>22, <2>1 DEF OwnResult
  <2>3. ASSUME NEW k \in 1 .. NumLevels, calls[t] = k
        PROVE  err[t] = Success /\ (q = "other" => OwnResult(t, k) = Success)
    BY <1>1, <1>2, <2>3 DEF Inv, Results, OwnResult
  <2> HIDE DEF OwnResult
  <2> QED  BY <1>1, <1>4, <1>22, <2>1, <2>2, <2>3 DEF Inv, Results, MasterPC
<1>17. RootOffers'
  BY <1>1, <1>4, <1>5 DEF Inv, RootOffers
<1>18. RootStays'
  BY <1>1, <1>3, <1>4, <1>5 DEF Inv, RootStays
<1>19. SizeKnown'
  <2>1. \A k \in 1 .. NumLevels : FirstFit(k)' <=> FirstFit(k)
    BY <1>1, OwedKept
  <2>2. ASSUME NEW u \in Thread, NEW i \in 1 .. NumLevels, Master(u), Checked(u, i)'
        PROVE  Checked(u, i)
    BY <1>1, <1>2, <1>4, <1>22, <2>2 DEF Checked
  <2> QED  BY <1>1, <1>4, <1>7, <1>8, <2>1, <2>2 DEF Inv, SizeKnown, ElementSize
<1>20. JoinedEqually'
  <2>1. ASSUME NEW u \in Thread, Master(u)
        PROVE  JoinedNow(u)' = JoinedNow(u)
    BY <1>1, <1>2, <1>4, <1>5, <2>1 DEF JoinedNow, Grows
  <2>2. \A u, v \in Thread : Master(u)' /\ Master(v)' =>
              joined'[u] - JoinedNow(u)' = joined'[v] - JoinedNow(v)'
    <3> HIDE DEF JoinedNow
    <3> QED  BY <1>1, <1>7, <2>1 DEF Inv, JoinedEqually
  <2> QED  BY <1>1, <1>4, <2>2 DEF Inv, JoinedEqually
<1>21. LevelsLoaded'
  BY <1>1, <1>2, <1>4, <1>7, <1>22 DEF Inv, LevelsLoaded, Level
<1>23. LevelsGrown' /\ LoadedTogether'
  <2>1. ASSUME NEW u \in Thread, NEW i \in 1 .. NumLevels, Master(u)
        PROVE  Grown(u, i)' <=> Grown(u, i)
    BY <1>1, <1>2, <1>4, <2>1 DEF Grown
  <2>2. ASSUME NEW u \in Thread, NEW k \in 1 .. NumLevels, threadId[u] = 0, BackFrom(u, k)'
        PROVE  BackFrom(u, k)
    <3>1. Master(u)
      BY <2>2 DEF Inv, DomainsOwned
    <3> QED  BY <1>1, <1>2, <1>4, <2>2, <3>1 DEF BackFrom
  <2> QED  BY <1>1, <1>7, <2>1, <2>2, GrownKept, TogetherKept
<1> QED  BY <1>3, <1>9, <1>10, <1>11, <1>12, <1>13, <1>14, <1>15, <1>16, <1>17, <1>18, <1>19,
            <1>20, <1>21, <1>23 DEF Inv

LEMMA StartReportStep ==
  ASSUME Inv, NEW t \in Thread, StartReport(t)
  PROVE  Inv'
<1>1. /\ UNCHANGED <<setup, initialized, domains, masterThreads, threadId, domainId, once,
                     onceMutex, containers, typeSize, mpiExtent, levels, usable, joined, err,
                     data, calls>>
      /\ pc[t] = "other" /\ StartBarrier(t) /\ SyncInv
      /\ pc' = [pc EXCEPT ![t] = "report"]
  BY DEF StartReport, Inv, Goto, numaVars, onceVars, typeVars, levelVars
<1>2. /\ SyncInv'
      /\ \A u \in Thread : at'[u] = IF u = t THEN "start" ELSE at[u]
      /\ UNCHANGED <<last, syncedThreads, finishing>>
      /\ at[t] = "out"
  BY <1>1, StartBarrierSync DEF StartBarrier
<1>3. /\ \A u \in Thread : pc'[u] = IF u = t THEN "report" ELSE pc[u]
      /\ initialized = TRUE /\ calls[t] \in 1 .. NumLevels
      /\ Completed(t) = calls[t] /\ setup \in Setup
  BY <1>1, PlaceFacts DEF Inv, TypeOK
<1>4. /\ \A u \in Thread : Arrived(u)' <=> Arrived(u)
      /\ \A u \in Thread : Complete(u)' <=> Complete(u)
      /\ ~Arrived(t) /\ ~Complete(t)
  BY <1>2 DEF Arrived, Complete, Waiting
<1>5. Registered' = Registered
  BY <1>1, <1>3 DEF Registered
<1>6. \A u \in Thread : (Master(u)' <=> Master(u)) /\ (HasId(u)' <=> HasId(u))
  BY <1>1 DEF Master, HasId
<1>7. \A u \in Thread : Completed(u)' = Completed(u)
  <2>1. \A u \in Thread : u # t => Completed(u)' = Completed(u)
    BY <1>1, <1>3, <1>4 DEF Completed
  <2>2. Completed(t)' = calls[t]
    BY <1>1, <1>3, <1>4 DEF Completed, One
  <2> QED  BY <1>3, <2>1, <2>2
<1>21. \A u \in Thread : FailsAlone(u)' <=> FailsAlone(u)
  BY <1>1 DEF FailsAlone, Level
<1>8. TypeOK'
  <2>1. "report" \in PC
    BY DEF PC
  <2> QED  BY <1>1, <1>2, <2>1 DEF Inv, TypeOK, SyncInv
<1>9. CallsBegun'
  BY <1>1, <1>2, <1>3, <1>6 DEF Inv, CallsBegun, MasterPC
<1>10. LastIsRoot'
  BY <1>1, <1>2, <1>3, <1>4 DEF Inv, LastIsRoot
<1>11. IdsGiven'
  BY <1>1, <1>2, <1>3, <1>4, <1>5, <1>6 DEF Inv, IdsGiven
<1>12. DomainsOwned'
  BY <1>1, <1>6 DEF Inv, DomainsOwned, TotalDomains
<1>13. ContainersReady'
  BY <1>1, <1>3, <1>6 DEF Inv, ContainersReady, TotalDomains
<1>14. RoundsEqual'
  BY <1>7 DEF Inv, RoundsEqual
<1>15. Results'
  <2>1. \A k \in 1 .. NumLevels : Owed(k)' = Owed(k)
    BY <1>1, OwedKept
  <2>2. \A u \in Thread, k \in 1 .. NumLevels : OwnResult(u, k)' = OwnResult(u, k)
    BY <1>6, <1>21, <2>1 DEF OwnResult
  <2> HIDE DEF OwnResult
  <2> QED  BY <1>1, <1>3, <1>21, <2>1, <2>2 DEF Inv, Results, MasterPC
<1>16. RootOffers'
  BY <1>1, <1>3, <1>4 DEF Inv, RootOffers
<1>17. RootStays'
  BY <1>1, <1>2, <1>3, <1>4 DEF Inv, RootStays
<1>18. SizeKnown'
  <2>1. \A k \in 1 .. NumLevels : FirstFit(k)' <=> FirstFit(k)
    BY <1>1, OwedKept
  <2>2. ASSUME NEW u \in Thread, NEW i \in 1 .. NumLevels, Checked(u, i)'
        PROVE  Checked(u, i)
    BY <1>1, <1>3, <1>21, <2>2 DEF Checked
  <2> QED  BY <1>1, <1>3, <1>6, <1>7, <2>1, <2>2 DEF Inv, SizeKnown, ElementSize
<1>19. JoinedEqually'
  <2>1. \A u \in Thread : JoinedNow(u)' = JoinedNow(u)
    <3>1. \A u \in Thread : One(Grows(calls[u]))' = One(Grows(calls[u]))
      BY <1>1 DEF Grows
    <3>2. /\ UNCHANGED <<setup, calls>>
          /\ \A u \in Thread \ {t} : pc'[u] = pc[u] /\ (Complete(u)' <=> Complete(u)) /\ err'[u] = err[u]
      BY <1>1, <1>3, <1>4
    <3>3. JoinedNow(t)' = JoinedNow(t)
      BY <1>1, <1>3, <3>1, <1>4 DEF JoinedNow
    <3>4. \A u \in Thread \ {t} : JoinedNow(u)' = JoinedNow(u)
      BY <3>1, <3>2 DEF JoinedNow
    <3> QED  BY <3>3, <3>4
  <2> HIDE DEF JoinedNow
  <2> QED  BY <1>1, <1>3, <1>6, <2>1 DEF Inv, JoinedEqually
<1>20. LevelsLoaded'
  BY <1>1, <1>3, <1>6, <1>21 DEF Inv, LevelsLoaded, Level
<1>22. LevelsGrown' /\ LoadedTogether'
  <2>1. \A u \in Thread, i \in 1 .. NumLevels : Master(u) => (Grown(u, i)' <=> Grown(u, i))
    BY <1>1, <1>3 DEF Grown
  <2>2. \A u \in Thread, k \in 1 .. NumLevels : threadId[u] = 0 /\ BackFrom(u, k)' => BackFrom(u, k)
    BY <1>1, <1>3 DEF BackFrom
  <2> QED  BY <1>1, <1>6, <2>1, <2>2, GrownKept, TogetherKept
<1> QED  BY <1>2, <1>8, <1>9, <1>10, <1>11, <1>12, <1>13, <1>14, <1>15, <1>16, <1>17, <1>18,
            <1>19, <1>20, <1>22 DEF Inv

(* The thread that returns copies what open() owes: the root is still in   *)
(* the broadcast of the same call, with the result of its own domain,      *)
(* which does not fail alone.                                              *)
LEMMA ReturnStep ==
  ASSUME Inv, NEW t \in Thread, Return(t)
  PROVE  Inv'
<1>1. /\ UNCHANGED <<setup, initialized, domains, masterThreads, threadId, domainId, once,
                     onceMutex, containers, typeSize, mpiExtent, levels, usable, joined,
                     data, calls>>
      /\ pc[t] = "report" /\ EndBarrier(t) /\ SyncInv
      /\ err' = [err EXCEPT ![t] = err[data]]
      /\ pc' = [pc EXCEPT ![t] = "idle"]
  BY DEF Return, Inv, Goto, numaVars, onceVars, typeVars, levelVars
<1>2. /\ SyncInv'
      /\ at[t] = "through"
      /\ \A u \in Thread : at'[u] = IF u = t THEN "out" ELSE at[u]
      /\ UNCHANGED <<last, syncedThreads, finishing>>
  BY <1>1, EndBarrierSync
<1>3. /\ \A u \in Thread : pc'[u] = IF u = t THEN "idle" ELSE pc[u]
      /\ Complete(t) /\ Arrived(t) /\ initialized = TRUE /\ calls[t] \in 1 .. NumLevels
      /\ Completed(t) = calls[t] + 1 /\ setup \in Setup
  <2>1. Complete(t)
    BY <1>2 DEF Complete
  <2> QED  BY <1>1, <2>1, PlaceFacts DEF Inv, TypeOK
<1>4. /\ \A u \in Thread : Arrived(u)' <=> u # t /\ Arrived(u)
      /\ \A u \in Thread : Complete(u)' <=> u # t /\ Complete(u)
  BY <1>2 DEF Arrived, Complete, Waiting
<1>5. PICK r \in Thread :
        /\ threadId[r] = 0 /\ Master(r) /\ ~FailsAlone(r)
        /\ pc[r] = "report" /\ calls[r] = calls[t]
        /\ \A u \in Thread : err'[u] = IF u = t THEN Owed(calls[t]) ELSE err[u]
  <2>1. PICK r \in Thread : threadId[r] = 0 /\ Master(r)
    BY <1>3, RootFacts
  <2>2. pc[r] = "report" /\ Complete(r)
    BY <1>1, <1>3, <2>1 DEF Inv, RootStays
  <2>3. data = r
    BY <2>1, <2>2, PlaceFacts DEF Inv, RootOffers
  <2>4. calls[r] = calls[t]
    <3>1. Completed(r) = calls[r] + 1 /\ calls[r] \in 0 .. NumLevels
      BY <2>2, PlaceFacts
    <3>2. Completed(r) = Completed(t)
      BY DEF Inv, RoundsEqual
    <3> QED  BY <1>3, <3>1, <3>2
  <2>5. ~FailsAlone(r) /\ OwnResult(r, calls[t]) = Owed(calls[t])
    BY <2>1, RootDoesNotFail
  <2>6. err[r] = OwnResult(r, calls[t])
    BY <1>3, <2>2, <2>4 DEF Inv, Results
  <2>7. \A u \in Thread : err'[u] = IF u = t THEN err[data] ELSE err[u]
    BY <1>1 DEF Inv, TypeOK
  <2> QED  BY <2>1, <2>2, <2>3, <2>4, <2>5, <2>6, <2>7
<1>22. \A u \in Thread : FailsAlone(u)' <=> FailsAlone(u)
  BY <1>1 DEF FailsAlone, Level
<1>6. Registered' = Registered
  BY <1>1, <1>3 DEF Registered
<1>7. \A u \in Thread : (Master(u)' <=> Master(u)) /\ (HasId(u)' <=> HasId(u))
  BY <1>1 DEF Master, HasId
<1>8. \A u \in Thread : Completed(u)' = Completed(u)
  <2>1. \A u \in Thread : u # t => Completed(u)' = Completed(u)
    BY <1>1, <1>3, <1>4 DEF Completed
  <2>2. Completed(t)' = calls[t] + 1
    BY <1>1, <1>3, <1>4 DEF Completed, One
  <2> QED  BY <1>3, <2>1, <2>2
<1>9. TypeOK'
  <2>1. "idle" \in PC
    BY DEF PC
  <2>2. Owed(calls[t]) \in Error
    BY <1>3, OwedFacts
  <2>3. err' \in [Thread -> Error]
    BY <1>1, <1>5, <2>2 DEF Inv, TypeOK
  <2> QED  BY <1>1, <1>2, <2>1, <2>3 DEF Inv, TypeOK, SyncInv
<1>10. CallsBegun'
  BY <1>1, <1>2, <1>3, <1>7 DEF Inv, CallsBegun, MasterPC
<1>11. LastIsRoot'
  BY <1>1, <1>2, <1>3, <1>4 DEF Inv, LastIsRoot
<1>12. IdsGiven'
  BY <1>1, <1>2, <1>3, <1>4, <1>6, <1>7 DEF Inv, IdsGiven
<1>13. DomainsOwned'
  BY <1>1, <1>7 DEF Inv, DomainsOwned, TotalDomains
<1>14. ContainersReady'
  BY <1>1, <1>3, <1>7 DEF Inv, ContainersReady, TotalDomains
<1>15. RoundsEqual'
  BY <1>8 DEF Inv, RoundsEqual
<1>16. Results'
  <2>1. \A k \in 1 .. NumLevels : Owed(k)' = Owed(k)
    BY <1>1, OwedKept
  <2>2. \A u \in Thread, k \in 1 .. NumLevels : OwnResult(u, k)' = OwnResult(u, k)
    BY <1>7, <1>22, <2>1 DEF OwnResult
  <2> HIDE DEF OwnResult
  <2> QED  BY <1>1, <1>3, <1>5, <1>22, <2>1, <2>2 DEF Inv, Results, MasterPC
<1>17. RootOffers'
  BY <1>1, <1>3, <1>4 DEF Inv, RootOffers
<1>18. RootStays'
  BY <1>1, <1>2, <1>3, <1>4 DEF Inv, RootStays
<1>19. SizeKnown'
  <2>1. \A k \in 1 .. NumLevels : FirstFit(k)' <=> FirstFit(k)
    BY <1>1, OwedKept
  <2>2. ASSUME NEW u \in Thread, NEW i \in 1 .. NumLevels, Checked(u, i)'
        PROVE  Checked(u, i) \/ Checked(r, i)
    BY <1>1, <1>3, <1>5, <1>22, <2>2 DEF Checked
  <2> QED  BY <1>1, <1>3, <1>5, <1>7, <1>8, <2>1, <2>2 DEF Inv, SizeKnown, ElementSize
<1>20. JoinedEqually'
  <2>1. \A u \in Thread : JoinedNow(u)' = JoinedNow(u)
    <3>1. \A u \in Thread : One(Grows(calls[u]))' = One(Grows(calls[u]))
      BY <1>1 DEF Grows
    <3>2. /\ UNCHANGED <<setup, calls>>
          /\ \A u \in Thread \ {t} : pc'[u] = pc[u] /\ (Complete(u)' <=> Complete(u)) /\ err'[u] = err[u]
      BY <1>1, <1>3, <1>4, <1>5
    <3>3. JoinedNow(t)' = JoinedNow(t)
      BY <1>1, <1>3, <3>1, <1>4, <1>5 DEF JoinedNow
    <3>4. \A u \in Thread \ {t} : JoinedNow(u)' = JoinedNow(u)
      BY <3>1, <3>2 DEF JoinedNow
    <3> QED  BY <3>3, <3>4
  <2> HIDE DEF JoinedNow
  <2> QED  BY <1>1, <1>3, <1>7, <2>1 DEF Inv, JoinedEqually
<1>21. LevelsLoaded'
  <2>1. ASSUME NEW u \in Thread, Master(u)', calls'[u] > 0, ~FailsAlone(u)',
               pc'[u] \in {"other", "report", "idle"}, err'[u] = Success
        PROVE  Level(u)' \in usable'[u]
    <3>1. Master(u) /\ ~FailsAlone(u) /\ Level(u)' = Level(u) /\ calls[u] > 0
      BY <1>1, <1>7, <1>22, <2>1 DEF Level
    <3>2. CASE u = t
      <4>1. err[t] = OwnResult(t, calls[t]) /\ OwnResult(t, calls[t]) = Owed(calls[t])
        BY <1>1, <1>3, <3>1, <3>2 DEF Inv, Results, OwnResult
      <4>2. err[t] = Success
        BY <1>5, <2>1, <3>2, <4>1
      <4> QED  BY <1>1, <3>1, <3>2, <4>2 DEF Inv, LevelsLoaded
    <3>3. CASE u # t
      BY <1>1, <1>3, <1>5, <2>1, <3>1, <3>3 DEF Inv, LevelsLoaded
    <3> QED  BY <3>2, <3>3
  <2> QED  BY <2>1 DEF LevelsLoaded
<1>23. LevelsGrown' /\ LoadedTogether'
  <2>1. \A u \in Thread, i \in 1 .. NumLevels : Master(u) => (Grown(u, i)' <=> Grown(u, i))
    BY <1>1, <1>3 DEF Grown
  <2>2. \A u \in Thread, k \in 1 .. NumLevels : threadId[u] = 0 /\ BackFrom(u, k)' => BackFrom(u, k)
    BY <1>1, <1>3 DEF BackFrom
  <2> QED  BY <1>1, <1>7, <2>1, <2>2, GrownKept, TogetherKept
<1> QED  BY <1>2, <1>9, <1>10, <1>11, <1>12, <1>13, <1>14, <1>15, <1>16, <1>17, <1>18, <1>19,
            <1>20, <1>21, <1>23 DEF Inv

(* When the last thread arrives in the broadcast, all are in the broadcast *)
(* of the same call.                                                       *)
LEMMA OfferStep ==
  ASSUME Inv, NEW t \in Thread, Offer(t)
  PROVE  Inv'
<1>1. /\ UNCHANGED <<setup, initialized, domains, masterThreads, threadId, domainId, once,
                     onceMutex, containers, typeSize, mpiExtent, levels, usable, joined, err,
                     calls, pc>>
      /\ pc[t] = "report" /\ at[t] = "inside" /\ SyncInv
      /\ data' = IF threadId[t] = 0 THEN t ELSE data
      /\ Arrive(t, threadId[t] = 0)
  BY DEF Offer, Inv, numaVars, onceVars, typeVars, levelVars
<1>2. /\ SyncInv'
      /\ \A u \in Thread : ~Complete(u)
      /\ \A u \in Thread : Arrived(u)' <=> u = t \/ Arrived(u)
      /\ \A u \in Thread : at'[u] = "out" <=> at[u] = "out"
      /\ \A u \in Thread : last'[u] = IF u = t THEN threadId[t] = 0 ELSE last[u]
      /\ ~Arrived(t)
      /\ IF syncedThreads' = NumThreads
         THEN \A u \in Thread : Arrived(u)' /\ Complete(u)' /\ at'[u] # "through"
         ELSE \A u \in Thread : ~Complete(u)'
  <2>1. (threadId[t] = 0) \in BOOLEAN
    OBVIOUS
  <2> QED  BY <1>1, <2>1, ArriveSync
<1>3. PICK c \in 1 .. NumLevels :
        /\ c = calls[t]
        /\ initialized = TRUE /\ setup \in Setup
        /\ \A u \in Thread : Completed(u) = c
  <2>1. Completed(t) = calls[t] /\ calls[t] \in 1 .. NumLevels /\ initialized = TRUE
    BY <1>1, <1>2, PlaceFacts
  <2>2. \A u \in Thread : Completed(u) = calls[t]
    BY <2>1 DEF Inv, RoundsEqual
  <2> QED  BY <2>1, <2>2 DEF Inv, TypeOK
<1>4. ASSUME syncedThreads' = NumThreads, NEW u \in Thread
      PROVE  pc[u] = "report" /\ calls[u] = c
  <2>1. Arrived(u)'
    BY <1>2, <1>4
  <2>2. u = t \/ Arrived(u)
    BY <1>2, <2>1
  <2>3. pc[u] \in {"register", "report"}
    BY <1>1, <2>2, PlaceFacts
  <2>4. pc[u] # "register"
    BY <1>2, <1>3, PlaceFacts
  <2>5. pc[u] = "report"
    BY <2>3, <2>4
  <2> QED  BY <1>2, <1>3, <2>5, PlaceFacts
<1>5. /\ \A u \in Thread : Completed(u)' = IF syncedThreads' = NumThreads THEN c + 1 ELSE c
  <2>1. CASE syncedThreads' = NumThreads
    <3>1. \A u \in Thread : Completed(u)' = c + 1
      BY <1>1, <1>2, <1>4, <2>1 DEF Completed, One
    <3> QED  BY <2>1, <3>1
  <2>2. CASE syncedThreads' # NumThreads
    <3>1. \A u \in Thread : Completed(u)' = Completed(u)
      BY <1>1, <1>2, <2>2 DEF Completed
    <3> QED  BY <1>3, <2>2, <3>1
  <2> QED  BY <2>1, <2>2
<1>6. /\ Registered' = Registered
      /\ \A u \in Thread : (Master(u)' <=> Master(u)) /\ (HasId(u)' <=> HasId(u))
  BY <1>1 DEF Registered, Master, HasId
<1>7. TypeOK'
  BY <1>1, <1>2 DEF Inv, TypeOK, SyncInv
<1>8. CallsBegun'
  BY <1>1, <1>2, <1>6 DEF Inv, CallsBegun
<1>9. LastIsRoot'
  BY <1>1, <1>2 DEF Inv, LastIsRoot
<1>10. IdsGiven'
  <2>1. ASSUME NEW u \in Thread
        PROVE  HasId(u)' <=> u \in Registered' \/ (pc'[u] = "register" /\ Arrived(u)')
    BY <1>1, <1>2, <1>6 DEF Inv, IdsGiven
  <2> QED  BY <1>1, <1>3, <1>6, <2>1 DEF Inv, IdsGiven
<1>11. DomainsOwned'
  BY <1>1, <1>6 DEF Inv, DomainsOwned, TotalDomains
<1>12. ContainersReady'
  BY <1>1, <1>6 DEF Inv, ContainersReady, TotalDomains
<1>13. RoundsEqual'
  BY <1>5 DEF RoundsEqual
<1>14. Results'
  BY <1>1, <1>6, OwedKept DEF Inv, Results, OwnResult, FailsAlone, Level
<1>15. RootOffers'
  <2> SUFFICES ASSUME NEW u \in Thread, threadId[u] = 0,
                      (pc[u] = "report" /\ Arrived(u)') \/ (pc[u] = "idle" /\ calls[u] > 0) \/ calls[u] > 1
               PROVE  data' = u
    BY <1>1 DEF RootOffers
  <2>1. CASE u = t
    BY <1>1, <2>1
  <2>2. CASE u # t
    <3>1. data = u
      BY <1>2, <2>2 DEF Inv, RootOffers
    <3>2. threadId[t] # 0
      BY <2>2, NumThreadsFacts DEF Inv, IdsGiven, HasId, NoId
    <3> QED  BY <1>1, <3>1, <3>2
  <2> QED  BY <2>1, <2>2
<1>16. RootStays'
  BY <1>1, <1>2, <1>4 DEF RootStays
<1>17. SizeKnown'
  <2>1. \A k \in 1 .. NumLevels : FirstFit(k)' <=> FirstFit(k)
    BY <1>1, OwedKept
  <2>2. \A i \in 1 .. NumLevels : \A u \in Thread : i <= Completed(u) => i <= Completed(u)'
    BY <1>3, <1>5
  <2>3. ASSUME NEW u \in Thread, NEW i \in 1 .. NumLevels, Checked(u, i)'
        PROVE  Checked(u, i)
    BY <1>1, <2>3 DEF Checked, FailsAlone, Level
  <2> QED  BY <1>1, <1>6, <2>1, <2>2, <2>3 DEF Inv, SizeKnown, ElementSize
<1>18. JoinedEqually'
  <2>1. \A u, v \in Thread : Master(u) /\ Master(v) =>
              joined[u] - JoinedNow(u)' = joined[v] - JoinedNow(v)'
    <3>1. CASE syncedThreads' = NumThreads
      <4>1. \A u \in Thread : JoinedNow(u)' = 0
        BY <1>1, <1>2, <1>4, <3>1 DEF JoinedNow
      <4>2. \A u \in Thread : Master(u) =>
              JoinedNow(u) = One(Grows(c)) + One(Owed(c) = Success /\ ~setup.passThrough)
        <5>1. ASSUME NEW u \in Thread, Master(u), ~setup.passThrough
              PROVE  err[u] = Success <=> Owed(c) = Success
          <6>1. err[u] = IF FailsAlone(u) THEN "NOT_OPEN" ELSE Owed(c)
            BY <1>4, <3>1, <5>1 DEF Inv, Results, OwnResult
          <6>2. PICK r \in Thread : threadId[r] = 0
            BY <1>3, RootFacts
          <6>3. BackFrom(r, c)
            BY <1>4, <3>1 DEF BackFrom
          <6>4. Owed(c) = Success => <<setup.order[c], domainId[u]>> \notin setup.failing
            BY <5>1, <6>2, <6>3 DEF Inv, LoadedTogether
          <6>5. Owed(c) = Success => ~FailsAlone(u)
            BY <1>4, <3>1, <6>4 DEF FailsAlone, Level
          <6> QED  BY <6>1, <6>5 DEF Success
        <5>2. ASSUME NEW u \in Thread, Master(u)
              PROVE  JoinedNow(u) = One(Grows(c)) + One(Owed(c) = Success /\ ~setup.passThrough)
          <6>1. JoinedNow(u) = One(Grows(c)) + One(err[u] = Success /\ ~setup.passThrough)
            BY <1>2, <1>4, <3>1 DEF JoinedNow
          <6> QED  BY <5>1, <5>2, <6>1
        <5> QED  BY <5>2
      <4>3. \A u \in Thread : joined[u] \in 0 .. 2 * NumLevels
        BY DEF Inv, TypeOK
      <4>5. One(Grows(c)) \in Nat /\ One(Owed(c) = Success /\ ~setup.passThrough) \in Nat
        BY DEF One
      <4> HIDE DEF JoinedNow
      <4>4. \A u, v \in Thread : Master(u) /\ Master(v) => joined[u] = joined[v]
        BY <4>2, <4>3, <4>5 DEF Inv, JoinedEqually
      <4> QED  BY <4>1, <4>4
    <3>2. CASE syncedThreads' # NumThreads
      <4>1. \A u \in Thread : JoinedNow(u)' = JoinedNow(u)
        BY <1>1, <1>2, <3>2 DEF JoinedNow, Grows
      <4> HIDE DEF JoinedNow
      <4> QED  BY <4>1 DEF Inv, JoinedEqually
    <3> QED  BY <3>1, <3>2
  <2> HIDE DEF JoinedNow
  <2> QED  BY <1>1, <1>6, <2>1 DEF Inv, JoinedEqually
<1>19. LevelsLoaded'
  BY <1>1, <1>6 DEF Inv, LevelsLoaded, FailsAlone, Level
<1>20. LevelsGrown' /\ LoadedTogether'
  <2>1. \A u \in Thread, i \in 1 .. NumLevels : Master(u) => (Grown(u, i)' <=> Grown(u, i))
    BY <1>1 DEF Grown
  <2>2. \A u \in Thread, k \in 1 .. NumLevels : threadId[u] = 0 /\ BackFrom(u, k)' => BackFrom(u, k)
    BY <1>1 DEF BackFrom
  <2> QED  BY <1>1, <1>6, <2>1, <2>2, GrownKept, TogetherKept
<1> QED  BY <1>2, <1>7, <1>8, <1>9, <1>10, <1>11, <1>12, <1>13, <1>14, <1>15, <1>16, <1>17,
            <1>18, <1>19, <1>20 DEF Inv

(* A known node has the id that is its place in the sequence, a new one    *)
(* the next id.                                                            *)
LEMMA DomainFacts ==
  ASSUME domains \in Seq(Node), NEW node \in Node
  PROVE  /\ TotalDomains \in Nat
         /\ DomainIdOf(node) \in 0 .. TotalDomains
         /\ DomainIdOf(node) = TotalDomains <=> \A i \in 1 .. TotalDomains : domains[i] # node
<1>1. TotalDomains \in Nat
  BY DEF TotalDomains
<1>2. CASE \E i \in 1 .. TotalDomains : domains[i] = node
  <2>1. PICK i \in 1 .. TotalDomains : i = CHOOSE j \in 1 .. TotalDomains : domains[j] = node
    BY <1>2
  <2> QED  BY <1>1, <1>2, <2>1 DEF DomainIdOf
<1>3. CASE ~ \E i \in 1 .. TotalDomains : domains[i] = node
  BY <1>1, <1>3 DEF DomainIdOf
<1> QED  BY <1>1, <1>2, <1>3

(* There are not more domains than nodes.                                  *)
LEMMA DomainsBounded ==
  ASSUME NEW s \in Seq(Node), \A i, j \in 1 .. Len(s) : s[i] = s[j] => i = j
  PROVE  Len(s) <= Cardinality(Node)
<1>1. s \in Injection(1 .. Len(s), Node)
  BY DEF Injection, IsInjective
<1>2. Cardinality(1 .. Len(s)) <= Cardinality(Node)
  BY <1>1, GridOpenAssumption, FS_Injection
<1>3. Len(s) \in Nat /\ Len(s) \in Int /\ 1 \in Int
  OBVIOUS
<1>4. Cardinality(1 .. Len(s)) = IF 1 > Len(s) THEN 0 ELSE Len(s) - 1 + 1
  BY <1>3, FS_Interval
<1> QED  BY <1>2, <1>3, <1>4

LEMMA RegisterStep ==
  ASSUME Inv, NEW t \in Thread, NEW node \in Node, Register(t, node)
  PROVE  Inv'
<1> DEFINE New == DomainIdOf(node) = TotalDomains
<1>1. /\ UNCHANGED <<setup, once, onceMutex, containers, typeSize, mpiExtent, levels, usable,
                     joined, err, data, calls, pc>>
      /\ pc[t] = "register" /\ at[t] = "inside" /\ SyncInv
      /\ threadId' = [threadId EXCEPT ![t] = syncedThreads]
      /\ domainId' = [domainId EXCEPT ![t] = DomainIdOf(node)]
      /\ \/ New /\ domains' = Append(domains, node)
            /\ masterThreads' = masterThreads \cup {syncedThreads}
         \/ ~New /\ domains' = domains /\ masterThreads' = masterThreads
      /\ initialized' = (initialized \/ LastToRegister)
      /\ Arrive(t, FALSE)
  BY DEF Register, Inv, onceVars, typeVars, levelVars, callVars
<1>2. /\ SyncInv'
      /\ \A u \in Thread : ~Complete(u)
      /\ \A u \in Thread : Arrived(u)' <=> u = t \/ Arrived(u)
      /\ \A u \in Thread : at'[u] = "out" <=> at[u] = "out"
      /\ \A u \in Thread : last'[u] = IF u = t THEN FALSE ELSE last[u]
      /\ ~Arrived(t) /\ syncedThreads' = syncedThreads + 1
      /\ syncedThreads < NumThreads
      /\ IF syncedThreads' = NumThreads
         THEN \A u \in Thread : Arrived(u)' /\ Complete(u)' /\ at'[u] # "through"
         ELSE \A u \in Thread : ~Complete(u)'
  BY <1>1, ArriveSync
<1>3. /\ initialized = FALSE /\ ~HasId(t) /\ syncedThreads \in Nat /\ NumThreads \in Nat
      /\ calls[t] = 1 /\ t \notin Registered
      /\ \A u \in Thread : pc[u] = "register" \/ calls[u] = 0
      /\ \A u \in Thread : threadId[u] < syncedThreads
      /\ \A u \in Thread : threadId[u] \in NoId .. NumThreads - 1
      /\ initialized' \in BOOLEAN /\ (initialized' <=> syncedThreads' = NumThreads)
  <2>1. t \notin Registered /\ ~HasId(t)
    BY <1>1, <1>2 DEF Registered, Inv, IdsGiven
  <2>2. initialized = FALSE
    BY <2>1 DEF Inv, IdsGiven, TypeOK
  <2>3. syncedThreads \in Nat /\ NumThreads \in Nat
    BY NumThreadsFacts DEF Inv, SyncInv, SyncTypeOK
  <2>4. initialized' \in BOOLEAN /\ (initialized' <=> syncedThreads' = NumThreads)
    <3>1. LastToRegister <=> syncedThreads' = NumThreads
      BY <1>2, <2>3 DEF LastToRegister
    <3>2. LastToRegister \in BOOLEAN
      BY DEF LastToRegister
    <3>3. initialized' = LastToRegister
      BY <1>1, <2>2, <3>2
    <3> QED  BY <3>1, <3>2, <3>3
  <2> QED  BY <1>1, <2>1, <2>2, <2>3, <2>4, PlaceFacts DEF Inv, IdsGiven, TypeOK
<1>4. /\ \A u \in Thread : threadId'[u] = IF u = t THEN syncedThreads ELSE threadId[u]
      /\ \A u \in Thread : domainId'[u] = IF u = t THEN DomainIdOf(node) ELSE domainId[u]
  BY <1>1 DEF Inv, TypeOK
<1>5. /\ TotalDomains \in Nat /\ DomainIdOf(node) \in 0 .. TotalDomains
      /\ New <=> \A i \in 1 .. TotalDomains : domains[i] # node
  BY DomainFacts DEF Inv, TypeOK
<1>6. /\ TotalDomains' = IF New THEN TotalDomains + 1 ELSE TotalDomains
      /\ \A i \in 1 .. TotalDomains : domains'[i] = domains[i]
      /\ New => domains'[TotalDomains + 1] = node
      /\ domains' \in Seq(Node)
  <2> HIDE DEF New
  <2>1. domains \in Seq(Node)
    BY DEF Inv, TypeOK
  <2>2. CASE New
    <3>1. domains' = Append(domains, node)
      BY <1>1, <2>2
    <3>2. /\ Len(domains') = Len(domains) + 1 /\ domains' \in Seq(Node)
          /\ \A i \in 1 .. Len(domains) : domains'[i] = domains[i]
          /\ domains'[Len(domains) + 1] = node
      BY <2>1, <3>1
    <3> QED  BY <2>2, <3>2 DEF TotalDomains
  <2>3. CASE ~New
    <3>1. domains' = domains
      BY <1>1, <2>3
    <3> QED  BY <2>1, <2>3, <3>1 DEF TotalDomains
  <2> QED  BY <2>2, <2>3
<1> HIDE DEF New
<1>7. /\ \A u \in Thread : u # t => (Master(u)' <=> Master(u))
      /\ Master(t)' <=> New
      /\ ~Master(t)
      /\ \A m \in masterThreads : m < syncedThreads
  <2>1. \A m \in masterThreads : m \in Nat /\ m < syncedThreads
    <3>1. \A m \in masterThreads : \E u \in Thread : threadId[u] = m
      BY DEF Inv, DomainsOwned
    <3>2. masterThreads \subseteq 0 .. NumThreads - 1
      BY DEF Inv, TypeOK
    <3> QED  BY <1>3, <3>1, <3>2
  <2>2. threadId[t] \notin masterThreads
    BY <1>3, <2>1 DEF HasId, NoId
  <2>3. \A u \in Thread : threadId[u] # syncedThreads
    BY <1>3 DEF NoId
  <2>4. syncedThreads \notin masterThreads
    BY <1>3, <2>1
  <2> QED  BY <1>1, <1>4, <2>1, <2>2, <2>3, <2>4 DEF Master
<1>8. /\ \A u \in Thread : HasId(u)' <=> u = t \/ HasId(u)
      /\ Registered' = Registered
  BY <1>1, <1>3, <1>4 DEF HasId, NoId, Registered
<1>9. ASSUME syncedThreads' = NumThreads, NEW u \in Thread
      PROVE  pc[u] = "register" /\ calls[u] = 1
  <2>1. at'[u] # "out"
    BY <1>2, <1>9 DEF Arrived, Waiting
  <2>2. pc[u] # "idle"
    BY <1>2, <2>1 DEF Inv, CallsBegun
  <2> QED  BY <1>3, <2>2, PlaceFacts
<1>10. \A u \in Thread :
         Completed(u) = 0 /\ Completed(u)' = IF syncedThreads' = NumThreads THEN 1 ELSE 0
  <2>1. \A u \in Thread : Completed(u) = 0
    <3>1. Completed(t) = 0
      BY <1>1, <1>2, PlaceFacts
    <3> QED  BY <3>1 DEF Inv, RoundsEqual
  <2>2. CASE syncedThreads' = NumThreads
    <3>1. \A u \in Thread : Completed(u)' = 1
      BY <1>1, <1>2, <1>9, <2>2 DEF Completed, One
    <3> QED  BY <2>1, <2>2, <3>1
  <2>3. CASE syncedThreads' # NumThreads
    <3>1. \A u \in Thread : Completed(u)' = Completed(u)
      BY <1>1, <1>2, <2>3 DEF Completed
    <3> QED  BY <2>1, <2>3, <3>1
  <2> QED  BY <2>2, <2>3
<1>11. \A i, j \in 1 .. TotalDomains' : domains'[i] = domains'[j] => i = j
  <2>1. \A i, j \in 1 .. TotalDomains : domains[i] = domains[j] => i = j
    BY DEF Inv, DomainsOwned
  <2> QED  BY <1>5, <1>6, <2>1
<1>12. TypeOK'
  <2>1. Len(domains') <= Cardinality(Node) /\ TotalDomains' <= Cardinality(Node)
    BY <1>6, <1>11, DomainsBounded DEF TotalDomains
  <2>2. Cardinality(Node) \in Nat
    BY GridOpenAssumption, FS_CardinalityType
  <2>3. threadId' \in [Thread -> NoId .. NumThreads - 1]
    <3>1. syncedThreads \in NoId .. NumThreads - 1
      BY <1>2, <1>3 DEF NoId
    <3> QED  BY <1>1, <3>1 DEF Inv, TypeOK
  <2>4. domainId' \in [Thread -> (0 .. Cardinality(Node) - 1) \cup {NoDomain}]
    <3>1. DomainIdOf(node) \in 0 .. Cardinality(Node) - 1
      BY <1>5, <1>6, <2>1, <2>2 DEF New
    <3> QED  BY <1>1, <3>1 DEF Inv, TypeOK
  <2>5. masterThreads' \subseteq 0 .. NumThreads - 1
    <3>1. syncedThreads \in 0 .. NumThreads - 1
      BY <1>2, <1>3
    <3> QED  BY <1>1, <3>1 DEF Inv, TypeOK
  <2> QED  BY <1>1, <1>2, <1>3, <1>6, <2>1, <2>3, <2>4, <2>5 DEF Inv, TypeOK, SyncInv
<1>13. CallsBegun'
  BY <1>1, <1>2, <1>7 DEF Inv, CallsBegun, MasterPC
<1>14. LastIsRoot'
  <2> SUFFICES ASSUME NEW u \in Thread, Arrived(u)'
               PROVE  last'[u] <=> pc'[u] = "report" /\ threadId'[u] = 0
    BY DEF LastIsRoot
  <2>1. CASE u = t
    BY <1>1, <1>2, <2>1
  <2>2. CASE u # t
    <3>1. Arrived(u) /\ last'[u] = last[u] /\ threadId'[u] = threadId[u] /\ pc'[u] = pc[u]
      BY <1>1, <1>2, <1>4, <2>2
    <3> QED  BY <3>1 DEF Inv, LastIsRoot
  <2> QED  BY <2>1, <2>2
<1>15. IdsGiven'
  <2>1. ASSUME NEW u \in Thread
        PROVE  /\ HasId(u)' <=> u \in Registered' \/ (pc'[u] = "register" /\ Arrived(u)')
               /\ HasId(u)' => \A v \in Thread : threadId'[v] = threadId'[u] => v = u
               /\ initialized' => HasId(u)'
               /\ ~initialized' => ~Complete(u)' /\ (pc'[u] = "register" \/ calls'[u] = 0)
    <3>1. HasId(u)' <=> u \in Registered' \/ (pc'[u] = "register" /\ Arrived(u)')
      BY <1>1, <1>2, <1>8 DEF Inv, IdsGiven
    <3>2. ASSUME HasId(u)', NEW v \in Thread, threadId'[v] = threadId'[u]
          PROVE  v = u
      <4>1. CASE u = t \/ v = t
        BY <1>3, <1>4, <3>2, <4>1 DEF NoId
      <4>2. CASE u # t /\ v # t
        BY <1>4, <1>8, <3>2, <4>2 DEF Inv, IdsGiven
      <4> QED  BY <4>1, <4>2
    <3>3. initialized' => HasId(u)'
      BY <1>1, <1>2, <1>3, <1>9, <3>1
    <3>4. ~initialized' => ~Complete(u)' /\ (pc'[u] = "register" \/ calls'[u] = 0)
      BY <1>1, <1>2, <1>3
    <3> QED  BY <3>1, <3>2, <3>3, <3>4
  <2>2. ASSUME NEW n \in 0 .. (IF initialized' THEN NumThreads ELSE syncedThreads') - 1
        PROVE  \E u \in Thread : threadId'[u] = n
    <3>1. n \in 0 .. syncedThreads
      BY <1>2, <1>3
    <3>2. CASE n = syncedThreads
      BY <1>4, <3>2
    <3>3. CASE n # syncedThreads
      <4>1. n \in 0 .. syncedThreads - 1
        BY <1>3, <3>1, <3>3
      <4>2. PICK u \in Thread : threadId[u] = n
        BY <1>3, <4>1 DEF Inv, IdsGiven
      <4>3. u # t
        BY <1>3, <4>1, <4>2 DEF HasId, NoId
      <4> QED  BY <1>4, <4>2, <4>3
    <3> QED  BY <3>2, <3>3
  <2>3. \A u \in Thread : threadId'[u] < syncedThreads'
    BY <1>2, <1>3, <1>4 DEF NoId
  <2> QED  BY <2>1, <2>2, <2>3 DEF IdsGiven
<1>16. DomainsOwned'
  <2>1. ASSUME NEW m \in masterThreads'
        PROVE  \E u \in Thread : threadId'[u] = m
    <3>1. CASE m \in masterThreads
      <4>1. PICK u \in Thread : threadId[u] = m
        BY <3>1 DEF Inv, DomainsOwned
      <4>2. Master(u)
        BY <3>1, <4>1 DEF Master
      <4> QED  BY <1>4, <1>7, <4>1, <4>2
    <3>2. CASE m \notin masterThreads
      BY <1>1, <1>4, <2>1, <3>2
    <3> QED  BY <3>1, <3>2
  <2>2. ASSUME NEW d \in 0 .. TotalDomains' - 1
        PROVE  \E u \in Thread : Master(u)' /\ domainId'[u] = d
    <3>1. CASE d = TotalDomains
      BY <1>4, <1>5, <1>6, <1>7, <2>2, <3>1 DEF New
    <3>2. CASE d # TotalDomains
      <4>1. d \in 0 .. TotalDomains - 1
        BY <1>5, <1>6, <2>2, <3>2
      <4>2. PICK u \in Thread : Master(u) /\ domainId[u] = d
        BY <4>1 DEF Inv, DomainsOwned
      <4> QED  BY <1>4, <1>7, <4>2
    <3> QED  BY <3>1, <3>2
  <2>3. ASSUME NEW u \in Thread
        PROVE  /\ HasId(u)' => domainId'[u] \in 0 .. TotalDomains' - 1
               /\ threadId'[u] = 0 => Master(u)' /\ domainId'[u] = 0
               /\ \A v \in Thread : Master(u)' /\ Master(v)' /\ domainId'[u] = domainId'[v] => u = v
    <3>1. HasId(u)' => domainId'[u] \in 0 .. TotalDomains' - 1
      <4>1. u # t /\ HasId(u) => domainId[u] \in 0 .. TotalDomains - 1
        BY DEF Inv, DomainsOwned
      <4> QED  BY <1>4, <1>5, <1>6, <1>8, <4>1 DEF New
    <3>2. threadId'[u] = 0 => Master(u)' /\ domainId'[u] = 0
      <4>1. CASE u # t
        BY <1>4, <1>7, <4>1 DEF Inv, DomainsOwned
      <4>2. CASE u = t /\ syncedThreads = 0
        <5>1. ~ \E v \in Thread : Master(v)
          BY <1>3, <1>7, <4>2 DEF Master, Inv, TypeOK
        <5>2. TotalDomains = 0
          <6>1. 0 \notin 0 .. TotalDomains - 1
            BY <5>1 DEF Inv, DomainsOwned
          <6> QED  BY <1>5, <6>1
        <5> QED  BY <1>4, <1>5, <1>7, <4>2, <5>2
      <4> QED  BY <1>4, <4>1, <4>2
    <3>3. ASSUME NEW v \in Thread, Master(u)', Master(v)', domainId'[u] = domainId'[v]
          PROVE  u = v
      <4>1. \A w \in Thread : Master(w) => domainId[w] \in 0 .. TotalDomains - 1
        <5>1. \A w \in Thread : Master(w) => HasId(w)
          BY DEF Master, HasId, NoId, Inv, TypeOK
        <5> QED  BY <5>1 DEF Inv, DomainsOwned
      <4>2. CASE u = t \/ v = t
        BY <1>4, <1>5, <1>7, <3>3, <4>1, <4>2 DEF New
      <4>3. CASE u # t /\ v # t
        BY <1>4, <1>7, <3>3, <4>3 DEF Inv, DomainsOwned
      <4> QED  BY <4>2, <4>3
    <3> QED  BY <3>1, <3>2, <3>3
  <2> QED  BY <1>11, <2>1, <2>2, <2>3 DEF DomainsOwned
<1>17. once = FALSE
  BY <1>3 DEF Inv, ContainersReady, TypeOK
<1>18. ContainersReady'
  <2>1. ASSUME NEW u \in Thread, Master(u)', calls'[u] > 0,
               calls'[u] = 1 => pc'[u] \notin {"register", "once", "create"}
        PROVE  once'
    <3>1. calls[u] > 0 /\ pc[u] = "register"
      BY <1>1, <1>3, <2>1
    <3>2. calls[u] = 1
      BY <3>1, PlaceFacts
    <3> QED  BY <1>1, <2>1, <3>1, <3>2
  <2> QED  BY <1>1, <1>17, <2>1 DEF ContainersReady
<1>19. RoundsEqual'
  BY <1>10 DEF RoundsEqual
<1>20. Results'
  <2>1. ASSUME NEW u \in Thread, NEW k \in 1 .. NumLevels, calls'[u] = k
        PROVE  pc'[u] = "register" /\ err'[u] = Success
    <3>1. calls[u] = k /\ calls[u] # 0 /\ pc[u] = "register"
      BY <1>1, <1>3, <2>1
    <3> QED  BY <1>1, <3>1 DEF Inv, Results
  <2> QED  BY <2>1 DEF Results
<1>21. RootOffers'
  <2>1. ASSUME NEW u \in Thread
        PROVE  ~((pc[u] = "report" /\ Arrived(u)') \/ (pc[u] = "idle" /\ calls[u] > 0) \/ calls[u] > 1)
    <3>1. \/ calls[u] = 1 /\ pc[u] = "register"
          \/ calls[u] = 0 /\ pc[u] = "idle"
      BY <1>3, PlaceFacts
    <3> QED  BY <3>1
  <2> QED  BY <1>1, <2>1 DEF RootOffers
<1>22. RootStays'
  <2>1. \A u \in Thread : pc[u] # "report"
    BY <1>3, PlaceFacts
  <2> QED  BY <1>1, <2>1 DEF RootStays
<1>23. SizeKnown'
  <2>1. \A k \in 1 .. NumLevels : FirstFit(k)' <=> FirstFit(k)
    BY <1>1, OwedKept
  <2>2. \A i \in 1 .. NumLevels : \A u \in Thread : i <= Completed(u) => i <= Completed(u)'
    BY <1>10
  <2>3. \A u \in Thread, i \in 1 .. NumLevels : ~Checked(u, i)'
    <3> SUFFICES ASSUME NEW u \in Thread, NEW i \in 1 .. NumLevels
                 PROVE  ~Checked(u, i)'
      OBVIOUS
    <3>1. calls[u] = 0 \/ (calls[u] = 1 /\ pc[u] = "register")
      BY <1>3, PlaceFacts
    <3> QED  BY <1>1, <3>1 DEF Checked
  <2> QED  BY <1>1, <2>1, <2>2, <2>3 DEF Inv, SizeKnown, ElementSize
<1>24. JoinedEqually'
  <2>1. ASSUME NEW u \in Thread
        PROVE  joined[u] = 0 /\ JoinedNow(u)' = 0
    <3>1. \/ calls[u] = 1 /\ pc[u] = "register"
          \/ calls[u] = 0 /\ pc[u] = "idle"
      BY <1>3, PlaceFacts
    <3>2. joined[u] \in Nat
      <4>1. joined[u] \in 0 .. 2 * NumLevels
        BY DEF Inv, TypeOK
      <4> QED  BY <4>1
    <3>3. joined[u] = 0
      BY <3>1, <3>2 DEF Inv, JoinedEqually
    <3> QED  BY <1>1, <3>1, <3>3 DEF JoinedNow
  <2> HIDE DEF JoinedNow
  <2> QED  BY <1>1, <2>1 DEF Inv, JoinedEqually
<1>25. LevelsLoaded'
  <2>1. \A u \in Thread : ~(calls[u] > 0 /\ pc[u] \in {"other", "report", "idle"})
    BY <1>3, PlaceFacts
  <2> QED  BY <1>1, <2>1 DEF LevelsLoaded
<1>26. LevelsGrown'
  <2>1. ASSUME NEW u \in Thread
        PROVE  levels[u] = 0 /\ \A i \in 1 .. NumLevels : ~Grown(u, i)'
    <3>1. \/ calls[u] = 1 /\ pc[u] = "register"
          \/ calls[u] = 0 /\ pc[u] = "idle"
      BY <1>3, PlaceFacts
    <3>2. \A i \in 1 .. NumLevels : ~Grown(u, i) /\ ~Grown(u, i)'
      BY <1>1, <3>1 DEF Grown
    <3>3. levels[u] = 0
      <4>1. CASE ~Master(u)
        BY <4>1 DEF Inv, LevelsGrown
      <4>2. CASE Master(u)
        <5>1. 0 \in LevelId
          BY SetupFacts DEF LevelId, Inv, TypeOK
        <5>2. ~(levels[u] > 0)
          BY <3>2, <4>2, <5>1 DEF Inv, LevelsGrown
        <5>3. levels[u] \in 0 .. NumLevels
          BY DEF Inv, TypeOK
        <5> QED  BY <5>2, <5>3
      <4> QED  BY <4>1, <4>2
    <3> QED  BY <3>2, <3>3
  <2>2. \A l \in LevelId : ~(0 > l)
    BY DEF LevelId
  <2> QED  BY <1>1, <2>1, <2>2 DEF LevelsGrown
<1>27. LoadedTogether'
  <2>1. \A u \in Thread, k \in 1 .. NumLevels : ~BackFrom(u, k)'
    <3> SUFFICES ASSUME NEW u \in Thread, NEW k \in 1 .. NumLevels
                 PROVE  ~BackFrom(u, k)'
      OBVIOUS
    <3>1. calls[u] = 0 \/ (calls[u] = 1 /\ pc[u] = "register")
      BY <1>3, PlaceFacts
    <3> QED  BY <1>1, <3>1 DEF BackFrom
  <2> QED  BY <2>1 DEF LoadedTogether
<1> QED  BY <1>2, <1>12, <1>13, <1>14, <1>15, <1>16, <1>18, <1>19, <1>20, <1>21, <1>22, <1>23,
            <1>24, <1>25, <1>26, <1>27 DEF Inv

-----------------------------------------------------------------------------
LEMMA InitInv ==
  ASSUME Init
  PROVE  Inv
<1>1. /\ mutex = NoThread /\ syncedThreads = 0 /\ lastThreads = 0 /\ finishing = FALSE
      /\ at = [t \in Thread |-> "out"] /\ last = [t \in Thread |-> FALSE]
      /\ setup \in Setup /\ initialized = FALSE /\ domains = << >> /\ masterThreads = {}
      /\ threadId = [t \in Thread |-> NoId] /\ domainId = [t \in Thread |-> NoDomain]
      /\ once = FALSE /\ onceMutex = NoThread /\ containers = 0
      /\ typeSize = IF setup.kind = "basic" THEN ElementSize ELSE 0
      /\ mpiExtent = typeSize
      /\ levels = [t \in Thread |-> 0] /\ usable = [t \in Thread |-> {}]
      /\ joined = [t \in Thread |-> 0] /\ err = [t \in Thread |-> Success]
      /\ data = NoThread /\ calls = [t \in Thread |-> 0] /\ pc = [t \in Thread |-> "idle"]
  BY DEF Init, SyncInit
<1>2. /\ NumThreads \in Nat \ {0} /\ NumLevels \in Nat \ {0}
      /\ Cardinality(Node) \in Nat /\ Cardinality(Node) # 0
      /\ ElementSize \in {1, 4, 8}
  <2>1. Cardinality(Node) \in Nat /\ Cardinality(Node) # 0
    BY GridOpenAssumption, FS_CardinalityType, FS_EmptySet
  <2> QED  BY <1>1, <2>1, NumThreadsFacts, SetupFacts
<1>3. Synced = {} /\ { t \in Synced : last[t] } = {} /\ Registered = {} /\ TotalDomains = 0
  BY <1>1 DEF Synced, Waiting, Registered, TotalDomains
<1>4. \A t \in Thread : ~Complete(t) /\ ~Arrived(t) /\ ~Master(t) /\ ~HasId(t)
  BY <1>1 DEF Complete, Arrived, Waiting, Master, HasId
<1>5. SyncInv
  <2>1. SyncTypeOK
    <3>1. 0 \in 0 .. NumThreads /\ "out" \in Position
      BY <1>2 DEF Position
    <3>2. at \in [Thread -> Position] /\ last \in [Thread -> BOOLEAN] /\ finishing \in BOOLEAN
      BY <1>1, <3>1
    <3> QED  BY <1>1, <3>1, <3>2 DEF SyncTypeOK
  <2>2. Cardinality({}) = 0
    BY FS_EmptySet
  <2>3. NoLostWakeUp
    BY <1>1, <1>3, <2>2 DEF NoLostWakeUp
  <2> QED  BY <1>1, <2>1, <2>3, SyncAssumption DEF SyncInv
<1>6. TypeOK
  <2>1. domains \in Seq(Node) /\ Len(domains) = 0
    BY <1>1
  <2>2. typeSize \in Nat
    BY <1>1, <1>2
  <2>3. threadId \in [Thread -> NoId .. NumThreads - 1]
    <3>1. NoId \in NoId .. NumThreads - 1
      BY <1>2 DEF NoId
    <3> QED  BY <1>1, <3>1
  <2>4. 0 \in 0 .. NumLevels /\ 0 \in 0 .. 2 * NumLevels /\ 0 \in 0 .. Cardinality(Node)
    BY <1>2
  <2>5. "idle" \in PC /\ Success \in Error
    BY DEF PC, Error, Success
  <2>6. /\ domainId \in [Thread -> (0 .. Cardinality(Node) - 1) \cup {NoDomain}]
        /\ usable \in [Thread -> SUBSET LevelId]
        /\ pc \in [Thread -> PC] /\ err \in [Thread -> Error]
    BY <1>1, <2>5
  <2>7. /\ levels \in [Thread -> 0 .. NumLevels] /\ calls \in [Thread -> 0 .. NumLevels]
        /\ joined \in [Thread -> 0 .. 2 * NumLevels]
        /\ containers \in 0 .. Cardinality(Node)
    BY <1>1, <2>4
  <2>8. /\ initialized \in BOOLEAN /\ once \in BOOLEAN
        /\ onceMutex \in Thread \cup {NoThread} /\ data \in Thread \cup {NoThread}
        /\ mpiExtent \in {0, typeSize} /\ masterThreads \subseteq 0 .. NumThreads - 1
    BY <1>1
  <2>9. Len(domains) <= Cardinality(Node)
    BY <1>2, <2>1
  <2> QED  BY <1>1, <1>5, <2>1, <2>2, <2>3, <2>6, <2>7, <2>8, <2>9 DEF TypeOK, SyncInv
<1>7. CallsBegun
  BY <1>1 DEF CallsBegun, MasterPC
<1>8. LastIsRoot /\ DomainsOwned
  <2>1. \A t \in Thread : threadId[t] # 0
    BY <1>1 DEF NoId
  <2> QED  BY <1>1, <1>3, <1>4, <2>1 DEF LastIsRoot, DomainsOwned
<1>9. IdsGiven
  <2>1. \A t \in Thread : threadId[t] = -1
    BY <1>1 DEF NoId
  <2> QED  BY <1>1, <1>3, <1>4, <2>1 DEF IdsGiven
<1>10. ContainersReady /\ LevelsLoaded /\ JoinedEqually
  BY <1>1, <1>4 DEF ContainersReady, LevelsLoaded, JoinedEqually
<1>11. \A t \in Thread : Completed(t) = 0
  BY <1>1 DEF Completed, One
<1>12. RoundsEqual
  BY <1>11 DEF RoundsEqual
<1>13. Results /\ RootOffers /\ RootStays
  <2>1. \A t \in Thread : threadId[t] # 0
    BY <1>1 DEF NoId
  <2> QED  BY <1>1, <2>1 DEF Results, RootOffers, RootStays
<1>14. SizeKnown
  BY <1>1, <1>4 DEF SizeKnown
<1>15. LevelsGrown /\ LoadedTogether
  <2>1. \A t \in Thread : threadId[t] # 0
    BY <1>1 DEF NoId
  <2> QED  BY <1>1, <1>4, <2>1 DEF LevelsGrown, LoadedTogether
<1> QED  BY <1>15, <1>5, <1>6, <1>7, <1>8, <1>9, <1>10, <1>12, <1>13, <1>14 DEF Inv

LEMMA StutterInv ==
  ASSUME Inv, UNCHANGED vars
  PROVE  Inv'
<1>1. UNCHANGED <<mutex, at, last, syncedThreads, lastThreads, finishing, setup, initialized,
                  domains, masterThreads, threadId, domainId, once, onceMutex, containers,
                  typeSize, mpiExtent, levels, usable, joined, err, data, calls, pc>>
  BY DEF vars, syncVars, numaVars, onceVars, typeVars, levelVars, callVars
<1>2. /\ \A t \in Thread : Complete(t)' = Complete(t) /\ Arrived(t)' = Arrived(t)
      /\ \A t \in Thread : Master(t)' = Master(t) /\ HasId(t)' = HasId(t)
      /\ Registered' = Registered /\ TotalDomains' = TotalDomains /\ Synced' = Synced
  BY <1>1 DEF Complete, Arrived, Master, HasId, Registered, TotalDomains, Synced
<1>3. \A t \in Thread : Completed(t)' = Completed(t) /\ JoinedNow(t)' = JoinedNow(t)
  BY <1>1, <1>2 DEF Completed, JoinedNow, Grows
<1>4. /\ \A k \in 1 .. NumLevels : Owed(k)' = Owed(k)
      /\ \A k \in 1 .. NumLevels : FirstFit(k)' <=> FirstFit(k)
      /\ \A t \in Thread : FailsAlone(t)' = FailsAlone(t) /\ Level(t)' = Level(t)
  BY <1>1, OwedKept DEF FailsAlone, Level
<1>5. SyncInv'
  BY <1>1, <1>2 DEF Inv, SyncInv, SyncTypeOK, NoLostWakeUp
<1>6. TypeOK'
  BY <1>1, <1>5 DEF Inv, TypeOK, SyncInv
<1>7. CallsBegun' /\ LastIsRoot' /\ IdsGiven' /\ DomainsOwned'
  BY <1>1, <1>2 DEF Inv, CallsBegun, LastIsRoot, IdsGiven, DomainsOwned
<1>8. ContainersReady' /\ RootOffers' /\ RootStays'
  BY <1>1, <1>2 DEF Inv, ContainersReady, RootOffers, RootStays
<1>9. RoundsEqual' /\ Results'
  BY <1>1, <1>2, <1>3, <1>4 DEF Inv, RoundsEqual, Results, OwnResult
<1>10. SizeKnown'
  BY <1>1, <1>2, <1>3, <1>4 DEF Inv, SizeKnown, Checked, ElementSize
<1>11. JoinedEqually' /\ LevelsLoaded'
  BY <1>1, <1>2, <1>3, <1>4 DEF Inv, JoinedEqually, LevelsLoaded
<1>12. LevelsGrown' /\ LoadedTogether'
  BY <1>1, <1>2, GrownKept, TogetherKept DEF Grown, BackFrom
<1> QED  BY <1>5, <1>6, <1>7, <1>8, <1>9, <1>10, <1>11, <1>12 DEF Inv

LEMMA NextInv ==
  ASSUME Inv, [Next]_vars
  PROVE  Inv'
<1>1. ASSUME NEW t \in Thread, Step(t)
      PROVE  Inv'
  <2>1. CASE Call(t)
    BY <2>1, CallStep
  <2>2. CASE InBarrier(t)
    BY <2>2, InBarrierStep
  <2>3. CASE \E node \in Node : Register(t, node)
    BY <2>3, RegisterStep
  <2>4. CASE EndRegister(t)
    BY <2>4, EndRegisterStep
  <2>5. CASE OnceSkip(t) \/ OnceStart(t) \/ InitContainers(t)
    BY <2>5, OnceSteps
  <2>6. CASE GrowLevels(t)
    BY <2>6, GrowLevelsStep
  <2>7. CASE OpenFails(t)
    BY <2>7, OpenFailsStep
  <2>8. CASE CheckType(t)
    BY <2>8, CheckTypeStep
  <2>9. CASE CommitType(t)
    BY <2>9, CommitTypeStep
  <2>10. CASE Allocate(t)
    BY <2>10, AllocateStep
  <2>11. CASE Load(t)
    BY <2>11, LoadStep
  <2>12. CASE StartReport(t)
    BY <2>12, StartReportStep
  <2>13. CASE Offer(t)
    BY <2>13, OfferStep
  <2>14. CASE Return(t)
    BY <2>14, ReturnStep
  <2> QED  BY <1>1, <2>1, <2>2, <2>3, <2>4, <2>5, <2>6, <2>7, <2>8, <2>9, <2>10, <2>11, <2>12,
              <2>13, <2>14 DEF Step
<1> QED  BY <1>1, StutterInv DEF Next

-----------------------------------------------------------------------------
(* The inductive invariant of open() as all threads of a process call it   *)
(* (grid/grid.cpp, numa/numa.cpp, threads/sync.h, threads/once.h).         *)
THEOREM InvHolds == Spec => []Inv
<1> QED  BY InitInv, NextInv, PTL DEF Spec

(* The counters of the barrier in threads/sync.h count, and no thread      *)
(* sleeps when nobody is left who would wake it.                           *)
THEOREM NoLostWakeUpHolds == Spec => []NoLostWakeUp
<1>1. Inv => NoLostWakeUp
  BY DEF Inv, SyncInv
<1> QED  BY <1>1, InvHolds, PTL

(* After registerThread (numa/numa.cpp) the threads have the ids 0 to      *)
(* NumThreads - 1, and every domain has exactly one master.                *)
THEOREM IdsAndMastersHolds == Spec => []IdsAndMasters
<1>1. ASSUME Inv, Registered # {}
      PROVE  /\ { threadId[t] : t \in Thread } = 0 .. NumThreads - 1
             /\ \A d \in 0 .. TotalDomains - 1 :
                   Cardinality({ t \in Thread : Master(t) /\ domainId[t] = d }) = 1
  <2>1. initialized /\ NumThreads \in Nat
    BY <1>1, PlaceFacts, NumThreadsFacts DEF Registered
  <2>2. \A t \in Thread : threadId[t] \in 0 .. NumThreads - 1
    <3>1. \A t \in Thread : threadId[t] \in NoId .. NumThreads - 1 /\ threadId[t] # NoId
      BY <1>1, <2>1 DEF Inv, IdsGiven, HasId, TypeOK
    <3> QED  BY <2>1, <3>1 DEF NoId
  <2>3. \A n \in 0 .. NumThreads - 1 : \E t \in Thread : threadId[t] = n
    BY <1>1, <2>1 DEF Inv, IdsGiven
  <2>4. ASSUME NEW d \in 0 .. TotalDomains - 1
        PROVE  Cardinality({ t \in Thread : Master(t) /\ domainId[t] = d }) = 1
    <3>1. PICK m \in Thread : Master(m) /\ domainId[m] = d
      BY <1>1 DEF Inv, DomainsOwned
    <3>2. \A t \in Thread : Master(t) /\ domainId[t] = d => t = m
      BY <1>1, <3>1 DEF Inv, DomainsOwned
    <3>3. { t \in Thread : Master(t) /\ domainId[t] = d } = {m}
      BY <3>1, <3>2
    <3> QED  BY <3>3, FS_Singleton
  <2> QED  BY <2>2, <2>3, <2>4
<1>2. Inv => IdsAndMasters
  BY <1>1 DEF IdsAndMasters
<1> QED  BY <1>2, InvHolds, PTL

(* The containers that one master creates, and the MPI data type that the  *)
(* first domain creates, are complete when another domain uses them.       *)
THEOREM ReadyWhenUsedHolds == Spec => []ReadyWhenUsed
<1>1. ASSUME Inv, NEW t \in Registered, pc[t] \notin {"other", "once", "create", "report"}
      PROVE  containers = TotalDomains /\ domainId[t] < containers
  <2>1. /\ t \in Thread /\ calls[t] > 0 /\ pc[t] # "register"
        /\ calls[t] \in 0 .. NumLevels /\ NumLevels \in Nat
        /\ initialized /\ HasId(t)
    BY <1>1, PlaceFacts DEF Registered
  <2>2. once
    <3>1. CASE pc[t] = "idle"
      <4>1. PICK r \in Thread : Master(r)
        BY <1>1, <2>1, RootFacts
      <4>2. Completed(r) = Completed(t)
        BY <1>1, <2>1 DEF Inv, RoundsEqual
      <4>3. Completed(t) = calls[t] + 1
        BY <1>1, <2>1, <3>1, PlaceFacts
      <4>4. Completed(r) >= 2
        BY <2>1, <4>2, <4>3
      <4>5. pc[r] \in PC /\ calls[r] \in 0 .. NumLevels
        BY <1>1, PlaceFacts
      <4>6. calls[r] > 0 /\ (calls[r] = 1 => pc[r] \notin {"register", "once", "create"})
        <5>1. CASE pc[r] \in MasterPC
          BY <1>1, <2>1, <4>4, <4>5, <5>1, PlaceFacts
        <5>2. CASE pc[r] \in {"idle", "other", "report", "register"}
          BY <1>1, <2>1, <4>4, <4>5, <5>2, PlaceFacts
        <5> QED  BY <4>5, <5>1, <5>2 DEF PC, MasterPC
      <4> QED  BY <1>1, <4>1, <4>6 DEF Inv, ContainersReady
    <3>2. CASE pc[t] # "idle"
      <4>1. pc[t] \in MasterPC
        BY <1>1, <2>1, <3>2, PlaceFacts DEF PC, MasterPC
      <4>2. Master(t)
        BY <1>1, <2>1, <4>1, PlaceFacts
      <4> QED  BY <1>1, <2>1, <4>2 DEF Inv, ContainersReady
    <3> QED  BY <3>1, <3>2
  <2>3. containers = TotalDomains
    BY <1>1, <2>2 DEF Inv, ContainersReady
  <2>4. domainId[t] \in 0 .. TotalDomains - 1 /\ TotalDomains \in Nat
    BY <1>1, <2>1 DEF Inv, DomainsOwned, TypeOK, TotalDomains
  <2> QED  BY <2>3, <2>4
<1>2. ASSUME Inv, ~setup.passThrough, NEW t \in Thread, pc[t] = "load", Met(t)
      PROVE  mpiExtent = typeSize
  <2> SUFFICES ASSUME mpiExtent # typeSize  PROVE FALSE
    OBVIOUS
  <2>1. PICK u \in Thread : pc[u] = "commit"
    BY <1>2 DEF Inv, SizeKnown
  <2>2. Master(t) /\ Master(u)
    BY <1>2, <2>1 DEF Inv, CallsBegun, MasterPC
  <2>3. calls[u] = calls[t]
    <3>1. Completed(u) = calls[u] /\ Completed(t) = calls[t]
      BY <1>2, <2>1, PlaceFacts DEF MasterPC
    <3> QED  BY <1>2, <3>1 DEF Inv, RoundsEqual
  <2>4. /\ JoinedNow(t) = One(Grows(calls[t])) + 1 /\ JoinedNow(u) = One(Grows(calls[t]))
        /\ One(Grows(calls[t])) \in Nat
    BY <1>2, <2>1, <2>3 DEF JoinedNow, One
  <2>5. joined[t] - JoinedNow(t) = joined[u] - JoinedNow(u)
    BY <1>2, <2>2 DEF Inv, JoinedEqually
  <2>6. joined[u] >= joined[t]
    BY <1>2, <2>2 DEF Met
  <2>7. joined[t] \in 0 .. 2 * NumLevels /\ joined[u] \in 0 .. 2 * NumLevels
    BY <1>2 DEF Inv, TypeOK
  <2> HIDE DEF JoinedNow
  <2> QED  BY <2>4, <2>5, <2>6, <2>7
<1>3. Inv => ReadyWhenUsed
  BY <1>1, <1>2 DEF ReadyWhenUsed
<1> QED  BY <1>3, InvHolds, PTL

(* When a thread has completed a call, the root has come back from it.     *)
LEMMA RootIsBack ==
  ASSUME Inv, NEW r \in Thread, NEW u \in Thread, calls[u] \in 1 .. NumLevels,
         Completed(u) = calls[u] + 1
  PROVE  BackFrom(r, calls[u])
<1>1. /\ Completed(r) = calls[u] + 1 /\ pc[r] \in PC
      /\ calls[r] \in 0 .. NumLevels /\ NumLevels \in Nat
  BY PlaceFacts DEF Inv, RoundsEqual
<1>2. CASE pc[r] \in MasterPC \cup {"other"}
  <2>1. Completed(r) = calls[r]
    BY <1>2, PlaceFacts
  <2> QED  BY <1>1, <2>1 DEF BackFrom
<1>3. CASE pc[r] \in {"idle", "report"}
  <2>1. Completed(r) = calls[r] + 1 \/ Completed(r) = calls[r]
    BY <1>3, PlaceFacts
  <2> QED  BY <1>1, <1>3, <2>1 DEF BackFrom
<1>4. CASE pc[r] = "register"
  <2>1. Completed(r) \in {0, 1}
    BY <1>4, PlaceFacts
  <2> QED  BY <1>1, <2>1
<1> QED  BY <1>1, <1>2, <1>3, <1>4 DEF PC, MasterPC

(* When open() returns success to one thread, the level is ready in the    *)
(* container of every domain that is in the same call, except for a domain *)
(* of a pass-through grid that failed alone.                               *)
THEOREM OpenedEverywhereHolds == Spec => []OpenedEverywhere
<1>1. ASSUME Inv, NEW t \in Registered, pc[t] = "idle", err[t] = Success,
             NEW u \in Thread, Master(u), calls[u] = calls[t],
             ~(setup.passThrough /\ FailsAlone(u))
      PROVE  Level(t) \in usable[u]
  <2>1. t \in Thread /\ calls[t] \in 1 .. NumLevels
    <3>1. t \in Thread /\ calls[t] > 0
      BY DEF Registered
    <3>2. calls[t] \in 0 .. NumLevels /\ NumLevels \in Nat
      BY <1>1, <3>1, PlaceFacts
    <3> QED  BY <3>1, <3>2
  <2>2. Completed(u) = calls[u] + 1
    <3>1. calls[t] # 0
      BY <2>1
    <3>2. Completed(t) = calls[t] + 1
      BY <1>1, <2>1, <3>1, PlaceFacts
    <3> QED  BY <1>1, <2>1, <3>2 DEF Inv, RoundsEqual
  <2>3. pc[u] \in {"idle", "report"}
    <3>1. pc[u] \in PC /\ calls[u] \in 1 .. NumLevels
      BY <1>1, <2>1, PlaceFacts
    <3>2. calls[u] # calls[u] + 1 /\ 0 # calls[u] + 1 /\ (calls[u] = 1 => 1 # calls[u] + 1)
      BY <3>1
    <3>3. pc[u] \notin MasterPC \cup {"other", "register"}
      BY <1>1, <2>2, <3>1, <3>2, PlaceFacts
    <3> QED  BY <3>1, <3>3 DEF PC, MasterPC
  <2>4. Owed(calls[t]) = Success
    BY <1>1, <2>1 DEF Inv, Results
  <2>5. ~FailsAlone(u)
    <3>1. CASE setup.passThrough
      BY <1>1, <3>1
    <3>2. CASE ~setup.passThrough
      <4>1. PICK r \in Thread : threadId[r] = 0
        BY <1>1, <2>1, PlaceFacts, RootFacts
      <4>2. BackFrom(r, calls[t])
        BY <1>1, <2>1, <2>2, <4>1, RootIsBack
      <4> QED  BY <1>1, <2>1, <2>4, <3>2, <4>1, <4>2 DEF Inv, LoadedTogether, FailsAlone, Level
    <3> QED  BY <3>1, <3>2
  <2>6. err[u] = Success
    BY <1>1, <2>1, <2>3, <2>4, <2>5 DEF Inv, Results, OwnResult
  <2>7. calls[u] > 0
    BY <1>1, <2>1
  <2>8. Level(u) \in usable[u]
    BY <1>1, <2>3, <2>5, <2>6, <2>7 DEF Inv, LevelsLoaded
  <2> QED  BY <1>1, <2>8 DEF Level
<1>2. ASSUME Inv  PROVE OpenedEverywhere
  BY <1>1, <1>2 DEF OpenedEverywhere
<1> QED  BY <1>2, InvHolds, PTL

(* Every thread gets the result of the root's domain in every call of      *)
(* open(), whatever the result of its own domain.                          *)
THEOREM ReturnsTheErrorHolds == Spec => []ReturnsTheError
<1>1. ASSUME Inv, NEW t \in Registered, pc[t] = "idle"
      PROVE  err[t] = Owed(calls[t])
  <2>1. t \in Thread /\ calls[t] > 0
    BY DEF Registered
  <2>2. calls[t] \in 0 .. NumLevels /\ NumLevels \in Nat
    BY <1>1, <2>1, PlaceFacts
  <2>3. calls[t] \in 1 .. NumLevels
    BY <2>1, <2>2
  <2> QED  BY <1>1, <2>1, <2>3 DEF Inv, Results
<1>2. Inv => ReturnsTheError
  BY <1>1 DEF ReturnsTheError
<1> QED  BY <1>2, InvHolds, PTL
=============================================================================
