--------------------------------- MODULE Sync ---------------------------------
(***************************************************************************)
(* The barrier of threads/sync.h for the threads of one process, built on  *)
(* a mutex and three condition variables.  startBarrier() returns with the *)
(* mutex locked, waitBarrier() gives it back while it waits and returns    *)
(* with it, endBarrier() unlocks it.  The last thread to arrive starts the *)
(* finishing phase, in which nobody can enter the next barrier; a thread   *)
(* with the "last" flag leaves after all threads without it.               *)
(*                                                                         *)
(* A thread that was woken waits for the mutex again.  Condition variables *)
(* wake nobody without a broadcast here; POSIX permits that they do, and   *)
(* the code does not check its conditions again.                           *)
(***************************************************************************)
EXTENDS Integers, Sequences, FiniteSets

CONSTANTS
    Thread,         \* the threads that take part in every barrier
    NoThread        \* the holder of a free mutex

ASSUME SyncAssumption ==
    /\ IsFiniteSet(Thread)
    /\ Thread # {}
    /\ NoThread \notin Thread

NumThreads == Cardinality(Thread)

VARIABLES
    mutex,          \* who holds m_mutex
    at,             \* where in the barrier a thread is
    last,           \* its parameter last
    syncedThreads,  \* m_syncedThreads
    lastThreads,    \* m_lastThreads
    finishing       \* m_finishing

syncVars == <<mutex, at, last, syncedThreads, lastThreads, finishing>>

(* Waiting for the mutex: "start", and the three that have been woken.     *)
(* Asleep: "finish" (m_finishCondition), "wait" (m_condition), "last"      *)
(* (m_lastCondition).  With the mutex: "inside", "leaving" and "through".  *)
Position ==
    {"out", "start", "finish", "finish_woken", "inside", "wait", "wait_woken",
     "leaving", "last", "last_woken", "through"}

SyncInit ==
    /\ mutex = NoThread
    /\ at = [t \in Thread |-> "out"]
    /\ last = [t \in Thread |-> FALSE]
    /\ syncedThreads = 0
    /\ lastThreads = 0
    /\ finishing = FALSE

(* t moves to position q, those asleep at the positions in woken wake up.  *)
Move(t, q, woken) ==
    at' = [u \in Thread |->
              CASE u = t -> q
                [] u # t /\ at[u] = "wait" /\ "wait" \in woken -> "wait_woken"
                [] u # t /\ at[u] = "last" /\ "last" \in woken -> "last_woken"
                [] u # t /\ at[u] = "finish" /\ "finish" \in woken -> "finish_woken"
                [] OTHER -> at[u]]

One(condition) == IF condition THEN 1 ELSE 0

-----------------------------------------------------------------------------
(* A thread begins startBarrier() ...                                      *)
StartBarrier(t) ==
    /\ at[t] = "out"
    /\ Move(t, "start", {})
    /\ UNCHANGED <<mutex, last, syncedThreads, lastThreads, finishing>>

(* Faulty variant: the finishing phase is not waited for.                  *)
LockUnconditionally(t) ==
    /\ at[t] = "start"
    /\ mutex = NoThread
    /\ Move(t, "inside", {})
    /\ mutex' = t
    /\ UNCHANGED <<last, syncedThreads, lastThreads, finishing>>

(* ... gets the mutex, and goes to sleep in the finishing phase.           *)
Lock(t) ==
    /\ at[t] = "start"
    /\ mutex = NoThread
    /\ \/ finishing /\ Move(t, "finish", {}) /\ UNCHANGED mutex
       \/ ~finishing /\ Move(t, "inside", {}) /\ mutex' = t
    /\ UNCHANGED <<last, syncedThreads, lastThreads, finishing>>

LockAgain(t) ==
    /\ at[t] = "finish_woken"
    /\ mutex = NoThread
    /\ mutex' = t
    /\ Move(t, "inside", {})
    /\ UNCHANGED <<last, syncedThreads, lastThreads, finishing>>

(* waitBarrier(): the last to arrive wakes the others, everybody else      *)
(* sleeps until then.                                                      *)
Arrive(t, isLast) ==
    /\ at[t] = "inside"
    /\ last' = [last EXCEPT ![t] = isLast]
    /\ syncedThreads' = syncedThreads + 1
    /\ lastThreads' = lastThreads + One(isLast)
    /\ \/ /\ syncedThreads' = NumThreads
          /\ finishing' = TRUE
          /\ Move(t, "leaving", {"wait"})
          /\ UNCHANGED mutex
       \/ /\ syncedThreads' # NumThreads
          /\ Move(t, "wait", {})
          /\ mutex' = NoThread
          /\ UNCHANGED finishing

WakeUp(t) ==
    /\ at[t] = "wait_woken"
    /\ mutex = NoThread
    /\ mutex' = t
    /\ Move(t, "leaving", {})
    /\ UNCHANGED <<last, syncedThreads, lastThreads, finishing>>

MustWait(t) == last[t] /\ syncedThreads > lastThreads

WaitForOthers(t) ==
    /\ at[t] = "leaving"
    /\ MustWait(t)
    /\ Move(t, "last", {})
    /\ mutex' = NoThread
    /\ UNCHANGED <<last, syncedThreads, lastThreads, finishing>>

(* Faulty variant: the sleepers of startBarrier() are not woken.           *)
WokenByNobody(t) == {}

(* Whom a departing thread wakes.                                          *)
Woken(t) ==
    (IF syncedThreads' = lastThreads' /\ ~last[t] THEN {"last"} ELSE {})
    \cup (IF syncedThreads' = 0 THEN {"finish"} ELSE {})

(* The rest of waitBarrier(), for a thread that need not or did wait.      *)
Depart(t) ==
    /\ \/ at[t] = "leaving" /\ ~MustWait(t)
       \/ at[t] = "last_woken" /\ mutex = NoThread
    /\ mutex' = t
    /\ syncedThreads' = syncedThreads - 1
    /\ lastThreads' = lastThreads - One(last[t])
    /\ finishing' = (finishing /\ syncedThreads' # 0)
    /\ Move(t, "through", Woken(t))
    /\ UNCHANGED last

EndBarrier(t) ==
    /\ at[t] = "through"
    /\ Move(t, "out", {})
    /\ mutex' = NoThread
    /\ UNCHANGED <<last, syncedThreads, lastThreads, finishing>>

(* The steps between the caller's own: startBarrier(), waitBarrier() and   *)
(* endBarrier() are begun by the caller.                                   *)
Synchronise(t) ==
    Lock(t) \/ LockAgain(t) \/ WakeUp(t) \/ WaitForOthers(t) \/ Depart(t)

-----------------------------------------------------------------------------
SyncTypeOK ==
    /\ mutex \in Thread \cup {NoThread}
    /\ at \in [Thread -> Position]
    /\ last \in [Thread -> BOOLEAN]
    /\ syncedThreads \in 0 .. NumThreads
    /\ lastThreads \in 0 .. NumThreads
    /\ finishing \in BOOLEAN

(* The threads counted by m_syncedThreads.                                 *)
Waiting == {"wait", "wait_woken", "leaving", "last", "last_woken"}

Synced == { t \in Thread : at[t] \in Waiting }

(* The counters count: the threads that have arrived and not left yet, and *)
(* those of them that leave last.  In the finishing phase nobody sleeps at *)
(* the first condition and nobody enters; outside of it nobody sleeps at   *)
(* the others, so that no wake-up is ever lost.                            *)
NoLostWakeUp ==
    /\ syncedThreads = Cardinality(Synced)
    /\ lastThreads = Cardinality({ t \in Synced : last[t] })
    /\ finishing => \A t \in Thread : at[t] \notin {"inside", "wait"}
    /\ ~finishing =>
          \A t \in Thread : at[t] \in {"out", "start", "finish_woken", "inside", "wait", "through"}
    /\ \A t \in Thread : at[t] = "last" =>
          \E u \in Synced : ~last[u]

(* A thread has arrived, and so has everybody else.                        *)
Arrived(t) == at[t] \in Waiting \cup {"through"}

Complete(t) == at[t] = "through" \/ (finishing /\ at[t] \in Waiting)

(* The inductive invariant of the barrier: the mutex is held by the thread *)
(* whose position says so, and a thread with the flag is woken when all    *)
(* without it are gone.                                                    *)
SyncInv ==
    /\ SyncTypeOK
    /\ NoLostWakeUp
    /\ \A t \in Thread :
          /\ mutex = t <=> at[t] \in {"inside", "leaving", "through"}
          /\ finishing => at[t] # "finish_woken"
          /\ at[t] = "last_woken" => \A u \in Synced : last[u]
=============================================================================
