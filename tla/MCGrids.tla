------------------------------- MODULE MCGrids -------------------------------
(* Two threads on two NUMA nodes, two grids, and applications that write   *)
(* their parameters in several ways.                                       *)
EXTENDS Grids

Nodes == [t \in Thread |-> IF t = CHOOSE u \in Thread : TRUE THEN 0 ELSE 1]

Words ==
    "grid" :> "GRID" @@ "cache" :> "CACHE" @@ "pass-through" :> "PASS_THROUGH"
        @@ "mpi-communication" :> "MPI_COMMUNICATION" @@ "thread" :> "THREAD" @@ "off" :> "OFF"
        @@ "NUMA-COMMUNICATION" :> "NUMA_COMMUNICATION" @@ "variable" :> "VARIABLE"

P(name, value) == [call |-> "setParam", name |-> name, value |-> value, level |-> 0]

OnLevel(level, p) == [p EXCEPT !.level = level]

TheComm == [call |-> "setComm"]

TheThreads == [call |-> "setThreads"]

App(language, size, calls) ==
    [language |-> language, size |-> size, calls |-> Append(calls, TheThreads), starts |-> 0]

Starting(n, app) == [app EXCEPT !.starts = n]

Reads == [g \in Grid |-> IF g = CHOOSE h \in Grid : TRUE THEN 2 ELSE 1]

Setups ==
    { App("C", 1, << >>),
      App("Fortran", 2, <<TheComm>>),
      Starting(1, App("Fortran", 2, <<TheComm, P("mpi-communication", "thread")>>)),
      App("C", 2, <<P("MPI_COMMUNICATION", "OFF"), TheComm>>),
      App("C", 2, <<TheComm, P("mpi-communication", "off"), P("NUMA_COMMUNICATION", "OFF")>>),
      App("C", 2, <<TheComm, P("NUMA-COMMUNICATION", "cache")>>),
      App("Fortran", 2, <<TheComm, P("NUMA-COMMUNICATION", "off")>>),
      App("Fortran", 1, <<P("grid", "cache"), OnLevel(1, P("grid", "FULL"))>>),
      App("C", 2, <<TheComm, TheComm, P("GRID", "cache")>>),
      Starting(2, App("C", 2, <<TheComm, P("GRID", "CACHE"), P("MPI_COMMUNICATION", "THREAD"),
                                P("NUMA_COMMUNICATION", "OFF")>>)),
      App("Fortran", 2, <<P("grid", "pass-through"), P("variable", "off"), TheComm>>),
      App("C", 1, <<TheComm, OnLevel(1, P("GRID", "CACHE"))>>) }
=============================================================================
