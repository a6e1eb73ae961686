----------------------------- MODULE MCGridOpen -----------------------------
(* Threads on a machine with two NUMA nodes open two levels: of a basic    *)
(* type; of an array whose second level has another size, which the order  *)
(* decides; one no array of floats can have; of a struct with padding at   *)
(* its end; of levels that cannot be read; and of a grid, pass-through or  *)
(* not, one level of which the second domain alone cannot read.            *)
EXTENDS GridOpen

Good(size) == [exists |-> TRUE, hasVariable |-> TRUE, dimensions |-> 2, varSize |-> size]

Missing == [Good(4) EXCEPT !.exists = FALSE]

Misnamed == [Good(4) EXCEPT !.hasVariable = FALSE]

TooDeep == [Good(4) EXCEPT !.dimensions = 5]

Two(a, b) == [l \in LevelId |-> IF l = 0 THEN a ELSE b]

Ascending == [i \in 1 .. NumLevels |-> i - 1]

Descending == [i \in 1 .. NumLevels |-> NumLevels - i]

Single(type) == <<[type |-> type, count |-> 1, displacement |-> 0]>>

Padded == <<[type |-> "DOUBLE", count |-> 1, displacement |-> 0],
            [type |-> "INT", count |-> 1, displacement |-> 8]>>

App(kind, members, variable, order) ==
    [kind |-> kind, members |-> members, variable |-> variable, order |-> order,
     passThrough |-> FALSE, failing |-> {}]

Direct(app, level) == [app EXCEPT !.passThrough = TRUE, !.failing = {<<level, 1>>}]

Setups ==
    { App("basic", Single("FLOAT"), Two(Misnamed, Good(8)), Descending),
      App("array", Single("FLOAT"), Two(Good(8), Good(12)), Ascending),
      App("array", Single("FLOAT"), Two(Good(8), Good(6)), Descending),
      App("struct", Padded, Two(Good(16), TooDeep), Descending),
      Direct(App("basic", Single("FLOAT"), Two(Good(4), Good(8)), Ascending), 0),
      Direct(App("struct", Padded, Two(Good(16), Good(16)), Descending), 1),
      [App("array", Single("FLOAT"), Two(Good(8), Missing), Descending)
          EXCEPT !.failing = {<<0, 1>>}] }

TwoGoodLevels == { App("basic", Single("FLOAT"), Two(Good(4), Good(4)), Ascending) }
=============================================================================
