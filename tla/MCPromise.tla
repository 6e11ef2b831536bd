------------------------------ MODULE MCPromise ------------------------------
(* Promise for TLC: the programs of the run. Each makes the calls that meet in *)
(* one part of the code, as many as bring them together.                       *)
EXTENDS Promise

Sources == {"spawn", "settled", "cancel"}
Program(calls, n, m) == [calls |-> calls, ops |-> n, promises |-> m]

MCPrograms == {
    Program(Sources \cup Types \cup {"run_async", "await", "await_sync"}, 4, 3),
    Program({"spawn", "cancel", "then", "run_async", "await"}, 5, 3),
    Program(Sources \cup Modes \cup {"with_timeout"}, 5, 3),
    Program({"spawn", "with_timeout"} \cup Types, 3, 4),
    Program({"spawn", "run_async", "await", "wait", "with_timeout"}, 4, 4)}
=============================================================================
