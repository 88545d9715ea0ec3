---------------------------- MODULE MCOutputFs ----------------------------
(* Two processes, and the calls they may make at the same time. *)
EXTENDS OutputFs, TLC

CONSTANTS p1, p2, k1, k2, n1, n2

MCProcs    == {p1, p2}
MCTargets  == {k1, k2}
MCTmpNames == {n1, n2}

Call(o, x) == [op |-> o, target |-> x]

(* Two keystores, two artifacts with the same name, deposit data of two     *)
(* different seconds, and the mixes of writers that share a directory.      *)
MCCalls == { p1 :> Call(a[1], k1) @@ p2 :> Call(a[2], a[3]) :
               a \in { <<"new", "new", k1>>, <<"new", "new", k2>>, <<"atomic", "atomic", k1>>,
                       <<"deposit", "deposit", k2>>, <<"new", "deposit", k2>> } }

(* Two `deposit gen` in the same output directory in the same second. *)
SameSecond == { p1 :> Call("deposit", k1) @@ p2 :> Call("deposit", k1) }
=============================================================================
