------------------------------ MODULE MCKeygen ------------------------------
(* Jobs for the runs of Keygen. *)
EXTENDS Keygen, TLC

CONSTANTS p1, p2, m1, x1, x2, pw1, pw2

MCProcs     == {p1, p2}
MCMnemonics == {m1}
MCPasses    == {x1, x2}
MCPasswords == {pw1, pw2}
MCClock     == {0, 1}

Task(ns, mode, count, start, given, pwFromFile, verify, now) ==
  [ns |-> ns, mode |-> mode, count |-> count, start |-> start, pass |-> given,
   pwFile |-> pwFromFile, verify |-> verify, now |-> now]

(* One run of every kind; ranges that end at, and pass, the largest index. *)
Alone == { p1 :> Task(ns, mode, c, IF mode = "new" THEN 0 ELSE s, given, file, verify, 0) :
             ns \in {"validator", "account"}, mode \in {"new", "recover"}, c \in 0 .. 2,
             s \in {0, U32Max}, given \in {None, x1}, file \in BOOLEAN, verify \in BOOLEAN }

(* Two recoveries of one index in one directory, one of which checks what   *)
(* it writes, in one second or in adjacent ones: two validator keys that    *)
(* share a name, or one account key twice.                                  *)
Rivals == { p1 :> Task(k[1], "recover", 1, 0, x1, FALSE, TRUE, t[1])
            @@ p2 :> Task(k[1], "recover", 1, 0, k[2], FALSE, FALSE, t[2]) :
              k \in {<<"validator", x2>>, <<"account", x1>>},
              t \in {<<0, 0>>, <<0, 1>>, <<1, 0>>} }

MCJobs == Alone \cup Rivals
=============================================================================
