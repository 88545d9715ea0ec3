------------------------------ MODULE MCTxSend ------------------------------
(* Jobs for the runs of TxSend. *)
EXTENDS TxSend, TLC

CONSTANTS r1, r2

MCRuns == {r1, r2}

Plain == [input |-> "good", stdin |-> FALSE, yes |-> TRUE, chain |-> TRUE, wait |-> FALSE,
          out |-> FALSE]

(* One run with any input. *)
AnyJob == { r1 :> j : j \in {k \in Job : k.out => k.wait} }

(* Two runs with one signed transaction, asking for more and for less. *)
Retries == { r1 :> [Plain EXCEPT !.yes = y, !.wait = TRUE, !.out = TRUE]
             @@ r2 :> [Plain EXCEPT !.wait = w] : y \in BOOLEAN, w \in BOOLEAN }

MCJobs == AnyJob \cup Retries

(* One run, with and without --yes. *)
Sending == { r1 :> [Plain EXCEPT !.yes = y] : y \in BOOLEAN }
=============================================================================
