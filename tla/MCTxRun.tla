------------------------------ MODULE MCTxRun ------------------------------
(* Jobs for the runs of TxRun. *)
EXTENDS TxRun, TLC

CONSTANTS c1, c2, alice, hw

MCProcs    == {c1, c2}
MCAccounts == {alice, hw}

Plain == [cmd |-> "run", signer |-> "local", rpc |-> TRUE, given |-> {}, nonce |-> 0,
          from |-> NoAccount, input |-> "good", toFile |-> TRUE, keep |-> FALSE]

GivenSets == {{}, {"nonce"}, {"gas"}, {"nonce", "gas"}, Fields}

(* One command of every kind, with every combination of flags that matters. *)
Runs   == {[Plain EXCEPT !.signer = s, !.rpc = r, !.given = g, !.input = i, !.toFile = f, !.keep = k] :
             s \in {"local", "ledger"}, r \in BOOLEAN, g \in GivenSets,
             i \in {"good", "unreadable", "invalid", "refused"}, f \in BOOLEAN, k \in BOOLEAN}
Builds == {[Plain EXCEPT !.cmd = "build", !.rpc = r, !.given = g, !.from = a, !.toFile = f] :
             r \in BOOLEAN, g \in GivenSets, a \in {NoAccount, alice}, f \in BOOLEAN}
Signs  == {[Plain EXCEPT !.cmd = "sign", !.signer = s, !.toFile = f] :
             s \in {"local", "ledger"}, f \in BOOLEAN}
AnyJob == {c1 :> j : j \in Runs \cup Builds \cup Signs}

(* A run repeated with one output file, by the node's nonces, with a fixed  *)
(* one, by another signer, or without a node before; a run repeated that    *)
(* keeps the unsigned transaction, and a build after it; a build and its    *)
(* signature.                                                               *)
Again == { c1 :> Plain @@ c2 :> Plain }
         \cup { c1 :> [Plain EXCEPT !.rpc = FALSE, !.keep = TRUE] @@ c2 :> k :
                  k \in {[Plain EXCEPT !.rpc = FALSE, !.keep = TRUE],
                         [Plain EXCEPT !.cmd = "build", !.rpc = FALSE]} }
         \cup { c1 :> [Plain EXCEPT !.given = {"nonce"}]
                  @@ c2 :> [Plain EXCEPT !.given = {"nonce", "gas"}, !.signer = s] :
                  s \in {"local", "ledger"} }
         \cup { c1 :> [Plain EXCEPT !.rpc = FALSE] @@ c2 :> [Plain EXCEPT !.given = {"nonce"}] }
         \cup { c1 :> [Plain EXCEPT !.cmd = "build", !.rpc = FALSE]
                  @@ c2 :> [Plain EXCEPT !.cmd = "sign"] }

MCJobs == AnyJob \cup Again
=============================================================================
