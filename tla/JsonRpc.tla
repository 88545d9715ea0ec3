------------------------------- MODULE JsonRpc -------------------------------
(* The client of a node: how a URL is taken, and what becomes of an answer. *)
(* An answer is what was sent back, if anything was; a quantity in it is    *)
(* text.                                                                     *)
EXTENDS Flags

CONSTANTS U64          \* 2^64

ASSUME JsonRpcAssumption == U64 \in Nat \ {0}

Null  == [json |-> "null"]
Hex(n) == [json |-> "hex", value |-> n]
Text(t) == [json |-> "text", text |-> t]
Hash(h) == [json |-> "hash", hash |-> h]

NewEthClient(url) ==
  IF url.parses /\ url.scheme \in {"http", "https"} THEN Success(url)
  ELSE Failure("RpcDial")

(* A transport error, a body that is no JSON, or an error object; a result  *)
(* that is not there is null.                                                *)
call(answer) ==
  CASE answer.transport # "ok" -> Failure("transport")
    [] answer.transport = "ok" /\ ~answer.json -> Failure("body")
    [] answer.transport = "ok" /\ answer.json /\ answer.error -> Failure("rpc-error")
    [] OTHER -> Success(answer.result)

parse_hex(result, modulus) ==
  IF result.json = "hex" /\ result.value < modulus THEN Success(result.value) ELSE Failure("quantity")

Quantities(answer, modulus) ==
  LET r == call(answer) IN IF r.ok THEN parse_hex(r.value, modulus) ELSE r

suggest_gas_tip_cap(answer) == Quantities(answer, FeeModulus)
block_base_fee(answer)      == Quantities(answer, FeeModulus)
pending_nonce_at(answer)    == Quantities(answer, U64)
estimate_gas(answer)        == Quantities(answer, GasModulus)
chain_id(answer)            == Quantities(answer, U64)

(* The hash a node gives is believed. *)
send_raw_transaction(rawRLP, answer) ==
  LET r == call(answer)
  IN  CASE rawRLP.text # "hex" -> Failure("BroadcastFailed")
        [] rawRLP.text = "hex" /\ (rawRLP.value = <<>> \/ rawRLP.value[1] # Byte(2)) ->
             Failure("BroadcastFailed")
        [] OTHER -> IF r.ok /\ r.value.json = "hash" THEN Success(r.value.hash)
                    ELSE Failure("BroadcastFailed")
=============================================================================
