------------------------------ MODULE ExitCodes ------------------------------
(* The errors of the binary, as layers from the outside in, and the exit    *)
(* code the program ends with.                                               *)
EXTENDS Sequences, SequencesExt

Layer(kind, err) == [kind |-> kind, err |-> err, code |-> 0]
Exit(code, what) == <<[kind |-> "Exit", err |-> what, code |-> code]>>
exit2(what)      == Exit(2, what)
Of(kind, err)    == <<Layer(kind, err)>>
Internal         == Of("Internal", "Internal")
Aborted          == Of("Aborted", "Aborted")

(* What went wrong is the innermost of the layers. *)
RootCause(e) == <<Last(e).kind, Last(e).err>>

(* A context keeps what it is about; an input error does not.               *)
context(e) == <<Layer("Context", "empty")>> \o e
input(e)   == <<Layer("Input", "empty")>> \o e

(* FAULTY: the context itself is looked at. *)
unwrap_context_not(e) == e

unwrap_context(e) ==
  LET inside == {i \in DOMAIN e : e[i].kind # "Context"}
  IN  SubSeq(e, Min(inside), Len(e))

(* The signer crate has contexts of its own, which these errors come in.    *)
FromSigner(err) ==
  (IF err \in {"InvalidKey", "InvalidChainId", "LedgerNotSupported", "UserRejected", "ChainIdMismatch"}
   THEN <<Layer("Signer", "Context")>> ELSE <<>>) \o Of("Signer", err)
sentinel(e) ==
  LET inside == {i \in DOMAIN e : e[i].err # "Context"}
  IN  e[Min(inside)]

SignerCode(err) ==
  CASE err \in {"UserRejected", "Cancelled"} -> 4
    [] err = "KeyFile" -> 2
    [] err \in {"SignerClosed", "NoDevice", "AppNotOpen", "InvalidKey", "InvalidChainId",
                "ChainIdMismatch", "LedgerNotSupported"} -> 3
    [] OTHER -> 1

TxCode(err) ==
  CASE err = "Cancelled" -> 4
    [] err \in {"ChainIdMismatch", "MissingFromForNonce"} -> 2
    [] err \in {"RpcDial", "RpcEstimation", "BroadcastFailed", "BroadcastChainIdMismatch"} -> 5
    [] OTHER -> 1

DepositCode(err) ==
  CASE err = "Cancelled" -> 4
    [] err = "PubkeyMismatch" -> 2
    [] err = "SelfVerifyFailed" -> 3
    [] OTHER -> 1

exit_code_for(e) ==
  LET inner == unwrap_context(e)
      top   == Head(inner)
  IN  CASE top.kind = "Aborted" -> 4
        [] top.kind = "Exit" -> top.code
        [] top.kind \in {"Input", "Bip39", "KeystoreNotFoundFor", "MainnetAckRequired",
                         "DepositCliNotFound", "Network"} -> 2
        [] top.kind \in {"Hd", "Bip32", "KeyVerifyFailed", "BlsInit", "DepositCliFailed"} -> 3
        [] top.kind = "Keystore" -> IF top.err \in {"WrongPassphrase", "Encrypt"} THEN 3 ELSE 2
        [] top.kind = "Deposit"  -> DepositCode(top.err)
        [] top.kind = "Tx"       -> TxCode(top.err)
        [] top.kind = "Signer"   -> SignerCode(sentinel(inner).err)
        [] OTHER -> 1
=============================================================================
