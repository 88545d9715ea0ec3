# A verification project for `ethernal`

`ethernal` is a command-line program for Ethereum validators and accounts. It
makes mnemonics and keystores, signed deposit data, and the transactions that
pay for deposits. This directory holds TLA+ models of its control flow, the TLC
configurations that check them on small instances, and TLAPS proofs of the safety
properties of most of them for instances of any size.

What can go wrong in this program is a file that is half there, a keystore that
nobody can open again, a transaction that was sent although the program said that
it was not, a secret that stays on a screen; or a deposit whose bytes, through
five encodings and four commands, are not the ones that were meant. The models
keep every state change, guard, early return and error path, and reduce data
(keys, signatures, JSON, hex) to what the properties tell apart.

Contents: 1 inventory, 2 the modules and the code, 3 runs, 4 bounds, 5 fairness,
6 where the code and its documentation disagree, 7 proofs, 8 what is not
modelled, 9 plan.

## 1. Inventory

Paths are relative to `src/`; `B` is `bins/ethernal/src`, `C` is
`crates/ethernal-core/src`, `K` is `crates/ethernal-keystore/src`, `T` is
`crates/ethernal-tx/src`, `S` is `crates/ethernal-signer/src`.

### `deposit gen` (`B/gen_cmd.rs`, `C/deposit.rs`)

*State.* The request (a list of pubkeys, flags), an index of the keystore
directory, and, while the pool runs: the shared counter `next`, the pool's token
`worker_cancel`, an mpsc channel, the collector's `entries` and `selected_err`.
*Operations.* Preflight checks; `parallel` worker threads that claim an index,
run `process_pubkey` (look up, decrypt, sign, self-verify) and send the result;
the collector; one write of the deposit data; an optional cross-check by an
external program.
*Interactions.* Workers, collector and signal handler share the two tokens; the
writer is `FsWriter` or, with `--dry-run`, standard output.
*Hard.* Every interleaving of workers, collector and SIGINT; errors that cancel
the pool, whose cancellations race with the errors that caused them; termination
through the closing of a channel.
*Correct when* no result is lost or doubled; a file has all entries in request
order, or there is none; the exit code names a cause that is there; the program ends.

### File writers (`C/output.rs`)

*State.* None of their own: a directory, inodes, a temporary file and, on file
systems without hard links, an empty reservation of the final name.
*Operations.* `write_new_0600` (keystores: never overwrites), `write_atomic`
(transaction artifacts: replaces), `FsWriter::write` (deposit data),
`DryRunWriter`.
*Interactions.* Called by every command that leaves a file behind; several
processes may share a directory.
*Hard.* Each is a sequence of system calls, and any of them may fail, be
interleaved with another process's, or be the last before SIGKILL or a power
loss.
*Correct when* a final name never leads to a partial file; a reported success
survives a power loss; keystores are never replaced; a failed call leaves nothing
behind and removes nothing of others.

### Mnemonic ceremony and keygen pipelines (`B/keygen.rs`, `B/validator_cmd.rs`, `B/account_cmd.rs`, `B/keystore_cli.rs`, `B/*_cli.rs`)

*State.* The mnemonic, its passphrase and the keystore passphrase in memory; the
terminal; the list of files written.
*Operations.* `validator new / recover`, `account new / recover`: display, clear
and re-entry of a fresh mnemonic, the passphrase prompts, then per key the
derivation, checks C1 to C3, encryption, `write_with_retry`, check C4, report.
*Interactions.* The signal handler's token is read between the steps; the
passphrase file is read once; the directory may be shared with other runs.
*Hard.* SIGINT between any two steps, an operator who types anything, a directory
where names are taken, failing writes, wrong results of libraries.
*Correct when* keys of a fresh mnemonic are persisted only after it was
re-entered; the mnemonic does not stay on the screen; a run leaves the keystores
of a prefix of its indices, all under one passphrase; what is reported opens.

### `tx send` (`B/send_cmd.rs`, `T/rpc_client.rs`)

*State.* A signed transaction, the answer to the confirmation, the hash, the
receipt.
*Operations.* Read and parse, compare chain IDs, confirm, broadcast, poll for a
receipt, write it.
*Interactions.* One JSON-RPC node over HTTP with a 30 s timeout; the operator;
the signal handler.
*Hard.* Lost requests and answers, requests that arrive after the client gave
up, retries by the operator, deadlines, SIGINT.
*Correct when* nothing is broadcast without the chain check and a confirmation;
the exit code tells whether something may be on its way; a run always ends.

### `deposit build`, `tx sign`, `tx run` (`B/build_cmd.rs`, `B/sign_cmd.rs`, `B/run_cmd.rs`, `T/builder.rs`, `T/validation.rs`)

*State.* Deposit data, unsigned and signed transactions as files.
*Operations.* Validation, resolution of nonce, fees and gas (from flags or the
node), signing, artifacts, and `tx run`, which builds and signs in one process.
*Interactions.* The node is asked for the chain, fees, the pending nonce and gas
of an account; the key file and the output files may be shared with other
commands; a signed artifact may be sent at any time.
*Hard.* A repeated command after a lost answer of `tx send`; a key file exchanged
between two reads; several artifacts that are not written together; combinations
of flags that leave the builder without a sender.
*Correct when* the account the node was asked about signs; a fixed nonce pays
once; a kept unsigned transaction is the one that was signed; two artifacts
disagree only after a failure between them.

### Signers (`S/local.rs`, `S/ledger.rs`, `S/ledger_hid.rs`)

*State.* A local key, or an open HID handle; the device has a transaction context,
a user, and answers under way.
*Operations.* `LedgerSigner` opens the device, asks for its status and an address,
and signs in chunks of 255 bytes; `exchange` cuts a request into frames of 64
bytes and puts the answer together.
*Hard.* Frames have sequence numbers but no request they answer; a read has no
timeout; a program that is killed leaves an answer behind for the next one.
*Correct when* a reply is one whole answer; a signature is over the run's own
transaction; a run ends if the device answers.

### Mnemonics and keys (`C/bip39.rs`, `C/hd.rs`, `C/hd_secp256k1.rs`, `C/bls.rs`, `C/entropy.rs`)

*State.* None: functions from entropy to a mnemonic, from a mnemonic and a
passphrase to a seed, from a seed and a path to a key.
*Operations.* `entropy_to_mnemonic`, `validate_mnemonic`, `to_seed`, `KeyPath::signing`
and `derive_path` for validators, `Bip44Path::eoa` and `ExtendedPrivKey` for accounts,
`new_signer`, `sign`, `verify`.
*Hard.* Bits that straddle words, a checksum that is a prefix of a digest, case and
Unicode forms of what is typed, indices at 2^31 and 2^32, derived scalars that are
zero or too large.
*Correct when* what was written down gives the same keys again, and no other
mnemonic, passphrase or index does.

### Keystores (`K/encrypt.rs`, `K/encrypt_v3.rs`, `K/keystore.rs`, `K/decrypt_v3.rs`, `K/crypto.rs`, `K/scandir.rs`)

*State.* A directory of JSON files, of which `scan_dir` makes an index by pubkey.
*Operations.* Encrypt and decrypt in the two formats, which normalize the passphrase
(EIP-2335) or take its bytes (Web3 v3); bounds on what a file may make the key
derivation cost; the names of files.
*Hard.* The checksum covers the ciphertext and nothing else; a directory may hold
anything, and two files of one pubkey.
*Correct when* a keystore opens for the passphrase it was given, in this program
and others, and yields the key it says; what the loader returns for a pubkey is
that pubkey's key or is noticed.

### Secret files and prompts (`crates/ethernal-secretfile`, `K/passphrase.rs`)

*State.* An open descriptor and a buffer of one byte more than the maximum; the echo
of a terminal.
*Operations.* `read_secret_line`, `read_secret_trimmed`, `TermPromptSource`,
`FileSource`, `NewKeystorePassphrase`.
*Hard.* The path is replaced or the file rewritten between open, fstat and reads, each
of which may return less than there is; several workers of `deposit gen` prompt
on one terminal, whose echo each of them switches off and restores.
*Correct when* a passphrase is the whole of what the file held; the echo is off
exactly while a passphrase is read.

### Deposit data and encodings (`C/network.rs`, `C/ssz.rs`, `C/deposit.rs`, `T/abi.rs`, `S/rlp.rs`, `S/parse.rs`)

*State.* None: the bytes of a deposit on their way to the contract.
*Operations.* The tables of networks, SSZ roots, JSON out and in, the ABI of
`deposit()`, RLP of an unsigned and a signed transaction, quantities in hex.
*Hard.* Every encoding is written here twice, or here and by somebody else: by
`deposit gen` and `deposit build`, by `tx sign` and the node, by `abi.rs` and the
contract.
*Correct when* the contract computes the root it is given, the beacon chain accepts
the signature, the node recovers the account that was to pay.

### Errors, signals, flags (`B/errors.rs`, `B/main.rs`, `C/cancel.rs`, `B/*cli.rs`, `B/config.rs`, `B/fs_util.rs`)

Every command turns flags into a configuration by checks in a fixed order, and ends
with an error under layers of context, to which `exit_code_for` gives a code from
0 to 5. The SIGINT handler is one store to a process-wide token; reads of the
terminal are restarted after it.

### The rest

Wording and layout (`T/redact.rs`, `B/logging.rs`, `B/progress.rs`) and the devnet
scripts: not modelled (section 8). `PROJECT.json` lists every component and, line
by line, the hazards the properties are for.

## 2. The modules and the code

| module | models | state and actions |
|---|---|---|
| `GenDefs` | what both views of `deposit gen` share | configurations, fates of a pubkey, exit codes, the preflight checks in their order |
| `GenPool` | `run_gen_with_deps` | per worker `pc`, `held`, `outcome`; the channel as the log `sent` and the number `taken`; one action per access to shared state (`Poll`, `Claim`, `Gate`, `Load`, `Generate`, `Flag`, `Send`), and for the main thread `Preflight`, `Receive`, `Join`, `Write`, `Verify` |
| `GenPromise` | nothing: the abstract specification | a file appears with the whole request or not at all, output on stdout only for a good request; an exit code has a cause |
| `OutputFs` | `write_new_0600`, `write_atomic`, `FsWriter::write` | names to inodes to contents, each as seen now and as kept by a power loss; one action per system call; faults, kills, one power loss |
| `PublishOnce` | nothing: the abstract specification | a name is claimed, published once, and never changes |
| `Keygen` | the four key-making commands | per run: `pc`, `err`, secrets, terminal, the list of files; the shared directory; one action per step between two looks at the cancel token |
| `TxSend` | `tx send` | per run: `pc`, `err`, the request on the wire, receipt and file; the node; its `SendInit`, `SendNext` and `SendSpec` leave the plain names to `Lifecycle`, with which `TransactionProofs` extends it |
| `TxRun` | `deposit build`, `tx sign`, `tx run` | per command: `pc`, `err`, the key it holds, the senders it asked about, the nonce, both transactions; the key file, the artifacts, the node; one action per access to one of these |
| `LedgerHid` | `HidWallet` as `LedgerSigner` uses it | per run: the step (status, address, chunks), frames written and read, the queue of its handle; the device with its user, external; one action per frame |
| `SecretFile` | `read_secret_line` as `FileSource` calls it | a path, inodes and their bytes, which others replace and rewrite; per read `step`, the inode of the descriptor, the buffer; one action per system call (`Open`, `Fstat`, `ReadChunk`, `Judge`) |
| `TtyPrompt` | the passphrase sources in the workers of `deposit gen`; extends `SecretFile` | per worker: `pc`, `idx`, the setting to restore; the echo of the one terminal; before the workers the passphrase file is read once and copied to them; `Load` of `GenPool` in six steps |
| `Mnemonic`, `KeyPaths`, `Keystores`, `DepositData`, `TxData`, `Signers` | the files of the inventory of those names | no state: operators, one per function of the code, with hashes and ciphers as constants or free terms |
| `JsonRpc` | `EthClient`: what an answer of the node is taken for | no state |
| `Flags` | `command` and `load_config` of every command | no state: a table of flags, and the checks in their order |
| `ExitCodes` | `AppError`, `SignerError::context`, `exit_code_for` | no state: errors as terms under layers of context |
| `Commands` | the commands from arguments and files to results; composes the eight modules above | no state: `keygen`, `deposit_gen`, `deposit_build`, `tx_sign`, `tx_run`, `tx_send` as operators |
| `Lifecycle` | an operator who runs them one after the other | the keys and keystores made, the three artifacts, what was broadcast and its verdict, the chain, the last exit code; one action per command, `Edit` for files that change, `Drift` for the chain, `Mine` for the judgement of node, contract and beacon chain |
| `MC*` | | model values and the sets of inputs of the runs |
| `GenPoolProofs`, `OutputFsProofs`, `KeygenProofs`, `TxRunProofs`, `LedgerHidProofs`, `TtyPromptProofs`, `LifecycleProofs` | | theorems about the modules of those names |
| `TransactionProofs` | | theorems about the transaction of a deposit: its way through `Lifecycle`, and `TxSend` |

Two choices deserve a word.

*Grain of atomicity.* In `GenPool` every read or write of something another
thread touches is one step. Reading the outer token and storing the inner one are
one step although they are two in the code: the outer token never goes back to
false, and nothing else happens between. In `Keygen` and `TxSend` a step is what
lies between two interactions with the outside (prompt, file, network, token).
`TxRun` takes `write_atomic` as one step, and `deposit build` and `tx sign`, which
truncate and then write, as two. `TtyPrompt` has one step for the three by which a
worker of `GenPool` gets its index.
`Keygen` takes `write_new_0600` as one step with three outcomes (done, failed
without a trace, failed with the file in place) and `GenPool` does so with
`FsWriter`; `OutputFs` and `PublishesOnce` justify that for `write_new_0600`, and
for `FsWriter` as long as two runs do not share a second (section 6). A dry run
writes to stdout, which is not undone: a failed write may leave the beginning of the
output there, and so may one that succeeded, since what is still in the buffer of
stdout is flushed at exit with its errors ignored.

*Two views of a command.* The modules down to `TtyPrompt` are about what happens
inside a command, or between two at once: there a keystore or a transaction is one
value. `Lifecycle` takes a whole command as one step and is about the data: there
a mnemonic is a sequence of words with bits, an entry a record of fields, a
transaction a sequence of RLP items that somebody else decodes.

*Terms for bytes.* A hash, a cipher or a signature is a free term (a record of
what went in), which only the matching operation takes apart, so that two are
equal exactly if their inputs are; where the code does arithmetic on the result
(derived scalars, the bits of a checksum, a low or high `s`) it is a function
given by a constant of `Lifecycle`, small in `MCLifecycle`. RLP and the ABI are
encoded item by item with their lengths, and decoded by operators written from
the contract's and the node's side, which are external.

*The operator's and the library's part.* What a library computes is a chosen
outcome: each pubkey has a `fate`; a derivation or encryption in `Keygen` can
come out wrong, which is what C1 to C4 exist for. What an operator types, which
system call fails, what the node answers are free choices.

Definitions whose comment begins with FAULTY are not part of any specification.
Each is the variant of the definition after it that a plausible mistake in the
code would give; a property is kept only if TLC finds it violated when the
variant takes the definition's place.

## 3. Runs

| run | question | answer |
|---|---|---|
| `GenPool` | any schedule of two workers over three pubkeys, SIGINT at any time, all preflight outcomes | no result lost or doubled (`AnsweredOnce`); output whole and in order (`OutputInRequestOrder`); `selected_err` is the best error received (`SelectedIsBest`); implements `GenPromise` (`KeepsPromise`): exit 4 only after a SIGINT, no panic, never a part of the output in a file; with fair threads it always ends (`Terminates`), and an early SIGINT means that nothing is published (`InterruptStopsPool`) |
| `GenPoolExit` | is the exit code independent of the schedule? | no: section 6 |
| `OutputFs` | two calls of any writers at once, two failing system calls, a kill, a power loss | never a partial file (`NeverPartial`); a call that reported success survives a power loss, and one that reported an error has left nothing behind (`AnswerHolds`); nobody's files but one's own are removed (`UnlinksOwnOnly`); two keystore writers implement `PublishOnce`, so that no keystore is ever replaced (`PublishesOnce`) |
| `OutputFsSameSecond` | two `deposit gen` in one directory and second | a partial file may be seen: section 6 |
| `Keygen` | one run of each kind with everything that can happen to it, or two recoveries that collide on names | keystores of a fresh mnemonic need its re-entry, and however the ceremony ends the screen is cleared or the operator told that it may not be, unless the terminal and stderr refuse all three writes (`CeremonyKept`, section 6); what is reported opens, all of it under the one passphrase that was read (`ReportedOpens`); each run leaves the keystores of a prefix of its indices, at most one of them after a SIGINT, and no range is refused half way (`RunLeavesPrefix`); an interrupted run ends (`InterruptEnds`) |
| `TxSend` | one run with any input, flags and node, or two with one transaction, overlapping in every way | broadcast is gated (`BroadcastIsGated`); exit codes may be trusted (`ExitIsHonest`); a run ends (`Ends`) |
| `TxSendInterrupt` | does Ctrl-C before the broadcast prevent it? | no: section 6 |
| `TxRun` | one build, sign or run, any flags, inputs, answers, the key file exchanged at any moment; or two commands that overlap or follow each other, failing or killed anywhere, everything they sign sent | the account asked about is the one that signs, and no flags leave the builder without one (`AskedForSigner`); a fixed nonce pays once (`FixedNoncePaysOnce`); a kept unsigned transaction is the one that was to be signed, until another command replaces it, and `signed.json` and `.raw` disagree only after a failure between them (`ArtifactsTally`); interrupted before the signature means no signature (`InterruptedNeverSigns`) |
| `LedgerHid` | three runs, up to two cut off at any frame, the device goes on | no frame announces less than what is read already, so the unsigned subtraction of `exchange` does not wrap, a reply is one whole answer, and with one run cut off the next is in step before it signs (`RepliesInStep`, of the parts `NeverWraps`, `ReplyWhole` and `InStep`); also with two, a signature is over the run's own transaction (`SignatureIsOwn`); a run ends (`RunEnds`) |
| `TtyPrompt` | one worker, any keystores, the passphrase typed or in a file that is replaced or rewritten at any moment, SIGINT at any moment | the echo is off exactly while a passphrase is read, on every way out of the worker loop (`EchoFollowsReads`; that a read restores the echo is rpassword's part, external here); a passphrase is the whole of one file that was at the path, if nobody writes that very file while it is read, and a longer file is refused (`SecretIsWholeFile`) |
| `TtyPromptParallel` | do two workers keep the echo off? | no: section 6 |
| `Lifecycle` | an operator makes keys, recovers them, makes a deposit, builds, signs and sends it, and something out of the ordinary happens once, anywhere | recovery gives the same keys, and a wallet the same accounts (`RecoveryReproduces`); keystores open for their passphrase here and elsewhere (`KeystoresOpenForOwner`); whatever lies in the keystore directory, an entry is signed by the key of its pubkey and pays out to the address that was typed (`EntryVerifies`); a transaction made from an entry is effective on the chain or fails for its fees or its account only, and what the node was asked about still suffices after the base fee doubled and the gas grew by a fifth (`DepositEffective`, of the parts `WholeToAll` and `FeesCover`); each exit code is the documented one of what went wrong below all context (`DocumentedExit`); as long as nothing is out of the ordinary no command fails (`UsualSucceeds`) |

Each state machine has one type invariant, `TypeOK` (`SendTypeOK` in `TxSend`). Deadlock is checked in every run;
`Terminated` and `Finished` stand for the ended program.

## 4. Bounds

- `GenPool`: three pubkeys and two workers (two pubkeys for the exit code). Two
  workers are enough for every pairwise race on the counter, the token and the
  channel. With three pubkeys, each with its own fate, an index can be claimed, be
  processed and be unclaimed at the same time, and an error at a low index can
  meet an error and a cancellation at higher ones. `PossibleFates` has an outcome
  of each stage and of each exit code: not found (2), wrong passphrase (3), the
  signature failed (1), the self-verification failed (3), success. The safety
  properties are proved without these bounds.
- `OutputFs`: two processes, two targets, two temporary names, at most two failing
  calls, one kill, one power loss that may keep any subset of the unsynced changes
  and any part of unsynced contents. Two faults are needed for "the rename fails
  and so does the removal of the reservation". A write of contents is one step
  with a partial outcome.
- `Keygen`: up to two keys a run, an index range that ends at or passes the
  largest index (`U32Max = 2` in place of 2^32 - 1: only the comparison matters),
  two passphrases of each kind, one edit of the passphrase file, one wrong
  result of a library. The two competing recoveries write one key each and start
  in the same second or one second apart, so that both the first and the second
  name of `write_with_retry` can be taken, by the other run or by a file of an
  earlier one.
- `TxSend`: one transaction, one or two runs, a deadline of two poll intervals,
  time counted in intervals.
- `TxRun`: one command or two; an account with a key file and the device's; the
  key file is exchanged at most once (`MaxEdits`), which is enough to fall between
  any two reads of it; at most one kill (`MaxKills`). `ArtifactsTally` is about
  runs one after the other, since two that overlap with one output file interleave
  their writes: `overlapped` remembers it. Two runs that keep the unsigned
  transaction, or such a run and a build, replace each other's. Each flag that overrides a field is
  given or not; values of fees do not matter.
- `LedgerHid`: three runs of one, two and three chunks, two frames to a chunk, at
  most two runs cut off (`MaxCuts`). After one cut the next run is in step before
  it signs, because the answers to the address request and what may be left over
  differ in length or are refused; two cuts leave two answers and can put the
  third run out of step, so that part of `RepliesInStep` is stated for one.
  `SignatureIsOwn` asks for no more cuts than the run sends requests before its
  last, which are two at least: here that is always so. With three cuts and four
  runs of one chunk TLC finds it false without the condition (section 6).
- `TtyPrompt`: two pubkeys and one worker (two of each in `TtyPromptParallel`), a
  maximum of three bytes for a secret file, two edits of it, each a replacement or
  a rewrite: one edit can fall between open and fstat and another between two
  reads. `Contents` has a file of each length up to one more than the maximum, and
  each terminator at the end and before it.
- `Lifecycle`: words of three bits, mnemonics of two and four words (the long one
  has a checksum that ends inside a word), at most two keys a run, keys modulo a
  small `Order`, so that scalars that are zero or too large happen. The widths of
  indices are small too (`U32`, `HARDENED`), with the first, the last and the one
  past each bound among the inputs. One slip (`MaxSlips`): every flag missing or
  wrong, every answer of the node, device and disk, every edit of a file; two
  mistakes that only together do harm are out of reach.
  `Sizes` bounds the leaves of a Merkle tree by four, the most a deposit has: the
  data, four fields; a signature, three chunks. One kind of keys is made
  in a run (`InTurn`), since the two kinds share no state but the directory.

A command that a run does not start is absent from `job` and has ended from the
beginning; so one run has scenarios of one command and of two.

## 5. Fairness

The safety properties need none. `GenPool` assumes weak fairness of the main thread
and of each worker: they are operating-system threads that never wait for each
other except on the channel, and an enabled step stays enabled until it is taken.
Nobody is obliged to send SIGINT. `Keygen`, `TxSend` and `TxSendInterrupt` assume
weak fairness of each run's steps: the process is scheduled, its operator answers
prompts sooner or later (an end of input counts), and a request that the node
leaves unanswered ends in the HTTP client's 30 s timeout. Nothing is assumed of
the node or of mining, so `Ends` covers a node that takes the transaction and never
mines it. `LedgerHid` assumes weak fairness of the runs, of the device and of its
user: `hid_read` has no timeout, so `RunEnds` says that no leftover answer makes
a run wait for a frame the device has no reason to send, and nothing about a
device that is silent.

## 6. Where the code and its documentation disagree

- `StableExitCode`. `gen_cmd.rs:168-169` says that the lowest-index error is kept
  "so the reported exit code is stable under worker scheduling". An error cancels
  the pool, and a lower index that was claimed but not begun is then answered
  with Cancelled, so its error is never produced. With a missing keystore first
  and a wrong passphrase second, the exit code is 2 or 3. What does hold is
  `SelectedIsBest`: the choice among the errors *received* is the stated one.
- `NeverPartial` in `OutputFsSameSecond`. `FsWriter::write` opens a temporary
  name that depends only on the second, with create and truncate. Two
  `deposit gen` in one directory and second write through one inode; one renames
  it while the other is writing. `CHANGELOG.md:385` says "no partial file is ever
  visible to the OS". `write_new_0600` and `write_atomic`, whose temporary names
  are unique and exclusive, do not have this problem.
- `InterruptAborts`. The help of `tx send` lists "4 User abort (Ctrl-C or declined
  confirmation)", but nothing reads the token before `poll_receipt`: a Ctrl-C
  while the chain ID is fetched or the confirmation is awaited is followed by the
  broadcast once the operator confirms or `--yes` was given.
- `EchoSuppressed` in `TtyPromptParallel`. `passphrase.rs:137-138` says that the
  passphrase is read "with terminal echo suppressed". One `TermPromptSource` is
  shared by all workers and only its writer is locked, so with `--parallel 2` and
  no passphrase file two workers read at once. The first to finish restores the
  echo it found while the other still reads, whose passphrase is then shown; and
  the other, which found the echo off, leaves the terminal without echo.

Smaller things that the models make visible:

- `account new --start-index` accepts 2^31 and more; the child is then hardened
  (`hd_secp256k1.rs` decides by the number), while the comment there describes the
  last level as not hardened. `RecoveryReproduces` holds: `recover` and a wallet
  that is given the same number derive the same key.
- `USER-GUIDE.md:314` says "If the clear fails, `ethernal` continues (fail-open) but
  warns loudly". The warning goes to the terminal that has just refused to be erased,
  then to stderr, and the error of that last write is dropped (`keygen.rs:120`). If all
  three fail, the mnemonic stays on the screen, nobody is told, and the run writes its
  keystores. `MnemonicCleared`, a part of `CeremonyKept`, is stated with that
  exception, which the history variable `refused` marks; TLC finds it violated without.
- `account new` has no check like C4: a v3 file that the disk damages is reported
  as written. `KeystoresOpenForOwner` says so (`sound`, `checked`).
- The IV of a keystore is under no checksum: a file with another IV opens and gives
  another secret. `EntryVerifies` holds since the generator verifies each signature
  with the pubkey of the file; the error is then one of verification, or `Bls`
  with exit 1 if the other secret is not a scalar.
- `S/errors.rs` says of its errors that they map to exit code 3; a rejection at the
  device is 4 by `exit_code_for` and the help texts.
- Answers of the Ledger carry no name, and the sender that is recovered from a
  signature is compared with nothing (`S/ledger.rs`). Three programs that are cut
  off one after the other, each with an answer outstanding, leave the fourth to
  take the confirmation of another one's transaction for its own; the artifact
  then has a signature of a stranger. `SignatureIsOwn` holds up to that number.
- `deposit gen` for one network and `deposit build --network` for another are not
  compared: the deposit is paid and lost. `DepositEffective` is stated for entries
  of the network that is built for.
- Duplicate `--pubkeys` are accepted; a tip above the maximum fee is refused by the
  node and not by the builder; the sums of fees wrap in a release build for base
  fees near 2^127.

## 7. Proofs

TLC checks the instances of section 4. The theorems hold for every value of the
constants that satisfies the assumptions named in the modules, which TLC evaluates
in the runs: any number of workers, runs, processes, faults, kills and edits.

| module | theorem | property |
|---|---|---|
| `GenPoolProofs` | `TypeCorrect`, `ResultsConserved`, `WholeRequestInOrder`, `BestErrorKept` | `TypeOK`, `AnsweredOnce`, `OutputInRequestOrder`, `SelectedIsBest` |
| | `PromiseKept` | `KeepsPromise`: `GenPool` implements `GenPromise` |
| `OutputFsProofs` | `TypeCorrect` | `TypeOK`, for all three writers |
| | `KeystoresOnce` | `PublishesOnce`: calls of `write_new_0600` implement `PublishOnce` |
| | `KeystoresWhole`, `KeystoreAnswersHold`, `KeystoresUnlinkOwn` | `NeverPartial`, `AnswerHolds`, `UnlinksOwnOnly`, if all calls are `write_new_0600` |
| `KeygenProofs` | `TypeCorrect`, `CeremonyHolds`, `ReportedSo`, `PrefixLeft` | `TypeOK`, `CeremonyKept`, `ReportedOpens`, `RunLeavesPrefix` |
| `TxRunProofs` | `TypeCorrect`, `NodeAskedForSigner`, `OnePaymentPerNonce`, `AbortedUnsigned`, `FilesTally` | `TypeOK`, `AskedForSigner`, `FixedNoncePaysOnce`, `InterruptedNeverSigns`, `ArtifactsTally` |
| `LedgerHidProofs` | `TypeCorrect`, `SubtractionSafe`, `RepliesMatch`, `SignatureOwn` | `TypeOK`, `NeverWraps` (a part of `RepliesInStep`), `RepliesInStep`, `SignatureIsOwn` |
| `TtyPromptProofs` | `TypeCorrect`, `WholeSecret` | `TypeOK`, `SecretIsWholeFile` |
| | `OneWorkerEcho` | `EchoFollowsReads`, if there is one worker |
| `LifecycleProofs` | `EntriesVerify`, `KeystoresOpen`, `RecoveryRepeats` | `EntryVerifies`, `KeystoresOpenForOwner`, `RecoveryReproduces` |
| | `ExitsDocumented`, `TypesHold` | `DocumentedExit`, `TypeOK` |
| | `KeysWell`, `KeysShaped`, `MnemonicsListed`, `EntriesHold` | the inductive invariants `KeysInv`, `ShapeInv`, `WordsInv` and `EntryInv` they rest on |
| `TransactionProofs`, extending `LifecycleProofs` and `TxSend` | `DepositsEffective`, `FeesSuffice` | `DepositEffective`, of the parts `WholeToAll` and `FeesCover` |
| | `SendTypesHold`, `NothingSentUngated`, `HonestExit` | `SendTypeOK`, `BroadcastIsGated`, `ExitIsHonest` |

The two conditions are not a convenience: with two `deposit gen` in one second
`NeverPartial` is false, and with two workers so is `EchoSuppressed` (section 6).

*`deposit gen`.* `OutputInRequestOrder` speaks of the moment of writing, and
depends on the history of the pool, so it is not inductive. The invariant is
`IInv`, the conjunction of

- `TypeOK` and `HandsMatchPc`: a worker holds an index exactly between its claim
  and its send, every index held or sent is below `next`, and a worker that has
  left its loop saw `next >= N`;
- `AnsweredOnce`: every index below `next` is in one worker's hands or in the
  channel, once;
- `ResultsMatchFate`: a result Ok is sent only for a pubkey that can be
  processed;
- `CollectedMatchesSent`: every Ok taken from the channel has its entry at its own
  index, and as long as no error is selected everything taken was Ok;
- `WrittenOnlyWhenFull`: past the join every entry is there.

The interesting step is `Join`: all workers are gone, so `next >= N`; no worker
holds anything, so by `AnsweredOnce` every index is in the channel; everything was
taken and no error is selected, so by `CollectedMatchesSent` every entry is at its
index. `Best` (what is selected is the best of what was taken) gives
`SelectedIsBest`. The refinement needs two parts more: `Causes` (a cancellation is
sent only when a token is set, and the pool's token only after a SIGINT or a
failure) and `Stage` (what is published and which error there is at each point of
the main thread); then every action is an action of `GenPromise` or a stutter.
Assumptions: `N` is a natural number, there is a worker (the code takes
`parallel.max(1)`), configurations and fates are well formed.

*Files.* The invariant `Safe` says how far each call is and what it has (`Phase`:
its temporary name leads to its own inode, whose contents are written, then
synced), what may be at a final name and what a power loss may bring back there
(`AtTarget`), which inodes nobody writes (`Fixed`) and where leftovers may be.
`StepFootprint` shows that a step of one call touches only its own inode and names
that lead to its inodes or nowhere, so that the parts of the other calls hold
without a look at the step (`OthersSafe`). What a step shows of itself (`Shows`)
is one of six cases, each an action of `PublishOnce` or a stutter; a power loss is
`Lose`, since what was answered Ok is durable. Assumptions: the sentinels differ
from each other and from processes, final names and temporary names are disjoint.

*Keygen.* The invariant has four parts for each run: `Secrets` (what it holds at
each stage, and that a stage after the ceremony has a matching re-entry behind it),
`Ranged` (its place in the range; no file before the passphrase is read; no late
file while another may still be made), `Listed` (what is in its files and in its
summary) and `Counted` (one file per index: the cardinality of its files is the
length of the summary, or one more). Steps of other runs change none of it, as
they only add files under free names (`StepLeaves`, `OthersKept`). `Old` stands for
no run. The history variable `refused` has the writes of `clear_after_ceremony` that
failed; with it `CeremonyHolds` is exact about the one way in which the mnemonic stays
on the screen.

*`tx send`, `tx run`.* For `TxSend` the invariant adds to `SendTypeOK` what a run has
checked at each step (`Gates`) and what of the node it may rely on at the end
(`Known`). For `TxRun`, `Path`, `Has` and `Asks` say which steps a command of each
kind can reach, what it holds there and whom it asked about; `FixedNoncePaysOnce`
then follows a transaction from the command that made it (`InHand`) to the artifact
(`OnDisk`) and the node (`AtNode`): its nonce is the one its maker was given.
`ArtifactsTally` needs three parts more. `Stages` says when an error, a signature
and an unsigned transaction can be there; with it a step that changes the unsigned
file is a command's that puts its own transaction there (`UnsignedStep`,
`SurvivesStep`). `Serial` says that commands which did not overlap are idle while
one works, and `Pairs` that between its two writes the first artifact is the one of
the command at work. Assumptions: jobs are well formed, with nonce 0 where none is
given; the device and the sentinels are told apart.

*Ledger.* Frames carry the number of their place in an answer, but not whose answer
it is, so the invariant speaks of everything under way: the rest of a reply and the
frames in the queue of the open handle and in the device (`Stream`), the request its
user looks at, and the requests on the bus. `Shapes` says that the frames of one
answer, or request, follow each other and only the first may be the second half of
one; with `Replying` (a reply is empty or half of an answer whose other half comes
next) every reply is one whole answer, and the frame that comes next never announces
less than what is read already (`NextFrameFits`, from which `NeverWraps`). `Known` and `Order` say that nothing is under
way that was not asked, and that it comes in the order of asking, an own one after
others'. `NoGap`: of the own requests all after the first one under way are under
way too. `Short`: the answers outstanding are no more than the runs cut off, and one
for the run itself, by a count that every cut and every answer moves by one. A run
that takes an answer to another request for its last one would have to have all its
earlier ones outstanding, more than there were cuts: so `SignatureIsOwn`. `Tight` is
the same for one cut, where the answers to the address request, which differ from
the rest in length or are refused, put the run in step. Assumptions: every run sends
one chunk or more, and the sentinel is no request.

*Secrets.* `BufferIsPrefix` relates the buffer to the inode that the descriptor
holds, through every cut of the reads, and `RuleKeepsLine` is the lemma about the
rule for the bytes read; `Contents` are sequences of strings. `EchoRestorable` says
that the one worker which has switched the echo off remembers that it was on.

*An operator's commands.* The theorems about `Lifecycle` hold for every hash, group
order and width of an index, every limit of scrypt, every set of entropies and any
number of slips. Several invariants are inductive, because no command reads what
another one relies on but through `keys` and `deposit`.

- `EntryInv`: the entries of a deposit file that nobody edited verify. Only
  `DepositGen` and `EditDeposit` change the file (`DepositKept`). What gen was told
  is taken through the parser and the checks of `gen_config` (`FlagMatched`,
  `AcceptedGen`): of all addresses an operator may type only the owner's passes,
  and of all networks only two. So an entry has the right domain and address; its
  signature was verified before it was handed on (`GeneratedVerifies`), and its data
  root is the contract's because the trees of two, three and four leaves, computed
  level by level, are those the contract writes out (`MerkleOfTwo` and following,
  `DataRootIsContracts`). Which keystore was found, and in which order, is of no
  matter.
- `KeysInv`: every file of each run that is kept is named for the key of its seed
  and of an index in `0 .. U32 - 1`, an account's derivation succeeded for it, and
  it opens with the run's password if the disk left it alone or the run read it back
  and got to its end. The files of a run are those of its indices up to the first
  that failed (`WrittenKeys`; that there is a first is `MinOf`, from the
  well-foundedness of < on Nat); the configuration keeps all indices within the width
  (`KeygenConfig`). That a file opens is the algebra of the terms: `decrypt` undoes
  `encrypt` under any normalization of the password (`Encrypted`, `NormalizedOnce`)
  and `decrypt_v3` undoes `encrypt_v3` (`EncryptedV3`). A damaged file whose run read
  it back opens because `verify_written_keystore` is the same computation
  (`ReadBackOpens`).
- `DocumentedExit` speaks of the last command only, so it is inductive; the work is in
  the errors. `Fine(r)` says of a result that, if it failed, `exit_code_for` of its
  error is the documented code of its root cause. It holds of each error that a crate
  can give (`KeystoreTold`, `DepositTold`, `NodeTold`, `SignerTold`, ...), context of
  either kind keeps it (`SentinelUnder`, `LayersUnder`), and `Then`, `As` and `Usage`
  keep it (`FineParts`), so it goes up through the steps of each command
  (`KeygenFine`, `GenFine`, `BuildFine`, `SignFine`, `RunFine`, `SendFine`). What makes
  the lemmas true is which errors can occur in which place (`BuildErrors`,
  `LoadErrors`, `DecryptErrors`): an error that were converted with the wrong layer
  would have no place in the list.
- `ShapeInv`: the keystores of a run are numbered from its start without a gap, the
  last below `U32`, each of the version of its kind.
- `WordsInv`: all mnemonics have words of the list. A drawn one is cut from the bits of
  its entropy and checksum (`WordsOfEntropy`), a typed one was looked up. That a word
  of `n` bits is below 2^n is an induction over bits, written as a least
  counterexample (`WordBound`, with `MinOf` from the well-foundedness of < on Nat);
  2^(n+1) = 2 * 2^n comes from the library's theorem on the number of subsets.

`DepositEffective` says that what gen wrote survives five encodings and two more
commands: SSZ, JSON, the ABI, RLP and the raw bytes of a broadcast, read back by a node
and a contract written from the other side. Its invariant says of each artifact that is
`genuine` what it is made of:

- `UnsignedInv`: an unsigned transaction is `UnsignedOf` an entry that verifies, for
  the contract and the chain of gen's network, with good fees (`MadeOf`); `SignedInv`
  and `PoolInv`: the raw bytes are of such a deposit, signed with some key, and with
  the sender's if the fees are the node's (`SealedOf`). What lies below: `BuildMade`,
  `SignMade` and `RunMade` take the flags through the table, the environment and the
  configuration (`ConfigOfInputs`), and the answers of the node through its parsing
  (`NodesMean`).
- `ChainInv`: the chain moves only after something was built, and then to
  twice the base fee and a fifth more gas; `VerdictInv`: a verdict is of what lies
  in the pool. `FeesEnough` is the arithmetic: `2 * base + tip` and `estimate * 6 / 5`
  still suffice.
- The encodings. `uint_be` and `Uint` are recursive functions on Nat. That
  reading undoes writing (`ReadAsWritten`), that a length needs at most two bytes
  (`FewBytes`), that an item of RLP is read as it was written whatever follows it
  (`HeaderThere`, `StringThere`, `ListThere`), that twelve fields are read back and the
  payload that was signed is computed from them (`EnvelopeRead`), and that the
  arguments of a call lie at their offsets (`ArgumentAt`, `CallOfDeposit`) is
  proved for all lengths that occur. Where the library's theorems on induction and
  recursive functions need an operator as a parameter, the steps are spelled out: a
  least counterexample (`Upward`), the function as one that exists up to any bound
  (`Recursion`), and a sum or a concatenation as whatever adds up piece by piece
  (`LengthFrom`, `JoiningThere`, `JoinedLength`).
- A signature: whichever of the two halves the library returned, the low one is sent
  with the parity that goes with it, so that the node recovers the key
  (`LocalSigns`, `LedgerSigns`, `EnvelopeRead`).

`NodeReads` puts them together, and `SealedJudged` is the step from the invariant to the
verdict. No inductive invariant speaks of the fees or the account of a transaction
whose numbers were typed: there a verdict may be an underpriced transaction, and
`WholeToAll` says that nothing else can be.

`RecoveryReproduces` follows from `KeysInv` and from lemmas about derivation: a path
has five levels, so the recursive functions are unrolled (`DerivedPath`,
`DerivedAccount`, `WalletUnrolled`); the terms of two signing keys differ if a seed
or an index does (`SigningKeysDiffer`); and a step of BIP-32 with the number that the
code computes is the wallet's step with the number and its mark, on both sides of
2^31 (`HardenedStep`, `OpenStep`, `ModOfIndex`). There `U32 = 2 * HARDENED` is needed,
an assumption of `Flags` that is true of the code (2^32 and 2^31). The other
assumptions: `HARDENED` and `Order` are natural numbers above one, `MaxParallel` is
positive, there is a longest mnemonic, and entropies are bits of the lengths that
mnemonics are made of, one of them of the longest and one not. `ChainAssumption` is
about what is outside the program: the network of the operator is in the table, the
integers for fees, gas and nonces have at most 16 bytes (they are `u128` and `u64`), the
defaults fit them, and the chain's base fee and gas are so far below the modulus that
the unchecked sums of the builder do not wrap: that they would is not caught here. What is typed and what a node answers is
what `Lifecycle` lets them be: numbers of the chain, and garbage of each form;
`GarbageMeans` and `QuantityMeant` show that of garbage no number is read.

*Only model-checked.* Liveness (`Terminates`, `InterruptStopsPool`,
`InterruptEnds`, `Ends`, `RunEnds`): fairness and ENABLED are out of the prover's
reach. Of `Lifecycle`: `UsualSucceeds`, which is false for a hash that leaves an
account without a key, and true of the instance.
`NeverPartial`, `AnswerHolds` and `UnlinksOwnOnly` where the
other two writers take part.

## 8. What is not modelled, and why

- The inside of cryptography (SHA-256, Keccak, PBKDF2, scrypt, AES, BLS,
  secp256k1): free terms or constants. That the program calls them with the right
  bytes is modelled; that the libraries compute them is covered by golden vectors.
- Logging, redaction, progress lines, wording of errors, devnet scripts: no state
  that a property is about. `read_secret_trimmed`, whose rule is a trim of white
  space: what it reads (a key file) is a value in `TxRun` and `Lifecycle`.
- The JSON layer (unknown fields, duplicates): a file parses or does not; fields are
  missing, of another form, or there. The test seams (`test_support.rs`,
  `test_helpers.rs`).
- Two programs that use the Ledger at the same time. The handle is opened shared;
  who then reads which frame is for the HID library and the system to say.
- A torn write over a torn write in `deposit build` and `tx sign`, which write
  their output in place: modelled (`Truncate`, `Fill`), but there is no promise in
  the code to check. `tx run` with `--output x.raw`, whose two artifacts would have
  one name.
- What the operating system answers to a probe of a directory: a directory allows
  some of the operations that are probed, and the answer is the same when the
  file is written.

- A passphrase file that is rewritten in place between two reads, which can give a
  mixture of two contents: modelled (`WriteInPlace`), but the code has nothing against it,
  and `SecretIsWholeFile` is stated for files that nobody writes to meanwhile.
- The short time between the look at the token and a local signature, which are one
  step of `TxRun`: `InterruptedNeverSigns` is about a SIGINT before that look.

## 9. Plan

Done: the modules of section 2 and the proofs of section 7.

What would come next:

1. Proofs: `write_atomic` beside `write_new_0600` in `NeverPartial`; `UsualSucceeds`
   under the assumption that every account has a key.
2. Compositions: `TxRun` with `TxSend`, so that the artifact a lost answer leaves
   behind is the one that is sent again; `TxRun` with `LedgerHid`, whose three
   outcomes are one step of `TxRun` now.
3. An abstract specification of a command that writes artifacts, which `TxRun`
   and `Keygen` implement, as `PublishOnce` is for one file.
