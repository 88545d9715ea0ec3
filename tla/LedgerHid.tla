----------------------------- MODULE LedgerHid -----------------------------
(* The HID transport of the Ledger signer (ledger_hid.rs) as LedgerSigner   *)
(* uses it: open, status, derive_default, sign_tx in chunks, close.  An     *)
(* exchange writes the frames of a request and reads frames until the       *)
(* length that the first one announces is there; nothing in a frame says    *)
(* which request it answers.  The device is external: it takes requests in  *)
(* order, answers each of them, and goes on answering when the program that *)
(* asked has been killed while its user was looking at the screen.  One     *)
(* program uses the device at a time.                                       *)
EXTENDS Integers, Sequences

CONSTANTS
  Runs,     \* runs of tx sign or tx run with --signer ledger
  Chunks,   \* the number of APDUs that the payload of each run takes
  MaxCuts,  \* how often a run is cut off from the device
  None

ASSUME ChunksAssumption == Chunks \in [Runs -> Nat \ {0}]
ASSUME CutsAssumption == MaxCuts \in Nat
ASSUME NoneAssumption == None \notin [by : Runs, step : Nat]

VARIABLES
  pc, at,      \* control, and the step of each run: status, address, chunks
  sent,        \* frames of the current request that are written
  reply,       \* what exchange has read: frames, bytes, announced total
  queue,       \* input reports waiting at the run's handle
  signature,   \* what sign_tx returned
  cuts,
  bus,         \* request frames on their way to the device
  partial,     \* the device: last frame of an incomplete request,
  context,     \* chunks of the transaction taken so far,
  asking,      \* request its user is asked about,
  answering    \* frames of the answer still to be sent

host   == <<pc, at, sent, reply, signature, cuts>>
device == <<bus, partial, context, asking, answering>>
vars   == <<host, queue, device>>

Status  == 0
Address == 1
LastStep(r) == 1 + Chunks[r]
Payload(r, k) == [i \in 1 .. k - 1 |-> <<r, i + 1>>]

(* A chunk of 255 bytes takes several frames, the other requests one.       *)
RequestFrames(step) == IF step \in {Status, Address} THEN 1 ELSE 2

(* Lengths of the answers, without the status word. *)
AnswerLen(a) ==
  CASE ~a.ok -> 0
    [] a.ok /\ a.step = Status -> 4
    [] a.ok /\ a.step = Address -> 107
    [] a.ok /\ a.step \notin {Status, Address} -> IF a.step = LastStep(a.by) THEN 65 ELSE 0

Total(a) == AnswerLen(a) + 2
Carried(seq) == IF seq = 0 THEN 57 ELSE 59     \* bytes of a frame of 64
Frames(a) == IF Total(a) <= Carried(0) THEN << [seq |-> 0, of |-> a] >>
             ELSE << [seq |-> 0, of |-> a], [seq |-> 1, of |-> a] >>

Nothing == [frames |-> <<>>, got |-> 0, total |-> 0]

Init ==
  /\ pc = [r \in Runs |-> "new"] /\ at = [r \in Runs |-> Status]
  /\ sent = [r \in Runs |-> 0] /\ reply = [r \in Runs |-> Nothing]
  /\ queue = [r \in Runs |-> <<>>] /\ signature = [r \in Runs |-> None] /\ cuts = 0
  /\ bus = <<>> /\ partial = None /\ context = <<>> /\ asking = None /\ answering = <<>>

-----------------------------------------------------------------------------
(* The program. *)

(* FAULTY: signing starts at once, without status and address. *)
OpenUnprobed(r) ==
  /\ pc[r] = "new" /\ \A q \in Runs : pc[q] \in {"new", "done"}
  /\ pc' = [pc EXCEPT ![r] = "write"] /\ at' = [at EXCEPT ![r] = 2]
  /\ UNCHANGED <<sent, reply, signature, cuts, queue, device>>

Open(r) ==
  /\ pc[r] = "new" /\ \A q \in Runs : pc[q] \in {"new", "done"}
  /\ pc' = [pc EXCEPT ![r] = "write"]
  /\ UNCHANGED <<at, sent, reply, signature, cuts, queue, device>>

(* The handle is closed, whatever the outcome; what waits there is lost.    *)
Close(r) == pc' = [pc EXCEPT ![r] = "done"] /\ queue' = [queue EXCEPT ![r] = <<>>]

(* FAULTY: an accepted answer is kept as the beginning of the next reply. *)
WriteFrameKeepsReply(r) ==
  /\ pc[r] = "write"
  /\ bus' = Append(bus, [by |-> r, step |-> at[r], seq |-> sent[r]])
  /\ IF sent[r] + 1 < RequestFrames(at[r])
     THEN sent' = [sent EXCEPT ![r] = @ + 1] /\ UNCHANGED pc
     ELSE sent' = [sent EXCEPT ![r] = 0] /\ pc' = [pc EXCEPT ![r] = "read"]
  /\ UNCHANGED <<at, reply, queue, signature, cuts, partial, context, asking, answering>>

WriteFrame(r) ==
  /\ pc[r] = "write"
  /\ bus' = Append(bus, [by |-> r, step |-> at[r], seq |-> sent[r]])
  /\ IF sent[r] + 1 < RequestFrames(at[r])
     THEN sent' = [sent EXCEPT ![r] = @ + 1] /\ UNCHANGED <<pc, reply>>
     ELSE /\ sent' = [sent EXCEPT ![r] = 0] /\ pc' = [pc EXCEPT ![r] = "read"]
          /\ reply' = [reply EXCEPT ![r] = Nothing]
  /\ UNCHANGED <<at, queue, signature, cuts, partial, context, asking, answering>>

(* FAULTY: derive_default does not look into the answer. *)
AcceptsAnyAddress(r, a, len) ==
  /\ a.ok
  /\ at[r] = Status => len = 4
  /\ at[r] = LastStep(r) => len = 65

(* The checks of exchange (status word), status, derive_default (two length *)
(* bytes and 40 hex digits, which no other answer has) and sign_tx on a     *)
(* reply of len bytes: answers to chunks before the last are not looked at. *)
Accepts(r, a, len) ==
  /\ a.ok
  /\ at[r] = Status => len = 4
  /\ at[r] = Address => a.step = Address /\ len = 107
  /\ at[r] = LastStep(r) => len = 65

(* FAULTY: an answer that is not accepted is asked for again. *)
EndReplyRetries(r, rep) ==
  LET a == rep.frames[Len(rep.frames)].of IN
  IF rep.got >= 2 /\ Accepts(r, a, rep.got - 2) /\ at[r] = LastStep(r)
  THEN signature' = [signature EXCEPT ![r] = a] /\ Close(r) /\ UNCHANGED at
  ELSE /\ at' = [at EXCEPT ![r] = IF rep.got >= 2 /\ Accepts(r, a, rep.got - 2) THEN @ + 1 ELSE @]
       /\ pc' = [pc EXCEPT ![r] = "write"]
       /\ queue' = [queue EXCEPT ![r] = Tail(@)] /\ UNCHANGED signature

EndReply(r, rep) ==
  LET a == rep.frames[Len(rep.frames)].of IN
  IF rep.got < 2 \/ ~Accepts(r, a, rep.got - 2) THEN Close(r) /\ UNCHANGED <<at, signature>>
  ELSE IF at[r] = LastStep(r)
  THEN signature' = [signature EXCEPT ![r] = a] /\ Close(r) /\ UNCHANGED at
  ELSE /\ at' = [at EXCEPT ![r] = @ + 1] /\ pc' = [pc EXCEPT ![r] = "write"]
       /\ queue' = [queue EXCEPT ![r] = Tail(@)] /\ UNCHANGED signature

(* FAULTY: the announced length is not looked at, the first frame is all. *)
ReadFrameFirstOnly(r) ==
  /\ pc[r] = "read" /\ queue[r] # <<>>
  /\ LET f   == Head(queue[r])
         rep == [frames |-> <<f>>, got |-> Total(f.of), total |-> Total(f.of)]
     IN reply' = [reply EXCEPT ![r] = rep] /\ EndReply(r, rep)
  /\ UNCHANGED <<sent, cuts, device>>

(* `total` once frame f is looked at: only a first frame announces one.     *)
Announced(r, f) == IF f.seq = 0 THEN Total(f.of) ELSE reply[r].total

(* FAULTY: the padding of the last frame is not cut off. *)
ReadFramePadded(r) ==
  /\ pc[r] = "read" /\ queue[r] # <<>>
  /\ LET f     == Head(queue[r])
         total == Announced(r, f)
         rep   == [frames |-> Append(reply[r].frames, f), total |-> total,
                   got |-> reply[r].got + Carried(f.seq)]
     IN /\ reply' = [reply EXCEPT ![r] = rep]
        /\ IF rep.got < total THEN queue' = [queue EXCEPT ![r] = Tail(@)] /\ UNCHANGED <<pc, at, signature>>
           ELSE EndReply(r, rep)
  /\ UNCHANGED <<sent, cuts, device>>

(* One frame of the reply; sequence numbers are not compared.  The          *)
(* subtraction total - reply.len() is unsigned: below zero it would wrap    *)
(* (or panic, in a debug build), and what is left would be more than any    *)
(* frame carries.                                                           *)
ReadFrame(r) ==
  /\ pc[r] = "read" /\ queue[r] # <<>>
  /\ LET f     == Head(queue[r])
         total == Announced(r, f)
         left  == total - reply[r].got
         more  == left < 0 \/ left > Carried(f.seq)
         rep   == [frames |-> Append(reply[r].frames, f), total |-> total,
                   got |-> reply[r].got + IF more THEN Carried(f.seq) ELSE left]
     IN /\ reply' = [reply EXCEPT ![r] = rep]
        /\ IF more THEN queue' = [queue EXCEPT ![r] = Tail(@)] /\ UNCHANGED <<pc, at, signature>>
           ELSE EndReply(r, rep)
  /\ UNCHANGED <<sent, cuts, device>>

(* hidapi reports an error, a short frame or one of another channel; or the *)
(* program is killed, which is the way out of a read that does not end:     *)
(* a SIGINT is looked at after sign_tx only.                                *)
Cut(r) ==
  /\ pc[r] \in {"write", "read"} /\ cuts < MaxCuts
  /\ cuts' = cuts + 1 /\ Close(r)
  /\ UNCHANGED <<at, sent, reply, signature, device>>

Step(r) == Open(r) \/ WriteFrame(r) \/ ReadFrame(r)

-----------------------------------------------------------------------------
(* The device, as far as the code relies on it. *)

Answer(by, step, ok, signs) ==
  answering' = Frames([by |-> by, step |-> step, ok |-> ok, signs |-> signs])

(* A complete request.  Continuation chunks belong to what came before.     *)
Handle(by, step) ==
  IF step \in {Status, Address}
  THEN (\E ok \in BOOLEAN : Answer(by, step, ok, <<>>)) /\ UNCHANGED <<context, asking>>
  ELSE LET c == Append(IF step = 2 THEN <<>> ELSE context, <<by, step>>)
       IN /\ context' = c
          /\ IF step = LastStep(by) /\ c = Payload(by, step)
             THEN asking' = [by |-> by, step |-> step] /\ UNCHANGED answering
             ELSE /\ \E ok \in {FALSE, c = Payload(by, step)} : Answer(by, step, ok, <<>>)
                  /\ UNCHANGED asking

Take ==
  /\ bus # <<>> /\ asking = None /\ answering = <<>>
  /\ bus' = Tail(bus)
  /\ LET f == Head(bus) IN
     IF f.seq > 0 /\ partial # [f EXCEPT !.seq = @ - 1]
     THEN partial' = None /\ UNCHANGED <<context, asking, answering>>
     ELSE IF f.seq + 1 < RequestFrames(f.step)
     THEN partial' = f /\ UNCHANGED <<context, asking, answering>>
     ELSE partial' = None /\ Handle(f.by, f.step)
  /\ UNCHANGED <<host, queue>>

(* The user confirms or rejects. *)
Decide ==
  /\ asking # None /\ asking' = None
  /\ \E ok \in BOOLEAN : Answer(asking.by, asking.step, ok, context)
  /\ UNCHANGED <<host, queue, bus, partial, context>>

(* A frame reaches the handle that is open, if there is one.                *)
SendFrame ==
  /\ answering # <<>> /\ answering' = Tail(answering)
  /\ queue' = [r \in Runs |-> IF pc[r] \in {"write", "read"}
                              THEN Append(queue[r], Head(answering)) ELSE queue[r]]
  /\ UNCHANGED <<host, bus, partial, context, asking>>

Finished == (\A r \in Runs : pc[r] = "done") /\ UNCHANGED vars

Next ==
  \/ \E r \in Runs : Step(r) \/ Cut(r)
  \/ Take \/ Decide \/ SendFrame \/ Finished

Spec == Init /\ [][Next]_vars

(* The program runs, the device works through its requests, and its user    *)
(* answers.                                                                 *)
FairSpec ==
  /\ Spec /\ \A r \in Runs : WF_vars(Step(r))
  /\ WF_vars(Take) /\ WF_vars(Decide) /\ WF_vars(SendFrame)

-----------------------------------------------------------------------------
(* Properties. *)

Answers == [by : Runs, step : Nat, ok : BOOLEAN, signs : Seq(Runs \X Nat)]
Frame   == [seq : {0, 1}, of : Answers]

(* Types; a reply is never longer than the length announced for it.         *)
TypeOK ==
  /\ pc \in [Runs -> {"new", "write", "read", "done"}]
  /\ \A r \in Runs :
       /\ at[r] \in 0 .. LastStep(r) /\ sent[r] \in 0 .. 1
       /\ reply[r].frames \in Seq(Frame) /\ queue[r] \in Seq(Frame)
       /\ 0 <= reply[r].got /\ reply[r].got <= reply[r].total
       /\ signature[r] \in Answers \cup {None}
  /\ \A i \in DOMAIN bus : bus[i].by \in Runs /\ bus[i].step \in 0 .. LastStep(bus[i].by)
  /\ cuts \in 0 .. MaxCuts /\ context \in Seq(Runs \X Nat) /\ answering \in Seq(Frame)

(* The subtraction total - reply.len() of exchange never wraps, whatever an *)
(* earlier run has left at the handle: the frame that comes next announces, *)
(* or leaves announced, at least what is read already.                      *)
NeverWraps ==
  \A r \in Runs : pc[r] = "read" /\ queue[r] # <<>> =>
    reply[r].got <= Announced(r, Head(queue[r]))

(* A reply that exchange is done with and that has a status word is one     *)
(* whole answer of the device, never the rest of one or parts of two.       *)
ReplyWhole ==
  \A r \in Runs :
    reply[r].total > 0 /\ reply[r].got = reply[r].total =>
      \E i \in DOMAIN reply[r].frames : reply[r].frames = Frames(reply[r].frames[i].of)

(* When a run begins to sign, it is in step with the device: whatever it    *)
(* reads from there on answers its own current request, although an earlier *)
(* run was cut off with an answer outstanding and answers carry no name.    *)
(* (Two such runs can put a third one out of step.)                         *)
InStep ==
  cuts <= 1 => \A r \in Runs : pc[r] \in {"write", "read"} /\ at[r] > Address =>
    \A i \in DOMAIN queue[r] :
      pc[r] = "read" /\ queue[r][i].of.by = r /\ queue[r][i].of.step = at[r]

(* What is read are whole answers, none longer than announced, each to the  *)
(* request it is taken for.                                                 *)
RepliesInStep == NeverWraps /\ ReplyWhole /\ InStep

(* A signature that is returned is over the run's own transaction, all of   *)
(* its chunks in order, as its user confirmed it, unless more runs have been *)
(* cut off than this one sends requests before its last: only then can the  *)
(* confirmation of another one's transaction come up as its last answer.    *)
(* Nothing else keeps them apart: LedgerSigner does not compare the sender   *)
(* it recovers with the account derived before.                              *)
SignatureIsOwn ==
  \A r \in Runs : signature[r] # None /\ cuts <= LastStep(r) =>
    signature[r].by = r /\ signature[r].signs = Payload(r, LastStep(r))

(* hid_read has no timeout; still a run that has opened the device ends if  *)
(* the device answers its requests, whatever was left there before.         *)
RunEnds == \A r \in Runs : pc[r] = "write" ~> pc[r] = "done"
=============================================================================
