--------------------------- MODULE GenPoolProofs ---------------------------
(* Proofs about GenPool, for every number of pubkeys and every set of       *)
(* workers: type correctness, and that what is published is the whole       *)
(* request, in order, every entry verified.                                 *)
EXTENDS GenPool, TLAPS

USE DEF Hole, Running, Panic

LEMMA ExitCodeType == \A e : ExitCode(e) \in ExitCodes
BY DEF ExitCode, ExitCodes

LEMMA PreflightCodeType == \A c : PreflightCode(c) \in ExitCodes
BY DEF PreflightCode, ExitCodes

LEMMA InitEstablishes == Init => TypeOK /\ HandsMatchPc
<1> SUFFICES ASSUME Init PROVE TypeOK /\ HandsMatchPc
  OBVIOUS
<1> USE DEF Init
<1>1. sent \in Seq(Messages) /\ taken \in 0 .. Len(sent)
  OBVIOUS
<1>2. selected \in [idx : Idx \cup {Hole}, err : Outcomes]
  BY DEF NoErr, Outcomes, Fates
<1>3. outcome \in [Workers -> Outcomes]
  BY DEF Outcomes, Fates
<1>4. TypeOK
  <2>1. fate \in [Idx -> Fates]
    BY FatesAssumption
  <2> QED
    BY <1>1, <1>2, <1>3, <2>1 DEF TypeOK
<1>5. HandsMatchPc
  BY DEF HandsMatchPc
<1> QED
  BY <1>4, <1>5

(* A worker between its claim and its send holds an index of the request.   *)
LEMMA HeldIndex ==
  ASSUME TypeOK, HandsMatchPc, NEW w \in Workers,
         pc[w] \in {"gate", "load", "generate", "flag", "send"}
  PROVE  held[w] \in Idx
BY DEF TypeOK, HandsMatchPc

LEMMA SentTyped ==
  ASSUME TypeOK
  PROVE  \A k \in 1 .. Len(sent) : sent[k].idx \in Idx /\ sent[k].res \in Outcomes
<1> TAKE k \in 1 .. Len(sent)
<1>1. sent[k] \in Messages
  BY DEF TypeOK
<1> QED
  BY <1>1 DEF Messages

LEMMA TypeStep == TypeOK /\ HandsMatchPc /\ [Next]_vars => TypeOK'
<1> SUFFICES ASSUME TypeOK, HandsMatchPc, [Next]_vars PROVE TypeOK'
  OBVIOUS
<1> USE NAssumption DEF TypeOK
<1>1. CASE Interrupt
  BY <1>1 DEF Interrupt, poolVars, mainVars
<1>2. CASE Preflight
  BY <1>2, PreflightCodeType DEF Preflight
<1>3. CASE Receive
  <2>1. /\ taken + 1 \in 0 .. Len(sent)
        /\ sent[taken + 1].idx \in Idx /\ sent[taken + 1].res \in Outcomes
    BY <1>3, SentTyped DEF Receive
  <2>2. entries' \in [Idx -> Idx \cup {Hole}]
    BY <1>3, <2>1 DEF Receive
  <2>3. selected' \in [idx : Idx \cup {Hole}, err : Outcomes]
    BY <1>3, <2>1 DEF Receive
  <2>4. workerCancel' \in BOOLEAN
    BY <1>3 DEF Receive
  <2> QED
    BY <1>3, <2>1, <2>2, <2>3, <2>4 DEF Receive
<1>4. CASE Join
  BY <1>4, ExitCodeType DEF Join, poolVars
<1>5. CASE Write
  BY <1>5 DEF Write, poolVars, ExitCodes
<1>6. CASE Verify
  BY <1>6 DEF Verify, poolVars, ExitCodes
<1>7. ASSUME NEW w \in Workers, Worker(w) PROVE TypeOK'
  <2>1. CASE Poll(w)
    BY <2>1 DEF Poll, Goto, mainVars
  <2>2. CASE Claim(w)
    <3>1. next' \in Nat /\ held' \in [Workers -> Idx \cup {Hole}]
      BY <2>2 DEF Claim, Idx
    <3> QED
      BY <2>2, <3>1 DEF Claim, Goto, mainVars
  <2>3. CASE Gate(w)
    BY <2>3 DEF Gate, Goto, mainVars, Outcomes
  <2>4. CASE Load(w)
    <3>1. fate[held[w]] \in Outcomes
      BY <2>4, HeldIndex DEF Load, Outcomes
    <3> QED
      BY <2>4, <3>1 DEF Load, Goto, mainVars
  <2>5. CASE Generate(w)
    <3>1. fate[held[w]] \in Outcomes /\ "Cancelled" \in Outcomes
      BY <2>5, HeldIndex DEF Generate, Outcomes
    <3> QED
      BY <2>5, <3>1 DEF Generate, Goto, mainVars
  <2>6. CASE Flag(w)
    BY <2>6 DEF Flag, Goto, mainVars
  <2>7. CASE Send(w)
    <3>1. [idx |-> held[w], res |-> outcome[w]] \in Messages /\ "Ok" \in Outcomes
      BY <2>7, HeldIndex DEF Send, Messages, Outcomes, Fates
    <3>2. sent' \in Seq(Messages) /\ Len(sent') = Len(sent) + 1
      BY <2>7, <3>1 DEF Send
    <3> QED
      BY <2>7, <3>1, <3>2 DEF Send, Goto, mainVars
  <2> QED
    BY <1>7, <2>1, <2>2, <2>3, <2>4, <2>5, <2>6, <2>7 DEF Worker
<1>8. CASE UNCHANGED vars
  BY <1>8 DEF vars, poolVars, mainVars
<1> QED
  BY <1>1, <1>2, <1>3, <1>4, <1>5, <1>6, <1>7, <1>8 DEF Next, Main, Terminated

LEMMA HandsStep == TypeOK /\ HandsMatchPc /\ [Next]_vars => HandsMatchPc'
<1> SUFFICES ASSUME TypeOK, HandsMatchPc, [Next]_vars PROVE HandsMatchPc'
  OBVIOUS
<1> USE NAssumption DEF TypeOK, HandsMatchPc
<1>1. CASE Interrupt
  BY <1>1 DEF Interrupt, poolVars, mainVars
<1>2. CASE Preflight
  BY <1>2 DEF Preflight
<1>3. CASE Receive
  BY <1>3 DEF Receive
<1>4. CASE Join
  BY <1>4 DEF Join, poolVars
<1>5. CASE Write
  BY <1>5 DEF Write, poolVars
<1>6. CASE Verify
  BY <1>6 DEF Verify, poolVars
<1>7. ASSUME NEW w \in Workers, Worker(w) PROVE HandsMatchPc'
  <2>1. CASE Poll(w)
    BY <2>1 DEF Poll, Goto, mainVars
  <2>2. CASE Claim(w)
    <3>1. \A k \in DOMAIN sent : sent[k].idx < next + 1
      <4>1. next \in Nat /\ \A k \in DOMAIN sent : sent[k].idx \in Nat /\ sent[k].idx < next
        BY SentTyped DEF Idx
      <4> QED
        BY ONLY <4>1
    <3>2. CASE next < N
      BY <2>2, <3>1, <3>2 DEF Claim, Goto, mainVars, Idx
    <3>3. CASE ~(next < N)
      BY <2>2, <3>1, <3>3 DEF Claim, Goto, mainVars, Idx
    <3> QED
      BY <3>2, <3>3
  <2>3. CASE Gate(w)
    BY <2>3 DEF Gate, Goto, mainVars
  <2>4. CASE Load(w)
    BY <2>4 DEF Load, Goto, mainVars
  <2>5. CASE Generate(w)
    BY <2>5 DEF Generate, Goto, mainVars
  <2>6. CASE Flag(w)
    BY <2>6 DEF Flag, Goto, mainVars
  <2>7. CASE Send(w)
    <3>1. held[w] \in Idx /\ held[w] < next
      BY <2>7, HeldIndex DEF Send
    <3>2. [idx |-> held[w], res |-> outcome[w]] \in Messages
      BY <3>1 DEF Messages
    <3>3. \A k \in DOMAIN sent' : sent'[k].idx < next'
      BY <2>7, <3>1, <3>2 DEF Send
    <3> QED
      BY <2>7, <3>3 DEF Send, Goto, mainVars
  <2> QED
    BY <1>7, <2>1, <2>2, <2>3, <2>4, <2>5, <2>6, <2>7 DEF Worker
<1>8. CASE UNCHANGED vars
  BY <1>8 DEF vars, poolVars, mainVars
<1> QED
  BY <1>1, <1>2, <1>3, <1>4, <1>5, <1>6, <1>7, <1>8 DEF Next, Main, Terminated

(* Every variable keeps its type: no index beyond the request is claimed or *)
(* sent, and the collector never reads past the end of the channel.         *)
THEOREM TypeCorrect == Spec => []TypeOK
<1>1. Spec => [](TypeOK /\ HandsMatchPc)
  BY InitEstablishes, TypeStep, HandsStep, PTL DEF Spec
<1> QED
  BY <1>1, PTL
-----------------------------------------------------------------------------
(* The conservation of indices. *)

LEMMA AnsweredStep ==
  TypeOK /\ HandsMatchPc /\ AnsweredOnce /\ [Next]_vars => AnsweredOnce'
<1> SUFFICES ASSUME TypeOK, HandsMatchPc, AnsweredOnce, [Next]_vars PROVE AnsweredOnce'
  OBVIOUS
<1>1. CASE UNCHANGED <<next, held, sent>>
  BY <1>1 DEF AnsweredOnce
<1>2. ASSUME NEW w \in Workers, Claim(w) PROVE AnsweredOnce'
  <2>1. CASE next < N
    <3>1. /\ next' = next + 1 /\ held' = [held EXCEPT ![w] = next] /\ sent' = sent
      BY <1>2, <2>1 DEF Claim, mainVars
    <3>a. held[w] = Hole
      <4>1. pc[w] = "claim"
        BY <1>2 DEF Claim
      <4> QED
        BY <4>1 DEF HandsMatchPc
    <3>b. next \in Idx
      BY <2>1, NAssumption DEF TypeOK, Idx
    <3>2. \A v \in Workers : held[v] # next /\ held[v] \in Idx \cup {Hole}
      BY DEF HandsMatchPc, TypeOK, Idx
    <3>3. \A k \in DOMAIN sent : sent[k].idx # next /\ sent[k].idx \in Idx
      BY SentTyped DEF HandsMatchPc, TypeOK, Idx
    <3>4. held' \in [Workers -> Idx \cup {Hole}] /\ held'[w] = next
          /\ \A v \in Workers \ {w} : held'[v] = held[v]
      BY <3>1, <3>b DEF TypeOK
    <3>5. (\A i \in Idx : i < next => \/ \E v \in Workers : held[v] = i
                                     \/ \E k \in DOMAIN sent : sent[k].idx = i)'
      <4> SUFFICES ASSUME NEW i \in Idx, i < next + 1
                   PROVE  \/ \E v \in Workers : held'[v] = i
                          \/ \E k \in DOMAIN sent : sent[k].idx = i
        BY <3>1
      <4>1. CASE i = next
        BY <4>1, <3>4
      <4>2. CASE i < next
        BY <4>2, <3>1, <3>a, <3>4 DEF AnsweredOnce, Idx
      <4> QED
        BY <4>1, <4>2 DEF Idx, TypeOK
    <3>6. (\A u, v \in Workers : held[u] = held[v] /\ held[u] # Hole => u = v)'
      BY <3>2, <3>4 DEF AnsweredOnce
    <3>7. (\A v \in Workers : \A k \in DOMAIN sent : held[v] # sent[k].idx)'
      BY <3>1, <3>3, <3>4 DEF AnsweredOnce
    <3> QED
      BY <3>1, <3>5, <3>6, <3>7 DEF AnsweredOnce
  <2>2. CASE ~(next < N)
    <3>1. next' = next + 1 /\ UNCHANGED <<held, sent>>
      BY <1>2, <2>2 DEF Claim, mainVars
    <3>2. \A i \in Idx : i < next
      BY <2>2, NAssumption DEF Idx, TypeOK
    <3> QED
      BY <3>1, <3>2 DEF AnsweredOnce
  <2> QED
    BY <2>1, <2>2
<1>3. ASSUME NEW w \in Workers, Send(w) PROVE AnsweredOnce'
  <2>1. held[w] \in Idx
    BY <1>3, HeldIndex DEF Send
  <2>2. [idx |-> held[w], res |-> outcome[w]] \in Messages
    BY <2>1 DEF Messages, TypeOK
  <2>3. /\ Len(sent') = Len(sent) + 1 /\ DOMAIN sent = 1 .. Len(sent)
        /\ DOMAIN sent' = 1 .. Len(sent) + 1
        /\ sent'[Len(sent) + 1].idx = held[w]
        /\ \A k \in DOMAIN sent : sent'[k] = sent[k]
        /\ Len(sent) \in Nat
    BY <1>3, <2>2 DEF Send, TypeOK
  <2>4. held'[w] = Hole /\ next' = next /\ \A v \in Workers \ {w} : held'[v] = held[v]
    BY <1>3 DEF Send, TypeOK
  <2>5. \A v \in Workers \ {w} : held[v] # held[w]
    BY <2>1 DEF AnsweredOnce, Idx
  <2>6. \A k \in DOMAIN sent : sent[k].idx # held[w] /\ sent[k].idx # Hole
    BY <2>3, SentTyped DEF AnsweredOnce, Idx
  <2>7. (\A i \in Idx : i < next => \/ \E v \in Workers : held[v] = i
                                   \/ \E k \in DOMAIN sent : sent[k].idx = i)'
    <3> SUFFICES ASSUME NEW i \in Idx, i < next
                 PROVE  \/ \E v \in Workers : held'[v] = i
                        \/ \E k \in DOMAIN sent' : sent'[k].idx = i
      BY <2>4
    <3>1. CASE \E k \in DOMAIN sent : sent[k].idx = i
      BY <3>1, <2>3
    <3>2. CASE \E v \in Workers : held[v] = i
      <4>1. PICK v \in Workers : held[v] = i
        BY <3>2
      <4>2. CASE v = w
        BY <4>1, <4>2, <2>3
      <4>3. CASE v # w
        BY <4>1, <4>3, <2>4
      <4> QED
        BY <4>2, <4>3
    <3> QED
      BY <3>1, <3>2 DEF AnsweredOnce
  <2>8. (\A u, v \in Workers : held[u] = held[v] /\ held[u] # Hole => u = v)'
    BY <2>4 DEF AnsweredOnce
  <2>9. (\A j, k \in DOMAIN sent : sent[j].idx = sent[k].idx => j = k)'
    BY <2>3, <2>6 DEF AnsweredOnce
  <2>10. (\A v \in Workers : \A k \in DOMAIN sent : held[v] # sent[k].idx)'
    BY <2>1, <2>3, <2>4, <2>5, <2>6 DEF AnsweredOnce, Idx
  <2> QED
    BY <2>7, <2>8, <2>9, <2>10 DEF AnsweredOnce
<1> QED
  BY <1>1, <1>2, <1>3
  DEF Next, Main, Worker, Interrupt, Preflight, Receive, Join, Write, Verify, Poll, Gate, Load,
      Generate, Flag, Terminated, vars, poolVars, mainVars

(* No schedule and no cancellation loses the result of a claimed index or   *)
(* sends two for it.                                                        *)
THEOREM ResultsConserved == Spec => []AnsweredOnce
<1>1. Init => AnsweredOnce
  BY DEF Init, AnsweredOnce, Idx
<1>2. Spec => [](TypeOK /\ HandsMatchPc /\ AnsweredOnce)
  BY <1>1, InitEstablishes, TypeStep, HandsStep, AnsweredStep, PTL DEF Spec
<1> QED
  BY <1>2, PTL
-----------------------------------------------------------------------------
(* What is published. *)

LEMMA ResultsStep ==
  TypeOK /\ HandsMatchPc /\ ResultsMatchFate /\ [Next]_vars => ResultsMatchFate'
<1> SUFFICES ASSUME TypeOK, HandsMatchPc, ResultsMatchFate, [Next]_vars
             PROVE  ResultsMatchFate'
  OBVIOUS
<1>1. CASE UNCHANGED <<fate, pc, held, outcome, sent>>
  BY <1>1 DEF ResultsMatchFate
<1>2. CASE Preflight
  BY <1>2 DEF Preflight, ResultsMatchFate, TypeOK
<1>3. ASSUME NEW w \in Workers, Worker(w) PROVE ResultsMatchFate'
  <2> USE DEF TypeOK, ResultsMatchFate
  <2>1. CASE Poll(w)
    BY <2>1 DEF Poll, Goto, mainVars
  <2>2. CASE Claim(w)
    <3>1. \A v \in Workers \ {w} : held'[v] = held[v] /\ pc'[v] = pc[v]
      BY <2>2 DEF Claim, Goto
    <3>2. pc'[w] \in {"gate", "gone"}
      BY <2>2 DEF Claim, Goto
    <3> QED
      BY <2>2, <3>1, <3>2 DEF Claim, mainVars
  <2>3. CASE Gate(w)
    BY <2>3 DEF Gate, Goto, mainVars
  <2>4. CASE Load(w)
    BY <2>4 DEF Load, Goto, mainVars, EarlyErrors
  <2>5. CASE Generate(w)
    BY <2>5 DEF Generate, Goto, mainVars
  <2>6. CASE Flag(w)
    BY <2>6 DEF Flag, Goto, mainVars
  <2>7. CASE Send(w)
    <3>1. held[w] \in Idx
      BY <2>7, HeldIndex DEF Send
    <3>2. [idx |-> held[w], res |-> outcome[w]] \in Messages
      BY <3>1 DEF Messages
    <3>3. \A k \in DOMAIN sent' : sent'[k].res = "Ok" => fate[sent'[k].idx] = "Ok"
      BY <2>7, <3>2 DEF Send
    <3>4. \A v \in Workers : pc'[v] \in {"flag", "send"} => v # w
      BY <2>7 DEF Send, Goto
    <3> QED
      BY <2>7, <3>3, <3>4 DEF Send, Goto, mainVars
  <2> QED
    BY <1>3, <2>1, <2>2, <2>3, <2>4, <2>5, <2>6, <2>7 DEF Worker
<1> QED
  BY <1>1, <1>2, <1>3
  DEF Next, Main, Interrupt, Receive, Join, Write, Verify, Terminated, vars, poolVars, mainVars

LEMMA CollectedStep ==
  TypeOK /\ ResultsMatchFate /\ CollectedMatchesSent /\ [Next]_vars => CollectedMatchesSent'
<1> SUFFICES ASSUME TypeOK, ResultsMatchFate, CollectedMatchesSent, [Next]_vars
             PROVE  CollectedMatchesSent'
  OBVIOUS
<1>1. CASE UNCHANGED <<fate, sent, taken, entries, selected>>
  BY <1>1 DEF CollectedMatchesSent
<1>2. CASE Receive
  <2> DEFINE m == sent[taken + 1]
  <2>1. /\ taken \in Nat /\ taken + 1 \in 1 .. Len(sent) /\ m.idx \in Idx
        /\ taken' = taken + 1 /\ sent' = sent /\ fate' = fate
        /\ \A k \in 1 .. taken : sent[k].idx \in Idx
        /\ \A k \in 1 .. taken + 1 : k = taken + 1 \/ k \in 1 .. taken
    BY <1>2, SentTyped DEF Receive, TypeOK
  <2>2. CASE m.res = "Ok"
    <3>1. entries' = [entries EXCEPT ![m.idx] = m.idx] /\ selected' = selected
      BY <1>2, <2>2 DEF Receive
    <3>2. fate[m.idx] = "Ok"
      BY <2>1, <2>2 DEF ResultsMatchFate, TypeOK
    <3>3. \A i \in Idx : entries'[i] = IF i = m.idx THEN i ELSE entries[i]
      BY <2>1, <3>1 DEF TypeOK
    <3> HIDE DEF m
    <3>4. \A i \in Idx : entries'[i] # Hole => entries'[i] = i /\ fate[i] = "Ok"
      BY <3>2, <3>3 DEF CollectedMatchesSent
    <3>5. \A k \in 1 .. taken + 1 : sent[k].res = "Ok" => entries'[sent[k].idx] = sent[k].idx
      BY <2>1, <3>3 DEF CollectedMatchesSent, m
    <3>6. selected.err = "Ok" => \A k \in 1 .. taken + 1 : sent[k].res = "Ok"
      BY <2>1, <2>2 DEF CollectedMatchesSent, m
    <3> QED
      BY <2>1, <3>1, <3>4, <3>5, <3>6 DEF CollectedMatchesSent
  <2>3. CASE m.res # "Ok"
    <3>1. entries' = entries
      BY <1>2, <2>3 DEF Receive
    <3>2. selected'.err # "Ok"
      BY <1>2, <2>3 DEF Receive, Replaces
    <3> QED
      BY <2>1, <2>3, <3>1, <3>2 DEF CollectedMatchesSent
  <2> QED
    BY <2>2, <2>3
<1>3. ASSUME NEW w \in Workers, Send(w) PROVE CollectedMatchesSent'
  <2>1. taken \in Nat /\ taken <= Len(sent) /\ Len(sent) \in Nat
    BY DEF TypeOK
  <2>2. \A k \in 1 .. taken : sent'[k] = sent[k]
    BY <1>3, <2>1 DEF Send, TypeOK
  <2> QED
    BY <1>3, <2>2 DEF Send, mainVars, CollectedMatchesSent
<1> QED
  BY <1>1, <1>2, <1>3
  DEF Next, Main, Worker, Interrupt, Preflight, Join, Write, Verify, Poll, Claim, Gate, Load,
      Generate, Flag, Terminated, vars, poolVars, mainVars

LEMMA WrittenStep ==
  TypeOK /\ CollectedMatchesSent /\ WrittenOnlyWhenFull /\ [Next]_vars => WrittenOnlyWhenFull'
<1> SUFFICES ASSUME TypeOK, CollectedMatchesSent, WrittenOnlyWhenFull, [Next]_vars
             PROVE  WrittenOnlyWhenFull'
  OBVIOUS
<1>1. CASE UNCHANGED <<main, published, entries>>
  BY <1>1 DEF WrittenOnlyWhenFull
<1>2. CASE Preflight
  BY <1>2 DEF Preflight, WrittenOnlyWhenFull
<1>3. CASE Join
  BY <1>3 DEF Join, CollectedMatchesSent, WrittenOnlyWhenFull
<1>4. CASE Write
  BY <1>4 DEF Write, WrittenOnlyWhenFull
<1>5. CASE Verify
  BY <1>5 DEF Verify, WrittenOnlyWhenFull
<1>6. CASE Receive
  BY <1>6 DEF Receive, WrittenOnlyWhenFull
<1> QED
  BY <1>1, <1>2, <1>3, <1>4, <1>5, <1>6
  DEF Next, Main, Worker, Interrupt, Poll, Claim, Gate, Load, Generate, Flag, Send, Terminated,
      vars, poolVars, mainVars

LEMMA Inductive == Spec => []IInv
<1>1. Init => IInv
  <2> SUFFICES ASSUME Init PROVE IInv
    OBVIOUS
  <2>1. TypeOK /\ HandsMatchPc
    BY InitEstablishes
  <2>2. AnsweredOnce /\ ResultsMatchFate /\ CollectedMatchesSent /\ WrittenOnlyWhenFull
    BY DEF Init, AnsweredOnce, ResultsMatchFate, CollectedMatchesSent, WrittenOnlyWhenFull, Idx
  <2> QED
    BY <2>1, <2>2 DEF IInv
<1>2. IInv /\ [Next]_vars => IInv'
  BY TypeStep, HandsStep, AnsweredStep, ResultsStep, CollectedStep, WrittenStep DEF IInv
<1> QED
  BY <1>1, <1>2, PTL DEF Spec

(* Whatever is published holds one verified entry per requested pubkey, in  *)
(* the order they were requested in, however the workers were scheduled.    *)
THEOREM WholeRequestInOrder == Spec => []OutputInRequestOrder
<1>1. IInv => OutputInRequestOrder
  BY DEF IInv, CollectedMatchesSent, WrittenOnlyWhenFull, OutputInRequestOrder, Idx
<1> QED
  BY <1>1, Inductive, PTL
-----------------------------------------------------------------------------
(* The error that is reported. *)

(* Whether the message m tells as much as m2: a real failure more than a    *)
(* cancellation, and otherwise the lower index more.                        *)
Beats(m, m2) ==
  \/ m.res # "Cancelled" /\ m2.res = "Cancelled"
  \/ (m.res = "Cancelled" <=> m2.res = "Cancelled") /\ m.idx <= m2.idx

(* SelectedIsBest, without the sets. *)
Best ==
  IF \A k \in 1 .. taken : sent[k].res = "Ok" THEN selected = NoErr
  ELSE \E k \in 1 .. taken :
         /\ sent[k].res # "Ok"
         /\ selected = [idx |-> sent[k].idx, err |-> sent[k].res]
         /\ \A j \in 1 .. taken : sent[j].res # "Ok" => Beats(sent[k], sent[j])

LEMMA BestIsSelected == ASSUME TypeOK, Best PROVE SelectedIsBest
<1> DEFINE errs  == {k \in 1 .. taken : sent[k].res # "Ok"}
           real  == {k \in errs : sent[k].res # "Cancelled"}
           class == IF real # {} THEN real ELSE errs
<1>1. CASE \A k \in 1 .. taken : sent[k].res = "Ok"
  BY <1>1 DEF Best, SelectedIsBest
<1>2. CASE ~\A k \in 1 .. taken : sent[k].res = "Ok"
  <2>1. PICK k \in 1 .. taken :
          /\ sent[k].res # "Ok"
          /\ selected = [idx |-> sent[k].idx, err |-> sent[k].res]
          /\ \A j \in 1 .. taken : sent[j].res # "Ok" => Beats(sent[k], sent[j])
    BY <1>2 DEF Best
  <2>2. k \in class
    BY <2>1 DEF Beats
  <2>3. \A j \in class : sent[k].idx <= sent[j].idx
    BY <2>1, <2>2 DEF Beats
  <2> QED
    BY <2>1, <2>2, <2>3 DEF SelectedIsBest
<1> QED
  BY <1>1, <1>2

LEMMA BestStep == TypeOK /\ Best /\ [Next]_vars => Best'
<1> SUFFICES ASSUME TypeOK, Best, [Next]_vars PROVE Best'
  OBVIOUS
<1>1. CASE UNCHANGED <<sent, taken, selected>>
  BY <1>1 DEF Best, Beats
<1>2. CASE Receive
  <2> DEFINE m == sent[taken + 1]
  <2>1. /\ taken \in Nat /\ taken' = taken + 1 /\ sent' = sent
        /\ \A k \in 1 .. taken + 1 : sent[k].idx \in Idx
        /\ \A k : k \in 1 .. taken + 1 <=> k = taken + 1 \/ k \in 1 .. taken
    BY <1>2, SentTyped DEF Receive, TypeOK
  <2>2. CASE m.res = "Ok"
    <3>1. selected' = selected
      BY <1>2, <2>2 DEF Receive
    <3> QED
      BY <2>1, <2>2, <3>1 DEF Best, Beats
  <2>3. CASE m.res # "Ok" /\ ~Replaces(selected, [idx |-> m.idx, err |-> m.res])
    <3>1. selected' = selected
      BY <1>2, <2>3 DEF Receive
    <3>2. selected.err # "Ok"
      BY <2>3 DEF Replaces
    <3>3. PICK k \in 1 .. taken :
            /\ sent[k].res # "Ok"
            /\ selected = [idx |-> sent[k].idx, err |-> sent[k].res]
            /\ \A j \in 1 .. taken : sent[j].res # "Ok" => Beats(sent[k], sent[j])
      BY <3>2 DEF Best, NoErr
    <3>4. Beats(sent[k], m)
      BY <2>1, <2>3, <3>3 DEF Replaces, Beats, Idx
    <3>5. \A j \in 1 .. taken + 1 : sent[j].res # "Ok" => Beats(sent[k], sent[j])
      BY <2>1, <3>3, <3>4
    <3> QED
      BY <2>1, <3>1, <3>3, <3>5 DEF Best, Beats
  <2>4. CASE m.res # "Ok" /\ Replaces(selected, [idx |-> m.idx, err |-> m.res])
    <3>1. selected' = [idx |-> m.idx, err |-> m.res]
      BY <1>2, <2>4 DEF Receive
    <3>2. \A j \in 1 .. taken : sent[j].res # "Ok" => Beats(m, sent[j])
      <4>1. CASE \A k \in 1 .. taken : sent[k].res = "Ok"
        BY <4>1
      <4>2. CASE ~\A k \in 1 .. taken : sent[k].res = "Ok"
        <5>1. PICK k \in 1 .. taken :
                /\ sent[k].res # "Ok"
                /\ selected = [idx |-> sent[k].idx, err |-> sent[k].res]
                /\ \A j \in 1 .. taken : sent[j].res # "Ok" => Beats(sent[k], sent[j])
          BY <4>2 DEF Best
        <5>2. Beats(m, sent[k])
          BY <2>1, <2>4, <5>1 DEF Replaces, Beats, Idx
        <5>3. \A j \in 1 .. taken : sent[j].idx \in Int
          BY <2>1 DEF Idx
        <5>4. m.idx \in Int
          BY <2>1 DEF Idx
        <5> HIDE DEF m
        <5>5. ASSUME NEW j \in 1 .. taken, sent[j].res # "Ok" PROVE Beats(m, sent[j])
          BY <5>1, <5>2, <5>3, <5>4, <5>5 DEF Beats
        <5> QED
          BY <5>5
      <4> QED
        BY <4>1, <4>2
    <3>3. \A j \in 1 .. taken + 1 : sent[j].res # "Ok" => Beats(m, sent[j])
      BY <2>1, <3>2 DEF Beats, Idx
    <3> QED
      BY <2>1, <2>4, <3>1, <3>3 DEF Best, Beats
  <2> QED
    BY <2>2, <2>3, <2>4
<1>3. ASSUME NEW w \in Workers, Send(w) PROVE Best'
  <2>1. \A k \in 1 .. taken : sent'[k] = sent[k]
    BY <1>3 DEF Send, TypeOK
  <2>2. UNCHANGED <<taken, selected>>
    BY <1>3 DEF Send, mainVars
  <2> QED
    BY <2>1, <2>2 DEF Best, Beats
<1> QED
  BY <1>1, <1>2, <1>3
  DEF Next, Main, Worker, Interrupt, Preflight, Join, Write, Verify, Poll, Claim, Gate, Load,
      Generate, Flag, Terminated, vars, poolVars, mainVars

(* "keep the lowest-index non-cancellation error": at every moment, for any *)
(* number of pubkeys and workers, what is kept is the lowest-index real     *)
(* failure of those received, and a cancellation only for want of one.      *)
THEOREM BestErrorKept == Spec => []SelectedIsBest
<1>1. Init => Best
  BY DEF Init, Best
<1>2. Spec => [](TypeOK /\ HandsMatchPc /\ Best)
  BY <1>1, InitEstablishes, TypeStep, HandsStep, BestStep, PTL DEF Spec
<1> QED
  BY <1>2, BestIsSelected, PTL
-----------------------------------------------------------------------------
(* The pipeline implements GenPromise. *)

(* A pubkey has really failed: the error is sent, or about to be. *)
Failed ==
  \/ \E k \in DOMAIN sent : sent[k].res \notin {"Ok", "Cancelled"}
  \/ \E w \in Workers : pc[w] \in {"flag", "send"} /\ outcome[w] \notin {"Ok", "Cancelled"}

(* Why something was cancelled or has failed.  The pool's own token is set  *)
(* by a failure as well as by SIGINT, so a cancellation alone does not tell.*)
Causes ==
  /\ workerCancel => cancel \/ Failed
  /\ \A w \in Workers : pc[w] \in {"flag", "send"} =>
       /\ outcome[w] = "Cancelled" => cancel \/ Failed
       /\ outcome[w] \notin {"Ok", "Cancelled"} => outcome[w] = fate[held[w]]
  /\ \A k \in DOMAIN sent :
       /\ sent[k].res = "Cancelled" => cancel \/ Failed
       /\ sent[k].res \notin {"Ok", "Cancelled"} => sent[k].res = fate[sent[k].idx]

(* Where the main thread is, as the caller sees it. *)
Stage ==
  /\ exit = Running <=> main # "done"
  /\ main \notin {"preflight", "done"} => PreflightCode(cfg) = 0
  /\ main = "verify" <=> published # "nowhere" /\ main # "done"
  /\ main \in {"collect", "write", "verify"} => \A w \in Workers : pc[w] # "unborn"

LEMMA FailedStays ==
  ASSUME TypeOK, HandsMatchPc, NEW w \in Workers, Worker(w) PROVE Failed => Failed'
<1> SUFFICES ASSUME Failed PROVE Failed'
  OBVIOUS
<1>1. CASE Send(w)
  <2>1. held[w] \in Idx
    BY <1>1, HeldIndex DEF Send
  <2>2. [idx |-> held[w], res |-> outcome[w]] \in Messages
    BY <2>1 DEF Messages, TypeOK
  <2>3. /\ \A k \in DOMAIN sent : k \in DOMAIN sent' /\ sent'[k] = sent[k]
        /\ Len(sent) + 1 \in DOMAIN sent' /\ sent'[Len(sent) + 1].res = outcome[w]
        /\ \A v \in Workers \ {w} : pc'[v] = pc[v] /\ outcome'[v] = outcome[v]
    BY <1>1, <2>2 DEF Send, Goto, TypeOK
  <2> QED
    BY <2>3 DEF Failed
<1>2. CASE ~Send(w)
  <2>1. /\ sent' = sent
        /\ \A v \in Workers : pc[v] \in {"flag", "send"} =>
                            pc'[v] \in {"flag", "send"} /\ outcome'[v] = outcome[v]
    BY <1>2 DEF Worker, Poll, Claim, Gate, Load, Generate, Flag, Goto, mainVars, TypeOK
  <2> QED
    BY <2>1 DEF Failed
<1> QED
  BY <1>1, <1>2

LEMMA CausesStep ==
  TypeOK /\ HandsMatchPc /\ Best /\ Causes /\ [Next]_vars => Causes'
<1> SUFFICES ASSUME TypeOK, HandsMatchPc, Best, Causes, [Next]_vars PROVE Causes'
  OBVIOUS
<1>1. CASE UNCHANGED <<fate, workerCancel, pc, held, outcome, sent>> /\ (cancel => cancel')
  BY <1>1 DEF Causes, Failed
<1>2. CASE Preflight
  <2>1. CASE UNCHANGED pc
    BY <1>2, <2>1 DEF Preflight, Causes, Failed
  <2>2. CASE pc' = [w \in Workers |-> "poll"]
    <3>1. \A w \in Workers : pc[w] = "unborn" /\ pc'[w] = "poll"
      BY <1>2, <2>2 DEF Preflight, HandsMatchPc, TypeOK
    <3>2. UNCHANGED <<fate, cancel, workerCancel, sent>>
      BY <1>2 DEF Preflight
    <3> QED
      BY <3>1, <3>2 DEF Causes, Failed
  <2> QED
    BY <1>2, <2>1, <2>2 DEF Preflight
<1>3. CASE Receive
  <2>1. taken + 1 \in DOMAIN sent
    BY <1>3 DEF Receive, TypeOK
  <2>2. UNCHANGED <<fate, cancel, pc, held, outcome, sent>>
    BY <1>3 DEF Receive
  <2>3. workerCancel' => workerCancel \/ sent[taken + 1].res # "Ok"
    BY <1>3 DEF Receive
  <2>4. workerCancel' => cancel \/ Failed
    BY <2>1, <2>3 DEF Causes, Failed
  <2> QED
    BY <2>2, <2>4 DEF Causes, Failed
<1>4. ASSUME NEW w \in Workers, Worker(w) PROVE Causes'
  <2>0. (cancel \/ Failed => (cancel \/ Failed)') /\ fate' = fate
    BY <1>4, FailedStays
    DEF Worker, Poll, Claim, Gate, Load, Generate, Flag, Send, mainVars
  <2> USE DEF TypeOK
  <2>1. CASE Poll(w)
    BY <2>0, <2>1 DEF Poll, Goto, mainVars, Causes
  <2>2. CASE Claim(w)
    <3>1. UNCHANGED <<workerCancel, outcome, sent>>
      BY <2>2 DEF Claim, mainVars
    <3>2. \A v \in Workers : pc'[v] \in {"flag", "send"} => pc[v] = pc'[v] /\ held'[v] = held[v]
      BY <2>2 DEF Claim, Goto
    <3> QED
      BY <2>0, <3>1, <3>2 DEF Causes
  <2>3. CASE Gate(w)
    BY <2>0, <2>3 DEF Gate, Goto, mainVars, Causes
  <2>4. CASE Load(w)
    BY <2>0, <2>4 DEF Load, Goto, mainVars, Causes, EarlyErrors
  <2>5. CASE Generate(w)
    <3>1. /\ \A v \in Workers \ {w} : pc'[v] = pc[v] /\ outcome'[v] = outcome[v]
          /\ outcome'[w] = IF workerCancel THEN "Cancelled" ELSE fate[held[w]]
      BY <2>5 DEF Generate, Goto
    <3>2. UNCHANGED <<workerCancel, held, sent>>
      BY <2>5 DEF Generate, mainVars
    <3>3. fate[held[w]] \in Fates
      BY <2>5, HeldIndex DEF Generate
    <3>4. fate[held[w]] # "Cancelled"
      BY <3>3 DEF Fates, RealErrors, EarlyErrors, LateErrors
    <3> QED
      BY <2>0, <3>1, <3>2, <3>4 DEF Causes
  <2>6. CASE Flag(w)
    <3>1. outcome[w] \notin {"Ok", "Cancelled"} => Failed
      BY <2>6 DEF Flag, Failed
    <3> QED
      BY <2>0, <2>6, <3>1 DEF Flag, Goto, mainVars, Causes
  <2>7. CASE Send(w)
    <3>1. held[w] \in Idx
      BY <2>7, HeldIndex DEF Send
    <3>2. [idx |-> held[w], res |-> outcome[w]] \in Messages
      BY <3>1 DEF Messages
    <3>3. \A k \in DOMAIN sent' : \/ k \in DOMAIN sent /\ sent'[k] = sent[k]
                                 \/ sent'[k] = [idx |-> held[w], res |-> outcome[w]]
      BY <2>7, <3>2 DEF Send
    <3>4. \A v \in Workers : pc'[v] \in {"flag", "send"} =>
            v # w /\ pc[v] = pc'[v] /\ held'[v] = held[v] /\ outcome'[v] = outcome[v]
      BY <2>7 DEF Send, Goto
    <3>5. workerCancel' = workerCancel /\ pc[w] = "send"
      BY <2>7 DEF Send
    <3> QED
      BY <2>0, <3>3, <3>4, <3>5 DEF Causes
  <2> QED
    BY <1>4, <2>1, <2>2, <2>3, <2>4, <2>5, <2>6, <2>7 DEF Worker
<1> QED
  BY <1>1, <1>2, <1>3, <1>4
  DEF Next, Main, Interrupt, Join, Write, Verify, Terminated, vars, poolVars, mainVars

LEMMA StageStep == TypeOK /\ WrittenOnlyWhenFull /\ Stage /\ [Next]_vars => Stage'
<1> SUFFICES ASSUME TypeOK, WrittenOnlyWhenFull, Stage, [Next]_vars PROVE Stage'
  OBVIOUS
<1>1. CASE UNCHANGED <<cfg, main, published, exit>> /\ \A w \in Workers : pc[w] # "unborn" => pc'[w] # "unborn"
  BY <1>1 DEF Stage
<1>2. CASE Preflight
  BY <1>2, PreflightCodeType DEF Preflight, Stage, WrittenOnlyWhenFull, ExitCodes, TypeOK
<1>3. CASE Join
  BY <1>3, ExitCodeType DEF Join, poolVars, Stage, ExitCodes
<1>4. CASE Write
  BY <1>4 DEF Write, poolVars, Stage
<1>5. CASE Verify
  BY <1>5 DEF Verify, poolVars, Stage
<1>6. ASSUME NEW w \in Workers, Worker(w) PROVE Stage'
  <2>1. \A v \in Workers : pc[v] # "unborn" => pc'[v] # "unborn"
    BY <1>6 DEF Worker, Poll, Claim, Gate, Load, Generate, Flag, Send, Goto, TypeOK
  <2> QED
    BY <1>1, <1>6, <2>1 DEF Worker, Poll, Claim, Gate, Load, Generate, Flag, Send, mainVars
<1> QED
  BY <1>1, <1>2, <1>3, <1>4, <1>5, <1>6
  DEF Next, Main, Interrupt, Receive, Terminated, vars, poolVars, mainVars

LEMMA PromiseInductive == Spec => [](IInv /\ Best /\ Causes /\ Stage)
<1>1. Init => Best /\ Causes /\ Stage
  BY DEF Init, Best, Causes, Stage
<1>2. IInv /\ Best /\ Causes /\ Stage /\ [Next]_vars => Best' /\ Causes' /\ Stage'
  BY BestStep, CausesStep, StageStep DEF IInv
<1> QED
  BY <1>1, <1>2, Inductive, PTL DEF Spec

(* What ends the pool without an entry for every pubkey is a failure of one *)
(* of them or a SIGINT; otherwise every entry is there.                     *)
LEMMA JoinHasCause ==
  ASSUME IInv, Best, Causes, Stage, Join
  PROVE  \/ selected.err = "Cancelled" /\ cancel
         \/ \E i \in Idx : fate[i] # "Ok" /\ selected.err = fate[i]
         \/ selected.err = "Ok" /\ \A i \in Idx : entries[i] = i
<1> USE DEF IInv
<1>1. /\ taken = Len(sent) /\ DOMAIN sent = 1 .. taken /\ \A w \in Workers : pc[w] = "gone"
      /\ \A k \in 1 .. taken : sent[k].idx \in Idx
  BY SentTyped DEF Join, TypeOK
<1>2. CASE selected.err = "Ok"
  <2>1. PICK w \in Workers : pc[w] = "gone"
    BY <1>1, WorkersAssumption
  <2>2. \A i \in Idx : i < next
    BY <2>1, NAssumption DEF HandsMatchPc, TypeOK, Idx
  <2>3. \A v \in Workers : held[v] = Hole
    BY <1>1 DEF HandsMatchPc
  <2>4. \A i \in Idx : \E k \in 1 .. taken : sent[k].idx = i
    BY <1>1, <2>2, <2>3 DEF AnsweredOnce, Idx
  <2> QED
    BY <1>2, <2>4 DEF CollectedMatchesSent
<1>3. CASE selected.err # "Ok"
  <2>1. PICK k \in 1 .. taken :
          /\ sent[k].res # "Ok"
          /\ selected = [idx |-> sent[k].idx, err |-> sent[k].res]
          /\ \A j \in 1 .. taken : sent[j].res # "Ok" => Beats(sent[k], sent[j])
    BY <1>3 DEF Best, NoErr
  <2>2. CASE sent[k].res # "Cancelled"
    BY <1>1, <2>1, <2>2 DEF Causes
  <2>3. CASE sent[k].res = "Cancelled"
    <3>1. \A j \in 1 .. taken : sent[j].res \in {"Ok", "Cancelled"}
      BY <2>1, <2>3 DEF Beats
    <3>2. ~Failed
      BY <1>1, <3>1 DEF Failed
    <3> QED
      BY <1>1, <2>1, <2>3, <3>2 DEF Causes
  <2> QED
    BY <2>2, <2>3
<1> QED
  BY <1>2, <1>3

(* GenPool and GenPromise speak of the same pubkeys and codes. *)
LEMMA SameCodes ==
  /\ Promise!Idx = Idx /\ Promise!Running = Running /\ Promise!ExitCodes = ExitCodes
  /\ \A c : Promise!PreflightCode(c) = PreflightCode(c)
  /\ \A e : Promise!ExitCode(e) = ExitCode(e)
BY DEF Promise!Idx, Idx, Promise!Running, Promise!ExitCodes, ExitCodes,
       Promise!PreflightCode, PreflightCode, Promise!ExitCode, ExitCode

(* Every step of the pipeline is a step of the promise, or none that its    *)
(* caller can see.                                                          *)
LEMMA PromiseStep ==
  IInv /\ Best /\ Causes /\ Stage /\ [Next]_vars => [Promise!Next]_Promise!vars
<1> SUFFICES ASSUME IInv, Best, Causes, Stage, [Next]_vars
             PROVE  [Promise!Next]_Promise!vars
  OBVIOUS
<1> USE SameCodes
<1>1. CASE UNCHANGED <<cfg, fate, cancel, published, exit>>
  BY <1>1 DEF Promise!vars
<1>2. CASE Interrupt
  BY <1>2 DEF Interrupt, mainVars, Stage, Promise!Next, Promise!Interrupt
<1>3. CASE Preflight
  <2>1. CASE PreflightCode(cfg) = 0
    BY <1>3, <2>1 DEF Preflight, Promise!vars
  <2>2. CASE PreflightCode(cfg) # 0
    <3>1. published = "nowhere" /\ exit = Running
      BY <1>3 DEF Preflight, Stage, IInv, WrittenOnlyWhenFull
    <3>2. exit' = PreflightCode(cfg) /\ UNCHANGED <<cfg, fate, cancel, published>>
      BY <1>3, <2>2 DEF Preflight
    <3>3. Promise!Exit(PreflightCode(cfg))
      BY <2>2, <3>1, <3>2 DEF Promise!Exit
    <3> QED
      BY <3>3, PreflightCodeType DEF Promise!Next
  <2> QED
    BY <2>1, <2>2
<1>4. CASE Join
  <2>1. /\ published = "nowhere" /\ exit = Running /\ PreflightCode(cfg) = 0
        /\ UNCHANGED <<cfg, fate, cancel, published>>
    BY <1>4 DEF Join, Stage, IInv, WrittenOnlyWhenFull, TypeOK
  <2>2. CASE selected.err = "Ok"
    <3>1. \A i \in Idx : entries[i] = i
      BY <1>4, <2>2, JoinHasCause DEF IInv, TypeOK, Fates, Idx, RealErrors, EarlyErrors, LateErrors
    <3> QED
      BY <1>4, <2>1, <2>2, <3>1 DEF Join, Promise!vars, Idx
  <2>3. CASE selected.err # "Ok"
    <3>1. exit' = ExitCode(selected.err)
      BY <1>4, <2>3 DEF Join
    <3>2. Promise!Exit(ExitCode(selected.err))
      BY <1>4, <2>1, <2>3, <3>1, JoinHasCause DEF Promise!Exit
    <3> QED
      BY <3>2, ExitCodeType DEF Promise!Next
  <2> QED
    BY <2>2, <2>3
<1>5. CASE Write
  <2>1. /\ published = "nowhere" /\ exit = Running /\ PreflightCode(cfg) = 0 /\ Promise!AllOk
        /\ UNCHANGED <<cfg, fate, cancel>>
    BY <1>5 DEF Write, Stage, IInv, WrittenOnlyWhenFull, CollectedMatchesSent, TypeOK,
                Promise!AllOk, Idx
  <2>2. CASE published' \in (IF cfg.dryRun THEN {"stdout", "part"} ELSE {"file"}) /\ UNCHANGED exit
    BY <2>1, <2>2 DEF Promise!Next, Promise!Publish
  <2>3. CASE exit' = 1 /\ published' = IF cfg.dryRun THEN "part" ELSE "file"
    BY <2>1, <2>3 DEF Promise!Next, Promise!Publish
  <2>4. CASE exit' = 1 /\ published' = "nowhere"
    BY <2>1, <2>4 DEF Promise!Next, Promise!Exit, ExitCodes
  <2> QED
    BY <1>5, <2>2, <2>3, <2>4 DEF Write
<1>6. CASE Verify
  <2>1. /\ published # "nowhere" /\ exit = Running
        /\ UNCHANGED <<cfg, fate, cancel, published>>
    BY <1>6 DEF Verify, Stage
  <2>2. /\ exit' \in {0, 2, 3}
        /\ exit' # 0 => cfg.verifyCli /\ ~cfg.dryRun
    BY <1>6 DEF Verify
  <2> QED
    BY <2>1, <2>2 DEF Promise!Next, Promise!Exit, ExitCodes
<1> QED
  BY <1>1, <1>2, <1>3, <1>4, <1>5, <1>6
  DEF Next, Main, Worker, Receive, Poll, Claim, Gate, Load, Generate, Flag, Send, Terminated,
      vars, poolVars, mainVars

(* `deposit gen` keeps its promise for any number of pubkeys and workers:   *)
(* a whole file or none, output only for a good request, 4 only after a     *)
(* SIGINT although any error cancels the pool, every other code with its    *)
(* cause, and no panic on a missing entry.                                  *)
THEOREM PromiseKept == Spec => KeepsPromise
<1>1. Init => Promise!Init
  BY SameCodes DEF Init, Promise!Init
<1> QED
  BY <1>1, PromiseInductive, PromiseStep, PTL DEF Spec, KeepsPromise, Promise!Spec
=============================================================================
