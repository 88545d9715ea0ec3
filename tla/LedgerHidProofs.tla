--------------------------- MODULE LedgerHidProofs ---------------------------
(* Theorems about LedgerHid, for any number of runs, chunks and cuts.  What *)
(* is under way between a run and the device is one line: the frames that   *)
(* wait for the run or are still to be sent to it, the request its user is  *)
(* asked about, and the requests on the bus.  The line keeps the order of   *)
(* asking, a run's own requests are at its end without a gap, and it is     *)
(* longer than one only by as many answers as runs were cut off.            *)
EXTENDS LedgerHid, FiniteSetTheorems, SequenceTheorems, TLAPS

Request == [by : Runs, step : Nat, seq : {0, 1}]
Replies == [frames : Seq(Frame), got : Nat, total : Nat]

(* The last frame of an answer, and of a request. *)
EndsAnswer(f)  == f.seq = 1 \/ Total(f.of) <= Carried(0)
EndsRequest(f) == f.seq + 1 = RequestFrames(f.step)
First(f)       == [f EXCEPT !.seq = 0]

Active(r) == pc[r] \in {"write", "read"}
Opened    == {r \in Runs : Active(r)}

(* What a run will read of what is there: for one that is not open, what    *)
(* the device has still to send.                                            *)
Stream(r) == queue[r] \o answering

(* The requests that are asked or answered for in a stream s, by the user's *)
(* question h and on a bus b, and whose answer is not read to its end.      *)
Item(x)     == <<x.by, x.step>>
Answered(s) == {Item(s[i].of) : i \in {j \in DOMAIN s : EndsAnswer(s[j])}}
Asked(h)    == IF h = None THEN {} ELSE {Item(h)}
Written(b)  == {Item(b[i]) : i \in {j \in DOMAIN b : EndsRequest(b[j])}}
Pending(s, h, b) == Answered(s) \cup Asked(h) \cup Written(b)
Out(r)           == Pending(Stream(r), asking, bus)

-----------------------------------------------------------------------------
(* The invariant. *)

(* What a run has may be: all of it is there before the first use.          *)
TypeInv ==
  /\ pc \in [Runs -> {"new", "write", "read", "done"}]
  /\ at \in [Runs -> Nat] /\ sent \in [Runs -> {0, 1}]
  /\ reply \in [Runs -> Replies] /\ queue \in [Runs -> Seq(Frame)]
  /\ signature \in [Runs -> Answers \cup {None}] /\ cuts \in 0 .. MaxCuts
  /\ bus \in Seq(Request) /\ context \in Seq(Runs \X Nat) /\ answering \in Seq(Frame)
  /\ asking \in [by : Runs, step : Nat] \cup {None}

Control ==
  /\ \A r, q \in Opened : r = q
  /\ \A r \in Runs :
       /\ at[r] <= LastStep(r) /\ sent[r] < RequestFrames(at[r])
       /\ pc[r] = "new" => at[r] = Status /\ sent[r] = 0
       /\ pc[r] = "read" => sent[r] = 0
       /\ ~Active(r) => queue[r] = <<>>

(* A signed answer signs all of the payload of its run. *)
GoodAnswer(a) ==
  /\ a.step <= LastStep(a.by)
  /\ a.ok /\ a.step = LastStep(a.by) => a.signs = Payload(a.by, a.step)

Contents ==
  /\ \A r \in Runs : \A i \in DOMAIN Stream(r) : GoodAnswer(Stream(r)[i].of)
  /\ \A r \in Runs : signature[r] # None => GoodAnswer(signature[r])
  /\ asking # None =>
       /\ asking.step = LastStep(asking.by) /\ context = Payload(asking.by, asking.step)
       /\ answering = <<>>

(* Frames of one answer, and of one request, follow each other; only the    *)
(* first of a stream may be the rest of an answer.                          *)
WholeAnswers(s) ==
  \A i \in DOMAIN s :
    /\ s[i].seq = 1 => Total(s[i].of) > Carried(0) /\ (i = 1 \/ s[i - 1] = First(s[i]))
    /\ ~EndsAnswer(s[i]) => i < Len(s) /\ s[i + 1] = [seq |-> 1, of |-> s[i].of]

WholeRequests(p, b) ==
  \A i \in DOMAIN b :
    /\ b[i].step <= LastStep(b[i].by) /\ b[i].seq < RequestFrames(b[i].step)
    /\ b[i].seq = 1 => First(b[i]) = IF i = 1 THEN p ELSE b[i - 1]

(* The last frame that was written. *)
LastIs(p, b, f) == f = IF b = <<>> THEN p ELSE b[Len(b)]

Shapes ==
  /\ \A r \in Runs : WholeAnswers(Stream(r))
  /\ WholeRequests(partial, bus)
  /\ \A r \in Runs : pc[r] = "write" /\ sent[r] = 1 =>
       LastIs(partial, bus, [by |-> r, step |-> at[r], seq |-> 0])

(* A reply is begun, or half of it is read and the rest comes next.         *)
Half(r) ==
  \E a \in {reply[r].frames[i].of : i \in DOMAIN reply[r].frames} :
    /\ Total(a) > Carried(0)
    /\ reply[r] = [frames |-> << [seq |-> 0, of |-> a] >>, got |-> Carried(0), total |-> Total(a)]
    /\ Stream(r) # <<>> /\ Stream(r)[1] = [seq |-> 1, of |-> a]

Replying ==
  /\ \A r \in Runs : pc[r] = "read" => reply[r] = Nothing \/ Half(r)
  /\ \A r \in Runs : reply[r].got <= reply[r].total
  /\ ReplyWhole

(* Nothing is under way that was not asked.                                 *)
Told(x) == pc[x.by] # "new" /\ x.step <= at[x.by] /\ (pc[x.by] = "write" => x.step < at[x.by])
Sent(f) ==
  /\ pc[f.by] # "new" /\ f.step <= at[f.by]
  /\ pc[f.by] = "write" /\ f.step = at[f.by] => f.seq < sent[f.by]
Known ==
  /\ \A r \in Runs : \A i \in DOMAIN Stream(r) : Told(Stream(r)[i].of)
  /\ asking # None => Told(asking)
  /\ \A i \in DOMAIN bus : Sent(bus[i])

(* The order of asking: x is before y, and after an own there are only own. *)
Before(own, x, y) == (x.by = y.by => x.step < y.step) /\ (x.by \in own => y.by \in own)
InLine(own, s, h, b) ==
  /\ \A i, j \in DOMAIN s :
       i < j /\ EndsAnswer(s[i]) /\ EndsAnswer(s[j]) => Before(own, s[i].of, s[j].of)
  /\ h # None => \A i \in DOMAIN s : EndsAnswer(s[i]) => Before(own, s[i].of, h)
  /\ \A i \in DOMAIN s, j \in DOMAIN b : EndsAnswer(s[i]) /\ EndsRequest(b[j]) => Before(own, s[i].of, b[j])
  /\ h # None => \A j \in DOMAIN b : EndsRequest(b[j]) => Before(own, h, b[j])
  /\ \A i, j \in DOMAIN b :
       i < j /\ EndsRequest(b[i]) /\ EndsRequest(b[j]) => Before(own, b[i], b[j])
Order == \A r \in Runs : InLine(Opened, Stream(r), asking, bus)

(* The own requests under way are the last ones, without a gap, and all of  *)
(* them if another one is there.                                            *)
Asks(r, j) == j \in Nat /\ (j < at[r] \/ (j = at[r] /\ pc[r] = "read"))
NoGap ==
  \A r \in Opened : \A x \in Out(r) : \A j \in Nat :
    Asks(r, j) /\ (x[1] # r \/ x[2] <= j) => <<r, j>> \in Out(r)

Short ==
  \A r \in Runs : (Active(r) \/ Opened = {}) =>
    /\ IsFiniteSet(Out(r))
    /\ Cardinality(Out(r)) <= cuts + IF pc[r] = "read" THEN 1 ELSE 0

(* One cut is too few to be out of step when signing begins.                *)
Tight ==
  cuts <= 1 => \A r \in Opened : at[r] > Address =>
    Out(r) \subseteq IF pc[r] = "read" THEN {<<r, at[r]>>} ELSE {}

IInv ==
  /\ TypeInv /\ Control /\ Contents /\ Shapes /\ Replying
  /\ Known /\ Order /\ NoGap /\ Short /\ Tight /\ SignatureIsOwn

-----------------------------------------------------------------------------
(* Answers and their frames. *)

LEMMA LastStepType == \A r \in Runs : LastStep(r) \in Nat /\ LastStep(r) >= 2
BY ChunksAssumption DEF LastStep

LEMMA Sizes ==
  ASSUME NEW a \in Answers
  PROVE  /\ Total(a) \in {2, 6, 67, 109}
         /\ Total(a) = 6 => a.ok /\ a.step = Status
         /\ Total(a) = 67 => a.ok /\ a.step = LastStep(a.by)
         /\ Total(a) = 109 => a.ok /\ a.step = Address
<1>1. AnswerLen(a) = IF ~a.ok THEN 0 ELSE IF a.step = Status THEN 4 ELSE IF a.step = Address THEN 107
                     ELSE IF a.step = LastStep(a.by) THEN 65 ELSE 0
  BY DEF AnswerLen, Answers, Status, Address
<1> QED
  BY <1>1 DEF Total, Status, Address

LEMMA FramesOf ==
  ASSUME NEW a \in Answers
  PROVE  /\ Frames(a) \in Seq(Frame)
         /\ Len(Frames(a)) = IF Total(a) <= 57 THEN 1 ELSE 2
         /\ Frames(a)[1] = [seq |-> 0, of |-> a]
         /\ Total(a) > 57 => Frames(a)[2] = [seq |-> 1, of |-> a]
<1>1. Total(a) \in Nat
  BY Sizes
<1>2. [seq |-> 0, of |-> a] \in Frame /\ [seq |-> 1, of |-> a] \in Frame
  BY DEF Frame
<1>3. CASE Total(a) <= 57
  BY <1>1, <1>2, <1>3 DEF Frames, Carried
<1>4. CASE ~(Total(a) <= 57)
  BY <1>1, <1>2, <1>4 DEF Frames, Carried
<1> QED
  BY <1>3, <1>4, <1>1

LEMMA WholeReply ==
  ASSUME NEW a \in Answers
  PROVE  \E i \in DOMAIN Frames(a) : Frames(a) = Frames(Frames(a)[i].of)
<1>1. Frames(a) \in Seq(Frame) /\ Len(Frames(a)) \in {1, 2} /\ Frames(a)[1] = [seq |-> 0, of |-> a]
  BY FramesOf
<1>2. 1 \in DOMAIN Frames(a) /\ Frames(a)[1].of = a
  BY <1>1, LenProperties
<1> QED
  BY <1>2

(* What a frame at the head of a stream is. *)
LEMMA FrameKinds ==
  ASSUME NEW f \in Frame
  PROVE  /\ f.of \in Answers /\ f.seq \in {0, 1} /\ f = [seq |-> f.seq, of |-> f.of]
         /\ Total(f.of) \in {2, 6, 67, 109}
         /\ First(f) = [seq |-> 0, of |-> f.of]
         /\ EndsAnswer(f) <=> (f.seq = 1 \/ Total(f.of) \in {2, 6})
BY Sizes DEF Frame, EndsAnswer, First, Carried

-----------------------------------------------------------------------------
(* The line: its first frame is read, or it gets a last one. *)

LEMMA WholeTail ==
  ASSUME NEW s \in Seq(Frame), s # <<>>, WholeAnswers(s)
  PROVE  WholeAnswers(Tail(s))
<1>1. /\ Tail(s) \in Seq(Frame) /\ Len(s) \in Nat \ {0} /\ Len(Tail(s)) = Len(s) - 1
      /\ DOMAIN s = 1 .. Len(s) /\ DOMAIN Tail(s) = 1 .. Len(s) - 1
      /\ \A i \in 1 .. Len(s) - 1 : Tail(s)[i] = s[i + 1]
  BY HeadTailProperties, LenProperties, EmptySeq
<1>2. SUFFICES ASSUME NEW i \in 1 .. Len(s) - 1
      PROVE  /\ Tail(s)[i].seq = 1 => Total(Tail(s)[i].of) > Carried(0) /\ (i = 1 \/ Tail(s)[i - 1] = First(Tail(s)[i]))
             /\ ~EndsAnswer(Tail(s)[i]) => i < Len(Tail(s)) /\ Tail(s)[i + 1] = [seq |-> 1, of |-> Tail(s)[i].of]
  BY <1>1 DEF WholeAnswers
<1>3. Tail(s)[i] = s[i + 1] /\ i + 1 \in DOMAIN s
  BY <1>1
<1>4. /\ s[i + 1].seq = 1 => Total(s[i + 1].of) > Carried(0) /\ s[i] = First(s[i + 1])
      /\ ~EndsAnswer(s[i + 1]) => i + 1 < Len(s) /\ s[i + 2] = [seq |-> 1, of |-> s[i + 1].of]
  BY <1>3, <1>1 DEF WholeAnswers
<1>5. i # 1 => Tail(s)[i - 1] = s[i]
  BY <1>1
<1>6. i + 1 < Len(s) => Tail(s)[i + 1] = s[i + 2]
  BY <1>1
<1> QED
  BY <1>1, <1>3, <1>4, <1>5, <1>6

LEMMA WholeSuffix ==
  ASSUME NEW s \in Seq(Frame), NEW t \in Seq(Frame), WholeAnswers(s \o t)
  PROVE  WholeAnswers(t)
<1>1. /\ Len(s) \in Nat /\ Len(t) \in Nat /\ DOMAIN t = 1 .. Len(t)
      /\ DOMAIN (s \o t) = 1 .. Len(s) + Len(t) /\ Len(s \o t) = Len(s) + Len(t)
      /\ \A i \in 1 .. Len(t) : (s \o t)[Len(s) + i] = t[i]
  BY ConcatProperties, LenProperties
<1>2. SUFFICES ASSUME NEW i \in 1 .. Len(t)
      PROVE  /\ t[i].seq = 1 => Total(t[i].of) > Carried(0) /\ (i = 1 \/ t[i - 1] = First(t[i]))
             /\ ~EndsAnswer(t[i]) => i < Len(t) /\ t[i + 1] = [seq |-> 1, of |-> t[i].of]
  BY <1>1 DEF WholeAnswers
<1> DEFINE k == Len(s) + i
<1>3. k \in DOMAIN (s \o t) /\ (s \o t)[k] = t[i]
  BY <1>1
<1>4. /\ t[i].seq = 1 => Total(t[i].of) > Carried(0) /\ (k = 1 \/ (s \o t)[k - 1] = First(t[i]))
      /\ ~EndsAnswer(t[i]) => k < Len(s) + Len(t) /\ (s \o t)[k + 1] = [seq |-> 1, of |-> t[i].of]
  BY <1>3, <1>1 DEF WholeAnswers
<1>5. i # 1 => (s \o t)[k - 1] = t[i - 1] /\ k # 1
  <2> SUFFICES ASSUME i # 1 PROVE (s \o t)[k - 1] = t[i - 1] /\ k # 1
    OBVIOUS
  <2>1. i - 1 \in 1 .. Len(t) /\ Len(s) + (i - 1) = k - 1 /\ k # 1
    BY <1>1
  <2> QED
    BY <2>1, <1>1
<1>6. k < Len(s) + Len(t) => (s \o t)[k + 1] = t[i + 1] /\ i < Len(t)
  <2> SUFFICES ASSUME k < Len(s) + Len(t) PROVE (s \o t)[k + 1] = t[i + 1] /\ i < Len(t)
    OBVIOUS
  <2>1. i + 1 \in 1 .. Len(t) /\ Len(s) + (i + 1) = k + 1
    BY <1>1
  <2> QED
    BY <2>1, <1>1
<1> HIDE DEF k
<1> QED
  BY <1>4, <1>5, <1>6

Requests == [by : Runs, step : Nat]

LEMMA AnsweredTail ==
  ASSUME NEW s \in Seq(Frame), s # <<>>
  PROVE  Answered(s) = Answered(Tail(s)) \cup IF EndsAnswer(s[1]) THEN {Item(s[1].of)} ELSE {}
<1>1. /\ Len(s) \in Nat \ {0} /\ DOMAIN s = 1 .. Len(s) /\ DOMAIN Tail(s) = 1 .. Len(s) - 1
      /\ \A i \in 1 .. Len(s) - 1 : Tail(s)[i] = s[i + 1]
  BY HeadTailProperties, LenProperties, EmptySeq
<1>2. ASSUME NEW x \in Answered(s)
      PROVE  x \in Answered(Tail(s)) \cup IF EndsAnswer(s[1]) THEN {Item(s[1].of)} ELSE {}
  <2>1. PICK i \in DOMAIN s : EndsAnswer(s[i]) /\ x = Item(s[i].of)
    BY DEF Answered
  <2>2. CASE i = 1
    BY <2>1, <2>2
  <2>3. CASE i # 1
    <3>1. i - 1 \in DOMAIN Tail(s) /\ Tail(s)[i - 1] = s[i]
      BY <1>1, <2>3
    <3> QED
      BY <2>1, <3>1 DEF Answered
  <2> QED
    BY <2>2, <2>3
<1>3. ASSUME NEW x \in Answered(Tail(s)) PROVE x \in Answered(s)
  <2>1. PICK i \in DOMAIN Tail(s) : EndsAnswer(Tail(s)[i]) /\ x = Item(Tail(s)[i].of)
    BY DEF Answered
  <2>2. i + 1 \in DOMAIN s /\ Tail(s)[i] = s[i + 1]
    BY <1>1
  <2> QED
    BY <2>1, <2>2 DEF Answered
<1>4. EndsAnswer(s[1]) => Item(s[1].of) \in Answered(s)
  BY <1>1 DEF Answered
<1> QED
  BY <1>2, <1>3, <1>4

LEMMA LineTail ==
  ASSUME NEW s \in Seq(Frame), s # <<>>, NEW h, NEW b, NEW own, InLine(own, s, h, b)
  PROVE  InLine(own, Tail(s), h, b)
<1>1. /\ Len(s) \in Nat \ {0} /\ DOMAIN s = 1 .. Len(s) /\ DOMAIN Tail(s) = 1 .. Len(s) - 1
      /\ \A i \in 1 .. Len(s) - 1 : Tail(s)[i] = s[i + 1]
  BY HeadTailProperties, LenProperties, EmptySeq
<1>2. \A i \in DOMAIN Tail(s) : i + 1 \in DOMAIN s /\ Tail(s)[i] = s[i + 1]
  BY <1>1
<1>3. \A i, j \in DOMAIN Tail(s) : i < j => i + 1 < j + 1
  BY <1>1
<1> QED
  BY <1>2, <1>3 DEF InLine

(* What is asked first is read first: the head of the line is in no other   *)
(* place, is before all that was asked by the same run, and if it is of the *)
(* run that is open, so is the rest.                                        *)
LEMMA HeadFirst ==
  ASSUME NEW s \in Seq(Frame), s # <<>>, NEW h \in Requests \cup {None}, NEW b \in Seq(Request),
         NEW own, InLine(own, s, h, b), EndsAnswer(s[1]),
         NEW x \in Pending(Tail(s), h, b)
  PROVE  /\ x[1] = s[1].of.by => s[1].of.step < x[2]
         /\ s[1].of.by \in own => x[1] \in own
<1>1. /\ Len(s) \in Nat \ {0} /\ DOMAIN s = 1 .. Len(s) /\ DOMAIN Tail(s) = 1 .. Len(s) - 1
      /\ \A i \in 1 .. Len(s) - 1 : Tail(s)[i] = s[i + 1]
  BY HeadTailProperties, LenProperties, EmptySeq
<1>2. CASE x \in Answered(Tail(s))
  <2>1. PICK i \in DOMAIN Tail(s) : EndsAnswer(Tail(s)[i]) /\ x = Item(Tail(s)[i].of)
    BY <1>2 DEF Answered
  <2>2. i + 1 \in DOMAIN s /\ Tail(s)[i] = s[i + 1] /\ 1 < i + 1 /\ 1 \in DOMAIN s
    BY <1>1
  <2>3. Before(own, s[1].of, s[i + 1].of)
    BY <2>1, <2>2 DEF InLine
  <2> QED
    BY <2>1, <2>2, <2>3 DEF Before, Item
<1>3. CASE x \in Asked(h)
  <2>1. h # None /\ x = Item(h)
    BY <1>3 DEF Asked
  <2>2. Before(own, s[1].of, h)
    BY <2>1, <1>1 DEF InLine
  <2> QED
    BY <2>1, <2>2 DEF Before, Item
<1>4. CASE x \in Written(b)
  <2>1. PICK j \in DOMAIN b : EndsRequest(b[j]) /\ x = Item(b[j])
    BY <1>4 DEF Written
  <2>2. Before(own, s[1].of, b[j])
    BY <2>1, <1>1 DEF InLine
  <2> QED
    BY <2>1, <2>2 DEF Before, Item
<1> QED
  BY <1>2, <1>3, <1>4 DEF Pending

LEMMA HeadOnce ==
  ASSUME NEW s \in Seq(Frame), s # <<>>, NEW h \in Requests \cup {None}, NEW b \in Seq(Request),
         NEW own, InLine(own, s, h, b), EndsAnswer(s[1])
  PROVE  Pending(Tail(s), h, b) = Pending(s, h, b) \ {Item(s[1].of)}
<1>1. s[1] \in Frame
  BY HeadTailProperties, EmptySeq, ElementOfSeq
<1>2. s[1].of.step \in Nat
  BY <1>1 DEF Frame, Answers
<1>3. Item(s[1].of) \notin Pending(Tail(s), h, b)
  <2> SUFFICES ASSUME Item(s[1].of) \in Pending(Tail(s), h, b) PROVE FALSE
    OBVIOUS
  <2>1. PICK x \in Pending(Tail(s), h, b) : x[1] = s[1].of.by /\ x[2] = s[1].of.step
    BY DEF Item
  <2>2. s[1].of.step < s[1].of.step
    BY <2>1, HeadFirst
  <2> QED
    BY <2>2, <1>2
<1>4. Pending(s, h, b) = Pending(Tail(s), h, b) \cup {Item(s[1].of)}
  BY AnsweredTail DEF Pending
<1> QED
  BY <1>3, <1>4

LEMMA LineSuffix ==
  ASSUME NEW s \in Seq(Frame), NEW t \in Seq(Frame), NEW h, NEW b
  PROVE  /\ Pending(t, h, b) \subseteq Pending(s \o t, h, b)
         /\ \A own : InLine(own, s \o t, h, b) => InLine(own, t, h, b)
<1>1. /\ Len(s) \in Nat /\ Len(t) \in Nat /\ DOMAIN t = 1 .. Len(t)
      /\ DOMAIN (s \o t) = 1 .. Len(s) + Len(t)
      /\ \A i \in 1 .. Len(t) : (s \o t)[Len(s) + i] = t[i]
  BY ConcatProperties, LenProperties
<1>2. \A i \in DOMAIN t : Len(s) + i \in DOMAIN (s \o t) /\ (s \o t)[Len(s) + i] = t[i]
  BY <1>1
<1>3. \A i, j \in DOMAIN t : i < j => Len(s) + i < Len(s) + j
  BY <1>1
<1>4. Answered(t) \subseteq Answered(s \o t)
  BY <1>2 DEF Answered
<1>5. ASSUME NEW own, InLine(own, s \o t, h, b) PROVE InLine(own, t, h, b)
  BY <1>2, <1>3, <1>5 DEF InLine
<1> QED
  BY <1>4, <1>5 DEF Pending

(* An answer is put behind a stream: its item, which was the user's         *)
(* question or the first of the bus, is still the same place in the line.   *)
Plus(s, a) == s \o Frames(a)

(* What t is if it is s with an answer behind it. *)
Placed(s, a, t) ==
  /\ t \in Seq(Frame) /\ Len(s) \in Nat
  /\ Len(t) = Len(s) + (IF Total(a) <= 57 THEN 1 ELSE 2)
  /\ DOMAIN s = 1 .. Len(s) /\ DOMAIN t = 1 .. Len(t)
  /\ \A i \in 1 .. Len(s) : t[i] = s[i]
  /\ t[Len(s) + 1] = [seq |-> 0, of |-> a]
  /\ Total(a) > 57 => t[Len(s) + 2] = [seq |-> 1, of |-> a]
  /\ EndsAnswer(t[Len(t)]) /\ t[Len(t)].of = a
  /\ \A i \in DOMAIN t : EndsAnswer(t[i]) => i \in DOMAIN s \/ i = Len(t)

LEMMA AnswerPlaced ==
  ASSUME NEW s \in Seq(Frame), NEW a \in Answers, NEW t, t = Plus(s, a)
  PROVE  Placed(s, a, t)
<1> DEFINE n == Len(Frames(a))
<1>0. Frames(a) \in Seq(Frame)
  BY FramesOf
<1>1. /\ t \in Seq(Frame) /\ Len(s) \in Nat /\ DOMAIN s = 1 .. Len(s) /\ DOMAIN t = 1 .. Len(t)
      /\ Len(t) = Len(s) + n
      /\ \A i \in 1 .. Len(s) + n : t[i] = IF i <= Len(s) THEN s[i] ELSE Frames(a)[i - Len(s)]
  BY <1>0, ConcatProperties, LenProperties DEF Plus
<1>2. n = IF Total(a) <= 57 THEN 1 ELSE 2
  BY FramesOf
<1>3. Total(a) \in {2, 6, 67, 109}
  BY Sizes
<1>4. Frames(a)[1] = [seq |-> 0, of |-> a] /\ (Total(a) > 57 => Frames(a)[2] = [seq |-> 1, of |-> a])
  BY FramesOf
<1> HIDE DEF n
<1>5. t[Len(s) + 1] = [seq |-> 0, of |-> a]
  <2>1. Len(s) + 1 \in 1 .. Len(s) + n /\ ~(Len(s) + 1 <= Len(s)) /\ (Len(s) + 1) - Len(s) = 1
    BY <1>1, <1>2
  <2> QED
    BY <2>1, <1>1, <1>4
<1>6. Total(a) > 57 => t[Len(s) + 2] = [seq |-> 1, of |-> a]
  <2> SUFFICES ASSUME Total(a) > 57 PROVE t[Len(s) + 2] = [seq |-> 1, of |-> a]
    OBVIOUS
  <2>1. Len(s) + 2 \in 1 .. Len(s) + n /\ ~(Len(s) + 2 <= Len(s)) /\ (Len(s) + 2) - Len(s) = 2
    BY <1>1, <1>2, <1>3
  <2> QED
    BY <2>1, <1>1, <1>4
<1>7. EndsAnswer(t[Len(t)]) /\ t[Len(t)].of = a
  BY <1>1, <1>2, <1>3, <1>5, <1>6 DEF EndsAnswer, Carried
<1>8. ASSUME NEW i \in DOMAIN t, EndsAnswer(t[i]) PROVE i \in DOMAIN s \/ i = Len(t)
  <2> SUFFICES ASSUME i \notin DOMAIN s, i # Len(t) PROVE FALSE
    OBVIOUS
  <2>1. i = Len(s) + 1 /\ Total(a) > 57
    BY <1>1, <1>2, <1>3
  <2> QED
    BY <2>1, <1>5, <1>8, <1>3 DEF EndsAnswer, Carried
<1>9. \A i \in 1 .. Len(s) : t[i] = s[i]
  BY <1>1, <1>2
<1> QED
  BY <1>1, <1>2, <1>5, <1>6, <1>7, <1>8, <1>9 DEF Placed

LEMMA AnsweredPlus ==
  ASSUME NEW s \in Seq(Frame), NEW a \in Answers, NEW t, t = Plus(s, a)
  PROVE  Answered(t) = Answered(s) \cup {Item(a)}
<1>0. Placed(s, a, t)
  BY AnswerPlaced
<1>1. /\ Len(s) \in Nat /\ Len(t) = Len(s) + (IF Total(a) <= 57 THEN 1 ELSE 2)
      /\ DOMAIN s = 1 .. Len(s) /\ DOMAIN t = 1 .. Len(t)
      /\ \A i \in 1 .. Len(s) : t[i] = s[i]
  BY <1>0 DEF Placed
<1>2. DOMAIN s \subseteq DOMAIN t /\ Len(t) \in DOMAIN t /\ \A i \in DOMAIN s : t[i] = s[i]
  BY <1>1
<1>3. /\ EndsAnswer(t[Len(t)]) /\ t[Len(t)].of = a
      /\ \A i \in DOMAIN t : EndsAnswer(t[i]) => i \in DOMAIN s \/ i = Len(t)
  BY <1>0 DEF Placed
<1> QED
  BY <1>2, <1>3 DEF Answered

LEMMA WholePlus ==
  ASSUME NEW s \in Seq(Frame), NEW a \in Answers, NEW t, t = Plus(s, a), WholeAnswers(s)
  PROVE  WholeAnswers(t)
<1>0. Placed(s, a, t)
  BY AnswerPlaced
<1>1. /\ Len(s) \in Nat /\ Len(t) = Len(s) + (IF Total(a) <= 57 THEN 1 ELSE 2)
      /\ DOMAIN s = 1 .. Len(s) /\ DOMAIN t = 1 .. Len(t)
      /\ \A i \in 1 .. Len(s) : t[i] = s[i]
      /\ t[Len(s) + 1] = [seq |-> 0, of |-> a]
      /\ Total(a) > 57 => t[Len(s) + 2] = [seq |-> 1, of |-> a]
  BY <1>0 DEF Placed
<1>2. Total(a) \in {2, 6, 67, 109}
  BY Sizes
<1>3. ASSUME NEW i \in DOMAIN t
      PROVE  /\ t[i].seq = 1 => Total(t[i].of) > Carried(0) /\ (i = 1 \/ t[i - 1] = First(t[i]))
             /\ ~EndsAnswer(t[i]) => i < Len(t) /\ t[i + 1] = [seq |-> 1, of |-> t[i].of]
  <2>1. CASE i \in DOMAIN s
    <3>1. /\ s[i].seq = 1 => Total(s[i].of) > Carried(0) /\ (i = 1 \/ s[i - 1] = First(s[i]))
          /\ ~EndsAnswer(s[i]) => i < Len(s) /\ s[i + 1] = [seq |-> 1, of |-> s[i].of]
      BY <2>1 DEF WholeAnswers
    <3>2. i # 1 => t[i - 1] = s[i - 1]
      BY <2>1, <1>1
    <3>3. i < Len(s) => t[i + 1] = s[i + 1]
      BY <2>1, <1>1
    <3> QED
      BY <2>1, <1>1, <3>1, <3>2, <3>3
  <2>2. CASE i = Len(s) + 1
    BY <2>2, <1>1, <1>2 DEF EndsAnswer, Carried
  <2>3. CASE i = Len(s) + 2
    <3>1. Total(a) > 57 /\ i # 1 /\ i - 1 = Len(s) + 1
      BY <2>3, <1>1, <1>2
    <3>2. t[i] = [seq |-> 1, of |-> a] /\ t[i - 1] = [seq |-> 0, of |-> a]
      BY <3>1, <2>3, <1>1
    <3> QED
      BY <3>1, <3>2 DEF EndsAnswer, Carried, First
  <2> QED
    BY <2>1, <2>2, <2>3, <1>1
<1> QED
  BY <1>3 DEF WholeAnswers

LEMMA LineDecided ==
  ASSUME NEW s \in Seq(Frame), NEW a \in Answers, NEW t, t = Plus(s, a), NEW h \in Requests, h # None, Item(a) = Item(h),
         NEW b \in Seq(Request), NEW own, InLine(own, s, h, b)
  PROVE  InLine(own, t, None, b)
<1>0. Placed(s, a, t)
  BY AnswerPlaced
<1>1. /\ Len(s) \in Nat /\ Len(t) = Len(s) + (IF Total(a) <= 57 THEN 1 ELSE 2)
      /\ DOMAIN s = 1 .. Len(s) /\ DOMAIN t = 1 .. Len(t)
      /\ \A i \in 1 .. Len(s) : t[i] = s[i]
  BY <1>0 DEF Placed
<1>6. /\ t[Len(t)].of = a
      /\ \A i \in DOMAIN t : EndsAnswer(t[i]) => i \in DOMAIN s \/ i = Len(t)
  BY <1>0 DEF Placed
<1>2. a.by = h.by /\ a.step = h.step
  BY DEF Item
<1>3. ASSUME NEW i \in DOMAIN t, NEW j \in DOMAIN t, i < j, EndsAnswer(t[i]), EndsAnswer(t[j])
      PROVE  Before(own, t[i].of, t[j].of)
  <2>1. i \in DOMAIN s /\ t[i] = s[i]
    BY <1>3, <1>1, <1>6
  <2>2. CASE j \in DOMAIN s
    BY <2>1, <2>2, <1>1, <1>3 DEF InLine
  <2>3. CASE j = Len(t)
    BY <2>1, <2>3, <1>1, <1>6, <1>2, <1>3 DEF InLine, Before
  <2> QED
    BY <2>2, <2>3, <1>6, <1>3
<1>4. ASSUME NEW i \in DOMAIN t, NEW j \in DOMAIN b, EndsAnswer(t[i]), EndsRequest(b[j])
      PROVE  Before(own, t[i].of, b[j])
  <2>1. CASE i \in DOMAIN s
    BY <2>1, <1>1, <1>4 DEF InLine
  <2>2. CASE i = Len(t)
    BY <2>2, <1>1, <1>6, <1>2, <1>4 DEF InLine, Before
  <2> QED
    BY <2>1, <2>2, <1>6, <1>4
<1> QED
  BY <1>3, <1>4 DEF InLine

LEMMA TailOf ==
  ASSUME NEW b \in Seq(Request), b # <<>>
  PROVE  /\ Tail(b) \in Seq(Request) /\ Head(b) = b[1] /\ b[1] \in Request
         /\ Len(b) \in Nat \ {0} /\ Len(Tail(b)) = Len(b) - 1
         /\ DOMAIN b = 1 .. Len(b) /\ DOMAIN Tail(b) = 1 .. Len(b) - 1
         /\ \A i \in DOMAIN Tail(b) : i + 1 \in DOMAIN b /\ Tail(b)[i] = b[i + 1] /\ i + 1 > 1
<1>1. /\ Tail(b) \in Seq(Request) /\ Len(b) \in Nat \ {0} /\ Len(Tail(b)) = Len(b) - 1
      /\ DOMAIN b = 1 .. Len(b) /\ DOMAIN Tail(b) = 1 .. Len(b) - 1
      /\ \A i \in 1 .. Len(b) - 1 : Tail(b)[i] = b[i + 1]
  BY HeadTailProperties, LenProperties, EmptySeq
<1>2. Head(b) = b[1] /\ b[1] \in Request
  BY <1>1, ElementOfSeq
<1> QED
  BY <1>1, <1>2

LEMMA WrittenTail ==
  ASSUME NEW b \in Seq(Request), b # <<>>
  PROVE  Written(b) = Written(Tail(b)) \cup IF EndsRequest(b[1]) THEN {Item(b[1])} ELSE {}
<1>1. /\ Len(b) \in Nat \ {0} /\ DOMAIN b = 1 .. Len(b) /\ DOMAIN Tail(b) = 1 .. Len(b) - 1
      /\ \A i \in DOMAIN Tail(b) : i + 1 \in DOMAIN b /\ Tail(b)[i] = b[i + 1]
  BY TailOf
<1>2. ASSUME NEW x \in Written(b)
      PROVE  x \in Written(Tail(b)) \cup IF EndsRequest(b[1]) THEN {Item(b[1])} ELSE {}
  <2>1. PICK i \in DOMAIN b : EndsRequest(b[i]) /\ x = Item(b[i])
    BY DEF Written
  <2>2. CASE i = 1
    BY <2>1, <2>2
  <2>3. CASE i # 1
    <3>1. i - 1 \in DOMAIN Tail(b) /\ (i - 1) + 1 = i
      BY <1>1, <2>3
    <3>2. Tail(b)[i - 1] = b[i]
      BY <1>1, <3>1
    <3> QED
      BY <2>1, <3>1, <3>2 DEF Written
  <2> QED
    BY <2>2, <2>3
<1>3. Written(Tail(b)) \subseteq Written(b)
  BY <1>1 DEF Written
<1>4. EndsRequest(b[1]) => Item(b[1]) \in Written(b)
  BY <1>1 DEF Written
<1> QED
  BY <1>2, <1>3, <1>4

(* A frame is taken from the bus that does not end a request. *)
LEMMA LineTaken ==
  ASSUME NEW b \in Seq(Request), b # <<>>, NEW s, NEW h, NEW own, InLine(own, s, h, b)
  PROVE  InLine(own, s, h, Tail(b))
<1>1. \A i \in DOMAIN Tail(b) : i + 1 \in DOMAIN b /\ Tail(b)[i] = b[i + 1]
  BY TailOf
<1>2. \A i, j \in DOMAIN Tail(b) : i < j => i + 1 < j + 1
  BY TailOf
<1> QED
  BY <1>1, <1>2 DEF InLine

(* The first request of the bus becomes the question to the user. *)
LEMMA LineAsked ==
  ASSUME NEW b \in Seq(Request), b # <<>>, EndsRequest(b[1]), NEW s, NEW own, InLine(own, s, None, b),
         NEW h \in Requests, h # None, Item(h) = Item(b[1])
  PROVE  InLine(own, s, h, Tail(b))
<1>1. \A i \in DOMAIN Tail(b) : i + 1 \in DOMAIN b /\ Tail(b)[i] = b[i + 1] /\ 1 < i + 1
  BY TailOf
<1>2. 1 \in DOMAIN b
  BY TailOf
<1>3. h.by = b[1].by /\ h.step = b[1].step
  BY DEF Item
<1>4. InLine(own, s, None, Tail(b))
  BY LineTaken
<1>5. ASSUME NEW i \in DOMAIN s, EndsAnswer(s[i]) PROVE Before(own, s[i].of, h)
  BY <1>2, <1>3, <1>5 DEF InLine, Before
<1>6. ASSUME NEW j \in DOMAIN Tail(b), EndsRequest(Tail(b)[j]) PROVE Before(own, h, Tail(b)[j])
  BY <1>1, <1>2, <1>3, <1>6 DEF InLine, Before
<1> QED
  BY <1>4, <1>5, <1>6 DEF InLine

LEMMA AppendOf ==
  ASSUME NEW b \in Seq(Request), NEW f \in Request
  PROVE  /\ Append(b, f) \in Seq(Request) /\ Append(b, f) # <<>>
         /\ Len(b) \in Nat /\ Len(Append(b, f)) = Len(b) + 1
         /\ DOMAIN b = 1 .. Len(b) /\ DOMAIN Append(b, f) = 1 .. Len(b) + 1
         /\ \A i \in DOMAIN b : Append(b, f)[i] = b[i]
         /\ Append(b, f)[Len(b) + 1] = f
BY AppendProperties, LenProperties

LEMMA WrittenPlus ==
  ASSUME NEW b \in Seq(Request), NEW f \in Request
  PROVE  Written(Append(b, f)) = Written(b) \cup IF EndsRequest(f) THEN {Item(f)} ELSE {}
<1>1. /\ DOMAIN Append(b, f) = DOMAIN b \cup {Len(b) + 1}
      /\ \A i \in DOMAIN b : Append(b, f)[i] = b[i]
      /\ Append(b, f)[Len(b) + 1] = f
  BY AppendOf
<1> QED
  BY <1>1 DEF Written

LEMMA LineWritten ==
  ASSUME NEW b \in Seq(Request), NEW f \in Request, NEW s, NEW h, NEW own, InLine(own, s, h, b),
         EndsRequest(f) =>
           /\ \A i \in DOMAIN s : EndsAnswer(s[i]) => Before(own, s[i].of, f)
           /\ h # None => Before(own, h, f)
           /\ \A i \in DOMAIN b : EndsRequest(b[i]) => Before(own, b[i], f)
  PROVE  InLine(own, s, h, Append(b, f))
<1>1. /\ Len(b) \in Nat /\ DOMAIN b = 1 .. Len(b) /\ DOMAIN Append(b, f) = 1 .. Len(b) + 1
      /\ \A i \in DOMAIN b : Append(b, f)[i] = b[i]
      /\ Append(b, f)[Len(b) + 1] = f
  BY AppendOf
<1> DEFINE c == Append(b, f)
<1>2. \A i \in DOMAIN c : (i \in DOMAIN b /\ c[i] = b[i]) \/ (i = Len(b) + 1 /\ c[i] = f)
  BY <1>1
<1> HIDE DEF c
<1>3. ASSUME NEW i \in DOMAIN s, NEW j \in DOMAIN c, EndsAnswer(s[i]), EndsRequest(c[j])
      PROVE  Before(own, s[i].of, c[j])
  BY <1>2, <1>3 DEF InLine
<1>4. ASSUME h # None, NEW j \in DOMAIN c, EndsRequest(c[j]) PROVE Before(own, h, c[j])
  BY <1>2, <1>4 DEF InLine
<1>5. ASSUME NEW i \in DOMAIN c, NEW j \in DOMAIN c, i < j, EndsRequest(c[i]), EndsRequest(c[j])
      PROVE  Before(own, c[i], c[j])
  <2>1. i \in DOMAIN b /\ c[i] = b[i]
    BY <1>1, <1>2, <1>5 DEF c
  <2> QED
    BY <2>1, <1>2, <1>5 DEF InLine
<1> QED
  BY <1>3, <1>4, <1>5 DEF InLine, c

(* Nobody has the device open any more. *)
LEMMA LineClosed ==
  ASSUME NEW s, NEW h, NEW b, NEW own, InLine(own, s, h, b)
  PROVE  InLine({}, s, h, b)
BY DEF InLine, Before

-----------------------------------------------------------------------------
(* Requests on the bus stay whole. *)

LEMMA RequestKinds ==
  ASSUME NEW f \in Request
  PROVE  /\ f.by \in Runs /\ f.step \in Nat /\ f.seq \in {0, 1}
         /\ f = [by |-> f.by, step |-> f.step, seq |-> f.seq]
         /\ First(f) = [by |-> f.by, step |-> f.step, seq |-> 0] /\ First(f) \in Request
         /\ RequestFrames(f.step) \in {1, 2}
         /\ (f.step \in {Status, Address} <=> RequestFrames(f.step) = 1)
         /\ EndsRequest(f) <=> f.seq + 1 = RequestFrames(f.step)
BY DEF Request, First, RequestFrames, EndsRequest

LEMMA WholeTaken ==
  ASSUME NEW b \in Seq(Request), b # <<>>, NEW p, WholeRequests(p, b)
  PROVE  /\ b[1].step <= LastStep(b[1].by) /\ b[1].seq < RequestFrames(b[1].step)
         /\ b[1].seq = 1 => First(b[1]) = p
         /\ \A q : ~EndsRequest(b[1]) /\ q = b[1] => WholeRequests(q, Tail(b))
         /\ \A q : EndsRequest(b[1]) => WholeRequests(q, Tail(b))
<1>1. /\ Len(b) \in Nat \ {0} /\ DOMAIN b = 1 .. Len(b) /\ DOMAIN Tail(b) = 1 .. Len(b) - 1
      /\ \A i \in DOMAIN Tail(b) : i + 1 \in DOMAIN b /\ Tail(b)[i] = b[i + 1] /\ i + 1 > 1
      /\ b[1] \in Request
  BY TailOf
<1>2. \A i \in DOMAIN b : b[i] \in Request
  BY <1>1, ElementOfSeq
<1>3. ASSUME NEW q, q = b[1] \/ EndsRequest(b[1]) PROVE WholeRequests(q, Tail(b))
  <2>1. SUFFICES ASSUME NEW i \in DOMAIN Tail(b)
        PROVE  /\ Tail(b)[i].step <= LastStep(Tail(b)[i].by) /\ Tail(b)[i].seq < RequestFrames(Tail(b)[i].step)
               /\ Tail(b)[i].seq = 1 => First(Tail(b)[i]) = IF i = 1 THEN q ELSE Tail(b)[i - 1]
    BY DEF WholeRequests
  <2> DEFINE f == b[i + 1]
  <2>2. i + 1 \in DOMAIN b /\ Tail(b)[i] = f /\ (i + 1) - 1 = i /\ i + 1 # 1 /\ i \in DOMAIN b
    BY <1>1
  <2>3. /\ f.step <= LastStep(f.by) /\ f.seq < RequestFrames(f.step)
        /\ f.seq = 1 => First(f) = b[i]
    BY <2>2 DEF WholeRequests
  <2>4. i # 1 => i - 1 \in DOMAIN Tail(b) /\ Tail(b)[i - 1] = b[i]
    <3> SUFFICES ASSUME i # 1 PROVE i - 1 \in DOMAIN Tail(b) /\ Tail(b)[i - 1] = b[i]
      OBVIOUS
    <3>1. i - 1 \in DOMAIN Tail(b) /\ (i - 1) + 1 = i
      BY <1>1
    <3> QED
      BY <3>1, <1>1
  <2>5. f \in Request
    BY <2>2, <1>2
  <2>6. f.seq = 1 /\ i = 1 => b[1] = q
    <3> SUFFICES ASSUME f.seq = 1, i = 1, EndsRequest(b[1]) PROVE FALSE
      BY <1>3
    <3>1. First(f) = b[1] /\ RequestFrames(f.step) = 2
      BY <2>3, <2>5, RequestKinds
    <3>2. b[1].seq = 0 /\ b[1].step = f.step
      BY <3>1, <2>5, RequestKinds
    <3> QED
      BY <3>1, <3>2 DEF EndsRequest
  <2> HIDE DEF f
  <2> QED
    BY <2>2, <2>3, <2>4, <2>6
<1>4. 1 \in DOMAIN b
  BY <1>1
<1>5. /\ b[1].step <= LastStep(b[1].by) /\ b[1].seq < RequestFrames(b[1].step)
      /\ b[1].seq = 1 => First(b[1]) = p
  BY <1>4 DEF WholeRequests
<1> QED
  BY <1>3, <1>5

(* What was written last is still last, on the bus or at the device. *)
LEMMA LastTaken ==
  ASSUME NEW b \in Seq(Request), b # <<>>, NEW p, NEW f, LastIs(p, b, f), NEW q,
         q = b[1] \/ f # b[1]
  PROVE  LastIs(q, Tail(b), f)
<1>1. /\ Tail(b) \in Seq(Request) /\ Len(b) \in Nat \ {0} /\ Len(Tail(b)) = Len(b) - 1
      /\ DOMAIN Tail(b) = 1 .. Len(b) - 1
      /\ \A i \in DOMAIN Tail(b) : Tail(b)[i] = b[i + 1]
  BY TailOf
<1>2. f = b[Len(b)]
  BY DEF LastIs
<1>3. CASE Len(b) = 1
  <2>1. Tail(b) = <<>>
    BY <1>1, <1>3, EmptySeq
  <2> QED
    BY <2>1, <1>2, <1>3 DEF LastIs
<1>4. CASE Len(b) # 1
  <2>1. Tail(b) # <<>> /\ Len(b) - 1 \in DOMAIN Tail(b) /\ (Len(b) - 1) + 1 = Len(b)
    BY <1>1, <1>4, EmptySeq
  <2> QED
    BY <2>1, <1>1, <1>2 DEF LastIs
<1> QED
  BY <1>3, <1>4

LEMMA WholeWritten ==
  ASSUME NEW b \in Seq(Request), NEW p, WholeRequests(p, b), NEW f \in Request,
         f.step <= LastStep(f.by), f.seq < RequestFrames(f.step),
         f.seq = 1 => LastIs(p, b, First(f))
  PROVE  WholeRequests(p, Append(b, f)) /\ LastIs(p, Append(b, f), f)
<1> DEFINE c == Append(b, f)
<1>1. /\ c # <<>> /\ Len(b) \in Nat /\ Len(c) = Len(b) + 1
      /\ DOMAIN b = 1 .. Len(b) /\ DOMAIN c = 1 .. Len(b) + 1
      /\ \A i \in DOMAIN b : c[i] = b[i]
      /\ c[Len(b) + 1] = f
  BY AppendOf
<1> HIDE DEF c
<1>2. ASSUME NEW i \in DOMAIN c
      PROVE  /\ c[i].step <= LastStep(c[i].by) /\ c[i].seq < RequestFrames(c[i].step)
             /\ c[i].seq = 1 => First(c[i]) = IF i = 1 THEN p ELSE c[i - 1]
  <2>1. CASE i \in DOMAIN b
    <3>1. i # 1 => c[i - 1] = b[i - 1]
      BY <2>1, <1>1
    <3> QED
      BY <2>1, <3>1, <1>1 DEF WholeRequests
  <2>2. CASE i = Len(b) + 1
    <3>1. CASE b = <<>>
      BY <3>1, <2>2, <1>1 DEF LastIs
    <3>2. CASE b # <<>>
      <4>1. Len(b) \in DOMAIN b /\ i # 1 /\ i - 1 = Len(b)
        BY <3>2, <2>2, <1>1, EmptySeq
      <4> QED
        BY <4>1, <3>2, <2>2, <1>1 DEF LastIs
    <3> QED
      BY <3>1, <3>2
  <2> QED
    BY <2>1, <2>2, <1>1
<1>3. WholeRequests(p, c)
  BY <1>2 DEF WholeRequests
<1>4. LastIs(p, c, f)
  BY <1>1 DEF LastIs
<1> QED
  BY <1>3, <1>4 DEF c

-----------------------------------------------------------------------------
(* The steps of the program. *)

LEMMA Streams ==
  ASSUME TypeInv, NEW r \in Runs
  PROVE  Stream(r) \in Seq(Frame) /\ queue[r] \in Seq(Frame) /\ answering \in Seq(Frame)
BY ConcatProperties DEF TypeInv, Stream

LEMMA Elements ==
  ASSUME TypeInv
  PROVE  /\ \A r \in Runs : \A i \in DOMAIN Stream(r) : Stream(r)[i] \in Frame /\ Stream(r)[i].of.by \in Runs
         /\ \A i \in DOMAIN bus : bus[i] \in Request /\ bus[i].by \in Runs
         /\ asking # None => asking \in Requests /\ asking.by \in Runs
<1>1. ASSUME NEW r \in Runs, NEW i \in DOMAIN Stream(r) PROVE Stream(r)[i] \in Frame
  BY Streams, ElementOfSeq, LenProperties
<1>2. ASSUME NEW i \in DOMAIN bus PROVE bus[i] \in Request
  BY ElementOfSeq, LenProperties DEF TypeInv
<1>3. \A f \in Frame : f.of.by \in Runs
  BY DEF Frame, Answers
<1> QED
  BY <1>1, <1>2, <1>3 DEF Request, TypeInv, Requests

(* Frames of a run that is new are nowhere. *)
LEMMA LineOpened ==
  ASSUME NEW s, NEW h, NEW b, NEW r, InLine({}, s, h, b),
         \A i \in DOMAIN s : s[i].of.by # r, h # None => h.by # r, \A i \in DOMAIN b : b[i].by # r
  PROVE  InLine({r}, s, h, b)
BY DEF InLine, Before

LEMMA InitInv == Init => IInv
<1> SUFFICES ASSUME Init PROVE IInv
  OBVIOUS
<1> USE DEF Init
<1>1. \A r \in Runs : Stream(r) = <<>>
  BY EmptySeq, ConcatEmptySeq DEF Stream
<1>2. Nothing \in Replies /\ Nothing.frames = <<>> /\ Nothing.got = 0 /\ Nothing.total = 0
  BY DEF Nothing, Replies
<1>3. TypeInv
  BY <1>2, CutsAssumption DEF TypeInv, Status
<1>4. Opened = {}
  BY DEF Opened, Active
<1>5. Control
  BY <1>4, LastStepType DEF Control, Active, Status, RequestFrames
<1>6. Contents /\ Known /\ SignatureIsOwn
  BY <1>1 DEF Contents, Known, SignatureIsOwn
<1>7. Shapes /\ Order
  BY <1>1 DEF Shapes, WholeAnswers, WholeRequests, Order, InLine
<1>8. Replying
  BY <1>2 DEF Replying, ReplyWhole
<1>9. \A r \in Runs : Out(r) = {}
  <2>1. Answered(<<>>) = {} /\ Asked(None) = {} /\ Written(<<>>) = {}
    BY DEF Answered, Asked, Written
  <2> QED
    BY <1>1, <2>1 DEF Out, Pending
<1>10. NoGap /\ Tight
  BY <1>4 DEF NoGap, Tight
<1>11. Short
  <2>1. IsFiniteSet({}) /\ Cardinality({}) = 0
    BY FS_EmptySet
  <2>2. \A r \in Runs : pc[r] # "read"
    OBVIOUS
  <2> QED
    BY <1>9, <2>1, <2>2 DEF Short
<1> QED
  BY <1>3, <1>5, <1>6, <1>7, <1>8, <1>10, <1>11 DEF IInv

LEMMA OpenStep ==
  ASSUME IInv, NEW r \in Runs, Open(r)
  PROVE  IInv'
<1> USE DEF IInv
<1>1. /\ pc[r] = "new" /\ pc' = [pc EXCEPT ![r] = "write"] /\ pc \in [Runs -> {"new", "write", "read", "done"}]
      /\ UNCHANGED <<at, sent, reply, signature, cuts, queue, bus, partial, context, asking, answering>>
      /\ \A q \in Runs : ~Active(q)
  BY DEF Open, Active, TypeInv, host, device
<1>2. Opened = {} /\ Opened' = {r} /\ pc'[r] = "write" /\ \A q \in Runs \ {r} : pc'[q] = pc[q]
  BY <1>1 DEF Opened, Active
<1>3. \A q \in Runs : Stream(q)' = Stream(q) /\ Out(q)' = Out(q)
  BY <1>1 DEF Stream, Out, Pending
<1>4. at[r] = 0 /\ sent[r] = 0
  BY <1>1 DEF Control, Status
<1>5. /\ \A q \in Runs : \A i \in DOMAIN Stream(q) : Stream(q)[i].of.by # r
      /\ asking # None => asking.by # r
      /\ \A i \in DOMAIN bus : bus[i].by # r
  BY <1>1 DEF Known, Told, Sent
<1>6. TypeInv'
  BY <1>1 DEF TypeInv
<1>7. Control'
  BY <1>1, <1>2, <1>4 DEF Control, Active
<1>8. Contents'
  BY <1>1, <1>3 DEF Contents, GoodAnswer, Payload, LastStep
<1>9. Shapes'
  BY <1>1, <1>2, <1>3, <1>4 DEF Shapes
<1>10. Replying'
  <2>1. \A q \in Runs : Half(q)' = Half(q)
    BY <1>1, <1>3 DEF Half
  <2>2. \A q \in Runs : pc'[q] = "read" => pc[q] = "read"
    BY <1>1, <1>2
  <2>3. ReplyWhole'
    BY <1>1 DEF Replying, ReplyWhole
  <2> QED
    BY <1>1, <2>1, <2>2, <2>3 DEF Replying
<1>11. Known'
  BY <1>1, <1>2, <1>3, <1>5, Elements DEF Known, Told, Sent
<1>12. Order'
  <2>1. ASSUME NEW q \in Runs PROVE InLine({r}, Stream(q), asking, bus)
    BY <1>2, <1>5, LineOpened DEF Order
  <2> QED
    BY <2>1, <1>1, <1>2, <1>3 DEF Order
<1>13. NoGap'
  BY <1>1, <1>2, <1>4 DEF NoGap, Asks
<1>14. Short'
  BY <1>1, <1>2, <1>3 DEF Short, Active, Opened
<1>15. Tight'
  BY <1>1, <1>2, <1>4 DEF Tight, Address
<1>16. SignatureIsOwn'
  BY <1>1 DEF SignatureIsOwn
<1> QED
  BY <1>6, <1>7, <1>8, <1>9, <1>10, <1>11, <1>12, <1>13, <1>14, <1>15, <1>16

LEMMA WriteStep ==
  ASSUME IInv, NEW r \in Runs, WriteFrame(r)
  PROVE  IInv'
<1> DEFINE more == sent[r] + 1 < RequestFrames(at[r])
<1> USE DEF IInv
<1>0. PICK f : f = [by |-> r, step |-> at[r], seq |-> sent[r]]
  OBVIOUS
<1>1. /\ pc[r] = "write" /\ bus' = Append(bus, f)
      /\ UNCHANGED <<at, queue, signature, cuts, partial, context, asking, answering>>
  BY <1>0 DEF WriteFrame
<1>2. more => sent' = [sent EXCEPT ![r] = sent[r] + 1] /\ UNCHANGED <<pc, reply>>
  BY DEF WriteFrame
<1>3. ~more => sent' = [sent EXCEPT ![r] = 0] /\ pc' = [pc EXCEPT ![r] = "read"]
               /\ reply' = [reply EXCEPT ![r] = Nothing]
  BY DEF WriteFrame
<1>4. /\ pc \in [Runs -> {"new", "write", "read", "done"}] /\ at \in [Runs -> Nat]
      /\ sent \in [Runs -> {0, 1}] /\ reply \in [Runs -> Replies] /\ bus \in Seq(Request)
      /\ at[r] \in Nat /\ sent[r] \in {0, 1} /\ at[r] <= LastStep(r) /\ sent[r] < RequestFrames(at[r])
      /\ RequestFrames(at[r]) \in {1, 2} /\ LastStep(r) \in Nat
  BY LastStepType DEF TypeInv, Control, RequestFrames
<1>5. f \in Request /\ f.by = r /\ f.step = at[r] /\ f.seq = sent[r] /\ First(f) = [by |-> r, step |-> at[r], seq |-> 0]
  BY <1>0, <1>4 DEF Request, First
<1>6. Opened = {r} /\ \A q \in Runs \ {r} : pc[q] \notin {"write", "read"}
  BY <1>1 DEF Control, Opened, Active
<1>7. Opened' = {r} /\ \A q \in Runs \ {r} : pc'[q] = pc[q] /\ sent'[q] = sent[q] /\ reply'[q] = reply[q]
  BY <1>1, <1>2, <1>3, <1>4, <1>6 DEF Opened, Active
<1>8. EndsRequest(f) <=> ~more
  BY <1>4, <1>5 DEF EndsRequest
<1>9. \A q \in Runs : Stream(q)' = Stream(q)
  BY <1>1 DEF Stream
<1>10. /\ Len(bus) \in Nat /\ DOMAIN bus = 1 .. Len(bus) /\ DOMAIN bus' = 1 .. Len(bus) + 1
       /\ \A i \in DOMAIN bus : bus'[i] = bus[i]
       /\ bus'[Len(bus) + 1] = f /\ bus' \in Seq(Request)
  BY <1>1, <1>4, <1>5, AppendOf
<1>11. \A q \in Runs : Out(q)' = Out(q) \cup IF more THEN {} ELSE {<<r, at[r]>>}
  <2>1. Written(bus') = Written(bus) \cup IF more THEN {} ELSE {<<r, at[r]>>}
    BY <1>1, <1>4, <1>5, <1>8, WrittenPlus DEF Item
  <2> QED
    BY <2>1, <1>1, <1>9 DEF Out, Pending
<1>12. TypeInv'
  <2>1. Nothing \in Replies
    BY DEF Nothing, Replies
  <2>2. pc' \in [Runs -> {"new", "write", "read", "done"}] /\ sent' \in [Runs -> {0, 1}] /\ reply' \in [Runs -> Replies]
    <3>1. CASE more
      BY <3>1, <1>2, <1>4
    <3>2. CASE ~more
      BY <3>2, <1>3, <1>4, <2>1
    <3> QED
      BY <3>1, <3>2
  <2> QED
    BY <1>1, <1>10, <2>2 DEF TypeInv
<1>13. Control'
  <2>1. sent'[r] < RequestFrames(at[r]) /\ (pc'[r] = "read" => sent'[r] = 0) /\ pc'[r] \in {"write", "read"}
    BY <1>1, <1>2, <1>3, <1>4
  <2>2. ASSUME NEW q \in Runs
        PROVE  /\ at[q] <= LastStep(q) /\ sent'[q] < RequestFrames(at[q])
               /\ pc'[q] = "new" => at[q] = Status /\ sent'[q] = 0
               /\ pc'[q] = "read" => sent'[q] = 0
               /\ pc'[q] \notin {"write", "read"} => queue[q] = <<>>
    <3>1. CASE q = r
      BY <3>1, <2>1, <1>4
    <3>2. CASE q # r
      BY <3>2, <1>7 DEF Control, Active
    <3> QED
      BY <3>1, <3>2
  <2> QED
    BY <2>2, <1>1, <1>7 DEF Control, Active
<1>14. Contents'
  BY <1>1, <1>9 DEF Contents, GoodAnswer, Payload, LastStep
<1>15. Shapes'
  <2>1. WholeRequests(partial, bus') /\ LastIs(partial, bus', f)
    <3>1. f.seq = 1 => LastIs(partial, bus, First(f))
      BY <1>1, <1>5 DEF Shapes
    <3>2. WholeRequests(partial, bus) /\ f.step <= LastStep(f.by) /\ f.seq < RequestFrames(f.step)
      BY <1>4, <1>5 DEF Shapes
    <3> QED
      BY <3>1, <3>2, <1>1, <1>4, <1>5, WholeWritten
  <2>2. sent'[r] = 1 => f = [by |-> r, step |-> at[r], seq |-> 0]
    BY <1>0, <1>2, <1>3, <1>4
  <2>3. \A q \in Runs : pc'[q] = "write" => q = r
    BY <1>6, <1>7
  <2> QED
    BY <1>1, <1>9, <2>1, <2>2, <2>3 DEF Shapes
<1>16. Replying'
  <2>1. ASSUME NEW q \in Runs, pc'[q] = "read" PROVE reply'[q] = Nothing
    BY <2>1, <1>1, <1>2, <1>3, <1>4, <1>6, <1>7
  <2>2. ASSUME NEW q \in Runs
        PROVE  reply'[q] = reply[q] \/ reply'[q] = Nothing
    BY <1>2, <1>3, <1>4
  <2>3. Nothing.got = 0 /\ Nothing.total = 0
    BY DEF Nothing
  <2>4. \A q \in Runs : reply'[q].got <= reply'[q].total
    BY <2>2, <2>3 DEF Replying
  <2>5. ReplyWhole'
    BY <2>2, <2>3 DEF Replying, ReplyWhole
  <2> QED
    BY <2>1, <2>4, <2>5 DEF Replying
<1>17. Known'
  <2>1. \A x : Told(x) /\ x.by \in Runs => Told(x)'
    BY <1>1, <1>2, <1>3, <1>4, <1>7 DEF Told
  <2>2. ASSUME NEW g \in Request, Sent(g) PROVE Sent(g)'
    <3>1. g.by \in Runs /\ g.seq \in {0, 1} /\ g.step \in Nat
      BY <2>2, RequestKinds
    <3>2. CASE g.by = r
      BY <3>1, <3>2, <2>2, <1>1, <1>2, <1>3, <1>4 DEF Sent
    <3>3. CASE g.by # r
      BY <3>1, <3>3, <2>2, <1>1, <1>7 DEF Sent
    <3> QED
      BY <3>2, <3>3
  <2>3. Sent(f)'
    BY <1>1, <1>2, <1>3, <1>4, <1>5 DEF Sent
  <2>4. (\A i \in DOMAIN bus : Sent(bus[i]))'
    <3>1. \A i \in DOMAIN bus : bus[i] \in Request /\ Sent(bus[i])
      BY Elements DEF Known
    <3> QED
      BY <3>1, <2>2, <2>3, <1>10
  <2> QED
    BY <1>1, <1>9, <2>1, <2>4, Elements DEF Known
<1>18. Order'
  <2>1. ASSUME NEW q \in Runs, EndsRequest(f)
        PROVE  /\ \A i \in DOMAIN Stream(q) : Before({r}, Stream(q)[i].of, f)
               /\ asking # None => Before({r}, asking, f)
               /\ \A i \in DOMAIN bus : EndsRequest(bus[i]) => Before({r}, bus[i], f)
    <3>1. \A i \in DOMAIN bus : EndsRequest(bus[i]) /\ bus[i].by = r => bus[i].step < at[r]
      <4> SUFFICES ASSUME NEW i \in DOMAIN bus, EndsRequest(bus[i]), bus[i].by = r
                   PROVE  bus[i].step < at[r]
        OBVIOUS
      <4>1. bus[i] \in Request /\ Sent(bus[i])
        BY Elements DEF Known
      <4>2. bus[i].step # at[r]
        <5> SUFFICES ASSUME bus[i].step = at[r] PROVE FALSE
          OBVIOUS
        <5>1. bus[i].seq < sent[r]
          BY <4>1, <1>1 DEF Sent
        <5>2. bus[i].seq + 1 = RequestFrames(at[r]) /\ sent[r] + 1 = RequestFrames(at[r])
          BY <2>1, <1>5 DEF EndsRequest
        <5> QED
          BY <5>1, <5>2, <4>1, <1>4, RequestKinds
      <4> QED
        BY <4>1, <4>2, <1>4, RequestKinds DEF Sent
    <3> QED
      BY <3>1, <1>1, <1>5 DEF Known, Told, Before
  <2>2. ASSUME NEW q \in Runs PROVE InLine({r}, Stream(q), asking, bus')
    <3>1. InLine({r}, Stream(q), asking, bus)
      BY <1>6 DEF Order
    <3> QED
      BY <3>1, <2>1, <1>1, <1>4, <1>5, LineWritten
  <2> QED
    BY <2>2, <1>1, <1>7, <1>9 DEF Order
<1>19. NoGap'
  <2> SUFFICES ASSUME NEW x \in Out(r)', NEW j \in Nat, Asks(r, j)', x[1] # r \/ x[2] <= j
               PROVE  <<r, j>> \in Out(r)'
    BY <1>7 DEF NoGap
  <2>1. CASE j = at[r]
    BY <2>1, <1>1, <1>2, <1>4, <1>11 DEF Asks
  <2>2. CASE j # at[r]
    <3>1. j < at[r] /\ Asks(r, j)
      BY <2>2, <1>1, <1>4 DEF Asks
    <3>2. x \in Out(r)
      BY <3>1, <1>4, <1>11
    <3> QED
      BY <3>1, <3>2, <1>6, <1>11 DEF NoGap
  <2> QED
    BY <2>1, <2>2
<1>20. Short'
  <2>2. cuts \in Nat
    BY CutsAssumption DEF TypeInv
  <2>1. IsFiniteSet(Out(r)) /\ Cardinality(Out(r)) <= cuts
    <3>1. Active(r) /\ pc[r] # "read"
      BY <1>1 DEF Active
    <3> QED
      BY <3>1, <2>2 DEF Short
  <2>3. IsFiniteSet(Out(r)') /\ Cardinality(Out(r)') <= cuts + IF pc'[r] = "read" THEN 1 ELSE 0
    <3>1. CASE more
      <4>1. Out(r)' = Out(r) /\ pc'[r] # "read"
        BY <3>1, <1>1, <1>2, <1>11
      <4> QED
        BY <4>1, <2>1, <2>2
    <3>2. CASE ~more
      <4>1. Out(r)' = Out(r) \cup {<<r, at[r]>>} /\ pc'[r] = "read"
        BY <3>2, <1>3, <1>4, <1>11
      <4>2. Cardinality(Out(r)) \in Nat
        BY <2>1, FS_CardinalityType
      <4>3. IsFiniteSet(Out(r)') /\ Cardinality(Out(r)') <= Cardinality(Out(r)) + 1
        <5>1. /\ IsFiniteSet(Out(r) \cup {<<r, at[r]>>})
              /\ Cardinality(Out(r) \cup {<<r, at[r]>>}) =
                   IF <<r, at[r]>> \in Out(r) THEN Cardinality(Out(r)) ELSE Cardinality(Out(r)) + 1
          BY <2>1, FS_AddElement
        <5> QED
          BY <5>1, <4>1, <4>2
      <4>4. Cardinality(Out(r)') \in Nat
        BY <4>3, FS_CardinalityType
      <4> HIDE DEF more
      <4> QED
        BY <4>1, <4>2, <4>3, <4>4, <2>1, <2>2
    <3> QED
      BY <3>1, <3>2
  <2>4. \A q \in Runs : Active(q)' \/ Opened' = {} => q = r
    BY <1>6, <1>7 DEF Active
  <2> QED
    BY <2>3, <2>4, <1>1 DEF Short
<1>21. Tight'
  BY <1>1, <1>2, <1>3, <1>4, <1>6, <1>7, <1>11 DEF Tight
<1>22. SignatureIsOwn'
  BY <1>1 DEF SignatureIsOwn
<1> QED
  BY <1>12, <1>13, <1>14, <1>15, <1>16, <1>17, <1>18, <1>19, <1>20, <1>21, <1>22

LEMMA SuffixPending ==
  ASSUME NEW s \in Seq(Frame), NEW t \in Seq(Frame), NEW h, NEW b
  PROVE  Pending(t, h, b) \subseteq Pending(s \o t, h, b)
BY LineSuffix

(* A run closes the device: what waits for it is lost, what the device has  *)
(* still to send is not.                                                    *)
LEMMA Closing ==
  ASSUME IInv, NEW r \in Runs, Active(r), Close(r), UNCHANGED <<at, sent, device>>
  PROVE  /\ Opened' = {} /\ \A q \in Runs : Stream(q)' = answering
         /\ \A q \in Runs : Out(q)' = Pending(answering, asking, bus)
         /\ pc' \in [Runs -> {"new", "write", "read", "done"}] /\ queue' \in [Runs -> Seq(Frame)]
         /\ \A q \in Runs : pc'[q] \notin {"write", "read"}
         /\ \A i \in DOMAIN answering : GoodAnswer(answering[i].of)
         /\ Control' /\ Shapes' /\ Known' /\ Order' /\ NoGap' /\ Tight'
<1> USE DEF IInv
<1>1. /\ pc' = [pc EXCEPT ![r] = "done"] /\ queue' = [queue EXCEPT ![r] = <<>>]
      /\ pc \in [Runs -> {"new", "write", "read", "done"}] /\ queue \in [Runs -> Seq(Frame)]
      /\ pc[r] \in {"write", "read"} /\ answering \in Seq(Frame)
      /\ UNCHANGED <<at, sent, bus, partial, context, asking, answering>>
  BY DEF Close, Active, TypeInv, device
<1>2. Opened = {r} /\ \A q \in Runs \ {r} : pc[q] \notin {"write", "read"} /\ queue[q] = <<>>
  BY DEF Control, Opened, Active
<1>3. /\ \A q \in Runs : pc'[q] \notin {"write", "read"} /\ queue'[q] = <<>>
      /\ \A q \in Runs : pc'[q] = pc[q] \/ (q = r /\ pc'[q] = "done")
  BY <1>1, <1>2
<1>4. Opened' = {}
  BY <1>3 DEF Opened, Active
<1>5. \A q \in Runs : Stream(q)' = answering
  BY <1>1, <1>3, ConcatEmptySeq DEF Stream
<1>6. \A q \in Runs : Out(q)' = Pending(answering, asking, bus)
  BY <1>1, <1>5 DEF Out
<1>7. queue' \in [Runs -> Seq(Frame)] /\ pc' \in [Runs -> {"new", "write", "read", "done"}]
  BY <1>1, EmptySeq
<1>8. /\ DOMAIN answering = 1 .. Len(answering) /\ Len(queue[r]) \in Nat /\ Len(answering) \in Nat
      /\ \A i \in DOMAIN answering :
           Len(queue[r]) + i \in DOMAIN Stream(r) /\ Stream(r)[Len(queue[r]) + i] = answering[i]
  <2>1. queue[r] \in Seq(Frame)
    BY <1>1
  <2> QED
    BY <2>1, <1>1, ConcatProperties, LenProperties DEF Stream
<1>9. \A i \in DOMAIN answering : GoodAnswer(answering[i].of) /\ Told(answering[i].of)
  BY <1>8 DEF Contents, Known
<1>10. Control'
  BY <1>1, <1>3, <1>4 DEF Control, Active
<1>11. Shapes'
  <2>1. WholeAnswers(answering)
    BY <1>1, WholeSuffix DEF Shapes, Stream
  <2> QED
    BY <2>1, <1>1, <1>3, <1>5 DEF Shapes
<1>12. Known'
  <2>1. \A x : x.by \in Runs /\ Told(x) => Told(x)'
    BY <1>1, <1>3 DEF Told
  <2>2. \A x : x.by \in Runs /\ Sent(x) => Sent(x)'
    BY <1>1, <1>3 DEF Sent
  <2>3. \A i \in DOMAIN answering : answering[i].of.by \in Runs
    BY <1>8, Elements
  <2>4. (\A i \in DOMAIN answering : Told(answering[i].of))'
    BY <2>1, <2>3, <1>1, <1>9
  <2>5. \A q \in Runs : (\A i \in DOMAIN Stream(q) : Told(Stream(q)[i].of))'
    BY <2>4, <1>1, <1>5
  <2>6. (\A i \in DOMAIN bus : Sent(bus[i]))'
    BY <2>2, <1>1, Elements DEF Known
  <2>7. (asking # None => Told(asking))'
    BY <2>1, <1>1, Elements DEF Known
  <2> QED
    BY <2>5, <2>6, <2>7 DEF Known
<1>13. Order'
  <2>1. InLine({}, answering, asking, bus)
    BY <1>1, LineSuffix, LineClosed DEF Order, Stream
  <2> QED
    BY <2>1, <1>1, <1>4, <1>5 DEF Order
<1>14. NoGap' /\ Tight'
  BY <1>4 DEF NoGap, Tight
<1> QED
  BY <1>3, <1>4, <1>5, <1>6, <1>7, <1>9, <1>10, <1>11, <1>12, <1>13, <1>14

LEMMA CutStep ==
  ASSUME IInv, NEW r \in Runs, Cut(r)
  PROVE  IInv'
<1> USE DEF IInv
<1>1. /\ Active(r) /\ Close(r) /\ cuts < MaxCuts /\ cuts' = cuts + 1
      /\ UNCHANGED <<at, sent, reply, signature, device>>
  BY DEF Cut, Active
<1>2. /\ Opened' = {} /\ \A q \in Runs : Stream(q)' = answering
      /\ \A q \in Runs : Out(q)' = Pending(answering, asking, bus)
      /\ pc' \in [Runs -> {"new", "write", "read", "done"}] /\ queue' \in [Runs -> Seq(Frame)]
      /\ \A q \in Runs : pc'[q] \notin {"write", "read"}
      /\ \A i \in DOMAIN answering : GoodAnswer(answering[i].of)
  BY <1>1, Closing
<1>3. Control' /\ Shapes' /\ Known' /\ Order' /\ NoGap' /\ Tight'
  BY <1>1, Closing
<1>4. UNCHANGED <<bus, partial, context, asking, answering>>
  BY <1>1 DEF device
<1>5. cuts \in Nat /\ cuts' \in 0 .. MaxCuts /\ cuts' \in Nat
  BY <1>1, CutsAssumption DEF TypeInv
<1>6. TypeInv'
  BY <1>1, <1>2, <1>4, <1>5 DEF TypeInv
<1>7. Contents'
  <2>1. \A q \in Runs : (\A i \in DOMAIN Stream(q) : GoodAnswer(Stream(q)[i].of))'
    BY <1>2
  <2> QED
    BY <2>1, <1>1, <1>4 DEF Contents
<1>8. Replying'
  BY <1>1, <1>2 DEF Replying, ReplyWhole
<1>9. Short'
  <2>1. IsFiniteSet(Out(r)) /\ Cardinality(Out(r)) <= cuts + IF pc[r] = "read" THEN 1 ELSE 0
    BY <1>1 DEF Short
  <2>2. Pending(answering, asking, bus) \subseteq Out(r)
    BY Streams, SuffixPending DEF Out, Stream
  <2>3. /\ IsFiniteSet(Pending(answering, asking, bus))
        /\ Cardinality(Pending(answering, asking, bus)) <= Cardinality(Out(r))
    BY <2>1, <2>2, FS_Subset
  <2>4. Cardinality(Out(r)) \in Nat /\ Cardinality(Pending(answering, asking, bus)) \in Nat
    BY <2>1, <2>3, FS_CardinalityType
  <2>5. Cardinality(Pending(answering, asking, bus)) <= cuts'
    BY <2>1, <2>3, <2>4, <1>1, <1>5
  <2>6. \A q \in Runs : pc'[q] # "read"
    BY <1>2
  <2> QED
    BY <2>3, <2>5, <2>6, <1>2, <1>5 DEF Short
<1>10. SignatureIsOwn'
  BY <1>1, <1>5, LastStepType DEF SignatureIsOwn
<1> QED
  BY <1>3, <1>6, <1>7, <1>8, <1>9, <1>10

LEMMA OutFacts ==
  ASSUME IInv, NEW r \in Runs, NEW x \in Out(r)
  PROVE  x[1] \in Runs /\ x[2] \in Nat /\ x[2] <= at[x[1]]
<1> USE DEF IInv
<1>1. CASE x \in Answered(Stream(r))
  <2>1. PICK i \in DOMAIN Stream(r) : x = Item(Stream(r)[i].of)
    BY <1>1 DEF Answered
  <2>2. Stream(r)[i] \in Frame /\ Told(Stream(r)[i].of)
    BY Elements DEF Known
  <2> QED
    BY <2>1, <2>2 DEF Told, Item, Frame, Answers
<1>2. CASE x \in Asked(asking)
  <2>1. asking # None /\ x = Item(asking) /\ asking \in Requests /\ Told(asking)
    BY <1>2, Elements DEF Asked, Known
  <2> QED
    BY <2>1 DEF Told, Item, Requests
<1>3. CASE x \in Written(bus)
  <2>1. PICK i \in DOMAIN bus : x = Item(bus[i])
    BY <1>3 DEF Written
  <2>2. bus[i] \in Request /\ Sent(bus[i])
    BY Elements DEF Known
  <2> QED
    BY <2>1, <2>2 DEF Sent, Item, Request
<1> QED
  BY <1>1, <1>2, <1>3 DEF Out, Pending

(* If all of a run's requests up to the k-th are in a set and another one   *)
(* with them, it has more than k + 1 elements.                              *)
LEMMA OwnAndAnother ==
  ASSUME NEW r, NEW k \in Nat, NEW S, IsFiniteSet(S), \A j \in 0 .. k : <<r, j>> \in S,
         NEW y \in S, y[1] # r
  PROVE  Cardinality(S) >= k + 2
<1> DEFINE T == S \ {y}
           own == [j \in 0 .. k |-> <<r, j>>]
<1>1. IsFiniteSet(T) /\ Cardinality(T) = Cardinality(S) - 1
  BY FS_RemoveElement
<1>2. \A j \in 0 .. k : <<r, j>> \in T
  <2>1. \A j \in 0 .. k : <<r, j>>[1] = r
    OBVIOUS
  <2> QED
    BY <2>1
<1>3. own \in Injection(0 .. k, T)
  <2>1. own \in [0 .. k -> T]
    BY <1>2
  <2>2. \A i, j \in 0 .. k : own[i] = own[j] => i = j
    OBVIOUS
  <2> HIDE DEF own, T
  <2> QED
    BY <2>1, <2>2 DEF Injection, IsInjective
<1> HIDE DEF own, T
<1>4. Cardinality(0 .. k) <= Cardinality(T)
  BY <1>1, <1>3, FS_Injection
<1>5. Cardinality(0 .. k) = k + 1
  <2>1. Cardinality(0 .. k) = IF 0 > k THEN 0 ELSE k - 0 + 1
    BY FS_Interval
  <2> QED
    BY <2>1
<1>6. Cardinality(S) \in Nat
  BY FS_CardinalityType
<1> QED
  BY <1>1, <1>4, <1>5, <1>6

(* What is left of the stream when its first frame is read.                 *)
LEMMA StreamRead ==
  ASSUME TypeInv, NEW r \in Runs, queue[r] # <<>>
  PROVE  /\ Stream(r) # <<>> /\ Stream(r)[1] = Head(queue[r]) /\ Stream(r)[1] \in Frame
         /\ Tail(queue[r]) \in Seq(Frame) /\ Tail(queue[r]) \o answering = Tail(Stream(r))
<1>1. queue[r] \in Seq(Frame) /\ answering \in Seq(Frame) /\ Stream(r) \in Seq(Frame)
  BY Streams
<1> DEFINE q == queue[r]
<1>2. /\ Tail(q) \in Seq(Frame) /\ Len(q) \in Nat \ {0} /\ Len(answering) \in Nat
      /\ Len(Tail(q)) = Len(q) - 1
      /\ \A i \in 1 .. Len(q) - 1 : Tail(q)[i] = q[i + 1]
      /\ Head(q) = q[1]
  BY <1>1, HeadTailProperties, LenProperties, EmptySeq
<1>3. /\ Len(Stream(r)) = Len(q) + Len(answering)
      /\ \A i \in 1 .. Len(q) + Len(answering) :
           Stream(r)[i] = IF i <= Len(q) THEN q[i] ELSE answering[i - Len(q)]
  BY <1>1, ConcatProperties DEF Stream
<1>4. Stream(r) # <<>> /\ Stream(r)[1] = Head(q) /\ Stream(r)[1] \in Frame
  <2>1. 1 \in 1 .. Len(Stream(r)) /\ 1 <= Len(q)
    BY <1>2, <1>3
  <2> QED
    BY <2>1, <1>1, <1>2, <1>3, ElementOfSeq, EmptySeq
<1>5. /\ Tail(Stream(r)) \in Seq(Frame) /\ Len(Tail(Stream(r))) = Len(Stream(r)) - 1
      /\ \A i \in 1 .. Len(Stream(r)) - 1 : Tail(Stream(r))[i] = Stream(r)[i + 1]
  BY <1>1, <1>4, HeadTailProperties
<1> DEFINE t == Tail(q) \o answering
<1>6. /\ t \in Seq(Frame) /\ Len(t) = Len(Tail(q)) + Len(answering)
      /\ \A i \in 1 .. Len(Tail(q)) + Len(answering) :
           t[i] = IF i <= Len(Tail(q)) THEN Tail(q)[i] ELSE answering[i - Len(Tail(q))]
  BY <1>1, <1>2, ConcatProperties
<1> HIDE DEF q, t
<1>7. Len(t) = Len(Tail(Stream(r)))
  BY <1>2, <1>3, <1>5, <1>6
<1>8. ASSUME NEW i \in 1 .. Len(t) PROVE t[i] = Tail(Stream(r))[i]
  <2>1. i \in Nat /\ i + 1 \in 1 .. Len(q) + Len(answering) /\ i \in 1 .. Len(Stream(r)) - 1
    BY <1>2, <1>3, <1>6
  <2>2. CASE i <= Len(q) - 1
    BY <2>1, <2>2, <1>2, <1>3, <1>5, <1>6
  <2>3. CASE ~(i <= Len(q) - 1)
    <3>1. (i + 1) - Len(q) = i - Len(Tail(q)) /\ ~(i + 1 <= Len(q)) /\ ~(i <= Len(Tail(q)))
      BY <2>1, <2>3, <1>2
    <3> QED
      BY <2>1, <3>1, <1>2, <1>3, <1>5, <1>6
  <2> QED
    BY <2>2, <2>3
<1>9. t = Tail(Stream(r))
  BY <1>5, <1>6, <1>7, <1>8, SeqEqual
<1> QED
  BY <1>2, <1>4, <1>9 DEF q, t

LEMMA AppendFrame ==
  ASSUME NEW s \in Seq(Frame), NEW f \in Frame
  PROVE  /\ Append(s, f) \in Seq(Frame) /\ Len(Append(s, f)) = Len(s) + 1
         /\ \A i \in 1 .. Len(s) : Append(s, f)[i] = s[i]
         /\ Append(s, f)[Len(s) + 1] = f
BY AppendProperties, LenProperties

LEMMA AppendTwo ==
  ASSUME NEW x \in Frame, NEW y \in Frame
  PROVE  Append(<< x >>, y) = << x, y >>
<1>1. << x >> \in Seq(Frame) /\ Len(<< x >>) = 1 /\ << x >>[1] = x
  OBVIOUS
<1> DEFINE s == << x >>
<1> HIDE DEF s
<1>2. s \in Seq(Frame) /\ Len(s) = 1 /\ s[1] = x
  BY <1>1 DEF s
<1>3. /\ Append(s, y) \in Seq(Frame) /\ Len(Append(s, y)) = 2
      /\ Append(s, y)[1] = x /\ Append(s, y)[2] = y
  <2>1. /\ Append(s, y) \in Seq(Frame) /\ Len(Append(s, y)) = Len(s) + 1
        /\ \A i \in 1 .. Len(s) : Append(s, y)[i] = s[i]
        /\ Append(s, y)[Len(s) + 1] = y
    BY <1>2, AppendFrame
  <2> QED
    BY <2>1, <1>2
<1>4. << x, y >> \in Seq(Frame) /\ Len(<< x, y >>) = 2 /\ << x, y >>[1] = x /\ << x, y >>[2] = y
  OBVIOUS
<1> DEFINE t == << x, y >>
<1> HIDE DEF t
<1>5. \A i \in 1 .. Len(t) : t[i] = Append(s, y)[i]
  BY <1>3, <1>4 DEF t
<1>6. t \in Seq(Frame) /\ Len(t) = Len(Append(s, y))
  BY <1>3, <1>4 DEF t
<1>7. Append(s, y) = t
  BY <1>3, <1>5, <1>6, SeqEqual
<1> QED
  BY <1>7 DEF s, t

(* The next frame of a reply that is not begun announces a length or, the   *)
(* rest of an answer whose beginning was lost, leaves 0 of 0; that of a     *)
(* reply half read is the other half.                                       *)
LEMMA NextFrameFits ==
  ASSUME IInv
  PROVE  NeverWraps
<1> SUFFICES ASSUME NEW r \in Runs, pc[r] = "read", queue[r] # <<>>
             PROVE  reply[r].got <= Announced(r, Head(queue[r]))
  BY DEF NeverWraps
<1>1. PICK f : f = Head(queue[r]) /\ f = Stream(r)[1] /\ f \in Frame
  BY StreamRead DEF IInv
<1>2. f.seq \in {0, 1} /\ Total(f.of) \in {2, 6, 67, 109}
  BY <1>1, FrameKinds
<1>3. CASE reply[r] = Nothing
  BY <1>1, <1>2, <1>3 DEF Announced, Nothing
<1>4. CASE Half(r)
  <2>1. PICK a : /\ Total(a) > Carried(0)
                 /\ reply[r] = [frames |-> << [seq |-> 0, of |-> a] >>, got |-> Carried(0), total |-> Total(a)]
                 /\ f = [seq |-> 1, of |-> a]
    BY <1>1, <1>4 DEF Half
  <2>2. f.seq = 1 /\ f.of = a /\ Total(a) \in Nat
    BY <1>2, <2>1
  <2> QED
    BY <1>1, <2>1, <2>2 DEF Announced, Carried
<1> QED
  BY <1>3, <1>4 DEF IInv, Replying

(* What a frame that is read can be: the first of two, the end of an        *)
(* answer, or the rest of one whose beginning was lost.                     *)
LEMMA ReadCases ==
  ASSUME IInv, NEW r \in Runs, ReadFrame(r), NEW f, f = Stream(r)[1]
  PROVE  /\ pc[r] = "read" /\ queue[r] # <<>> /\ f \in Frame /\ UNCHANGED <<sent, cuts, device>>
         /\ \E rep \in Replies :
              /\ reply' = [reply EXCEPT ![r] = rep]
              /\ \/ /\ ~EndsAnswer(f) /\ f.seq = 0
                    /\ rep = [frames |-> << f >>, got |-> 57, total |-> Total(f.of)]
                    /\ queue' = [queue EXCEPT ![r] = Tail(queue[r])] /\ UNCHANGED <<pc, at, signature>>
                 \/ /\ EndsAnswer(f) /\ EndReply(r, rep) /\ rep.frames[Len(rep.frames)].of = f.of
                    /\ rep.got = Total(f.of) /\ rep.total = Total(f.of) /\ rep.frames = Frames(f.of)
                 \/ EndsAnswer(f) /\ EndReply(r, rep) /\ rep.got = 0 /\ rep.total = 0
<1> USE DEF IInv
<1>1. pc[r] = "read" /\ queue[r] # <<>> /\ UNCHANGED <<sent, cuts, device>>
  BY DEF ReadFrame
<1>2. f = Head(queue[r]) /\ f \in Frame
  BY <1>1, StreamRead
<1>3. /\ f.of \in Answers /\ f.seq \in {0, 1} /\ f = [seq |-> f.seq, of |-> f.of]
      /\ Total(f.of) \in {2, 6, 67, 109}
      /\ EndsAnswer(f) <=> (f.seq = 1 \/ Total(f.of) \in {2, 6})
  BY <1>2, FrameKinds
<1>0. (IF f.seq = 0 THEN Total(f.of) ELSE reply[r].total) - reply[r].got >= 0
  <2>1. reply[r].got <= IF f.seq = 0 THEN Total(f.of) ELSE reply[r].total
    BY <1>1, <1>2, NextFrameFits DEF NeverWraps, Announced
  <2>2. reply[r].got \in Nat /\ reply[r].total \in Nat
    BY DEF TypeInv, Replies
  <2> QED
    BY <1>3, <2>1, <2>2
<1>17. PICK left : left = (IF f.seq = 0 THEN Total(f.of) ELSE reply[r].total) - reply[r].got
  OBVIOUS
<1>18. (left < 0 \/ left > Carried(f.seq)) = (left > Carried(f.seq))
  BY <1>0, <1>17, <1>3 DEF Carried
<1>4. PICK rep :
        /\ left = (IF f.seq = 0 THEN Total(f.of) ELSE reply[r].total) - reply[r].got
        /\ rep = [frames |-> Append(reply[r].frames, f),
                  total |-> IF f.seq = 0 THEN Total(f.of) ELSE reply[r].total,
                  got |-> reply[r].got + IF left > Carried(f.seq) THEN Carried(f.seq) ELSE left]
        /\ reply' = [reply EXCEPT ![r] = rep]
        /\ IF left > Carried(f.seq)
           THEN queue' = [queue EXCEPT ![r] = Tail(@)] /\ UNCHANGED <<pc, at, signature>>
           ELSE EndReply(r, rep)
  BY <1>2, <1>17, <1>18 DEF ReadFrame, Announced
<1>5. reply[r] = Nothing \/ Half(r)
  BY <1>1 DEF Replying
<1>6. ASSUME reply[r] = Nothing, f.seq = 0, ~EndsAnswer(f)
      PROVE  /\ rep = [frames |-> << f >>, got |-> 57, total |-> Total(f.of)]
             /\ queue' = [queue EXCEPT ![r] = Tail(queue[r])] /\ UNCHANGED <<pc, at, signature>>
  <2>1. left = Total(f.of) /\ left > Carried(f.seq)
    BY <1>3, <1>4, <1>6 DEF Nothing, Carried
  <2>2. Append(reply[r].frames, f) = << f >>
    BY <1>6 DEF Nothing
  <2> QED
    BY <2>1, <2>2, <1>4, <1>6, <1>3 DEF Nothing, Carried
<1>7. ASSUME reply[r] = Nothing, f.seq = 0, EndsAnswer(f)
      PROVE  /\ EndReply(r, rep) /\ rep.got = Total(f.of) /\ rep.total = Total(f.of) /\ rep.frames = << f >>
             /\ Frames(f.of) = << f >>
  <2>1. left = Total(f.of) /\ ~(left > Carried(f.seq)) /\ Total(f.of) <= Carried(0)
    BY <1>3, <1>4, <1>7 DEF Nothing, Carried
  <2>2. Append(reply[r].frames, f) = << f >>
    BY <1>7 DEF Nothing
  <2>3. Frames(f.of) = << [seq |-> 0, of |-> f.of] >>
    BY <2>1 DEF Frames
  <2> QED
    BY <2>1, <2>2, <2>3, <1>4, <1>7, <1>3 DEF Nothing
<1>8. ASSUME reply[r] = Nothing, f.seq = 1
      PROVE  EndReply(r, rep) /\ rep.got = 0 /\ rep.total = 0 /\ EndsAnswer(f) /\ rep.frames = << f >>
  <2>1. left = 0 /\ ~(left > Carried(f.seq))
    BY <1>3, <1>4, <1>8 DEF Nothing, Carried
  <2>2. Append(reply[r].frames, f) = << f >>
    BY <1>8 DEF Nothing
  <2> QED
    BY <2>1, <2>2, <1>4, <1>8, <1>3 DEF Nothing
<1>9. ASSUME Half(r)
      PROVE  /\ EndReply(r, rep) /\ rep.got = Total(f.of) /\ rep.total = Total(f.of) /\ EndsAnswer(f)
             /\ rep.frames = << [seq |-> 0, of |-> f.of], [seq |-> 1, of |-> f.of] >>
             /\ Frames(f.of) = << [seq |-> 0, of |-> f.of], [seq |-> 1, of |-> f.of] >>
  <2>1. PICK a : /\ Total(a) > Carried(0)
                 /\ reply[r] = [frames |-> << [seq |-> 0, of |-> a] >>, got |-> Carried(0), total |-> Total(a)]
                 /\ f = [seq |-> 1, of |-> a]
    BY <1>9 DEF Half
  <2>2. f.seq = 1 /\ f.of = a
    BY <2>1
  <2>3. left = Total(a) - 57 /\ ~(left > Carried(f.seq)) /\ ~(Total(a) <= Carried(0))
    BY <2>1, <2>2, <1>3, <1>4 DEF Carried
  <2>4. Append(reply[r].frames, f) = << [seq |-> 0, of |-> a], f >>
    <3>1. reply[r].frames = << [seq |-> 0, of |-> a] >>
      BY <2>1
    <3>2. [seq |-> 0, of |-> a] \in Frame
      BY <2>2, <1>3 DEF Frame
    <3> QED
      BY <3>1, <3>2, <1>2, AppendTwo
  <2>5. Frames(a) = << [seq |-> 0, of |-> a], [seq |-> 1, of |-> a] >>
    BY <2>3 DEF Frames
  <2>6. rep.got = 57 + (Total(a) - 57) /\ rep.total = Total(a)
    BY <2>1, <2>2, <2>3, <1>4 DEF Carried
  <2> QED
    BY <2>1, <2>2, <2>3, <2>4, <2>5, <2>6, <1>3, <1>4
<1>10. << f >> \in Seq(Frame) /\ << f >>[Len(<< f >>)] = f
  BY <1>2
<1>16. rep.frames \in Seq(Frame) /\ rep.got \in Nat /\ rep.total \in Nat => rep \in Replies
  <2> SUFFICES ASSUME rep.frames \in Seq(Frame), rep.got \in Nat, rep.total \in Nat PROVE rep \in Replies
    OBVIOUS
  <2>1. rep = [frames |-> rep.frames, total |-> rep.total, got |-> rep.got]
    BY <1>4
  <2> QED
    BY <2>1 DEF Replies
<1>11. ASSUME NEW x, x = << [seq |-> 0, of |-> f.of], [seq |-> 1, of |-> f.of] >>
       PROVE  x \in Seq(Frame) /\ x[Len(x)].of = f.of
  BY <1>3, <1>11 DEF Frame
<1>12. CASE reply[r] = Nothing /\ f.seq = 0 /\ ~EndsAnswer(f)
  <2>1. rep.frames = << f >> /\ rep.got = 57 /\ rep.total = Total(f.of)
    BY <1>6, <1>12
  <2>2. rep \in Replies
    BY <2>1, <1>3, <1>10, <1>16
  <2> QED
    BY <2>2, <1>1, <1>2, <1>4, <1>6, <1>12
<1>13. CASE reply[r] = Nothing /\ f.seq = 0 /\ EndsAnswer(f)
  <2>1. rep \in Replies
    <3>1. rep.frames = << f >> /\ rep.got = Total(f.of) /\ rep.total = Total(f.of)
      BY <1>7, <1>13
    <3> QED
      BY <3>1, <1>3, <1>10, <1>16
  <2>2. rep.frames[Len(rep.frames)].of = f.of
    BY <1>7, <1>10, <1>13
  <2> QED
    BY <2>1, <2>2, <1>1, <1>2, <1>4, <1>7, <1>13
<1>14. CASE reply[r] = Nothing /\ f.seq = 1
  <2>1. rep \in Replies
    <3>1. rep.frames = << f >> /\ rep.got = 0 /\ rep.total = 0
      BY <1>8, <1>14
    <3> QED
      BY <3>1, <1>10, <1>16
  <2> QED
    BY <2>1, <1>1, <1>2, <1>4, <1>8, <1>14
<1>15. CASE Half(r)
  <2>1. rep.frames \in Seq(Frame) /\ rep.frames[Len(rep.frames)].of = f.of
    BY <1>9, <1>11, <1>15
  <2>2. rep \in Replies
    BY <2>1, <1>3, <1>9, <1>15, <1>16
  <2> QED
    BY <2>1, <2>2, <1>1, <1>2, <1>4, <1>9, <1>15
<1> QED
  BY <1>3, <1>5, <1>12, <1>13, <1>14, <1>15

LEMMA TailFrames ==
  ASSUME NEW s \in Seq(Frame), s # <<>>
  PROVE  /\ Tail(s) \in Seq(Frame) /\ Len(s) \in Nat \ {0}
         /\ DOMAIN s = 1 .. Len(s) /\ DOMAIN Tail(s) = 1 .. Len(s) - 1
         /\ \A i \in DOMAIN Tail(s) : i + 1 \in DOMAIN s /\ Tail(s)[i] = s[i + 1]
<1>1. /\ Tail(s) \in Seq(Frame) /\ Len(s) \in Nat \ {0}
      /\ DOMAIN s = 1 .. Len(s) /\ DOMAIN Tail(s) = 1 .. Len(s) - 1
      /\ \A i \in 1 .. Len(s) - 1 : Tail(s)[i] = s[i + 1]
  BY HeadTailProperties, LenProperties, EmptySeq
<1> QED
  BY <1>1

LEMMA NotEmpty ==
  ASSUME NEW s, 1 \in DOMAIN s
  PROVE  s # <<>>
<1>1. DOMAIN <<>> = {}
  OBVIOUS
<1> QED
  BY <1>1

(* The first frame is read and the handle stays open. *)
LEMMA FrameRead ==
  ASSUME IInv, NEW r \in Runs, pc[r] = "read", queue[r] # <<>>, pc'[r] \in {"write", "read"},
         pc' = [pc EXCEPT ![r] = pc'[r]],
         queue' = [queue EXCEPT ![r] = Tail(queue[r])], UNCHANGED device
  PROVE  /\ Opened = {r} /\ Opened' = {r} /\ UNCHANGED <<bus, partial, context, asking, answering>>
         /\ queue' \in [Runs -> Seq(Frame)]
         /\ \A q \in Runs \ {r} : pc[q] \notin {"write", "read"} /\ pc'[q] = pc[q] /\ Stream(q)' = Stream(q)
         /\ \A q \in Runs : pc'[q] \notin {"write", "read"} => queue'[q] = <<>>
         /\ Stream(r)' = Tail(Stream(r)) /\ Stream(r) # <<>> /\ Stream(r)[1] \in Frame
         /\ Stream(r) \in Seq(Frame)
         /\ Contents' = (\A q \in Runs : signature'[q] # None => GoodAnswer(signature'[q]))
         /\ \A q \in Runs : WholeAnswers(Stream(q)')
         /\ \A q \in Runs : InLine({r}, Stream(q)', asking, bus)
         /\ \A q \in Runs : \A i \in DOMAIN Stream(q)' : \E j \in DOMAIN Stream(q) : Stream(q)'[i] = Stream(q)[j]
<1> USE DEF IInv
<1>1. /\ pc \in [Runs -> {"new", "write", "read", "done"}] /\ queue \in [Runs -> Seq(Frame)]
      /\ UNCHANGED <<bus, partial, context, asking, answering>>
  BY DEF TypeInv, device
<1>2. Opened = {r} /\ \A q \in Runs \ {r} : pc[q] \notin {"write", "read"} /\ queue[q] = <<>>
  BY DEF Control, Opened, Active
<1>3. \A q \in Runs \ {r} : pc'[q] = pc[q] /\ queue'[q] = queue[q] /\ Stream(q)' = Stream(q)
  BY <1>1 DEF Stream
<1>4. Opened' = {r}
  BY <1>2, <1>3 DEF Opened, Active
<1>5. /\ Stream(r) # <<>> /\ Stream(r)[1] \in Frame /\ Stream(r) \in Seq(Frame)
      /\ Tail(queue[r]) \in Seq(Frame) /\ Tail(queue[r]) \o answering = Tail(Stream(r))
  BY StreamRead, Streams
<1>6. queue' \in [Runs -> Seq(Frame)] /\ Stream(r)' = Tail(Stream(r))
  BY <1>1, <1>5 DEF Stream
<1>7. \A i \in DOMAIN Tail(Stream(r)) : i + 1 \in DOMAIN Stream(r) /\ Tail(Stream(r))[i] = Stream(r)[i + 1]
  BY <1>5, TailFrames
<1>8. ASSUME NEW q \in Runs
      PROVE  \A i \in DOMAIN Stream(q)' : \E j \in DOMAIN Stream(q) : Stream(q)'[i] = Stream(q)[j]
  <2>1. CASE q = r
    BY <2>1, <1>6, <1>7
  <2>2. CASE q # r
    BY <2>2, <1>3
  <2> QED
    BY <2>1, <2>2
<1>9. \A q \in Runs : WholeAnswers(Stream(q)')
  BY <1>3, <1>5, <1>6, WholeTail DEF Shapes
<1>10. ASSUME NEW q \in Runs PROVE InLine({r}, Stream(q)', asking, bus)
  <2>1. InLine({r}, Stream(q), asking, bus)
    BY <1>2 DEF Order
  <2>2. CASE q = r
    BY <2>1, <2>2, <1>5, <1>6, LineTail
  <2>3. CASE q # r
    BY <2>1, <2>3, <1>3
  <2> QED
    BY <2>2, <2>3
<1>11. (\A q \in Runs : \A i \in DOMAIN Stream(q) : GoodAnswer(Stream(q)[i].of))'
  BY <1>8 DEF Contents, GoodAnswer, Payload, LastStep
<1>12. Contents' = (\A q \in Runs : signature'[q] # None => GoodAnswer(signature'[q]))
  BY <1>1, <1>11 DEF Contents, GoodAnswer, Payload, LastStep
<1> QED
  BY <1>1, <1>2, <1>3, <1>4, <1>5, <1>6, <1>8, <1>9, <1>10, <1>12

LEMMA ReplyChanged ==
  ASSUME TypeInv, Replying, NEW r \in Runs, NEW rep \in Replies, reply' = [reply EXCEPT ![r] = rep],
         rep.got <= rep.total,
         rep.total > 0 /\ rep.got = rep.total => \E i \in DOMAIN rep.frames : rep.frames = Frames(rep.frames[i].of)
  PROVE  /\ reply' \in [Runs -> Replies] /\ ReplyWhole'
         /\ \A q \in Runs : reply'[q].got <= reply'[q].total
<1>1. reply \in [Runs -> Replies]
  BY DEF TypeInv
<1>2. \A q \in Runs : reply'[q] = IF q = r THEN rep ELSE reply[q]
  BY <1>1
<1> QED
  BY <1>1, <1>2 DEF Replying, ReplyWhole

(* The first of two frames is read. *)
LEMMA MoreStep ==
  ASSUME IInv, NEW r \in Runs, pc[r] = "read", queue[r] # <<>>, UNCHANGED <<sent, cuts, device>>,
         NEW f, f = Stream(r)[1], ~EndsAnswer(f), f.seq = 0,
         NEW rep \in Replies, rep = [frames |-> << f >>, got |-> 57, total |-> Total(f.of)],
         reply' = [reply EXCEPT ![r] = rep],
         queue' = [queue EXCEPT ![r] = Tail(queue[r])], UNCHANGED <<pc, at, signature>>
  PROVE  IInv'
<1> USE DEF IInv
<1>1. pc \in [Runs -> {"new", "write", "read", "done"}] /\ pc' = [pc EXCEPT ![r] = pc'[r]] /\ pc'[r] \in {"write", "read"}
  BY DEF TypeInv
<1>2. /\ Opened = {r} /\ Opened' = {r} /\ UNCHANGED <<bus, partial, context, asking, answering>>
      /\ queue' \in [Runs -> Seq(Frame)]
      /\ \A q \in Runs \ {r} : pc[q] \notin {"write", "read"} /\ pc'[q] = pc[q] /\ Stream(q)' = Stream(q)
      /\ \A q \in Runs : pc'[q] \notin {"write", "read"} => queue'[q] = <<>>
      /\ Stream(r)' = Tail(Stream(r)) /\ Stream(r) # <<>> /\ Stream(r)[1] \in Frame
      /\ Stream(r) \in Seq(Frame)
  BY <1>1, FrameRead
<1>3. /\ Contents' = (\A q \in Runs : signature'[q] # None => GoodAnswer(signature'[q]))
      /\ \A q \in Runs : WholeAnswers(Stream(q)')
      /\ \A q \in Runs : InLine({r}, Stream(q)', asking, bus)
      /\ \A q \in Runs : \A i \in DOMAIN Stream(q)' : \E j \in DOMAIN Stream(q) : Stream(q)'[i] = Stream(q)[j]
  BY <1>1, FrameRead
<1>4. /\ f.of \in Answers /\ f = [seq |-> 0, of |-> f.of] /\ Total(f.of) \in {67, 109}
  BY <1>2, FrameKinds
<1>5. \A q \in Runs : Out(q)' = Out(q)
  <2>1. Answered(Stream(r)) = Answered(Tail(Stream(r)))
    BY <1>2, AnsweredTail
  <2>2. Out(r)' = Out(r)
    BY <2>1, <1>2 DEF Out, Pending
  <2>3. \A q \in Runs \ {r} : Out(q)' = Out(q)
    BY <1>2 DEF Out, Pending
  <2> QED
    BY <2>2, <2>3
<1>6. /\ reply' \in [Runs -> Replies] /\ ReplyWhole'
      /\ \A q \in Runs : reply'[q].got <= reply'[q].total
  <2>1. rep.got = 57 /\ rep.total \in {67, 109}
    BY <1>4
  <2>2. rep.got <= rep.total /\ ~(rep.total > 0 /\ rep.got = rep.total)
    BY <2>1
  <2>3. TypeInv /\ Replying
    OBVIOUS
  <2> QED
    BY <2>2, <2>3, ReplyChanged
<1>7. TypeInv'
  BY <1>2, <1>6 DEF TypeInv
<1>8. Control'
  BY <1>2 DEF Control, Active
<1>9. Contents'
  BY <1>3 DEF Contents
<1>10. Shapes'
  BY <1>2, <1>3 DEF Shapes
<1>11. Replying'
  <2>1. Half(r)'
    <3>1. 1 \in DOMAIN Stream(r) /\ 1 < Len(Stream(r)) /\ Stream(r)[2] = [seq |-> 1, of |-> f.of]
      <4>1. 1 \in DOMAIN Stream(r) /\ WholeAnswers(Stream(r)) /\ ~EndsAnswer(Stream(r)[1])
        BY <1>2, TailFrames DEF Shapes
      <4> QED
        BY <4>1 DEF WholeAnswers
    <3>2. 1 \in DOMAIN Tail(Stream(r)) /\ Tail(Stream(r))[1] = Stream(r)[2]
      BY <3>1, <1>2, TailFrames
    <3>3. Tail(Stream(r)) # <<>>
      BY <3>2, NotEmpty
    <3>4. reply'[r] = [frames |-> << [seq |-> 0, of |-> f.of] >>, got |-> 57, total |-> Total(f.of)]
      BY <1>4 DEF TypeInv
    <3>5. reply'[r].frames[1].of = f.of /\ 1 \in DOMAIN reply'[r].frames
      BY <3>4
    <3>6. f.of \in {reply'[r].frames[i].of : i \in DOMAIN reply'[r].frames} /\ Total(f.of) > 57
      BY <3>5, <1>4
    <3> QED
      BY <3>1, <3>2, <3>3, <3>4, <3>6, <1>2 DEF Half, Carried
  <2>2. \A q \in Runs : pc'[q] = "read" => q = r
    BY <1>2
  <2> QED
    BY <2>1, <2>2, <1>6 DEF Replying
<1>12. Known'
  <2>1. (\A q \in Runs : \A i \in DOMAIN Stream(q) : Told(Stream(q)[i].of))'
    BY <1>3 DEF Known, Told
  <2> QED
    BY <2>1, <1>2 DEF Known, Told, Sent
<1>13. Order'
  BY <1>2, <1>3 DEF Order
<1>14. NoGap'
  BY <1>2, <1>5 DEF NoGap, Asks
<1>15. Short'
  BY <1>2, <1>5 DEF Short, Active
<1>16. Tight'
  BY <1>2, <1>5 DEF Tight
<1>17. SignatureIsOwn'
  BY DEF SignatureIsOwn
<1> QED
  BY <1>7, <1>8, <1>9, <1>10, <1>11, <1>12, <1>13, <1>14, <1>15, <1>16, <1>17

Later(r, a, x) == (x[1] = a.by => a.step < x[2]) /\ (a.by = r => x[1] = r)

(* The first of a stream that is open ends an answer: what is still under   *)
(* way without it.                                                          *)
LEMMA AnswerRead ==
  ASSUME IInv, NEW r \in Runs, pc[r] = "read", queue[r] # <<>>, NEW a, a = Stream(r)[1].of, EndsAnswer(Stream(r)[1])
  PROVE  /\ Item(a) \in Out(r) /\ Pending(Tail(Stream(r)), asking, bus) = Out(r) \ {Item(a)}
         /\ IsFiniteSet(Out(r)) /\ Cardinality(Out(r)) <= cuts + 1 /\ cuts \in Nat
         /\ IsFiniteSet(Out(r) \ {Item(a)}) /\ Cardinality(Out(r) \ {Item(a)}) <= cuts
         /\ a \in Answers
         /\ \A k \in Nat : k <= at[r] /\ cuts <= k => a.by = r
         /\ \A x \in Out(r) \ {Item(a)} : Later(r, a, x)
<1> USE DEF IInv
<1>1. /\ Stream(r) # <<>> /\ Stream(r)[1] \in Frame /\ Stream(r) \in Seq(Frame)
      /\ Opened = {r} /\ Active(r) /\ bus \in Seq(Request) /\ asking \in Requests \cup {None}
      /\ 1 \in DOMAIN Stream(r)
  <2>1. Stream(r) # <<>> /\ Stream(r)[1] \in Frame /\ Stream(r) \in Seq(Frame)
    BY StreamRead, Streams
  <2>2. Opened = {r} /\ Active(r)
    BY DEF Control, Opened, Active
  <2>3. 1 \in DOMAIN Stream(r)
    BY <2>1, TailFrames
  <2> QED
    BY <2>1, <2>2, <2>3 DEF TypeInv, Requests
<1>2. a \in Answers
  BY <1>1, FrameKinds
<1>3. InLine({r}, Stream(r), asking, bus)
  BY <1>1 DEF Order
<1>4. Pending(Tail(Stream(r)), asking, bus) = Out(r) \ {Item(a)}
  BY <1>1, <1>3, HeadOnce DEF Out
<1>5. Item(a) \in Out(r)
  BY <1>1 DEF Out, Pending, Answered
<1>6. cuts \in Nat
  BY CutsAssumption DEF TypeInv
<1>7. IsFiniteSet(Out(r)) /\ Cardinality(Out(r)) <= cuts + 1
  BY <1>1, <1>6 DEF Short
<1>8. IsFiniteSet(Out(r) \ {Item(a)}) /\ Cardinality(Out(r) \ {Item(a)}) = Cardinality(Out(r)) - 1
  BY <1>5, <1>7, FS_RemoveElement
<1>9. Cardinality(Out(r)) \in Nat
  BY <1>7, FS_CardinalityType
<1>10. Cardinality(Out(r) \ {Item(a)}) <= cuts
  BY <1>6, <1>7, <1>8, <1>9
<1>11. ASSUME NEW k \in Nat, k <= at[r], cuts <= k PROVE a.by = r
  <2> SUFFICES ASSUME a.by # r PROVE FALSE
    OBVIOUS
  <2>1. at[r] \in Nat
    BY DEF TypeInv
  <2>2. Item(a)[1] # r
    BY DEF Item
  <2>3. ASSUME NEW j \in 0 .. k PROVE <<r, j>> \in Out(r)
    <3>1. j \in Nat /\ Asks(r, j)
      BY <1>11, <2>1 DEF Asks
    <3> QED
      BY <3>1, <2>2, <1>1, <1>5 DEF NoGap
  <2>4. Cardinality(Out(r)) >= k + 2
    BY <2>2, <2>3, <1>5, <1>7, OwnAndAnother
  <2> QED
    BY <2>4, <1>6, <1>7, <1>9, <1>11
<1>12. ASSUME NEW x \in Out(r) \ {Item(a)} PROVE Later(r, a, x)
  <2>1. x \in Pending(Tail(Stream(r)), asking, bus)
    BY <1>4
  <2>2. /\ x[1] = a.by => a.step < x[2]
        /\ a.by \in {r} => x[1] \in {r}
    BY <2>1, <1>1, <1>3, HeadFirst
  <2> QED
    BY <2>2 DEF Later
<1> QED
  BY <1>2, <1>4, <1>5, <1>6, <1>7, <1>8, <1>10, <1>11, <1>12

(* An answer is accepted and the next request is due. *)
LEMMA NextStep ==
  ASSUME IInv, NEW r \in Runs, pc[r] = "read", queue[r] # <<>>, UNCHANGED <<sent, cuts, device>>,
         NEW a, a = Stream(r)[1].of, EndsAnswer(Stream(r)[1]),
         at[r] # LastStep(r), at[r] = Address => a.step = Address,
         NEW rep \in Replies, rep.got = Total(a), rep.total = Total(a), rep.frames = Frames(a),
         reply' = [reply EXCEPT ![r] = rep],
         at' = [at EXCEPT ![r] = at[r] + 1], pc' = [pc EXCEPT ![r] = "write"],
         queue' = [queue EXCEPT ![r] = Tail(queue[r])], UNCHANGED signature
  PROVE  IInv'
<1> USE DEF IInv
<1>1. /\ pc \in [Runs -> {"new", "write", "read", "done"}] /\ at \in [Runs -> Nat] /\ sent \in [Runs -> {0, 1}]
      /\ pc'[r] = "write" /\ at'[r] = at[r] + 1 /\ at[r] \in Nat /\ sent[r] = 0 /\ at'[r] <= LastStep(r)
      /\ \A q \in Runs \ {r} : at'[q] = at[q]
  BY LastStepType DEF TypeInv, Control
<1>2. /\ Opened = {r} /\ Opened' = {r} /\ UNCHANGED <<bus, partial, context, asking, answering>>
      /\ queue' \in [Runs -> Seq(Frame)]
      /\ \A q \in Runs \ {r} : pc[q] \notin {"write", "read"} /\ pc'[q] = pc[q] /\ Stream(q)' = Stream(q)
      /\ \A q \in Runs : pc'[q] \notin {"write", "read"} => queue'[q] = <<>>
      /\ Stream(r)' = Tail(Stream(r)) /\ Stream(r) # <<>> /\ Stream(r)[1] \in Frame
      /\ Stream(r) \in Seq(Frame)
  BY <1>1, FrameRead
<1>3. /\ Contents' = (\A q \in Runs : signature'[q] # None => GoodAnswer(signature'[q]))
      /\ \A q \in Runs : WholeAnswers(Stream(q)')
      /\ \A q \in Runs : InLine({r}, Stream(q)', asking, bus)
      /\ \A q \in Runs : \A i \in DOMAIN Stream(q)' : \E j \in DOMAIN Stream(q) : Stream(q)'[i] = Stream(q)[j]
  BY <1>1, FrameRead
<1>4. /\ Item(a) \in Out(r) /\ Out(r)' = Out(r) \ {Item(a)}
      /\ IsFiniteSet(Out(r)') /\ Cardinality(Out(r)') <= cuts /\ cuts \in Nat
      /\ a \in Answers
      /\ \A k \in Nat : k <= at[r] /\ cuts <= k => a.by = r
      /\ \A x \in Out(r)' : Later(r, a, x)
  <2>1. Out(r)' = Pending(Tail(Stream(r)), asking, bus)
    BY <1>2 DEF Out
  <2>2. /\ Item(a) \in Out(r) /\ Pending(Tail(Stream(r)), asking, bus) = Out(r) \ {Item(a)}
        /\ IsFiniteSet(Out(r) \ {Item(a)}) /\ Cardinality(Out(r) \ {Item(a)}) <= cuts /\ cuts \in Nat
        /\ a \in Answers
        /\ \A k \in Nat : k <= at[r] /\ cuts <= k => a.by = r
    BY AnswerRead
  <2>3. \A x \in Out(r) \ {Item(a)} : Later(r, a, x)
    BY AnswerRead
  <2>4. Out(r)' = Out(r) \ {Item(a)}
    BY <2>1, <2>2
  <2> QED
    BY <2>2, <2>3, <2>4
<1>5. /\ reply' \in [Runs -> Replies] /\ ReplyWhole'
      /\ \A q \in Runs : reply'[q].got <= reply'[q].total
  <2>1. Total(a) \in {2, 6, 67, 109}
    BY <1>4, Sizes
  <2>2. rep.got <= rep.total
    BY <2>1
  <2>3. \E i \in DOMAIN rep.frames : rep.frames = Frames(rep.frames[i].of)
    BY <1>4, WholeReply
  <2>4. TypeInv /\ Replying
    OBVIOUS
  <2> QED
    BY <2>2, <2>3, <2>4, ReplyChanged
<1>6. TypeInv'
  <2>1. pc' \in [Runs -> {"new", "write", "read", "done"}] /\ at' \in [Runs -> Nat]
    BY <1>1
  <2> QED
    BY <1>2, <1>5, <2>1 DEF TypeInv
<1>7. Control'
  <2>1. ASSUME NEW q \in Runs
        PROVE  /\ at'[q] <= LastStep(q) /\ sent[q] < RequestFrames(at'[q])
               /\ pc'[q] = "new" => at'[q] = Status /\ sent[q] = 0
               /\ pc'[q] = "read" => sent[q] = 0
    <3>1. CASE q = r
      BY <3>1, <1>1 DEF RequestFrames
    <3>2. CASE q # r
      BY <3>2, <1>1, <1>2 DEF Control
    <3> QED
      BY <3>1, <3>2
  <2> QED
    BY <2>1, <1>2 DEF Control, Active
<1>8. Contents'
  BY <1>3 DEF Contents
<1>9. Shapes'
  <2>1. \A q \in Runs : pc'[q] = "write" /\ sent'[q] = 1 => FALSE
    BY <1>1, <1>2
  <2> QED
    BY <2>1, <1>2, <1>3 DEF Shapes
<1>10. Replying'
  BY <1>1, <1>2, <1>5 DEF Replying
<1>11. Known'
  <2>1. ASSUME NEW x, x.by \in Runs, x.step \in Nat, Told(x) PROVE Told(x)'
    BY <2>1, <1>1, <1>2 DEF Told
  <2>2. ASSUME NEW x, x.by \in Runs, x.step \in Nat, Sent(x) PROVE Sent(x)'
    BY <2>2, <1>1, <1>2 DEF Sent
  <2>3. \A q \in Runs : \A i \in DOMAIN Stream(q) : Stream(q)[i].of.by \in Runs /\ Stream(q)[i].of.step \in Nat
    BY Elements DEF Frame, Answers
  <2>4. (\A q \in Runs : \A i \in DOMAIN Stream(q) : Told(Stream(q)[i].of))'
    BY <2>1, <2>3, <1>3 DEF Known
  <2>5. (asking # None => Told(asking))'
    BY <2>1, <1>2, Elements DEF Known, Requests
  <2>6. (\A i \in DOMAIN bus : Sent(bus[i]))'
    BY <2>2, <1>2, Elements DEF Known, Request
  <2> QED
    BY <2>4, <2>5, <2>6 DEF Known
<1>12. Order'
  BY <1>2, <1>3 DEF Order
<1>13. NoGap'
  <2> SUFFICES ASSUME NEW x \in Out(r)', NEW j \in Nat, Asks(r, j)', x[1] # r \/ x[2] <= j
               PROVE  <<r, j>> \in Out(r)'
    BY <1>2 DEF NoGap
  <2>1. Asks(r, j)
    BY <1>1 DEF Asks
  <2>2. <<r, j>> \in Out(r)
    BY <2>1, <1>2, <1>4 DEF NoGap
  <2>3. <<r, j>> # Item(a)
    <3> SUFFICES ASSUME <<r, j>> = Item(a) PROVE FALSE
      OBVIOUS
    <3>1. a.by = r /\ a.step = j
      BY DEF Item
    <3>2. x[1] = r /\ j < x[2] /\ x[2] <= j
      BY <3>1, <1>4 DEF Later
    <3>3. x[2] \in Nat
      BY <1>4, OutFacts
    <3> QED
      BY <3>2, <3>3
  <2> QED
    BY <2>2, <2>3, <1>4
<1>14. Short'
  <2>1. \A q \in Runs : Active(q)' \/ Opened' = {} => q = r
    BY <1>2 DEF Active
  <2>2. Cardinality(Out(r)') <= cuts + IF pc'[r] = "read" THEN 1 ELSE 0
    BY <1>1, <1>4
  <2> QED
    BY <2>1, <2>2, <1>4 DEF Short
<1>15. Tight'
  <2> SUFFICES ASSUME cuts <= 1, at[r] + 1 > Address, NEW x \in Out(r)' PROVE FALSE
    BY <1>1, <1>2 DEF Tight
  <2>1. CASE at[r] > Address
    BY <2>1, <1>2, <1>4 DEF Tight
  <2>2. CASE at[r] = Address
    <3>0. 1 \in Nat /\ 1 <= at[r] /\ cuts <= 1
      BY <2>2 DEF Address
    <3>1. a.by = r /\ a.step = 1
      BY <3>0, <2>2, <1>4 DEF Address
    <3>2. x[1] = r /\ 1 < x[2]
      BY <3>1, <1>4 DEF Later
    <3>3. x[2] \in Nat /\ x[2] <= 1
      BY <3>2, <2>2, <1>4, OutFacts DEF Address
    <3> QED
      BY <3>2, <3>3
  <2> QED
    BY <2>1, <2>2, <1>1 DEF Address
<1>16. SignatureIsOwn'
  BY DEF SignatureIsOwn
<1> QED
  BY <1>6, <1>7, <1>8, <1>9, <1>10, <1>11, <1>12, <1>13, <1>14, <1>15, <1>16

(* The reply is done with and the handle closed; it may be the signature.   *)
LEMMA DoneStep ==
  ASSUME IInv, NEW r \in Runs, pc[r] = "read", queue[r] # <<>>, UNCHANGED <<at, sent, cuts, device>>,
         NEW a, a = Stream(r)[1].of, EndsAnswer(Stream(r)[1]), Close(r),
         NEW rep \in Replies, reply' = [reply EXCEPT ![r] = rep],
         (rep.got = 0 /\ rep.total = 0) \/ (rep.got = Total(a) /\ rep.total = Total(a) /\ rep.frames = Frames(a)),
         \/ UNCHANGED signature
         \/ signature' = [signature EXCEPT ![r] = a] /\ Total(a) = 67 /\ at[r] = LastStep(r)
  PROVE  IInv'
<1> USE DEF IInv
<1>1. /\ Opened' = {} /\ \A q \in Runs : Stream(q)' = answering
      /\ \A q \in Runs : Out(q)' = Pending(answering, asking, bus)
      /\ pc' \in [Runs -> {"new", "write", "read", "done"}] /\ queue' \in [Runs -> Seq(Frame)]
      /\ \A q \in Runs : pc'[q] \notin {"write", "read"}
      /\ \A i \in DOMAIN answering : GoodAnswer(answering[i].of)
  BY Closing DEF Active
<1>2. Control' /\ Shapes' /\ Known' /\ Order' /\ NoGap' /\ Tight'
  BY Closing DEF Active
<1>3. UNCHANGED <<bus, partial, context, asking, answering>>
  BY DEF device
<1>4. /\ Item(a) \in Out(r) /\ Pending(Tail(Stream(r)), asking, bus) = Out(r) \ {Item(a)}
      /\ IsFiniteSet(Out(r) \ {Item(a)}) /\ Cardinality(Out(r) \ {Item(a)}) <= cuts /\ cuts \in Nat
      /\ a \in Answers
      /\ \A k \in Nat : k <= at[r] /\ cuts <= k => a.by = r
  BY AnswerRead
<1>5. /\ reply' \in [Runs -> Replies] /\ ReplyWhole'
      /\ \A q \in Runs : reply'[q].got <= reply'[q].total
  <2>1. Total(a) \in {2, 6, 67, 109}
    BY <1>4, Sizes
  <2>2. rep.got <= rep.total
    BY <2>1
  <2>3. rep.total > 0 => \E i \in DOMAIN rep.frames : rep.frames = Frames(rep.frames[i].of)
    <3> SUFFICES ASSUME rep.total > 0 PROVE \E i \in DOMAIN rep.frames : rep.frames = Frames(rep.frames[i].of)
      OBVIOUS
    <3>2. rep.frames = Frames(a)
      OBVIOUS
    <3> QED
      BY <3>2, <1>4, WholeReply
  <2>4. TypeInv /\ Replying
    OBVIOUS
  <2> QED
    BY <2>2, <2>3, <2>4, ReplyChanged
<1>6. /\ signature' \in [Runs -> Answers \cup {None}]
      /\ \A q \in Runs : signature'[q] = signature[q] \/ (q = r /\ signature'[q] = a /\ Total(a) = 67 /\ at[r] = LastStep(r))
  BY <1>4 DEF TypeInv
<1>7. GoodAnswer(a)
  <2>1. 1 \in DOMAIN Stream(r)
    BY StreamRead, Streams, TailFrames
  <2> QED
    BY <2>1 DEF Contents
<1>8. TypeInv'
  BY <1>1, <1>3, <1>5, <1>6 DEF TypeInv
<1>9. Contents'
  <2>1. (\A q \in Runs : \A i \in DOMAIN Stream(q) : GoodAnswer(Stream(q)[i].of))'
    BY <1>1, <1>3 DEF GoodAnswer, Payload, LastStep
  <2>2. \A q \in Runs : signature'[q] # None => GoodAnswer(signature'[q])
    BY <1>6, <1>7 DEF Contents
  <2>3. (\A q \in Runs : signature[q] # None => GoodAnswer(signature[q]))'
    BY <2>2 DEF GoodAnswer, Payload, LastStep
  <2> QED
    BY <2>1, <2>3, <1>3 DEF Contents, Payload
<1>10. Replying'
  BY <1>1, <1>5 DEF Replying
<1>11. Short'
  <2>1. Pending(answering, asking, bus) \subseteq Out(r) \ {Item(a)}
    <3>1. /\ Tail(queue[r]) \in Seq(Frame) /\ Tail(queue[r]) \o answering = Tail(Stream(r))
          /\ answering \in Seq(Frame)
      BY StreamRead, Streams
    <3> QED
      BY <3>1, <1>4, SuffixPending
  <2>2. /\ IsFiniteSet(Pending(answering, asking, bus))
        /\ Cardinality(Pending(answering, asking, bus)) <= Cardinality(Out(r) \ {Item(a)})
    BY <2>1, <1>4, FS_Subset
  <2>3. Cardinality(Pending(answering, asking, bus)) \in Nat /\ Cardinality(Out(r) \ {Item(a)}) \in Nat
    BY <2>2, <1>4, FS_CardinalityType
  <2>4. Cardinality(Pending(answering, asking, bus)) <= cuts
    BY <2>2, <2>3, <1>4
  <2>5. \A q \in Runs : pc'[q] # "read"
    BY <1>1
  <2> QED
    BY <2>2, <2>4, <2>5, <1>1, <1>4 DEF Short
<1>12. SignatureIsOwn'
  <2> SUFFICES ASSUME NEW q \in Runs, signature'[q] # None, cuts <= LastStep(q)
               PROVE  signature'[q].by = q /\ signature'[q].signs = Payload(q, LastStep(q))
    BY DEF SignatureIsOwn
  <2>1. CASE signature'[q] = signature[q]
    BY <2>1 DEF SignatureIsOwn
  <2>2. CASE q = r /\ signature'[q] = a /\ Total(a) = 67 /\ at[r] = LastStep(r)
    <3>1. a.ok /\ a.step = LastStep(a.by)
      BY <2>2, <1>4, Sizes
    <3>2. a.by = r
      BY <2>2, <1>4, LastStepType
    <3>3. a.signs = Payload(a.by, a.step)
      BY <3>1, <1>7 DEF GoodAnswer
    <3> QED
      BY <2>2, <3>1, <3>2, <3>3
  <2> QED
    BY <2>1, <2>2, <1>6
<1> QED
  BY <1>2, <1>8, <1>9, <1>10, <1>11, <1>12

LEMMA ReadStep ==
  ASSUME IInv, NEW r \in Runs, ReadFrame(r)
  PROVE  IInv'
<1>1. PICK f : f = Stream(r)[1]
  OBVIOUS
<1>2. /\ pc[r] = "read" /\ queue[r] # <<>> /\ f \in Frame /\ UNCHANGED <<sent, cuts, device>>
      /\ \E rep \in Replies :
           /\ reply' = [reply EXCEPT ![r] = rep]
           /\ \/ /\ ~EndsAnswer(f) /\ f.seq = 0
                 /\ rep = [frames |-> << f >>, got |-> 57, total |-> Total(f.of)]
                 /\ queue' = [queue EXCEPT ![r] = Tail(queue[r])] /\ UNCHANGED <<pc, at, signature>>
              \/ /\ EndsAnswer(f) /\ EndReply(r, rep) /\ rep.frames[Len(rep.frames)].of = f.of
                 /\ rep.got = Total(f.of) /\ rep.total = Total(f.of) /\ rep.frames = Frames(f.of)
              \/ EndsAnswer(f) /\ EndReply(r, rep) /\ rep.got = 0 /\ rep.total = 0
  BY <1>1, ReadCases
<1>3. PICK rep \in Replies :
        /\ reply' = [reply EXCEPT ![r] = rep]
        /\ \/ /\ ~EndsAnswer(f) /\ f.seq = 0
              /\ rep = [frames |-> << f >>, got |-> 57, total |-> Total(f.of)]
              /\ queue' = [queue EXCEPT ![r] = Tail(queue[r])] /\ UNCHANGED <<pc, at, signature>>
           \/ /\ EndsAnswer(f) /\ EndReply(r, rep) /\ rep.frames[Len(rep.frames)].of = f.of
              /\ rep.got = Total(f.of) /\ rep.total = Total(f.of) /\ rep.frames = Frames(f.of)
           \/ EndsAnswer(f) /\ EndReply(r, rep) /\ rep.got = 0 /\ rep.total = 0
  BY <1>2
<1>4. CASE /\ ~EndsAnswer(f) /\ f.seq = 0
           /\ rep = [frames |-> << f >>, got |-> 57, total |-> Total(f.of)]
           /\ queue' = [queue EXCEPT ![r] = Tail(queue[r])] /\ UNCHANGED <<pc, at, signature>>
  BY <1>1, <1>2, <1>3, <1>4, MoreStep
<1>5. CASE /\ EndsAnswer(f) /\ EndReply(r, rep) /\ rep.frames[Len(rep.frames)].of = f.of
           /\ rep.got = Total(f.of) /\ rep.total = Total(f.of) /\ rep.frames = Frames(f.of)
  <2>1. PICK a : a = f.of
    OBVIOUS
  <2>2. a \in Answers /\ Total(a) \in {2, 6, 67, 109}
    BY <1>2, <2>1, FrameKinds
  <2>3. \/ Close(r) /\ UNCHANGED <<at, signature>>
        \/ /\ Accepts(r, a, Total(a) - 2) /\ at[r] = LastStep(r)
           /\ signature' = [signature EXCEPT ![r] = a] /\ Close(r) /\ UNCHANGED at
        \/ /\ Accepts(r, a, Total(a) - 2) /\ at[r] # LastStep(r)
           /\ at' = [at EXCEPT ![r] = at[r] + 1] /\ pc' = [pc EXCEPT ![r] = "write"]
           /\ queue' = [queue EXCEPT ![r] = Tail(queue[r])] /\ UNCHANGED signature
    BY <1>5, <2>1 DEF EndReply
  <2>4. CASE Close(r) /\ UNCHANGED <<at, signature>>
    BY <1>1, <1>2, <1>3, <1>5, <2>1, <2>4, DoneStep
  <2>5. CASE /\ Accepts(r, a, Total(a) - 2) /\ at[r] = LastStep(r)
             /\ signature' = [signature EXCEPT ![r] = a] /\ Close(r) /\ UNCHANGED at
    <3>1. Total(a) = 67
      BY <2>2, <2>5 DEF Accepts
    <3> QED
      BY <1>1, <1>2, <1>3, <1>5, <2>1, <2>5, <3>1, DoneStep
  <2>6. CASE /\ Accepts(r, a, Total(a) - 2) /\ at[r] # LastStep(r)
             /\ at' = [at EXCEPT ![r] = at[r] + 1] /\ pc' = [pc EXCEPT ![r] = "write"]
             /\ queue' = [queue EXCEPT ![r] = Tail(queue[r])] /\ UNCHANGED signature
    <3>1. at[r] = Address => a.step = Address
      BY <2>6 DEF Accepts
    <3> QED
      BY <1>1, <1>2, <1>3, <1>5, <2>1, <2>6, <3>1, NextStep
  <2> QED
    BY <2>3, <2>4, <2>5, <2>6
<1>6. CASE EndsAnswer(f) /\ EndReply(r, rep) /\ rep.got = 0 /\ rep.total = 0
  <2>1. PICK a : a = f.of
    OBVIOUS
  <2>2. Close(r) /\ UNCHANGED <<at, signature>>
    BY <1>6 DEF EndReply
  <2>3. EndsAnswer(Stream(r)[1]) /\ a = Stream(r)[1].of /\ UNCHANGED signature
    BY <1>1, <1>6, <2>1, <2>2
  <2>4. UNCHANGED <<at, sent, cuts, device>>
    BY <1>2, <2>2
  <2>5. reply' = [reply EXCEPT ![r] = rep] /\ pc[r] = "read" /\ queue[r] # <<>>
    BY <1>2, <1>3
  <2>6. (rep.got = 0 /\ rep.total = 0) \/ (rep.got = Total(a) /\ rep.total = Total(a) /\ rep.frames = Frames(a))
    BY <1>6
  <2>7. /\ Close(r)
        /\ \/ UNCHANGED signature
           \/ signature' = [signature EXCEPT ![r] = a] /\ Total(a) = 67 /\ at[r] = LastStep(r)
    BY <2>2, <2>3
  <2> QED
    BY <2>3, <2>4, <2>5, <2>6, <2>7, DoneStep
<1> QED
  BY <1>3, <1>4, <1>5, <1>6

-----------------------------------------------------------------------------
(* The steps of the device. *)

(* A step that takes from the bus or answers and leaves the line as it is.  *)
LEMMA DeviceStep ==
  ASSUME IInv, UNCHANGED <<host, queue>>,
         bus' \in Seq(Request), context' \in Seq(Runs \X Nat), asking' \in Requests \cup {None},
         NEW a, UNCHANGED answering \/ (answering = <<>> /\ a \in Answers /\ GoodAnswer(a) /\ Told(a) /\ answering' = Frames(a)),
         asking' # None => /\ asking'.step = LastStep(asking'.by) /\ context' = Payload(asking'.by, asking'.step)
                           /\ answering' = <<>> /\ Told(asking'),
         WholeRequests(partial', bus'),
         \A r \in Runs : pc[r] = "write" /\ sent[r] = 1 => LastIs(partial', bus', [by |-> r, step |-> at[r], seq |-> 0]),
         \A i \in DOMAIN bus' : Sent(bus'[i]),
         \A q \in Runs : InLine(Opened, Stream(q)', asking', bus'),
         \A q \in Runs : Out(q)' = Out(q)
  PROVE  IInv'
<1> USE DEF IInv
<1>1. UNCHANGED <<pc, at, sent, reply, signature, cuts, queue>> /\ answering \in Seq(Frame)
  BY DEF host, TypeInv
<1>2. Opened' = Opened /\ \A x : Told(x)' = Told(x)
  BY <1>1 DEF Opened, Active, Told
<1>3. answering' \in Seq(Frame)
  BY <1>1, FramesOf
<1>4. ASSUME NEW q \in Runs
      PROVE  \/ Stream(q)' = Stream(q)
             \/ a \in Answers /\ GoodAnswer(a) /\ Told(a) /\ Stream(q)' = Plus(Stream(q), a)
  <2>1. queue[q] \in Seq(Frame)
    BY Streams
  <2>2. answering = <<>> => Stream(q) = queue[q]
    BY <2>1, ConcatEmptySeq DEF Stream
  <2> QED
    BY <2>2, <1>1 DEF Stream, Plus
<1>5. ASSUME NEW q \in Runs
      PROVE  /\ WholeAnswers(Stream(q)')
             /\ Half(q) => Half(q)'
             /\ \A i \in DOMAIN Stream(q)' : GoodAnswer(Stream(q)'[i].of) /\ Told(Stream(q)'[i].of)
  <2>1. Stream(q) \in Seq(Frame) /\ WholeAnswers(Stream(q))
        /\ \A i \in DOMAIN Stream(q) : GoodAnswer(Stream(q)[i].of) /\ Told(Stream(q)[i].of)
    BY Streams DEF Shapes, Contents, Known
  <2>2. CASE Stream(q)' = Stream(q)
    BY <2>1, <2>2, <1>1 DEF Half
  <2>3. CASE a \in Answers /\ GoodAnswer(a) /\ Told(a) /\ Stream(q)' = Plus(Stream(q), a)
    <3>1. PICK t : t = Stream(q)'
      OBVIOUS
    <3>2. Placed(Stream(q), a, t) /\ WholeAnswers(t)
      BY <2>1, <2>3, <3>1, AnswerPlaced, WholePlus
    <3>3. Total(a) \in {2, 6, 67, 109}
      BY <2>3, Sizes
    <3>4. \A i \in DOMAIN t : GoodAnswer(t[i].of) /\ Told(t[i].of)
      <4> SUFFICES ASSUME NEW i \in DOMAIN t PROVE GoodAnswer(t[i].of) /\ Told(t[i].of)
        OBVIOUS
      <4>1. (i \in DOMAIN Stream(q) /\ t[i] = Stream(q)[i]) \/ t[i].of = a
        BY <3>2, <3>3 DEF Placed
      <4> QED
        BY <4>1, <2>1, <2>3
    <3>5. Half(q) => Half(q)'
      <4> SUFFICES ASSUME Half(q) PROVE Half(q)'
        OBVIOUS
      <4>1. Stream(q) # <<>>
        BY DEF Half
      <4>2. 1 \in DOMAIN Stream(q) /\ 1 \in DOMAIN t /\ t[1] = Stream(q)[1]
        BY <4>1, <2>1, <3>2, <3>3, TailFrames DEF Placed
      <4>3. t # <<>>
        BY <4>2, NotEmpty
      <4> QED
        BY <4>2, <4>3, <3>1, <1>1 DEF Half
    <3> QED
      BY <3>1, <3>2, <3>4, <3>5
  <2> QED
    BY <2>2, <2>3, <1>4
<1>6. TypeInv'
  BY <1>1, <1>3 DEF TypeInv, Requests
<1>7. Control'
  BY <1>1, <1>2 DEF Control, Active
<1>8. Contents'
  <2>1. (\A q \in Runs : \A i \in DOMAIN Stream(q) : GoodAnswer(Stream(q)[i].of))'
    BY <1>5 DEF GoodAnswer, Payload, LastStep
  <2>2. (\A q \in Runs : signature[q] # None => GoodAnswer(signature[q]))'
    BY <1>1 DEF Contents, GoodAnswer, Payload, LastStep
  <2>3. (asking # None => /\ asking.step = LastStep(asking.by) /\ context = Payload(asking.by, asking.step)
                          /\ answering = <<>>)'
    BY DEF Payload, LastStep
  <2> QED
    BY <2>1, <2>2, <2>3 DEF Contents
<1>9. Shapes'
  BY <1>1, <1>5 DEF Shapes
<1>10. Replying'
  BY <1>1, <1>5 DEF Replying, ReplyWhole
<1>11. Known'
  <2>1. (\A q \in Runs : \A i \in DOMAIN Stream(q) : Told(Stream(q)[i].of))'
    BY <1>2, <1>5
  <2>2. (asking # None => Told(asking))'
    BY <1>2
  <2>3. (\A i \in DOMAIN bus : Sent(bus[i]))'
    BY <1>1 DEF Sent
  <2> QED
    BY <2>1, <2>2, <2>3 DEF Known
<1>12. Order'
  BY <1>2 DEF Order
<1>13. NoGap' /\ Tight'
  BY <1>1, <1>2 DEF NoGap, Tight, Asks, Opened
<1>14. Short'
  BY <1>1, <1>2 DEF Short, Active
<1>15. SignatureIsOwn'
  BY <1>1 DEF SignatureIsOwn
<1> QED
  BY <1>6, <1>7, <1>8, <1>9, <1>10, <1>11, <1>12, <1>13, <1>14, <1>15

LEMMA DecideStep ==
  ASSUME IInv, Decide
  PROVE  IInv'
<1> USE DEF IInv
<1>1. /\ asking # None /\ asking' = None /\ UNCHANGED <<host, queue, bus, partial, context>>
      /\ asking \in Requests /\ context \in Seq(Runs \X Nat) /\ bus \in Seq(Request)
      /\ answering = <<>> /\ Told(asking)
      /\ asking.step = LastStep(asking.by) /\ context = Payload(asking.by, asking.step)
  BY DEF Decide, Known, TypeInv, Requests, Contents
<1>2. PICK a : /\ \E ok \in BOOLEAN : a = [by |-> asking.by, step |-> asking.step, ok |-> ok, signs |-> context]
               /\ answering' = Frames(a)
  BY DEF Decide, Answer
<1>3. /\ a \in Answers /\ a.by = asking.by /\ a.step = asking.step /\ a.signs = context /\ Item(a) = Item(asking)
  BY <1>1, <1>2 DEF Answers, Requests, Item
<1>4. GoodAnswer(a) /\ Told(a)
  <2>1. LastStep(asking.by) \in Nat
    BY <1>1, LastStepType DEF Requests
  <2> QED
    BY <2>1, <1>1, <1>3 DEF GoodAnswer, Told
<1>5. UNCHANGED <<pc, at, sent, queue>>
  BY <1>1 DEF host
<1>6. \A q \in Runs : Stream(q) \in Seq(Frame) /\ Stream(q)' = Plus(Stream(q), a)
  <2>1. \A q \in Runs : queue[q] \in Seq(Frame) /\ Stream(q) = queue[q]
    BY <1>1, Streams, ConcatEmptySeq DEF Stream
  <2> QED
    BY <2>1, <1>2, <1>5 DEF Stream, Plus
<1>7. ASSUME NEW q \in Runs PROVE InLine(Opened, Stream(q)', asking', bus')
  <2>1. InLine(Opened, Stream(q), asking, bus)
    BY DEF Order
  <2> QED
    BY <2>1, <1>1, <1>3, <1>6, LineDecided
<1>8. ASSUME NEW q \in Runs PROVE Out(q)' = Out(q)
  <2>1. Answered(Stream(q)') = Answered(Stream(q)) \cup {Item(asking)}
    BY <1>3, <1>6, AnsweredPlus
  <2>2. Asked(asking') = {} /\ Asked(asking) = {Item(asking)} /\ Written(bus') = Written(bus)
    BY <1>1 DEF Asked
  <2> QED
    BY <2>1, <2>2 DEF Out, Pending
<1>9. WholeRequests(partial', bus')
  BY <1>1 DEF Shapes
<1>10. \A r \in Runs : pc[r] = "write" /\ sent[r] = 1 => LastIs(partial', bus', [by |-> r, step |-> at[r], seq |-> 0])
  BY <1>1 DEF Shapes
<1>11. \A i \in DOMAIN bus' : Sent(bus'[i])
  BY <1>1 DEF Known
<1>12. /\ UNCHANGED <<host, queue>> /\ bus' \in Seq(Request) /\ context' \in Seq(Runs \X Nat)
       /\ asking' \in Requests \cup {None} /\ asking' = None
       /\ answering = <<>> /\ a \in Answers /\ GoodAnswer(a) /\ Told(a) /\ answering' = Frames(a)
  BY <1>1, <1>2, <1>3, <1>4
<1> QED
  BY <1>7, <1>8, <1>9, <1>10, <1>11, <1>12, DeviceStep

(* What is taken from the bus: the first frame of two, or the end of a      *)
(* request, which is answered or put to the user.                           *)
LEMMA TakeCases ==
  ASSUME IInv, Take, NEW f, f = bus[1]
  PROVE  /\ bus # <<>> /\ asking = None /\ answering = <<>> /\ bus' = Tail(bus) /\ UNCHANGED <<host, queue>>
         /\ f \in Request /\ f.step <= LastStep(f.by)
         /\ \/ ~EndsRequest(f) /\ partial' = f /\ UNCHANGED <<context, asking, answering>>
            \/ /\ EndsRequest(f) /\ partial' = None /\ context' \in Seq(Runs \X Nat) /\ asking' = None
               /\ \E a \in Answers : GoodAnswer(a) /\ Item(a) = Item(f) /\ answering' = Frames(a)
            \/ /\ EndsRequest(f) /\ partial' = None /\ context' \in Seq(Runs \X Nat)
               /\ asking' = [by |-> f.by, step |-> f.step] /\ f.step = LastStep(f.by)
               /\ context' = Payload(f.by, f.step) /\ UNCHANGED answering
<1> USE DEF IInv
<1>1. /\ bus # <<>> /\ asking = None /\ answering = <<>> /\ bus' = Tail(bus) /\ UNCHANGED <<host, queue>>
      /\ bus \in Seq(Request) /\ context \in Seq(Runs \X Nat)
  BY DEF Take, TypeInv
<1>2. Head(bus) = f /\ f \in Request
  BY <1>1, TailOf
<1>3. /\ f.step <= LastStep(f.by) /\ f.seq < RequestFrames(f.step)
      /\ f.seq = 1 => First(f) = partial
  BY <1>1, WholeTaken DEF Shapes
<1>4. /\ f.by \in Runs /\ f.step \in Nat /\ f.seq \in {0, 1} /\ RequestFrames(f.step) \in {1, 2}
      /\ EndsRequest(f) <=> f.seq + 1 = RequestFrames(f.step)
      /\ First(f) = [by |-> f.by, step |-> f.step, seq |-> 0]
  BY <1>2, RequestKinds
<1>5. ~(f.seq > 0 /\ partial # [f EXCEPT !.seq = @ - 1])
  <2> SUFFICES ASSUME f.seq > 0 PROVE partial = [f EXCEPT !.seq = @ - 1]
    OBVIOUS
  <2>1. f.seq = 1
    BY <1>4
  <2>2. [f EXCEPT !.seq = @ - 1] = [f EXCEPT !.seq = 0]
    BY <2>1
  <2> QED
    BY <2>1, <2>2, <1>3 DEF First
<1>6. IF f.seq + 1 < RequestFrames(f.step)
      THEN partial' = f /\ UNCHANGED <<context, asking, answering>>
      ELSE partial' = None /\ Handle(f.by, f.step)
  BY <1>2, <1>5 DEF Take
<1>7. LastStep(f.by) \in Nat /\ LastStep(f.by) >= 2
  BY <1>4, LastStepType
<1>8. CASE f.seq + 1 < RequestFrames(f.step)
  BY <1>1, <1>2, <1>3, <1>4, <1>6, <1>8
<1>9. CASE ~(f.seq + 1 < RequestFrames(f.step))
  <2>1. EndsRequest(f) /\ partial' = None /\ Handle(f.by, f.step)
    BY <1>3, <1>4, <1>6, <1>9
  <2>2. ASSUME NEW ok \in BOOLEAN, f.step = LastStep(f.by) => ok = FALSE,
               Answer(f.by, f.step, ok, <<>>)
        PROVE  \E a \in Answers : GoodAnswer(a) /\ Item(a) = Item(f) /\ answering' = Frames(a)
    <3>1. PICK a : a = [by |-> f.by, step |-> f.step, ok |-> ok, signs |-> <<>>] /\ answering' = Frames(a)
      BY <2>2 DEF Answer
    <3>2. a \in Answers /\ a.by = f.by /\ a.step = f.step /\ a.ok = ok
      BY <3>1, <1>4 DEF Answers
    <3> QED
      BY <3>1, <3>2, <2>2, <1>3 DEF GoodAnswer, Item
  <2>3. CASE f.step \in {Status, Address}
    <3>1. PICK ok \in BOOLEAN : Answer(f.by, f.step, ok, <<>>)
      BY <2>1, <2>3 DEF Handle
    <3>2. UNCHANGED <<context, asking>> /\ f.step # LastStep(f.by)
      BY <2>1, <2>3, <1>7 DEF Handle, Status, Address
    <3> QED
      BY <3>1, <3>2, <2>1, <2>2, <1>1, <1>2, <1>3
  <2>4. CASE f.step \notin {Status, Address}
    <3>1. PICK c : c = Append(IF f.step = 2 THEN <<>> ELSE context, <<f.by, f.step>>)
      OBVIOUS
    <3>2. c \in Seq(Runs \X Nat)
      <4>1. (IF f.step = 2 THEN <<>> ELSE context) \in Seq(Runs \X Nat) /\ <<f.by, f.step>> \in Runs \X Nat
        BY <1>1, <1>4
      <4> QED
        BY <3>1, <4>1, AppendProperties
    <3>3. /\ context' = c
          /\ IF f.step = LastStep(f.by) /\ c = Payload(f.by, f.step)
             THEN asking' = [by |-> f.by, step |-> f.step] /\ UNCHANGED answering
             ELSE /\ \E ok \in {FALSE, c = Payload(f.by, f.step)} : Answer(f.by, f.step, ok, <<>>)
                  /\ UNCHANGED asking
      BY <2>1, <2>4, <3>1 DEF Handle
    <3>4. CASE f.step = LastStep(f.by) /\ c = Payload(f.by, f.step)
      BY <3>2, <3>3, <3>4, <2>1, <1>1, <1>2, <1>3
    <3>5. CASE ~(f.step = LastStep(f.by) /\ c = Payload(f.by, f.step))
      <4>1. PICK ok \in {FALSE, c = Payload(f.by, f.step)} : Answer(f.by, f.step, ok, <<>>)
        BY <3>3, <3>5
      <4>2. ok \in BOOLEAN /\ (f.step = LastStep(f.by) => ok = FALSE)
        BY <4>1, <3>5
      <4> QED
        BY <4>1, <4>2, <3>2, <3>3, <3>5, <2>1, <2>2, <1>1, <1>2, <1>3
    <3> QED
      BY <3>4, <3>5
  <2> QED
    BY <2>3, <2>4
<1> QED
  BY <1>8, <1>9

LEMMA TakeStep ==
  ASSUME IInv, Take
  PROVE  IInv'
<1> USE DEF IInv
<1>1. PICK f : f = bus[1]
  OBVIOUS
<1>2. /\ bus # <<>> /\ asking = None /\ answering = <<>> /\ bus' = Tail(bus) /\ UNCHANGED <<host, queue>>
      /\ f \in Request /\ f.step <= LastStep(f.by)
      /\ \/ ~EndsRequest(f) /\ partial' = f /\ UNCHANGED <<context, asking, answering>>
         \/ /\ EndsRequest(f) /\ partial' = None /\ context' \in Seq(Runs \X Nat) /\ asking' = None
            /\ \E a \in Answers : GoodAnswer(a) /\ Item(a) = Item(f) /\ answering' = Frames(a)
         \/ /\ EndsRequest(f) /\ partial' = None /\ context' \in Seq(Runs \X Nat)
            /\ asking' = [by |-> f.by, step |-> f.step] /\ f.step = LastStep(f.by)
            /\ context' = Payload(f.by, f.step) /\ UNCHANGED answering
  BY <1>1, TakeCases
<1>3. /\ UNCHANGED <<pc, at, sent, queue>> /\ bus \in Seq(Request) /\ context \in Seq(Runs \X Nat)
      /\ bus' \in Seq(Request) /\ 1 \in DOMAIN bus
      /\ \A i \in DOMAIN bus' : i + 1 \in DOMAIN bus /\ bus'[i] = bus[i + 1]
  BY <1>2, TailOf DEF host, TypeInv
<1>4. EndsRequest(f) => Told(f)
  <2> SUFFICES ASSUME EndsRequest(f) PROVE Told(f)
    OBVIOUS
  <2>1. Sent(f) /\ f.by \in Runs /\ f.step \in Nat /\ f.seq \in {0, 1} /\ f.seq + 1 = RequestFrames(f.step)
    BY <1>1, <1>2, <1>3, RequestKinds DEF Known
  <2>2. at[f.by] \in Nat /\ sent[f.by] \in {0, 1} /\ sent[f.by] < RequestFrames(at[f.by])
    BY <2>1 DEF TypeInv, Control
  <2> QED
    BY <2>1, <2>2 DEF Sent, Told
<1>5. WholeRequests(partial', bus')
  <2>1. WholeRequests(partial, bus)
    BY DEF Shapes
  <2> QED
    BY <2>1, <1>1, <1>2, <1>3, WholeTaken
<1>6. ASSUME NEW r \in Runs, pc[r] = "write", sent[r] = 1
      PROVE  LastIs(partial', bus', [by |-> r, step |-> at[r], seq |-> 0])
  <2>1. PICK g : g = [by |-> r, step |-> at[r], seq |-> 0]
    OBVIOUS
  <2>2. LastIs(partial, bus, g)
    BY <2>1, <1>6 DEF Shapes
  <2>3. EndsRequest(f) => g # f
    <3>1. RequestFrames(at[r]) = 2
      BY <1>6 DEF Control, RequestFrames
    <3> QED
      BY <2>1, <3>1 DEF EndsRequest
  <2>4. partial' = bus[1] \/ g # bus[1]
    BY <2>3, <1>1, <1>2
  <2> QED
    BY <2>1, <2>2, <2>4, <1>2, <1>3, LastTaken
<1>7. \A i \in DOMAIN bus' : Sent(bus'[i])
  BY <1>3 DEF Known
<1>8. \A q \in Runs : Stream(q) \in Seq(Frame) /\ InLine(Opened, Stream(q), None, bus)
  BY <1>2, Streams DEF Order
<1>9. Written(bus) = Written(bus') \cup IF EndsRequest(f) THEN {Item(f)} ELSE {}
  BY <1>1, <1>2, <1>3, WrittenTail
<1>10. \A r \in Runs : pc[r] = "write" /\ sent[r] = 1 => LastIs(partial', bus', [by |-> r, step |-> at[r], seq |-> 0])
  BY <1>6
<1>11. CASE ~EndsRequest(f) /\ partial' = f /\ UNCHANGED <<context, asking, answering>>
  <2>1. \A q \in Runs : Stream(q)' = Stream(q)
    BY <1>3, <1>11 DEF Stream
  <2>2. \A q \in Runs : InLine(Opened, Stream(q)', asking', bus')
    BY <2>1, <1>2, <1>3, <1>8, <1>11, LineTaken
  <2>3. \A q \in Runs : Out(q)' = Out(q)
    BY <2>1, <1>9, <1>11 DEF Out, Pending
  <2>4. context' \in Seq(Runs \X Nat) /\ asking' \in Requests \cup {None} /\ asking' = None /\ UNCHANGED answering
    BY <1>2, <1>3, <1>11
  <2> QED
    BY <2>2, <2>3, <2>4, <1>2, <1>3, <1>5, <1>7, <1>10, DeviceStep
<1>12. ASSUME EndsRequest(f) PROVE \E h \in Requests : h = [by |-> f.by, step |-> f.step] /\ h # None /\ Item(h) = Item(f)
  <2>1. PICK h : h = [by |-> f.by, step |-> f.step]
    OBVIOUS
  <2>2. h \in Requests /\ Item(h) = Item(f)
    BY <2>1, <1>2 DEF Requests, Request, Item
  <2> QED
    BY <2>1, <2>2, NoneAssumption DEF Requests
<1>13. CASE /\ EndsRequest(f) /\ partial' = None /\ context' \in Seq(Runs \X Nat) /\ asking' = None
            /\ \E a \in Answers : GoodAnswer(a) /\ Item(a) = Item(f) /\ answering' = Frames(a)
  <2>1. PICK a \in Answers : GoodAnswer(a) /\ Item(a) = Item(f) /\ answering' = Frames(a)
    BY <1>13
  <2>2. PICK h \in Requests : h # None /\ Item(h) = Item(f)
    BY <1>12, <1>13
  <2>3. \A q \in Runs : Stream(q)' = Plus(Stream(q), a)
    <3>1. \A q \in Runs : queue[q] \in Seq(Frame) /\ Stream(q) = queue[q]
      BY <1>2, Streams, ConcatEmptySeq DEF Stream
    <3> QED
      BY <3>1, <2>1, <1>3 DEF Stream, Plus
  <2>4. ASSUME NEW q \in Runs PROVE InLine(Opened, Stream(q)', asking', bus')
    <3>1. InLine(Opened, Stream(q), h, Tail(bus))
      BY <2>2, <1>1, <1>2, <1>3, <1>8, <1>13, LineAsked
    <3>2. Item(a) = Item(h) /\ Stream(q)' = Plus(Stream(q), a) /\ Tail(bus) \in Seq(Request) /\ Stream(q) \in Seq(Frame)
      BY <2>1, <2>2, <2>3, <1>2, <1>3, <1>8
    <3>3. InLine(Opened, Stream(q)', None, Tail(bus))
      BY <3>1, <3>2, <2>2, LineDecided
    <3> QED
      BY <3>3, <1>2, <1>13
  <2>5. ASSUME NEW q \in Runs PROVE Out(q)' = Out(q)
    <3>1. Answered(Stream(q)') = Answered(Stream(q)) \cup {Item(f)}
      BY <2>1, <2>3, <1>8, AnsweredPlus
    <3> QED
      BY <3>1, <1>2, <1>9, <1>13 DEF Out, Pending
  <2>6. Told(a)
    BY <2>1, <1>4, <1>13 DEF Told, Item
  <2>7. context' \in Seq(Runs \X Nat) /\ asking' \in Requests \cup {None} /\ asking' = None
    BY <1>13
  <2> QED
    BY <2>1, <2>4, <2>5, <2>6, <2>7, <1>2, <1>3, <1>5, <1>7, <1>10, DeviceStep
<1>14. CASE /\ EndsRequest(f) /\ partial' = None /\ context' \in Seq(Runs \X Nat)
            /\ asking' = [by |-> f.by, step |-> f.step] /\ f.step = LastStep(f.by)
            /\ context' = Payload(f.by, f.step) /\ UNCHANGED answering
  <2>1. asking' \in Requests /\ asking' # None /\ Item(asking') = Item(f) /\ asking'.by = f.by /\ asking'.step = f.step
    BY <1>12, <1>14
  <2>2. \A q \in Runs : Stream(q)' = Stream(q)
    BY <1>3, <1>14 DEF Stream
  <2>3. PICK h \in Requests : h # None /\ Item(h) = Item(f) /\ h = asking'
    BY <2>1
  <2>4. \A q \in Runs : InLine(Opened, Stream(q)', asking', bus')
    <3> SUFFICES ASSUME NEW q \in Runs PROVE InLine(Opened, Stream(q), h, Tail(bus))
      BY <2>2, <2>3, <1>2
    <3> QED
      BY <2>3, <1>1, <1>2, <1>3, <1>8, <1>14, LineAsked
  <2>5. ASSUME NEW q \in Runs PROVE Out(q)' = Out(q)
    <3>1. Asked(asking') = {Item(f)} /\ Asked(asking) = {}
      BY <2>1, <1>2 DEF Asked
    <3> QED
      BY <3>1, <2>2, <1>9, <1>14 DEF Out, Pending
  <2>6. Told(asking')
    BY <2>1, <1>4, <1>14 DEF Told
  <2>7. /\ asking'.step = LastStep(asking'.by) /\ context' = Payload(asking'.by, asking'.step) /\ answering' = <<>>
        /\ context' \in Seq(Runs \X Nat) /\ asking' \in Requests \cup {None} /\ UNCHANGED answering
    BY <2>1, <1>2, <1>14
  <2> QED
    BY <2>4, <2>5, <2>6, <2>7, <1>2, <1>3, <1>5, <1>7, <1>10, DeviceStep
<1> QED
  BY <1>2, <1>11, <1>13, <1>14

LEMMA Moved ==
  ASSUME NEW s \in Seq(Frame), NEW t \in Seq(Frame), t # <<>>
  PROVE  Append(s, Head(t)) \in Seq(Frame) /\ Append(s, Head(t)) \o Tail(t) = s \o t
<1>1. /\ Head(t) \in Frame /\ Head(t) = t[1] /\ Tail(t) \in Seq(Frame) /\ Len(s) \in Nat /\ Len(t) \in Nat \ {0}
      /\ Len(Tail(t)) = Len(t) - 1 /\ \A i \in 1 .. Len(t) - 1 : Tail(t)[i] = t[i + 1]
  BY HeadTailProperties, LenProperties, EmptySeq
<1>2. PICK u, v : u = Append(s, Head(t)) /\ v = Tail(t)
  OBVIOUS
<1>3. /\ u \in Seq(Frame) /\ Len(u) = Len(s) + 1
      /\ \A i \in 1 .. Len(s) : u[i] = s[i]
      /\ u[Len(s) + 1] = t[1]
  BY <1>1, <1>2, AppendFrame
<1>4. /\ v \in Seq(Frame) /\ Len(v) = Len(t) - 1 /\ \A i \in 1 .. Len(t) - 1 : v[i] = t[i + 1]
  BY <1>1, <1>2
<1>5. /\ u \o v \in Seq(Frame) /\ Len(u \o v) = Len(s) + Len(t)
      /\ \A i \in 1 .. Len(s) + Len(t) : (u \o v)[i] = IF i <= Len(s) + 1 THEN u[i] ELSE v[i - (Len(s) + 1)]
  <2>1. /\ u \o v \in Seq(Frame) /\ Len(u \o v) = Len(u) + Len(v)
        /\ \A i \in 1 .. Len(u) + Len(v) : (u \o v)[i] = IF i <= Len(u) THEN u[i] ELSE v[i - Len(u)]
    BY <1>3, <1>4, ConcatProperties
  <2>2. Len(u) + Len(v) = Len(s) + Len(t) /\ Len(u) = Len(s) + 1
    BY <1>1, <1>3, <1>4
  <2> QED
    BY <2>1, <2>2
<1>6. /\ s \o t \in Seq(Frame) /\ Len(s \o t) = Len(s) + Len(t)
      /\ \A i \in 1 .. Len(s) + Len(t) : (s \o t)[i] = IF i <= Len(s) THEN s[i] ELSE t[i - Len(s)]
  BY ConcatProperties
<1>7. ASSUME NEW i \in 1 .. Len(s) + Len(t) PROVE (u \o v)[i] = (s \o t)[i]
  <2>1. CASE i <= Len(s)
    BY <2>1, <1>1, <1>3, <1>5, <1>6
  <2>2. CASE i = Len(s) + 1
    BY <2>2, <1>1, <1>3, <1>5, <1>6
  <2>3. CASE i > Len(s) + 1
    <3>1. i - (Len(s) + 1) \in 1 .. Len(t) - 1 /\ (i - (Len(s) + 1)) + 1 = i - Len(s) /\ ~(i <= Len(s)) /\ ~(i <= Len(s) + 1)
      BY <2>3, <1>1
    <3>2. v[i - (Len(s) + 1)] = t[i - Len(s)]
      BY <3>1, <1>4
    <3> QED
      BY <3>1, <3>2, <1>5, <1>6
  <2>4. i <= Len(s) \/ i = Len(s) + 1 \/ i > Len(s) + 1
    BY <1>1
  <2> QED
    BY <2>1, <2>2, <2>3, <2>4
<1>8. u \o v = s \o t
  <2>1. PICK x, y : x = u \o v /\ y = s \o t
    OBVIOUS
  <2>2. x \in Seq(Frame) /\ y \in Seq(Frame) /\ Len(x) = Len(y) /\ \A i \in 1 .. Len(x) : x[i] = y[i]
    BY <2>1, <1>5, <1>6, <1>7
  <2> QED
    BY <2>1, <2>2, SeqEqual
<1> QED
  BY <1>2, <1>3, <1>8

LEMMA SendStep ==
  ASSUME IInv, SendFrame
  PROVE  IInv'
<1> USE DEF IInv
<1>1. /\ answering # <<>> /\ answering' = Tail(answering) /\ UNCHANGED <<host, bus, partial, context, asking>>
      /\ queue' = [r \in Runs |-> IF pc[r] \in {"write", "read"}
                                  THEN Append(queue[r], Head(answering)) ELSE queue[r]]
  BY DEF SendFrame
<1>2. /\ UNCHANGED <<pc, at, sent, reply, signature, cuts>>
      /\ queue \in [Runs -> Seq(Frame)] /\ answering \in Seq(Frame) /\ Tail(answering) \in Seq(Frame)
      /\ Head(answering) \in Frame
  BY <1>1, HeadTailProperties DEF host, TypeInv
<1>3. /\ Opened' = Opened /\ (\A x : Told(x)' = Told(x)) /\ (\A x : Sent(x)' = Sent(x))
  BY <1>2 DEF Opened, Active, Told, Sent
<1>4. ASSUME NEW q \in Runs, Active(q)
      PROVE  Stream(q)' = Stream(q) /\ queue'[q] \in Seq(Frame)
  <2>1. queue'[q] = Append(queue[q], Head(answering)) /\ queue[q] \in Seq(Frame)
    BY <1>1, <1>2, <1>4 DEF Active
  <2> QED
    BY <2>1, <1>1, <1>2, Moved DEF Stream
<1>5. ASSUME NEW q \in Runs, ~Active(q)
      PROVE  /\ queue'[q] = queue[q] /\ queue[q] = <<>> /\ Stream(q) = answering /\ Stream(q)' = Tail(answering)
             /\ queue'[q] \in Seq(Frame)
  <2>1. queue'[q] = queue[q] /\ queue[q] = <<>>
    BY <1>1, <1>5 DEF Active, Control
  <2> QED
    BY <2>1, <1>1, <1>2, ConcatEmptySeq DEF Stream
<1>6. queue' \in [Runs -> Seq(Frame)]
  <2>1. \A q \in Runs : queue'[q] \in Seq(Frame)
    BY <1>4, <1>5
  <2> QED
    BY <2>1, <1>1
<1>7. asking = None
  BY <1>1 DEF Contents
<1>8. ASSUME NEW q \in Runs
      PROVE  /\ WholeAnswers(Stream(q)') /\ InLine(Opened, Stream(q)', asking, bus)
             /\ \A i \in DOMAIN Stream(q)' : GoodAnswer(Stream(q)'[i].of) /\ Told(Stream(q)'[i].of)
             /\ Out(q)' \subseteq Out(q)
  <2>1. /\ WholeAnswers(Stream(q)) /\ InLine(Opened, Stream(q), asking, bus)
        /\ \A i \in DOMAIN Stream(q) : GoodAnswer(Stream(q)[i].of) /\ Told(Stream(q)[i].of)
    BY DEF Shapes, Order, Contents, Known
  <2>2. CASE Active(q)
    <3>1. Stream(q)' = Stream(q)
      BY <2>2, <1>4
    <3> QED
      BY <3>1, <2>1, <1>1 DEF Out
  <2>3. CASE ~Active(q)
    <3>1. Stream(q) = answering /\ Stream(q)' = Tail(answering)
      BY <2>3, <1>5
    <3>2. WholeAnswers(Tail(answering)) /\ InLine(Opened, Tail(answering), asking, bus)
      BY <3>1, <2>1, <1>1, <1>2, WholeTail, LineTail
    <3>3. \A i \in DOMAIN Tail(answering) : i + 1 \in DOMAIN answering /\ Tail(answering)[i] = answering[i + 1]
      BY <1>1, <1>2, TailFrames
    <3>4. Answered(Tail(answering)) \subseteq Answered(answering)
      BY <1>1, <1>2, AnsweredTail
    <3> QED
      BY <3>1, <3>2, <3>3, <3>4, <2>1, <1>1 DEF Out, Pending
  <2> QED
    BY <2>2, <2>3
<1>9. \A q \in Runs : Active(q) => Out(q)' = Out(q)
  BY <1>1, <1>4 DEF Out
<1>10. TypeInv'
  BY <1>1, <1>2, <1>6 DEF TypeInv
<1>11. Control'
  BY <1>2, <1>3, <1>5 DEF Control, Active
<1>12. Contents'
  <2>1. (\A q \in Runs : \A i \in DOMAIN Stream(q) : GoodAnswer(Stream(q)[i].of))'
    BY <1>8 DEF GoodAnswer, Payload, LastStep
  <2>2. (\A q \in Runs : signature[q] # None => GoodAnswer(signature[q]))'
    BY <1>2 DEF Contents, GoodAnswer, Payload, LastStep
  <2> QED
    BY <2>1, <2>2, <1>1, <1>7 DEF Contents
<1>13. Shapes'
  BY <1>1, <1>2, <1>8 DEF Shapes
<1>14. Replying'
  <2>1. \A q \in Runs : pc'[q] = "read" => reply'[q] = Nothing \/ Half(q)'
    BY <1>2, <1>4 DEF Replying, Half, Active
  <2> QED
    BY <2>1, <1>2 DEF Replying, ReplyWhole
<1>15. Known'
  <2>1. (\A q \in Runs : \A i \in DOMAIN Stream(q) : Told(Stream(q)[i].of))'
    BY <1>3, <1>8
  <2>2. (\A i \in DOMAIN bus : Sent(bus[i]))'
    BY <1>1, <1>3 DEF Known
  <2> QED
    BY <2>1, <2>2, <1>1, <1>7 DEF Known
<1>16. Order'
  BY <1>1, <1>3, <1>8 DEF Order
<1>17. NoGap' /\ Tight'
  <2>1. \A q \in Opened : Active(q) /\ q \in Runs /\ Out(q)' = Out(q)
    BY <1>9 DEF Opened
  <2> QED
    BY <2>1, <1>2, <1>3 DEF NoGap, Tight, Asks
<1>18. Short'
  <2> SUFFICES ASSUME NEW q \in Runs, Active(q) \/ Opened = {}
               PROVE  /\ IsFiniteSet(Out(q)')
                      /\ Cardinality(Out(q)') <= cuts + IF pc[q] = "read" THEN 1 ELSE 0
    BY <1>2, <1>3 DEF Short, Active
  <2>1. cuts \in Nat
    BY CutsAssumption DEF TypeInv
  <2>2. IsFiniteSet(Out(q)) /\ Cardinality(Out(q)) <= cuts + IF pc[q] = "read" THEN 1 ELSE 0
    BY DEF Short
  <2>3. Out(q)' \subseteq Out(q)
    BY <1>8
  <2>4. IsFiniteSet(Out(q)') /\ Cardinality(Out(q)') <= Cardinality(Out(q))
    BY <2>2, <2>3, FS_Subset
  <2>5. Cardinality(Out(q)') \in Nat /\ Cardinality(Out(q)) \in Nat
    BY <2>2, <2>4, FS_CardinalityType
  <2> QED
    BY <2>1, <2>2, <2>4, <2>5
<1>19. SignatureIsOwn'
  BY <1>2 DEF SignatureIsOwn
<1> QED
  BY <1>10, <1>11, <1>12, <1>13, <1>14, <1>15, <1>16, <1>17, <1>18, <1>19

-----------------------------------------------------------------------------
(* The theorems. *)

LEMMA NextInv == IInv /\ [Next]_vars => IInv'
<1> SUFFICES ASSUME IInv, [Next]_vars PROVE IInv'
  OBVIOUS
<1>1. ASSUME NEW r \in Runs, Step(r) PROVE IInv'
  BY <1>1, OpenStep, WriteStep, ReadStep DEF Step
<1>2. ASSUME NEW r \in Runs, Cut(r) PROVE IInv'
  BY <1>2, CutStep
<1>3. CASE Take
  BY <1>3, TakeStep
<1>4. CASE Decide
  BY <1>4, DecideStep
<1>5. CASE SendFrame
  BY <1>5, SendStep
<1>6. CASE UNCHANGED vars
  <2> USE <1>6 DEF IInv, vars, host, device
  <2>1. UNCHANGED <<pc, at, reply, cuts>> /\ \A r \in Opened : r \in Runs
    BY DEF Opened
  <2>2. /\ \A r \in Runs : Stream(r)' = Stream(r) /\ Out(r)' = Out(r) /\ Active(r)' = Active(r)
        /\ Opened' = Opened
    BY DEF Stream, Out, Opened, Active
  <2>3. TypeInv' /\ Control' /\ SignatureIsOwn'
    BY <2>2 DEF TypeInv, Control, SignatureIsOwn
  <2>4. Contents'
    BY <2>2 DEF Contents, GoodAnswer, Payload, LastStep
  <2>5. Shapes' /\ Order'
    BY <2>2 DEF Shapes, Order
  <2>6. Replying'
    <3>1. \A r \in Runs : Half(r)' = Half(r)
      BY <2>1, <2>2 DEF Half
    <3>2. ReplyWhole'
      BY <2>1 DEF Replying, ReplyWhole
    <3> QED
      BY <3>1, <3>2, <2>1 DEF Replying
  <2>7. Known'
    BY <2>2 DEF Known, Told, Sent
  <2>8. NoGap' /\ Tight' /\ Short'
    BY <2>1, <2>2 DEF NoGap, Asks, Tight, Short
  <2> QED
    BY <2>3, <2>4, <2>5, <2>6, <2>7, <2>8
<1> QED
  BY <1>1, <1>2, <1>3, <1>4, <1>5, <1>6 DEF Next, Finished

LEMMA Invariance == Spec => []IInv
BY InitInv, NextInv, PTL DEF Spec

(* Types: no step of a run is past its last one, the bus carries no request *)
(* that does not exist, and a reply is never longer than announced.         *)
THEOREM TypeCorrect == Spec => []TypeOK
<1>1. IInv => TypeOK
  <2> SUFFICES ASSUME IInv PROVE TypeOK
    OBVIOUS
  <2>1. ASSUME NEW r \in Runs
        PROVE  /\ at[r] \in 0 .. LastStep(r) /\ sent[r] \in 0 .. 1
               /\ reply[r].frames \in Seq(Frame) /\ queue[r] \in Seq(Frame)
               /\ 0 <= reply[r].got /\ reply[r].got <= reply[r].total
               /\ signature[r] \in Answers \cup {None}
    <3>1. reply[r] \in Replies /\ at[r] \in Nat /\ at[r] <= LastStep(r) /\ LastStep(r) \in Nat
      BY LastStepType DEF IInv, TypeInv, Control
    <3>2. reply[r].frames \in Seq(Frame) /\ 0 <= reply[r].got
      BY <3>1 DEF Replies
    <3> QED
      BY <3>1, <3>2 DEF IInv, TypeInv, Replying
  <2>2. ASSUME NEW i \in DOMAIN bus PROVE bus[i].by \in Runs /\ bus[i].step \in 0 .. LastStep(bus[i].by)
    <3>1. bus[i] \in Request /\ bus[i].step <= LastStep(bus[i].by)
      BY Elements DEF IInv, Shapes, WholeRequests
    <3> QED
      BY <3>1, LastStepType DEF Request
  <2> QED
    BY <2>1, <2>2 DEF TypeOK, IInv, TypeInv
<1> QED
  BY <1>1, Invariance, PTL

(* The subtraction total - reply.len() of exchange does not wrap: of what   *)
(* runs that were cut off have left, nothing comes between the two frames   *)
(* of one answer.                                                           *)
THEOREM SubtractionSafe == Spec => []NeverWraps
<1>1. IInv => NeverWraps
  BY NextFrameFits
<1> QED
  BY <1>1, Invariance, PTL

(* What exchange reads is one whole answer of the device, never the rest of *)
(* one or parts of two, and never longer than announced; with at most one   *)
(* run cut off before, all that a run reads once it signs answers the       *)
(* request it has just written, though no answer says which one it is for.  *)
THEOREM RepliesMatch == Spec => []RepliesInStep
<1>1. IInv => RepliesInStep
  <2> SUFFICES ASSUME IInv PROVE InStep
    BY NextFrameFits DEF RepliesInStep, IInv, Replying
  <2> SUFFICES ASSUME cuts <= 1, NEW r \in Runs, pc[r] \in {"write", "read"}, at[r] > Address,
                      NEW i \in DOMAIN queue[r]
               PROVE  pc[r] = "read" /\ queue[r][i].of.by = r /\ queue[r][i].of.step = at[r]
    BY DEF InStep
  <2>1. Out(r) \subseteq IF pc[r] = "read" THEN {<<r, at[r]>>} ELSE {}
    BY DEF IInv, Tight, Opened, Active
  <2>2. ASSUME NEW j \in DOMAIN Stream(r), EndsAnswer(Stream(r)[j])
        PROVE  pc[r] = "read" /\ Stream(r)[j].of.by = r /\ Stream(r)[j].of.step = at[r]
    <3>1. Item(Stream(r)[j].of) \in Out(r)
      BY <2>2 DEF Out, Pending, Answered
    <3> QED
      BY <3>1, <2>1 DEF Item
  <2>3. queue[r] \in Seq(Frame) /\ Stream(r) \in Seq(Frame) /\ answering \in Seq(Frame)
    BY Streams DEF IInv
  <2>4. i \in DOMAIN Stream(r) /\ Stream(r)[i] = queue[r][i]
    BY <2>3, ConcatProperties, LenProperties DEF Stream
  <2>5. CASE EndsAnswer(Stream(r)[i])
    BY <2>2, <2>4, <2>5
  <2>6. CASE ~EndsAnswer(Stream(r)[i])
    <3>1. i < Len(Stream(r)) /\ Stream(r)[i + 1] = [seq |-> 1, of |-> Stream(r)[i].of]
      BY <2>4, <2>6 DEF IInv, Shapes, WholeAnswers
    <3>2. i + 1 \in DOMAIN Stream(r)
      BY <2>3, <2>4, <3>1, LenProperties
    <3>3. EndsAnswer(Stream(r)[i + 1]) /\ Stream(r)[i + 1].of = Stream(r)[i].of
      BY <3>1 DEF EndsAnswer
    <3> QED
      BY <2>2, <2>4, <3>2, <3>3
  <2> QED
    BY <2>5, <2>6
<1> QED
  BY <1>1, Invariance, PTL

(* A signature that sign_tx returns is over the run's own transaction, all  *)
(* of it, confirmed by its user, unless more runs were cut off than this    *)
(* one sends requests before its last.                                      *)
THEOREM SignatureOwn == Spec => []SignatureIsOwn
<1>1. IInv => SignatureIsOwn
  BY DEF IInv
<1> QED
  BY <1>1, Invariance, PTL
=============================================================================
