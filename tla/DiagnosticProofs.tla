-------------------------- MODULE DiagnosticProofs --------------------------
(***************************************************************************)
(* The safety of the native diagnostics, whatever arrives on the line and  *)
(* however many attempts, units and reads there are.                       *)
(***************************************************************************)
EXTENDS Diagnostic, SequenceTheorems, WellFoundedInduction, TLAPS

-----------------------------------------------------------------------------
(* What the framer returns: the lemmas of FramingProofs for this format.   *)

FP == INSTANCE FramingProofs
      WITH Byte <- Unit, STX <- "stx", ACK <- "ack", NAK <- "nak", HeaderLen <- 2,
           Total <- TelegramLength, Valid <- TelegramValid, MaxTotal <- 5, MaxBytes <- MaxRx,
           raw <- <<>>, offset <- rx, events <- <<>>, expired <- {}

Event == [at : Nat, bytes : Seq(Unit)]

LEMMA Format ==
    /\ {"stx", "ack", "nak"} \subseteq Unit /\ "stx" \notin {"ack", "nak"}
    /\ 2 \in Nat \ {0} /\ 5 \in Nat /\ 2 <= 5 /\ MaxRx \in Nat /\ MaxRead \in Nat
    /\ \A h \in [1..2 -> Unit] : TelegramLength(h) \in Nat /\ TelegramLength(h) <= 5
<1>1. \A h \in [1..2 -> Unit] : TelegramLength(h) \in Nat /\ TelegramLength(h) <= 5
  BY DEF TelegramLength
<1> QED
  BY <1>1, DiagnosticAssumption DEF Unit, Kind

LEMMA SameState == F!State = FP!State
BY DEF F!State, FP!State

LEMMA SameScan == F!Scan = FP!Scan
BY DEF F!Scan, FP!Scan, F!State, FP!State, F!Waits, FP!Waits, F!Incomplete, FP!Incomplete,
       F!Announced, FP!Announced, F!Taken, FP!Taken, F!IsTelegram, FP!IsTelegram, F!Skipped, FP!Skipped,
       F!Found, FP!Found, F!Item, FP!Item, F!Discard, FP!Discard, F!Control, FP!Control

\* A feed stays within the bytes that are there, and leaves less than a telegram.
LEMMA Fed ==
    ASSUME NEW o \in Nat, NEW b \in Seq(Unit), NEW d \in Seq(Unit)
    PROVE  LET r == F!Feed(o, b, d)
           IN /\ r.events \in Seq(Event) /\ r.buffer \in Seq(Unit) /\ Len(r.buffer) < 5
              /\ Len(r.buffer) <= o + Len(b) + Len(d)
              /\ \A i \in 1..Len(r.events) : r.events[i].at < o + Len(b) + Len(d)
<1> DEFINE s == [offset |-> o, buffer |-> b \o d]
           r == FP!Scan[s]
<1>1. s \in FP!State /\ s.offset = o /\ Len(s.buffer) = Len(b) + Len(d) /\ Len(b) \in Nat /\ Len(d) \in Nat
  BY ConcatProperties DEF FP!State
<1>2. F!Feed(o, b, d) = r
  BY SameScan DEF F!Feed
<1> HIDE DEF s
<1>3. /\ r \in FP!Result /\ FP!Waits(r.buffer) /\ r.offset + Len(r.buffer) = s.offset + Len(s.buffer)
      /\ \A e \in FP!Elements(r.events) : e \in FP!Event /\ e.at < s.offset + Len(s.buffer)
  BY <1>1, Format, FP!ScanBounds
<1> HIDE DEF r
<1>4. r.events \in Seq(Event) /\ r.buffer \in Seq(Unit) /\ r.offset \in Nat /\ Len(r.buffer) \in Nat
  BY <1>3 DEF FP!Result, FP!Event, Event
<1>5. Len(r.buffer) < 5
  <2>1. CASE r.buffer = <<>>
    BY <2>1
  <2>2. CASE Len(r.buffer) < 2
    BY <1>4, <2>2
  <2>3. CASE Len(r.buffer) >= 2 /\ Len(r.buffer) < FP!Announced(r.buffer)
    <3>1. FP!Announced(r.buffer) \in Nat /\ FP!Announced(r.buffer) <= 5
      BY DEF FP!Announced, TelegramLength
    <3> QED
      BY <1>4, <2>3, <3>1
  <2> QED
    BY <1>3, <1>4, <2>1, <2>2, <2>3 DEF FP!Waits, FP!Incomplete
<1>6. \A k, l, m \in Nat : k + l = m => l <= m
  OBVIOUS
<1>7. o + (Len(b) + Len(d)) \in Nat /\ o + (Len(b) + Len(d)) = o + Len(b) + Len(d)
  BY <1>1
<1>8. Len(r.buffer) <= o + Len(b) + Len(d)
  BY <1>1, <1>3, <1>4, <1>6, <1>7
<1>9. \A i \in 1..Len(r.events) : r.events[i].at < o + Len(b) + Len(d)
  BY <1>1, <1>3, <1>7 DEF FP!Elements
<1> QED
  BY <1>2, <1>4, <1>5, <1>8, <1>9

-----------------------------------------------------------------------------
(* The first and the last of some indices.                                 *)

LEMMA FirstOf ==
    ASSUME NEW n \in Nat, NEW A, A \subseteq 1..n, A # {}
    PROVE  (CHOOSE i \in A : \A j \in A : i <= j) \in A
<1>1. A \subseteq Nat
  OBVIOUS
<1>2. IsWellFoundedOn(OpToRel(<, Nat), Nat)
  BY NatLessThanWellFounded
<1>3. PICK m \in A : \A k \in A : ~(<<k, m>> \in OpToRel(<, Nat))
  BY <1>1, <1>2, WFMin, Zenon
<1>4. \A k \in A : ~(k < m)
  BY <1>1, <1>3 DEF OpToRel
<1>5. \A k \in A : m <= k
  BY <1>1, <1>4
<1> QED
  BY <1>5

LEMMA LastOf ==
    ASSUME NEW n \in Nat, NEW A, A \subseteq 1..n, A # {}
    PROVE  (CHOOSE i \in A : \A j \in A : j <= i) \in A
<1> DEFINE W == {m \in Nat : \A j \in A : j <= m}
<1>1. IsWellFoundedOn(OpToRel(<, Nat), Nat) /\ W \subseteq Nat
  BY NatLessThanWellFounded
<1>2. n \in W
  OBVIOUS
<1>3. PICK m \in W : \A k \in W : ~(<<k, m>> \in OpToRel(<, Nat))
  <2> HIDE DEF W
  <2> QED
    BY <1>1, <1>2, WFMin, Zenon
<1>4. m \in Nat /\ (\A j \in A : j <= m) /\ \A k \in Nat : k < m => k \notin W
  BY <1>3 DEF OpToRel
<1>5. m \in A
  <2>1. SUFFICES ASSUME m \notin A PROVE FALSE
    OBVIOUS
  <2>2. \A j \in A : j \in Nat /\ 1 <= j /\ j <= m /\ j # m
    BY <1>4, <2>1
  <2>3. m # 0
    <3>1. PICK j \in A : TRUE
      OBVIOUS
    <3>2. \A i, k \in Nat : 1 <= i /\ i <= k => k # 0
      OBVIOUS
    <3> QED
      BY <1>4, <2>2, <3>1, <3>2
  <2>4. \A k \in Nat : k # 0 => /\ k - 1 \in Nat /\ k - 1 < k
                               /\ \A j \in Nat : j <= k /\ j # k => j <= k - 1
    OBVIOUS
  <2>5. m - 1 \in Nat /\ m - 1 < m /\ \A j \in A : j <= m - 1
    BY <1>4, <2>2, <2>3, <2>4
  <2> QED
    BY <1>4, <2>5
<1> QED
  BY <1>4, <1>5

-----------------------------------------------------------------------------
(* Types, in three parts.                                                  *)

Places == {"gates", "opening", "passive", "preTx", "write", "flush", "joining", "listen",
           "close", "done", "refused"}

ArgumentsOK ==
    /\ mode \in Mode /\ confirmed \in BOOLEAN /\ samePath \in BOOLEAN
    /\ markers \subseteq {"power", "complete"} /\ acts \subseteq markers /\ onFor \in 0..2

ProgramOK ==
    /\ pc \in Places /\ open \in BOOLEAN /\ age \in 0..2 /\ powered \in BOOLEAN /\ complete \in BOOLEAN
    /\ boundary \in Offset /\ expired \in BOOLEAN /\ tx \in {"none", "unknown", "short", "full"}
    /\ error \in BOOLEAN /\ success \in BOOLEAN /\ writes \in Nat /\ waited \in Nat

\* A telegram that was captured starts before what is still to come.
CaptureOK ==
    /\ rx \in 0..MaxRx /\ buffer \in Seq(Unit) /\ Len(buffer) < 5 /\ Len(buffer) <= rx
    /\ ack \in BOOLEAN /\ nak \in BOOLEAN /\ status \in Offset /\ startup \in BOOLEAN
    /\ frames \subseteq [kind : Kind, at : Offset] /\ \A f \in frames : f.at < rx
    /\ echo \in 0..EchoLen + 1 /\ ackFrom \in Offset

LEMMA Numbers == /\ MaxRx \in Nat /\ MaxRead \in Nat /\ EchoLen \in Nat /\ EchoLen >= 1 /\ None = MaxRx + 1
                 /\ Offset = 0..MaxRx + 1 /\ Attempts \in Nat /\ Attempts >= 1
BY DiagnosticAssumption DEF None, Offset

LEMMA DataType == \A data \in Data : data \in Seq(Unit)
<1>1. SUFFICES ASSUME NEW n \in 0..MaxRead, NEW data \in [1..n -> Line] PROVE data \in Seq(Unit)
  BY DEF Data
<1>2. Line \subseteq Unit
  BY DEF Line, Unit, Kind
<1>3. n \in Nat /\ data \in [1..n -> Unit]
  BY <1>2, Numbers
<1> QED
  BY <1>3, SeqDef

-----------------------------------------------------------------------------
(* What a read of the line does to the capture.                            *)

Captured(phase) ==
    /\ rx <= rx' /\ frames \subseteq frames' /\ echo <= echo'
    /\ ack => ack'
    /\ nak => nak'
    /\ startup => startup'
    /\ mode # "loopback" => echo' = echo
    /\ phase # "post_tx" => ack' = ack /\ nak' = nak /\ echo' = echo
    /\ \/ status' = status
       \/ ack' /\ status' >= boundary /\ status' < rx' /\ [kind |-> "b1", at |-> status'] \in frames'

LEMMA Loopback ==
    ASSUME CaptureOK, NEW data \in Seq(Unit), NEW phase, mode = "loopback", Take(data, phase)
    PROVE  CaptureOK' /\ Captured(phase)
<1>1. /\ rx' = rx + Len(data) /\ rx + Len(data) <= MaxRx /\ Len(data) \in Nat /\ rx \in Nat
      /\ UNCHANGED <<buffer, ack, nak, status, startup, frames, ackFrom>>
  BY DEF Take, CaptureOK
<1>2. rx' \in 0..MaxRx /\ rx <= rx'
  BY <1>1, Numbers
<1>3. Len(buffer) <= rx' /\ \A f \in frames : f.at < rx'
  <2>1. Len(buffer) \in Nat /\ Len(buffer) <= rx /\ \A f \in frames : f.at \in Nat /\ f.at < rx
    BY Numbers DEF CaptureOK
  <2> QED
    BY <1>1, <2>1
<1>4. /\ echo' = IF phase # "post_tx" THEN echo
                 ELSE IF echo + Len(data) > EchoLen \/ \E i \in DOMAIN data : data[i] # "b1"
                 THEN EchoLen + 1 ELSE echo + Len(data)
  BY DEF Take
<1>5. echo' \in 0..EchoLen + 1 /\ echo <= echo' /\ (phase # "post_tx" => echo' = echo)
  <2>1. echo \in 0..EchoLen + 1
    BY DEF CaptureOK
  <2> DEFINE other == \E i \in DOMAIN data : data[i] # "b1"
             l == Len(data)
  <2>2. l \in Nat /\ echo' = IF phase # "post_tx" THEN echo ELSE IF echo + l > EchoLen \/ other
                             THEN EchoLen + 1 ELSE echo + l
    BY <1>1, <1>4
  <2> HIDE DEF other, l
  <2> QED
    BY <2>1, <2>2, Numbers
<1>6. CaptureOK'
  BY <1>1, <1>2, <1>3, <1>5 DEF CaptureOK
<1> QED
  BY <1>1, <1>2, <1>3, <1>5, <1>6 DEF Captured

LEMMA Telegrams ==
    ASSUME CaptureOK, boundary \in Offset, NEW data \in Seq(Unit), NEW phase, mode # "loopback", Take(data, phase)
    PROVE  /\ CaptureOK' /\ Captured(phase)
           /\ phase = "post_tx" /\ Are(Found(data).events, {"ack"}) # {} => ack'
<1> DEFINE found == Found(data)
           ev == found.events
           acks == IF phase = "post_tx" THEN Are(ev, {"ack"}) ELSE {}
           answers == {i \in Are(ev, {"b1"}) : /\ Fresh(ev[i].at)
                                               /\ ack \/ \E j \in acks : j < i}
           new == {[kind |-> Name(ev[i]), at |-> ev[i].at] : i \in Are(ev, Kind)}
<1>1. /\ rx' = rx + Len(data) /\ rx + Len(data) <= MaxRx /\ Len(data) \in Nat /\ rx \in Nat
      /\ buffer \in Seq(Unit) /\ Len(buffer) \in Nat /\ Len(buffer) <= rx
  BY DEF Take, CaptureOK
<1>2. /\ buffer' = found.buffer /\ ack' = (ack \/ acks # {})
      /\ ackFrom' = IF ack \/ acks = {} THEN ackFrom
                    ELSE ev[CHOOSE i \in acks : \A j \in acks : i <= j].at
      /\ nak' = (nak \/ (phase = "post_tx" /\ Are(ev, {"nak"}) # {}))
      /\ status' = IF answers = {} THEN status
                   ELSE ev[CHOOSE i \in answers : \A j \in answers : j <= i].at
      /\ startup' = (startup \/ Are(ev, {"x90"}) # {})
      /\ frames' = frames \cup new
      /\ echo' = echo
  BY DEF Take
<1>3. /\ ev \in Seq(Event) /\ found.buffer \in Seq(Unit) /\ Len(found.buffer) < 5
      /\ Len(found.buffer) <= rx' /\ \A i \in 1..Len(ev) : ev[i].at < rx'
  <2>1. rx - Len(buffer) \in Nat
    BY <1>1
  <2>2. /\ ev \in Seq(Event) /\ found.buffer \in Seq(Unit) /\ Len(found.buffer) < 5
        /\ Len(found.buffer) <= rx - Len(buffer) + Len(buffer) + Len(data)
        /\ \A i \in 1..Len(ev) : ev[i].at < rx - Len(buffer) + Len(buffer) + Len(data)
    BY <1>1, <2>1, Fed DEF Found
  <2>3. rx - Len(buffer) + Len(buffer) + Len(data) = rx'
    BY <1>1
  <2> QED
    BY <2>2, <2>3
<1> HIDE DEF found
<1>4. /\ DOMAIN ev = 1..Len(ev) /\ Len(ev) \in Nat
      /\ \A i \in 1..Len(ev) : ev[i].at \in Nat /\ ev[i].at < rx'
  <2> HIDE DEF ev
  <2>1. DOMAIN ev = 1..Len(ev) /\ Len(ev) \in Nat /\ \A i \in 1..Len(ev) : ev[i] \in Event
    BY <1>3, LenProperties, ElementOfSeq
  <2>2. \A i \in 1..Len(ev) : ev[i].at \in Nat
    BY <2>1 DEF Event
  <2> QED
    BY <1>3, <2>1, <2>2
<1>5. rx' \in 0..MaxRx /\ rx <= rx'
  BY <1>1, Numbers
<1> HIDE DEF ev
<1>6. \A i \in 1..Len(ev) : ev[i].at \in Offset
  BY <1>4, <1>5, Numbers
<1>7. Are(ev, Kind) \subseteq 1..Len(ev) /\ acks \subseteq 1..Len(ev) /\ answers \subseteq 1..Len(ev)
  BY <1>4 DEF Are
<1>8. /\ frames \subseteq frames' /\ frames' \subseteq [kind : Kind, at : Offset]
      /\ \A f \in frames' : f.at < rx'
  <2>1. \A f \in new : f \in [kind : Kind, at : Offset] /\ f.at < rx'
    BY <1>4, <1>6, <1>7 DEF Are
  <2>2. \A f \in frames : f \in [kind : Kind, at : Offset] /\ f.at \in Nat /\ f.at < rx
    BY Numbers DEF CaptureOK
  <2>3. \A k \in Nat : k < rx => k < rx'
    BY <1>1
  <2> HIDE DEF new
  <2> QED
    BY <1>2, <2>1, <2>2, <2>3
<1>9. ackFrom' \in Offset
  <2>1. acks # {} => (CHOOSE i \in acks : \A j \in acks : i <= j) \in 1..Len(ev)
    <3> HIDE DEF acks
    <3> QED
      BY <1>4, <1>7, FirstOf
  <2>2. ackFrom \in Offset
    BY DEF CaptureOK
  <2> HIDE DEF acks
  <2> QED
    BY <1>2, <1>6, <2>1, <2>2
<1>10. /\ status' \in Offset
       /\ \/ status' = status
          \/ ack' /\ status' >= boundary /\ status' < rx' /\ [kind |-> "b1", at |-> status'] \in frames'
  <2>1. CASE answers = {}
    <3>1. status \in Offset
      BY DEF CaptureOK
    <3> HIDE DEF answers
    <3> QED
      BY <1>2, <2>1, <3>1
  <2>2. CASE answers # {}
    <3> DEFINE i == CHOOSE i \in answers : \A j \in answers : j <= i
    <3>1. i \in answers
      <4> HIDE DEF answers
      <4> QED
        BY <1>4, <1>7, <2>2, LastOf
    <3>2. status' = ev[i].at
      <4> HIDE DEF answers
      <4> QED
        BY <1>2, <2>2
    <3> HIDE DEF i
    <3>3. i \in DOMAIN ev /\ Name(ev[i]) = "b1" /\ ev[i].at >= boundary /\ (ack \/ acks # {})
      BY <3>1 DEF Are, Fresh
    <3>4. [kind |-> "b1", at |-> ev[i].at] \in new
      BY <3>3 DEF Are, Kind
    <3> HIDE DEF new, answers
    <3> QED
      BY <1>2, <1>4, <1>6, <3>2, <3>3, <3>4
  <2> QED
    BY <2>1, <2>2
<1>11. CaptureOK'
  <2>1. ack' \in BOOLEAN /\ nak' \in BOOLEAN /\ startup' \in BOOLEAN
    BY <1>2, Zenon
  <2>2. echo' \in 0..EchoLen + 1
    BY <1>2 DEF CaptureOK
  <2> QED
    BY <1>2, <1>3, <1>5, <1>8, <1>9, <1>10, <2>1, <2>2 DEF CaptureOK
<1>12. Captured(phase)
  <2>1. /\ ack => ack'
        /\ nak => nak'
        /\ startup => startup'
    BY <1>2, Zenon
  <2>2. phase # "post_tx" => ack' = ack /\ nak' = nak
    <3>1. ack \in BOOLEAN /\ nak \in BOOLEAN
      BY DEF CaptureOK
    <3>2. phase # "post_tx" => ack' = (ack \/ FALSE) /\ nak' = (nak \/ FALSE)
      BY <1>2
    <3> QED
      BY <3>1, <3>2
  <2>3. echo <= echo'
    BY <1>2, Numbers DEF CaptureOK
  <2> QED
    BY <1>2, <1>5, <1>8, <1>10, <2>1, <2>2, <2>3 DEF Captured
<1>13. phase = "post_tx" /\ Are(ev, {"ack"}) # {} => ack'
  BY <1>2, Zenon
<1> QED
  BY <1>11, <1>12, <1>13 DEF ev, found

LEMMA Read ==
    ASSUME CaptureOK, boundary \in Offset, NEW data \in Data, NEW phase, Take(data, phase)
    PROVE  /\ CaptureOK' /\ Captured(phase)
           /\ mode # "loopback" /\ phase = "post_tx" /\ Are(Found(data).events, {"ack"}) # {} => ack'
BY DataType, Loopback, Telegrams

-----------------------------------------------------------------------------
(* The inductive invariant.                                                *)

Asks == {"status", "direct-test", "status-repeat"}
Waiting == {"flush", "joining", "listen"}

\* Behind the gates the operator has agreed; the files of direct-test are of this run.
Agreed == pc \notin {"gates", "refused"} =>
    /\ mode \in NeedsConsent => confirmed
    /\ mode = "direct-test" => ~samePath /\ markers = acts

\* No more requests than the mode may send.
Budget ==
    /\ writes <= Limit
    /\ pc \in {"preTx", "write"} => writes < Limit
    /\ pc \in {"gates", "opening", "passive", "refused"} => writes = 0
    /\ pc \in Waiting => writes >= 1

\* The startup window of direct-test has run since the power was confirmed.
Timed == mode = "direct-test" =>
    /\ powered => "power" \in acts
    /\ complete => "complete" \in acts
    /\ pc \in {"gates", "opening"} => ~powered
    /\ pc = "passive" /\ powered => onFor >= age
    /\ writes > 0 \/ pc \in {"preTx", "write"} \cup Waiting => acts = {"power", "complete"} /\ onFor >= 1

\* The count of sent bytes is unknown while a write is under way.
Counted == tx = "none" => writes = 0 /\ pc # "write"

\* The status is a B1 behind the boundary of the last request, which was acknowledged.
Answer == status # None => ack /\ status >= boundary /\ [kind |-> "b1", at |-> status] \in frames

\* A success has its reason, and the port is closed when it is reported.
Reason ==
    /\ success => pc \in {"close", "done"} /\ Heard /\ (mode \in Asks => status # None /\ ~nak)
    /\ HonestSuccess

\* The timer of the flush runs only during the flush.
Handle ==
    /\ pc \in {"gates", "opening", "passive", "preTx", "write", "listen"} => ~expired
    /\ pc \in {"passive", "preTx", "write", "listen"} => open
    /\ pc \in {"flush", "joining"} /\ ~expired => open

\* A window for a request, and one more for the first ACK of probe_status.
Patience ==
    /\ mode # "probe" =>
         /\ waited <= 2 * writes
         /\ pc \in {"flush", "joining"} => waited + 2 <= 2 * writes
         /\ pc = "listen" => waited + 2 <= 2 * writes + age
    /\ mode = "probe" =>
         /\ waited <= 4 /\ pc \notin {"flush", "joining"}
         /\ pc \in {"gates", "opening", "passive", "preTx", "write"} => waited = 0
         /\ pc = "listen" => waited <= age \/ (ack /\ waited <= age + 2)

\* Nothing counts as heard before the request, which also ends what was heard before it.
Unheard ==
    /\ mode # "loopback" => echo = 0
    /\ pc \in {"gates", "opening", "preTx", "write"} \/ (pc = "passive" /\ mode # "listen-startup") => ~Heard
    /\ pc \in {"gates", "opening", "passive"} \/ (pc = "preTx" /\ writes = 0) => boundary = None

TypesOK == ArgumentsOK /\ ProgramOK /\ CaptureOK
IInv == /\ TypesOK /\ Agreed /\ Budget /\ Timed /\ Counted /\ Answer /\ Reason /\ Handle /\ Patience
        /\ Unheard

-----------------------------------------------------------------------------
(* The steps.                                                              *)

USE DEF Goto, programFrame, arguments, operator, capture, report, Window

\* The steps that read nothing and change no file.
Quiet == \/ Gates \/ Open \/ Prepare \/ Write \/ WriteRaises \/ FlushReturns \/ TimerFires \/ TimerJoined
         \/ ListenEnds \/ Close \/ Fails
Reads(data) == Passive(data) \/ PreRead(data) \/ Listen(data)

LEMMA Moves ==
    ASSUME Next
    PROVE  \/ Quiet \/ Tick \/ \E m \in {"power", "complete"} : Confirm(m)
           \/ \E data \in Data : Reads(data)
           \/ UNCHANGED vars
BY DEF Next, Step, Quiet, Reads

\* The capture when nothing is read.
LEMMA NotRead ==
    ASSUME CaptureOK, UNCHANGED capture, NEW phase
    PROVE  CaptureOK' /\ Captured(phase)
<1>1. rx <= rx /\ echo <= echo
  BY Numbers DEF CaptureOK
<1> QED
  BY <1>1 DEF CaptureOK, Captured

Phase == CASE pc = "passive" -> "passive" [] pc = "preTx" -> "pre_tx" [] OTHER -> "post_tx"

LEMMA ReadStep ==
    ASSUME TypesOK, NEW data \in Data, Reads(data)
    PROVE  CaptureOK' /\ Captured(Phase)
<1>1. CaptureOK /\ boundary \in Offset
  BY DEF TypesOK, ProgramOK
<1>2. CASE Passive(data)
  <2>1. pc = "passive" /\ (UNCHANGED capture \/ Take(data, "passive"))
    BY <1>2 DEF Passive
  <2> QED
    BY <1>1, <2>1, Read, NotRead DEF Phase
<1>3. CASE PreRead(data)
  <2>1. pc = "preTx" /\ Take(data, "pre_tx")
    BY <1>3 DEF PreRead
  <2> QED
    BY <1>1, <2>1, Read DEF Phase
<1>4. CASE Listen(data)
  <2>1. pc = "listen" /\ Take(data, "post_tx")
    BY <1>4 DEF Listen
  <2> QED
    BY <1>1, <2>1, Read DEF Phase
<1> QED
  BY <1>2, <1>3, <1>4 DEF Reads

\* One turn of the passive loop.
LEMMA PassiveCases ==
    ASSUME TypesOK, NEW data \in Data, Passive(data)
    PROVE  /\ pc = "passive" /\ powered' \in BOOLEAN /\ complete' \in BOOLEAN
           /\ powered' => powered \/ "power" \in markers
           /\ powered => powered'
           /\ complete' => complete \/ "complete" \in markers
           /\ age' = IF powered' /\ ~powered THEN 0 ELSE age
           /\ \/ pc' \in {"passive", "close"} /\ (success' = success \/ success' = FALSE)
              \/ pc' = "close" /\ mode = "listen-startup" /\ startup' /\ success' = TRUE
              \/ /\ pc' = "preTx" /\ mode = "direct-test" /\ powered' /\ complete' /\ age' >= 1
                 /\ success' = success
<1> DEFINE p == powered \/ "power" \in markers
           a == WindowAge(p)
           c == complete \/ (mode = "direct-test" /\ p /\ "complete" \in markers)
           go == mode = "direct-test" /\ p /\ a >= 1 /\ c
           late == IF mode = "direct-test" /\ p THEN a >= 2 ELSE a >= 1
<1>1. /\ pc = "passive" /\ powered' = p /\ complete' = c
      /\ \/ go /\ age' = a /\ pc' = "preTx" /\ success' = success
         \/ ~go /\ late /\ age' = a /\ pc' = "close" /\ success' = success
         \/ /\ ~go /\ ~late /\ age' = a /\ success' = (mode = "listen-startup" /\ startup')
            /\ pc' = IF success' THEN "close" ELSE "passive"
  BY DEF Passive
<1>2. p \in BOOLEAN /\ c \in BOOLEAN
  BY DEF TypesOK, ProgramOK
<1>3. /\ p => powered \/ "power" \in markers
      /\ powered => p
      /\ c => complete \/ "complete" \in markers
      /\ a = IF p /\ ~powered THEN 0 ELSE age
      /\ go => mode = "direct-test" /\ p /\ c /\ a >= 1
  BY DEF WindowAge
<1> HIDE DEF p, c, a, go, late
<1>4. CASE go /\ age' = a /\ pc' = "preTx" /\ success' = success
  BY <1>1, <1>2, <1>3, <1>4
<1>5. CASE ~go /\ late /\ age' = a /\ pc' = "close" /\ success' = success
  BY <1>1, <1>2, <1>3, <1>5
<1>6. CASE /\ age' = a /\ success' = (mode = "listen-startup" /\ startup')
           /\ pc' = IF success' THEN "close" ELSE "passive"
  <2>1. \/ success' = TRUE /\ pc' = "close" /\ mode = "listen-startup" /\ startup'
        \/ success' = FALSE /\ pc' = "passive"
    BY <1>6
  <2> QED
    BY <1>1, <1>2, <1>3, <1>6, <2>1
<1> QED
  BY <1>1, <1>4, <1>5, <1>6

\* One turn of the loop that listens.
LEMMA ListenCases ==
    ASSUME TypesOK, NEW data \in Data, Listen(data)
    PROVE  /\ pc = "listen" /\ age < 2
           /\ age' = IF mode = "probe" /\ ~ack /\ ack' THEN 0 ELSE age
           /\ \/ pc' = "listen" /\ success' = success /\ error' = error
              \/ /\ pc' = "close" /\ error' \in BOOLEAN /\ success' \in BOOLEAN
                 /\ success' => success \/ (mode = "status" /\ status' # None /\ ~nak') \/ (mode = "probe" /\ ack')
<1>1. pc = "listen" /\ age < 2 /\ Take(data, "post_tx") /\ age' = IF Extends /\ ack' THEN 0 ELSE age
  BY DEF Listen
<1> DEFINE ev == Found(data).events
           ends == CASE mode = "status" -> nak' \/ status' # None
                     [] mode = "loopback" -> echo' > EchoLen
                     [] mode = "probe" -> ProbeStops(ev) # {}
                     [] OTHER -> FALSE
<1>2. \/ ~ends /\ UNCHANGED <<pc, success, error>>
      \/ /\ ends /\ pc' = "close"
         /\ success' = CASE mode = "status" -> ~nak'
                         [] mode = "probe" -> ProbeAnswered(ev)
                         [] OTHER -> success
         /\ error' = (mode = "probe" /\ ~success')
  BY DEF Listen
<1>3. mode = "probe" /\ ProbeAnswered(ev) => ack'
  <2>1. CaptureOK /\ boundary \in Offset
    BY DEF TypesOK, ProgramOK
  <2>2. /\ Are(ev, {"ack"}) # {} /\ mode = "probe" => ack'
        /\ ack => ack'
    BY <1>1, <2>1, Read DEF Captured
  <2> HIDE DEF ev
  <2> QED
    BY <2>2 DEF ProbeAnswered
<1>4. success \in BOOLEAN /\ ProbeAnswered(ev) \in BOOLEAN /\ (~nak') \in BOOLEAN
  BY DEF TypesOK, ProgramOK, ProbeAnswered
<1>5. mode = "status" /\ ends => nak' \/ status' # None
  OBVIOUS
<1>6. age' = IF mode = "probe" /\ ~ack /\ ack' THEN 0 ELSE age
  BY <1>1 DEF Extends
<1> HIDE DEF ev, ends
<1>7. CASE UNCHANGED <<pc, success, error>>
  BY <1>1, <1>6, <1>7
<1>8. CASE /\ ends /\ pc' = "close"
           /\ success' = CASE mode = "status" -> ~nak'
                           [] mode = "probe" -> ProbeAnswered(ev)
                           [] OTHER -> success
           /\ error' = (mode = "probe" /\ ~success')
  <2>1. error' \in BOOLEAN
    BY <1>8, Zenon
  <2>2. CASE mode = "status"
    <3>1. success' = (~nak')
      BY <1>8, <2>2
    <3> QED
      BY <1>1, <1>4, <1>5, <1>6, <1>8, <2>1, <2>2, <3>1
  <2>3. CASE mode = "probe"
    <3>1. success' = ProbeAnswered(ev)
      BY <1>8, <2>3
    <3> QED
      BY <1>1, <1>3, <1>4, <1>6, <1>8, <2>1, <2>3, <3>1
  <2>4. CASE mode \notin {"status", "probe"}
    <3>1. success' = success
      BY <1>8, <2>4
    <3> QED
      BY <1>1, <1>4, <1>6, <1>8, <2>1, <3>1
  <2> QED
    BY <2>2, <2>3, <2>4
<1> QED
  BY <1>2, <1>7, <1>8

-----------------------------------------------------------------------------
(* Each part of the invariant is preserved.                                *)

LEMMA ArgumentsStep ==
    ASSUME TypesOK, Next
    PROVE  ArgumentsOK'
<1>1. ArgumentsOK
  BY DEF TypesOK
<1>2. CASE UNCHANGED <<mode, confirmed, samePath, markers, acts, onFor>>
  BY <1>1, <1>2 DEF ArgumentsOK
<1>3. CASE Tick
  BY <1>1, <1>3 DEF ArgumentsOK, Tick
<1>4. ASSUME NEW m \in {"power", "complete"}, Confirm(m) PROVE ArgumentsOK'
  BY <1>1, <1>4 DEF ArgumentsOK, Confirm
<1>5. CASE Quiet
  BY <1>2, <1>5 DEF Quiet, Gates, Open, Prepare, Write, WriteRaises, FlushReturns, TimerFires,
                   TimerJoined, ListenEnds, Close, Fails
<1>6. ASSUME NEW data \in Data, Reads(data) PROVE ArgumentsOK'
  BY <1>2, <1>6 DEF Reads, Passive, PreRead, Listen
<1>7. CASE UNCHANGED vars
  BY <1>2, <1>7 DEF vars
<1> QED
  BY <1>3, <1>4, <1>5, <1>6, <1>7, Moves

LEMMA Placed == /\ {"listen", "flush", "close", "passive", "preTx"} \subseteq Places
                /\ \A n \in 0..2 : {0, n} \subseteq 0..2
                /\ \A b \in BOOLEAN : {b, TRUE, FALSE} \subseteq BOOLEAN
BY DEF Places

LEMMA ProgramStep ==
    ASSUME TypesOK, Next
    PROVE  ProgramOK'
<1>1. ProgramOK /\ MaxRx \in Nat /\ Offset = 0..MaxRx + 1 /\ rx \in 0..MaxRx
  BY Numbers DEF TypesOK, CaptureOK
<1>2. rx \in Offset
  BY <1>1
<1>3. CASE Gates
  BY <1>1, <1>3 DEF ProgramOK, Gates, Places
<1>4. CASE Open
  BY <1>1, <1>4 DEF ProgramOK, Open, Places, First
<1>5. CASE Prepare
  BY <1>1, <1>2, <1>5 DEF ProgramOK, Prepare, Places, Pending
<1>6. CASE Write
  <2>1. /\ pc' \in {"listen", "flush", "close"} /\ tx' \in {"full", "short"} /\ age' \in {0, age}
        /\ error' \in {error, TRUE} /\ writes' = writes + 1
        /\ UNCHANGED <<open, powered, complete, boundary, expired, success, waited>>
    BY <1>6 DEF Write
  <2>2. writes' \in Nat
    BY <1>1, <2>1 DEF ProgramOK
  <2>3. age' \in 0..2 /\ pc' \in Places /\ error' \in BOOLEAN
    BY <1>1, <2>1, Placed DEF ProgramOK
  <2> QED
    BY <1>1, <2>1, <2>2, <2>3 DEF ProgramOK
<1>7. CASE WriteRaises
  BY <1>1, <1>7 DEF ProgramOK, WriteRaises, Places
<1>8. CASE FlushReturns
  BY <1>1, <1>8 DEF ProgramOK, FlushReturns, Places
<1>9. CASE TimerFires
  BY <1>1, <1>9 DEF ProgramOK, TimerFires, Places
<1>10. CASE TimerJoined
  <2>1. /\ pc' \in {"listen", "close"} /\ age' \in {0, age} /\ error' \in {error, TRUE}
        /\ UNCHANGED <<open, powered, complete, boundary, expired, tx, success, writes, waited>>
    BY <1>10 DEF TimerJoined
  <2> QED
    BY <1>1, <2>1, Placed DEF ProgramOK
<1>11. CASE ListenEnds
  <2>1. success' \in BOOLEAN /\ error' \in BOOLEAN
    BY <1>11 DEF ListenEnds, WindowVerdict
  <2>2. pc' \in Places
    BY <1>11 DEF ListenEnds, Places
  <2> QED
    BY <1>1, <1>11, <2>1, <2>2 DEF ProgramOK, ListenEnds
<1>12. CASE Close
  <2>1. success' \in BOOLEAN
    BY <1>1, <1>12 DEF Close, ProgramOK, Final, ResetObserved
  <2> QED
    BY <1>1, <1>12, <2>1 DEF ProgramOK, Close, Places
<1>13. CASE Fails
  BY <1>1, <1>13 DEF ProgramOK, Fails, Places
<1>14. CASE Tick
  BY <1>1, <1>14 DEF ProgramOK, Tick
<1>15. ASSUME NEW m \in {"power", "complete"}, Confirm(m) PROVE ProgramOK'
  BY <1>1, <1>15 DEF ProgramOK, Confirm
<1>16. ASSUME NEW data \in Data, Passive(data) PROVE ProgramOK'
  <2>1. /\ powered' \in BOOLEAN /\ complete' \in BOOLEAN /\ age' \in {0, age}
        /\ pc' \in {"passive", "close", "preTx"} /\ success' \in {success, TRUE, FALSE}
    BY <1>16, PassiveCases
  <2>2. UNCHANGED <<open, boundary, expired, tx, error, writes, waited>>
    BY <1>16 DEF Passive
  <2> QED
    BY <1>1, <2>1, <2>2, Placed DEF ProgramOK
<1>17. ASSUME NEW data \in Data, PreRead(data) PROVE ProgramOK'
  BY <1>1, <1>17 DEF ProgramOK, PreRead
<1>18. ASSUME NEW data \in Data, Listen(data) PROVE ProgramOK'
  <2>1. /\ age' \in {0, age} /\ pc' \in {"listen", "close"}
        /\ success' \in {success, TRUE, FALSE} /\ error' \in {error, TRUE, FALSE}
    BY <1>18, ListenCases
  <2>2. UNCHANGED <<open, powered, complete, boundary, expired, tx, writes, waited>>
    BY <1>18 DEF Listen
  <2> QED
    BY <1>1, <2>1, <2>2, Placed DEF ProgramOK
<1>19. CASE UNCHANGED vars
  BY <1>1, <1>19 DEF ProgramOK, vars
<1> QED
  BY <1>3, <1>4, <1>5, <1>6, <1>7, <1>8, <1>9, <1>10, <1>11, <1>12, <1>13, <1>14, <1>15, <1>16, <1>17,
     <1>18, <1>19, Moves DEF Quiet, Reads

LEMMA CaptureStep ==
    ASSUME TypesOK, Next
    PROVE  CaptureOK'
<1>1. CaptureOK
  BY DEF TypesOK
<1>2. CASE UNCHANGED capture
  BY <1>1, <1>2, NotRead
<1>3. CASE Prepare
  <2>1. /\ ack' = FALSE /\ nak' = FALSE /\ status' = None /\ ackFrom' = None
        /\ UNCHANGED <<rx, buffer, startup, frames, echo>>
    BY <1>3 DEF Prepare
  <2>2. None \in Offset
    BY Numbers
  <2> QED
    BY <1>1, <2>1, <2>2 DEF CaptureOK
<1>4. CASE Quiet
  BY <1>2, <1>3, <1>4 DEF Quiet, Gates, Open, Write, WriteRaises, FlushReturns, TimerFires,
                         TimerJoined, ListenEnds, Close, Fails
<1>5. CASE Tick
  BY <1>2, <1>5 DEF Tick
<1>6. ASSUME NEW m \in {"power", "complete"}, Confirm(m) PROVE CaptureOK'
  BY <1>2, <1>6 DEF Confirm
<1>7. CASE \E data \in Data : Reads(data)
  BY <1>7, ReadStep
<1>8. CASE UNCHANGED vars
  BY <1>2, <1>8 DEF vars
<1> QED
  BY <1>4, <1>5, <1>6, <1>7, <1>8, Moves

LEMMA AgreedStep ==
    ASSUME IInv, Next
    PROVE  Agreed'
<1>1. ArgumentsOK /\ Agreed
  BY DEF IInv, TypesOK
<1>2. CASE Gates
  BY <1>1, <1>2 DEF Gates, Authorised, Agreed, ArgumentsOK, NeedsConsent, Startup
<1>3. ASSUME NEW m \in {"power", "complete"}, Confirm(m) PROVE Agreed'
  BY <1>1, <1>3 DEF Confirm, Agreed
<1>4. CASE UNCHANGED <<mode, confirmed, samePath, markers, acts>> /\ (pc' = pc \/ pc \notin {"gates", "refused"})
  BY <1>1, <1>4 DEF Agreed
<1>5. CASE Quiet
  BY <1>2, <1>4, <1>5 DEF Quiet, Open, Prepare, Write, WriteRaises, FlushReturns, TimerFires, TimerRuns,
                         TimerJoined, ListenEnds, Close, Fails
<1>6. CASE Tick
  BY <1>4, <1>6 DEF Tick
<1>7. ASSUME NEW data \in Data, Reads(data) PROVE Agreed'
  BY <1>4, <1>7 DEF Reads, Passive, PreRead, Listen
<1>8. CASE UNCHANGED vars
  BY <1>4, <1>8 DEF vars
<1> QED
  BY <1>3, <1>5, <1>6, <1>7, <1>8, Moves

LEMMA ModeKept ==
    ASSUME Next
    PROVE  mode' = mode
BY Moves DEF Quiet, Reads, Gates, Open, Prepare, Write, WriteRaises, FlushReturns, TimerFires, TimerJoined,
             ListenEnds, Close, Fails, Tick, Confirm, Passive, PreRead, Listen, vars

LEMMA Limits ==
    /\ Limit \in Nat /\ Limit <= Attempts
    /\ mode = "listen-startup" => Limit = 0
    /\ mode = "status-repeat" => Limit = Attempts
    /\ mode \notin {"listen-startup", "status-repeat"} => Limit = 1
BY Numbers DEF Limit

LEMMA BudgetStep ==
    ASSUME IInv, Next
    PROVE  Budget'
<1>1. Budget /\ writes \in Nat /\ mode \in Mode
  BY DEF IInv, TypesOK, ProgramOK, ArgumentsOK
<1>2. Limit' = Limit
  BY ModeKept DEF Limit
<1>3. CASE /\ writes' = writes
           /\ pc' \in {"preTx", "write"} => pc \in {"preTx", "write"} \/ writes < Limit
           /\ pc' \in {"gates", "opening", "passive", "refused"} => pc \in {"gates", "opening", "passive", "refused"}
           /\ pc' \in Waiting => pc \in Waiting
  BY <1>1, <1>2, <1>3 DEF Budget
<1>4. CASE Open
  <2>1. writes = 0 /\ writes' = writes /\ (mode = "listen-startup" => pc' = "passive") /\ pc' \in {"passive", "preTx"}
    BY <1>1, <1>4 DEF Open, First, Budget, Startup
  <2>2. mode # "listen-startup" => 0 < Limit
    BY Limits, Numbers
  <2>3. pc = "opening"
    BY <1>4 DEF Open
  <2> QED
    BY <1>3, <2>1, <2>2, <2>3 DEF Waiting
<1>5. CASE Write \/ WriteRaises
  <2>1. pc = "write" /\ writes' = writes + 1 /\ pc' \in {"listen", "flush", "close"}
    BY <1>5 DEF Write, WriteRaises
  <2> QED
    BY <1>1, <1>2, <2>1, Limits DEF Budget
<1>6. CASE ListenEnds
  BY <1>3, <1>6, Limits DEF ListenEnds, Waiting
<1>7. ASSUME NEW data \in Data, Passive(data) PROVE Budget'
  <2>1. /\ pc = "passive" /\ pc' \in {"passive", "close", "preTx"} /\ writes' = writes
        /\ pc' = "preTx" => mode = "direct-test"
    BY <1>7, PassiveCases DEF Passive, IInv
  <2> QED
    BY <1>1, <1>3, <2>1, Limits DEF Budget, Waiting
<1>8. ASSUME NEW data \in Data, PreRead(data) PROVE Budget'
  BY <1>3, <1>8 DEF PreRead
<1>9. ASSUME NEW data \in Data, Listen(data) PROVE Budget'
  <2>1. pc = "listen" /\ pc' \in {"listen", "close"} /\ writes' = writes
    BY <1>9, ListenCases DEF Listen, IInv
  <2> QED
    BY <1>3, <2>1 DEF Waiting
<1>10. CASE Gates \/ Prepare \/ FlushReturns \/ TimerFires \/ TimerJoined \/ Close \/ Fails
  BY <1>3, <1>10 DEF Gates, Prepare, FlushReturns, TimerFires, TimerJoined, Close, Fails, Waiting
<1>11. CASE Tick \/ (\E m \in {"power", "complete"} : Confirm(m)) \/ UNCHANGED vars
  BY <1>3, <1>11 DEF Tick, Confirm, vars
<1> QED
  BY <1>4, <1>5, <1>6, <1>7, <1>8, <1>9, <1>10, <1>11, Moves DEF Quiet, Reads

LEMMA TimedStep ==
    ASSUME IInv, Next
    PROVE  Timed'
<1>1. SUFFICES ASSUME mode = "direct-test", mode' = "direct-test" PROVE Timed'
  BY ModeKept DEF Timed
<1>2. /\ Timed /\ Budget /\ ArgumentsOK /\ age \in 0..2 /\ onFor \in 0..2 /\ writes \in Nat
      /\ pc \notin {"gates", "refused"} => markers = acts
  BY <1>1 DEF IInv, TypesOK, ArgumentsOK, ProgramOK, Agreed
<1>3. CASE /\ UNCHANGED <<powered, complete, acts, onFor>>
           /\ pc' = "passive" /\ powered => pc = "passive" /\ age' = age
           /\ pc' \in {"gates", "opening"} => pc \in {"gates", "opening"}
           /\ writes' > 0 \/ pc' \in {"preTx", "write"} \cup Waiting
                => writes > 0 \/ pc \in {"preTx", "write"} \cup Waiting
  BY <1>1, <1>2, <1>3 DEF Timed
<1>4. CASE Open
  <2>1. pc = "opening" /\ pc' = "passive" /\ writes' = writes /\ writes = 0 /\ ~powered
    BY <1>1, <1>2, <1>4 DEF Open, First, Startup, Budget, Timed
  <2> QED
    BY <1>3, <1>4, <2>1 DEF Open, Waiting
<1>5. CASE Tick
  BY <1>1, <1>2, <1>5 DEF Tick, Timed
<1>6. ASSUME NEW m \in {"power", "complete"}, Confirm(m) PROVE Timed'
  BY <1>1, <1>2, <1>6 DEF Confirm, Timed, Budget
<1>7. ASSUME NEW data \in Data, Passive(data) PROVE Timed'
  <2>1. /\ pc = "passive" /\ powered' \in BOOLEAN /\ complete' \in BOOLEAN
        /\ powered' => powered \/ "power" \in acts
        /\ complete' => complete \/ "complete" \in acts
        /\ age' = IF powered' /\ ~powered THEN 0 ELSE age
        /\ pc' \in {"passive", "close", "preTx"} /\ (pc' = "preTx" => powered' /\ complete' /\ age' >= 1)
    BY <1>2, <1>7, PassiveCases DEF IInv
  <2>2. UNCHANGED <<acts, onFor, writes>> /\ writes = 0
    BY <1>2, <1>7, <2>1 DEF Passive, Budget
  <2>3. /\ powered' => "power" \in acts
        /\ complete' => "complete" \in acts
    BY <1>1, <1>2, <2>1 DEF Timed
  <2>4. powered' => onFor >= age'
    BY <1>1, <1>2, <2>1 DEF Timed
  <2>5. pc' = "preTx" => acts = {"power", "complete"} /\ onFor >= 1
    <3>1. pc' = "preTx" => {"power", "complete"} \subseteq acts
      BY <2>1, <2>3
    <3>2. acts \subseteq {"power", "complete"}
      BY <1>2 DEF ArgumentsOK
    <3>3. \A n \in {0, age} : onFor >= n /\ n >= 1 => onFor >= 1
      BY <1>2
    <3>4. age' \in {0, age}
      BY <2>1
    <3> QED
      BY <2>1, <2>4, <3>1, <3>2, <3>3, <3>4
  <2> QED
    BY <2>1, <2>2, <2>3, <2>4, <2>5 DEF Timed, Waiting
<1>8. ASSUME NEW data \in Data, PreRead(data) PROVE Timed'
  BY <1>3, <1>8 DEF PreRead
<1>9. ASSUME NEW data \in Data, Listen(data) PROVE Timed'
  <2>1. pc = "listen" /\ pc' \in {"listen", "close"} /\ UNCHANGED <<powered, complete, acts, onFor>>
    BY <1>9, ListenCases DEF Listen, IInv
  <2> QED
    BY <1>3, <2>1 DEF Waiting
<1>10. CASE Gates \/ Prepare \/ FlushReturns \/ TimerFires \/ Close \/ Fails
  BY <1>3, <1>10 DEF Gates, Prepare, FlushReturns, TimerFires, Close, Fails, Waiting
<1>11. CASE Write \/ WriteRaises
  BY <1>3, <1>11 DEF Write, WriteRaises
<1>12. CASE TimerJoined \/ ListenEnds
  BY <1>3, <1>12 DEF TimerJoined, ListenEnds, Waiting
<1>13. CASE UNCHANGED vars
  BY <1>3, <1>13 DEF vars
<1> QED
  BY <1>4, <1>5, <1>6, <1>7, <1>8, <1>9, <1>10, <1>11, <1>12, <1>13, Moves DEF Quiet, Reads

LEMMA CountedStep ==
    ASSUME IInv, Next
    PROVE  Counted'
<1>1. Counted /\ Budget /\ writes \in Nat
  BY DEF IInv, TypesOK, ProgramOK
<1>2. CASE UNCHANGED <<tx, writes>> /\ pc' # "write"
  BY <1>1, <1>2 DEF Counted
<1>3. CASE Prepare
  BY <1>3 DEF Prepare, Pending, Counted
<1>4. CASE Write
  BY <1>4 DEF Write, Counted
<1>5. CASE WriteRaises
  BY <1>1, <1>5 DEF WriteRaises, Counted
<1>6. CASE Gates \/ Open \/ FlushReturns \/ TimerFires \/ TimerJoined \/ ListenEnds \/ Close \/ Fails
  BY <1>2, <1>6 DEF Gates, Open, First, FlushReturns, TimerFires, TimerRuns, TimerJoined, ListenEnds, Close, Fails
<1>7. CASE Tick \/ \E m \in {"power", "complete"} : Confirm(m)
  BY <1>2, <1>7 DEF Tick, Confirm
<1>8. ASSUME NEW data \in Data, Reads(data) PROVE Counted'
  <2>1. pc' \in {"passive", "close", "preTx", "listen"}
    BY <1>8, PassiveCases, ListenCases DEF Reads, PreRead, IInv
  <2> QED
    BY <1>2, <1>8, <2>1 DEF Reads, Passive, PreRead, Listen
<1>9. CASE UNCHANGED vars
  BY <1>1, <1>9 DEF vars, Counted
<1> QED
  BY <1>3, <1>4, <1>5, <1>6, <1>7, <1>8, <1>9, Moves DEF Quiet

LEMMA AnswerStep ==
    ASSUME IInv, Next
    PROVE  Answer'
<1>1. Answer /\ CaptureOK /\ TypesOK
  BY DEF IInv, TypesOK
<1>2. CASE UNCHANGED <<ack, status, boundary, frames>>
  BY <1>1, <1>2 DEF Answer, None
<1>3. CASE Prepare
  BY <1>3 DEF Prepare, Answer, None
<1>4. ASSUME NEW data \in Data, Reads(data) PROVE Answer'
  <2>1. /\ frames \subseteq frames' /\ boundary' = boundary
        /\ \/ status' = status
           \/ ack' /\ status' >= boundary /\ [kind |-> "b1", at |-> status'] \in frames'
        /\ ack => ack'
    BY <1>1, <1>4, ReadStep DEF Captured, Reads, Passive, PreRead, Listen
  <2> QED
    BY <1>1, <2>1 DEF Answer, None
<1>5. CASE Quiet
  BY <1>2, <1>3, <1>5 DEF Quiet, Gates, Open, Write, WriteRaises, FlushReturns, TimerFires, TimerJoined,
                         ListenEnds, Close, Fails
<1>6. CASE Tick \/ (\E m \in {"power", "complete"} : Confirm(m)) \/ UNCHANGED vars
  BY <1>2, <1>6 DEF Tick, Confirm, vars
<1> QED
  BY <1>4, <1>5, <1>6, Moves

LEMMA HandleStep ==
    ASSUME IInv, Next
    PROVE  Handle'
<1>1. Handle /\ open \in BOOLEAN /\ expired \in BOOLEAN
  BY DEF IInv, TypesOK, ProgramOK
<1>2. CASE Gates \/ Open
  BY <1>1, <1>2 DEF Gates, Open, First, Handle
<1>3. CASE Prepare \/ Write \/ WriteRaises
  BY <1>1, <1>3 DEF Prepare, Write, WriteRaises, Handle
<1>4. CASE FlushReturns \/ TimerFires
  BY <1>1, <1>4 DEF FlushReturns, TimerFires, TimerRuns, Handle
<1>5. CASE TimerJoined
  BY <1>1, <1>5 DEF TimerJoined, Flushed, Handle
<1>6. CASE ListenEnds \/ Close \/ Fails
  BY <1>1, <1>6 DEF ListenEnds, Close, Fails, Handle
<1>7. ASSUME NEW data \in Data, Passive(data) PROVE Handle'
  <2>1. pc = "passive" /\ pc' \in {"passive", "close", "preTx"} /\ UNCHANGED <<open, expired>>
    BY <1>7, PassiveCases DEF Passive, IInv
  <2> QED
    BY <1>1, <2>1 DEF Handle
<1>8. ASSUME NEW data \in Data, Listen(data) PROVE Handle'
  <2>1. pc = "listen" /\ pc' \in {"listen", "close"} /\ UNCHANGED <<open, expired>>
    BY <1>8, ListenCases DEF Listen, IInv
  <2> QED
    BY <1>1, <2>1 DEF Handle
<1>9. CASE UNCHANGED <<pc, open, expired>>
  BY <1>1, <1>9 DEF Handle
<1> QED
  BY <1>2, <1>3, <1>4, <1>5, <1>6, <1>7, <1>8, <1>9, Moves DEF Quiet, Reads, PreRead, Tick, Confirm, vars

\* What was heard, of the answer and in general.
LEMMA StatusIsHeard ==
    ASSUME Answer, status # None, mode # "listen-startup"
    PROVE  Heard /\ Answered
BY DEF Answer, Heard, Answered

LEMMA HeardType ==
    ASSUME CaptureOK
    PROVE  Heard \in BOOLEAN
BY DEF CaptureOK, Heard

\* A status that is seen after a read was heard.
LEMMA StatusIsHeardThen ==
    ASSUME Answer', status' # None, mode' # "listen-startup"
    PROVE  Heard'
BY DEF Answer, Heard, None

LEMMA HeardGrows ==
    ASSUME CaptureOK, CaptureOK', NEW phase, Captured(phase), mode' = mode, boundary' = boundary
    PROVE  Heard => Heard'
<1>1. CASE mode = "listen-startup"
  BY <1>1 DEF Captured, Heard
<1>2. CASE mode # "listen-startup"
  <2>1. echo >= EchoLen => echo' >= EchoLen
    BY Numbers DEF CaptureOK, Captured
  <2> QED
    BY <1>2, <2>1 DEF Captured, Heard
<1> QED
  BY <1>1, <1>2

LEMMA ReasonStep ==
    ASSUME IInv, Next
    PROVE  Reason'
<1>1. /\ TypesOK /\ Reason /\ Answer /\ mode' = mode /\ success \in BOOLEAN
  BY ModeKept DEF IInv, TypesOK, ProgramOK
<1>2. CASE success' = FALSE
  BY <1>2 DEF Reason, HonestSuccess
<1>3. CASE success' = success /\ pc \notin {"close", "done"}
  BY <1>1, <1>2, <1>3 DEF Reason
<1>4. CASE ListenEnds
  <2>1. /\ pc' \in {"preTx", "close"} /\ (pc' = "preTx" => mode = "status-repeat" /\ ~Answered)
        /\ UNCHANGED <<boundary, rx, buffer, ack, nak, status, startup, frames, echo, ackFrom>>
        /\ success' = WindowVerdict
    BY <1>4 DEF ListenEnds
  <2>2. Heard' = Heard
    BY <1>1, <2>1 DEF Heard
  <2>3. CASE mode \in {"direct-test", "status-repeat"}
    <3>1. success' => status # None /\ ~nak
      BY <2>1, <2>3 DEF WindowVerdict
    <3>2. success' => Heard /\ Answered
      BY <1>1, <2>3, <3>1, StatusIsHeard
    <3> QED
      BY <1>1, <2>1, <2>2, <2>3, <3>1, <3>2 DEF Reason, HonestSuccess, None
  <2>4. CASE mode = "loopback"
    <3>1. success' => echo = EchoLen
      BY <2>1, <2>4 DEF WindowVerdict
    <3>2. EchoLen >= EchoLen
      BY Numbers
    <3>3. success' => Heard
      BY <2>4, <3>1, <3>2 DEF Heard
    <3> QED
      BY <1>1, <2>1, <2>2, <2>4, <3>3 DEF Reason, HonestSuccess, Asks
  <2>5. CASE mode \notin {"direct-test", "status-repeat", "loopback"}
    BY <1>2, <2>1, <2>5 DEF WindowVerdict
  <2> QED
    BY <2>3, <2>4, <2>5
<1>5. CASE Close
  <2>1. /\ pc = "close" /\ pc' = "done" /\ (mode = "reset" => success' = ResetObserved)
        /\ mode # "reset" => success' = success \/ success' = Final(~open')
        /\ mode \notin {"reset", "probe"} => success' = Final(~open')
        /\ UNCHANGED <<boundary, rx, buffer, ack, nak, status, startup, frames, echo, ackFrom>>
    BY <1>5 DEF Close
  <2>2. Heard' = Heard
    BY <1>1, <2>1 DEF Heard
  <2>3. CASE mode = "reset"
    <3>1. success' => ack
      BY <2>1, <2>3 DEF ResetObserved
    <3>2. success' => Heard
      BY <2>3, <3>1 DEF Heard
    <3> QED
      BY <1>1, <2>1, <2>2, <2>3, <3>2 DEF Reason, HonestSuccess, Asks
  <2>4. CASE mode # "reset"
    <3>1. success' => success /\ (mode # "probe" => ~open')
      BY <1>1, <2>1, <2>4 DEF Final
    <3> QED
      BY <1>1, <2>1, <2>2, <3>1 DEF Reason, HonestSuccess, None
  <2> QED
    BY <2>3, <2>4
<1>6. ASSUME NEW data \in Data, Passive(data) PROVE Reason'
  <2>1. \/ success' \in {success, FALSE} /\ pc = "passive"
        \/ pc' = "close" /\ mode = "listen-startup" /\ startup' /\ success' = TRUE
    BY <1>1, <1>6, PassiveCases
  <2>2. CASE pc' = "close" /\ mode = "listen-startup" /\ startup' /\ success' = TRUE
    BY <1>1, <2>2 DEF Reason, HonestSuccess, Heard, Asks
  <2> QED
    BY <1>2, <1>3, <2>1, <2>2
<1>7. ASSUME NEW data \in Data, Listen(data) PROVE Reason'
  <2>1. /\ pc = "listen" /\ pc' \in {"listen", "close"} /\ success' \in BOOLEAN
        /\ \/ success' = success
           \/ /\ pc' = "close"
              /\ success' => success \/ (mode = "status" /\ status' # None /\ ~nak') \/ (mode = "probe" /\ ack')
    BY <1>1, <1>7, ListenCases
  <2>2. ~success
    BY <1>1, <2>1 DEF Reason
  <2>3. CASE success' /\ pc' = "close" /\ mode = "status" /\ status' # None /\ ~nak'
    <3>1. Heard'
      BY <1>1, <2>3, AnswerStep, StatusIsHeardThen
    <3> QED
      BY <1>1, <2>3, <3>1 DEF Reason, HonestSuccess, None
  <2>4. CASE success' /\ pc' = "close" /\ mode = "probe" /\ ack'
    BY <1>1, <2>4 DEF Reason, HonestSuccess, Heard, Asks
  <2> QED
    BY <1>2, <1>3, <2>1, <2>2, <2>3, <2>4
<1>8. CASE Gates \/ Open \/ Prepare \/ Write \/ WriteRaises \/ FlushReturns \/ TimerFires \/ TimerJoined \/ Fails
  BY <1>3, <1>8 DEF Gates, Open, Prepare, Write, WriteRaises, FlushReturns, TimerFires, TimerRuns,
                   TimerJoined, Fails
<1>9. CASE Tick \/ (\E m \in {"power", "complete"} : Confirm(m)) \/ (\E data \in Data : PreRead(data))
  BY <1>3, <1>9 DEF Tick, Confirm, PreRead
<1>10. CASE UNCHANGED vars
  BY <1>1, <1>10 DEF vars, Reason, HonestSuccess, Heard, None
<1> QED
  BY <1>4, <1>5, <1>6, <1>7, <1>8, <1>9, <1>10, Moves DEF Quiet, Reads

LEMMA PatienceStep ==
    ASSUME IInv, Next
    PROVE  Patience'
<1>1. /\ Patience /\ waited \in Nat /\ writes \in Nat /\ age \in 0..2 /\ ack \in BOOLEAN /\ mode' = mode
  BY ModeKept DEF IInv, TypesOK, ProgramOK, CaptureOK
<1>2. CASE /\ UNCHANGED <<waited, writes>>
           /\ pc' \in {"flush", "joining"} => pc \in {"flush", "joining"}
           /\ pc' = "listen" => pc = "listen" /\ age' = age /\ (ack => ack')
           /\ pc' \in {"gates", "opening", "passive", "preTx", "write"}
                => pc \in {"gates", "opening", "passive", "preTx", "write"} \/ mode # "probe"
  <2>1. CASE mode # "probe"
    BY <1>1, <1>2, <2>1 DEF Patience
  <2>2. CASE mode = "probe"
    BY <1>1, <1>2, <2>2 DEF Patience
  <2> QED
    BY <2>1, <2>2
<1>3. CASE Write \/ WriteRaises
  <2>1. /\ pc = "write" /\ writes' = writes + 1 /\ waited' = waited
        /\ \/ pc' = "close"
           \/ pc' = (IF mode = "probe" THEN "listen" ELSE "flush") /\ age' = 0
    BY <1>3 DEF Write, WriteRaises
  <2>2. CASE mode # "probe"
    <3>1. waited <= 2 * writes
      BY <1>1, <2>2 DEF Patience
    <3>2. \A v, w \in Nat : v <= 2 * w => v <= 2 * (w + 1) /\ v + 2 <= 2 * (w + 1)
      OBVIOUS
    <3>3. waited <= 2 * (writes + 1) /\ waited + 2 <= 2 * (writes + 1)
      BY <1>1, <3>1, <3>2
    <3> QED
      BY <1>1, <2>1, <2>2, <3>3 DEF Patience
  <2>3. CASE mode = "probe"
    BY <1>1, <2>1, <2>3 DEF Patience
  <2> QED
    BY <2>2, <2>3
<1>4. CASE TimerJoined
  <2>1. pc \in {"flush", "joining"} /\ pc' \in {"listen", "close"} /\ age' = 0 /\ UNCHANGED <<waited, writes>>
    BY <1>4 DEF TimerJoined
  <2>2. mode # "probe"
    BY <1>1, <2>1 DEF Patience
  <2> QED
    BY <1>1, <2>1, <2>2 DEF Patience
<1>5. CASE Tick
  <2>1. /\ pc \in {"passive", "listen"} /\ pc' = pc /\ age' = age + 1 /\ age < 2
        /\ waited' = (IF pc = "listen" THEN waited + 1 ELSE waited) /\ UNCHANGED <<writes, ack>>
    BY <1>5 DEF Tick
  <2>2. CASE mode # "probe"
    BY <1>1, <2>1, <2>2 DEF Patience
  <2>3. CASE mode = "probe"
    BY <1>1, <2>1, <2>3 DEF Patience
  <2> QED
    BY <2>2, <2>3
<1>6. ASSUME NEW data \in Data, Passive(data) PROVE Patience'
  <2>1. pc = "passive" /\ pc' \in {"passive", "close", "preTx"} /\ UNCHANGED <<waited, writes>>
    BY <1>6, PassiveCases DEF Passive, IInv
  <2> QED
    BY <1>2, <2>1
<1>7. ASSUME NEW data \in Data, PreRead(data) PROVE Patience'
  BY <1>2, <1>7 DEF PreRead
<1>8. ASSUME NEW data \in Data, Listen(data) PROVE Patience'
  <2>1. /\ pc = "listen" /\ age < 2 /\ age' = (IF mode = "probe" /\ ~ack /\ ack' THEN 0 ELSE age)
        /\ pc' \in {"listen", "close"} /\ UNCHANGED <<waited, writes>>
        /\ ack => ack'
    BY <1>8, ListenCases, ReadStep DEF Listen, IInv, Captured, Reads
  <2>2. CASE mode = "probe" /\ ~ack /\ ack'
    BY <1>1, <2>1, <2>2 DEF Patience
  <2>3. CASE ~(mode = "probe" /\ ~ack /\ ack')
    BY <1>2, <2>1, <2>3
  <2> QED
    BY <2>2, <2>3
<1>9. CASE Gates \/ Open \/ Prepare \/ FlushReturns \/ TimerFires \/ ListenEnds \/ Close \/ Fails
  <2>1. CASE Prepare
    BY <1>2, <2>1 DEF Prepare
  <2>2. CASE TimerFires
    BY <1>2, <2>2 DEF TimerFires, TimerRuns
  <2> QED
    BY <1>2, <1>9, <2>1, <2>2 DEF Gates, Open, First, FlushReturns, ListenEnds, Close, Fails
<1>10. CASE (\E m \in {"power", "complete"} : Confirm(m)) \/ UNCHANGED vars
  BY <1>2, <1>10 DEF Confirm, vars
<1> QED
  BY <1>3, <1>4, <1>5, <1>6, <1>7, <1>8, <1>9, <1>10, Moves DEF Quiet, Reads

LEMMA UnheardStep ==
    ASSUME IInv, Next
    PROVE  Unheard'
<1>1. /\ Unheard /\ TypesOK /\ CaptureOK /\ mode' = mode /\ Budget /\ writes \in Nat /\ None' = None
  BY ModeKept DEF IInv, TypesOK, ProgramOK, None
<1> DEFINE Deaf == {"gates", "opening", "preTx", "write"}
           Fresher == pc \in {"gates", "opening", "passive"} \/ (pc = "preTx" /\ writes = 0)
<1>2. CASE /\ UNCHANGED <<ack, nak, startup, frames, echo, boundary>>
           /\ pc' \in Deaf => pc \in Deaf \/ (pc = "passive" /\ mode # "listen-startup")
           /\ pc' = "passive" => pc \in Deaf \cup {"passive"}
           /\ Fresher' => Fresher
  <2>1. Heard' = Heard
    BY <1>1, <1>2 DEF Heard
  <2> QED
    BY <1>1, <1>2, <2>1 DEF Unheard
<1>3. CASE Open
  <2>1. pc = "opening" /\ pc' \in {"passive", "preTx"} /\ UNCHANGED <<ack, nak, startup, frames, echo, boundary, writes>>
    BY <1>3 DEF Open, First
  <2> QED
    BY <1>2, <2>1
<1>4. CASE Prepare
  <2>1. /\ pc = "preTx" /\ pc' = "write" /\ boundary' = rx /\ ~ack' /\ ~nak' /\ UNCHANGED <<startup, frames, echo>>
    BY <1>4 DEF Prepare
  <2>2. ~Heard /\ mode # "listen-startup"
    BY <1>1, <2>1, Limits DEF Unheard, Budget
  <2>3. \A f \in frames : f.at \in Nat /\ f.at < rx /\ rx \in Nat
    BY <1>1, Numbers DEF CaptureOK
  <2>4. \A f \in frames : ~(f.at >= rx)
    BY <2>3
  <2>5. ~Heard'
    BY <1>1, <2>1, <2>2, <2>4 DEF Heard
  <2> QED
    BY <1>1, <2>1, <2>5 DEF Unheard
<1>5. CASE ListenEnds
  <2>1. /\ pc' \in {"preTx", "close"} /\ (pc' = "preTx" => mode = "status-repeat" /\ ~Answered)
        /\ UNCHANGED <<boundary, ack, nak, startup, frames, echo, writes>> /\ pc = "listen"
    BY <1>5 DEF ListenEnds
  <2>2. writes >= 1 /\ writes # 0
    BY <1>1, <2>1 DEF Budget, Waiting
  <2>3. pc' = "preTx" => ~Heard'
    <3>1. SUFFICES ASSUME pc' = "preTx" PROVE ~Heard'
      OBVIOUS
    <3>2. mode = "status-repeat" /\ ~Answered /\ echo = 0 /\ ~(echo >= EchoLen)
      BY <1>1, <2>1, <3>1, Numbers DEF Unheard
    <3> QED
      BY <1>1, <2>1, <3>2 DEF Heard, Answered
  <2> QED
    BY <1>1, <2>1, <2>2, <2>3 DEF Unheard
<1>6. ASSUME NEW data \in Data, Passive(data) \/ PreRead(data) PROVE Unheard'
  <2>1. /\ pc \in {"passive", "preTx"} /\ pc' \in {"passive", "close", "preTx"} /\ UNCHANGED <<boundary, writes>>
        /\ pc = "preTx" => pc' = pc /\ writes = 0
        /\ pc = "passive" /\ pc' = "preTx" => mode = "direct-test"
    BY <1>1, <1>6, PassiveCases DEF Passive, PreRead
  <2>2. CaptureOK' /\ Captured(Phase) /\ Phase # "post_tx"
    BY <1>1, <1>6, <2>1, ReadStep DEF Phase, Reads
  <2>3. ack' = ack /\ nak' = nak /\ echo' = echo
    BY <2>2 DEF Captured
  <2>4. boundary = None /\ boundary' = None
    BY <1>1, <2>1 DEF Unheard
  <2>5. \A f \in frames' : ~(f.at >= None)
    <3>1. \A f \in frames' : f.at \in Nat /\ f.at < rx' /\ rx' \in Nat /\ rx' <= MaxRx
      BY <2>2, Numbers DEF CaptureOK
    <3> QED
      BY <3>1, Numbers
  <2>6. mode # "listen-startup" => ~Heard'
    <3>1. SUFFICES ASSUME mode # "listen-startup" PROVE ~Heard'
      OBVIOUS
    <3>2. ~Heard
      BY <1>1, <2>1, <3>1 DEF Unheard
    <3> QED
      BY <1>1, <2>3, <2>4, <2>5, <3>1, <3>2 DEF Heard
  <2>7. pc' = "preTx" => mode # "listen-startup"
    BY <1>1, <2>1, Limits DEF Budget
  <2> QED
    BY <1>1, <2>1, <2>3, <2>4, <2>6, <2>7 DEF Unheard
<1>7. ASSUME NEW data \in Data, Listen(data) PROVE Unheard'
  <2>1. pc' \in {"listen", "close"} /\ (mode # "loopback" => echo' = echo)
    BY <1>1, <1>7, ListenCases, ReadStep DEF Captured, Reads
  <2> QED
    BY <1>1, <2>1 DEF Unheard
<1>8. CASE Gates \/ Write \/ WriteRaises \/ FlushReturns \/ TimerFires \/ TimerJoined \/ Close \/ Fails
  BY <1>2, <1>8 DEF Gates, Write, WriteRaises, FlushReturns, TimerFires, TimerRuns, TimerJoined, Close, Fails
<1>9. CASE Tick \/ (\E m \in {"power", "complete"} : Confirm(m)) \/ UNCHANGED vars
  BY <1>2, <1>9 DEF Tick, Confirm, vars
<1> QED
  BY <1>3, <1>4, <1>5, <1>6, <1>7, <1>8, <1>9, Moves DEF Quiet, Reads

-----------------------------------------------------------------------------
(* Theorems.                                                               *)

\* Every part of the invariant holds at the start.
LEMMA Start ==
    ASSUME Init
    PROVE  IInv
<1>1. /\ mode \in Mode /\ confirmed \in BOOLEAN /\ samePath \in BOOLEAN
      /\ markers \subseteq {"power", "complete"} /\ acts = {} /\ onFor = 0
      /\ pc = "gates" /\ open = FALSE /\ age = 0 /\ powered = FALSE /\ complete = FALSE
      /\ rx = 0 /\ buffer = <<>> /\ boundary = None
      /\ ack = FALSE /\ nak = FALSE /\ status = None /\ startup = FALSE /\ frames = {} /\ echo = 0
      /\ expired = FALSE /\ tx \in {"unknown", "none"} /\ error = FALSE /\ success = FALSE
      /\ writes = 0 /\ ackFrom = None /\ waited = 0
  BY DEF Init
<1>2. ArgumentsOK
  BY <1>1 DEF ArgumentsOK
<1>3. ProgramOK
  <2>1. None \in Offset /\ 0 \in 0..2 /\ 0 \in Nat
    BY Numbers
  <2> QED
    BY <1>1, <2>1 DEF ProgramOK, Places
<1>4. CaptureOK
  <2>1. <<>> \in Seq(Unit) /\ Len(<<>>) = 0
    BY EmptySeq
  <2>2. None \in Offset /\ 0 \in 0..MaxRx /\ 0 \in 0..EchoLen + 1
    BY Numbers
  <2>3. buffer \in Seq(Unit) /\ Len(buffer) < 5 /\ Len(buffer) <= rx
    BY <1>1, <2>1
  <2>4. frames \subseteq [kind : Kind, at : Offset] /\ \A f \in frames : f.at < rx
    BY <1>1
  <2> QED
    BY <1>1, <2>2, <2>3, <2>4, Zenon DEF CaptureOK
<1>5. Agreed /\ Timed /\ Counted /\ Answer /\ Handle
  BY <1>1 DEF Agreed, Timed, Counted, Answer, Handle, Waiting
<1>6. Budget
  BY <1>1, Limits DEF Budget, Waiting
<1>7. Reason
  BY <1>1 DEF Reason, HonestSuccess
<1>8. Patience
  BY <1>1 DEF Patience
<1>9. Unheard
  <2>1. ~Heard
    BY <1>1, Numbers DEF Heard
  <2> QED
    BY <1>1, <2>1 DEF Unheard
<1> QED
  BY <1>2, <1>3, <1>4, <1>5, <1>6, <1>7, <1>8, <1>9 DEF IInv, TypesOK

LEMMA Stutter ==
    ASSUME IInv, UNCHANGED vars
    PROVE  IInv'
BY DEF vars, IInv, TypesOK, ArgumentsOK, ProgramOK, CaptureOK, Agreed, Budget, Timed, Counted, Answer,
       Reason, HonestSuccess, Handle, Patience, Unheard, Heard, Limit, None, Offset

\* The invariant, from which the theorems below follow.
THEOREM Invariance == Spec => []IInv
<1>1. Init => IInv
  BY Start
<1>2. IInv /\ [Next]_vars => IInv'
  <2>1. SUFFICES ASSUME IInv, Next PROVE IInv'
    BY Stutter
  <2>2. TypesOK'
    BY <2>1, ArgumentsStep, ProgramStep, CaptureStep DEF TypesOK, IInv
  <2> QED
    BY <2>1, <2>2, AgreedStep, BudgetStep, TimedStep, CountedStep, AnswerStep, ReasonStep, HandleStep,
       PatienceStep, UnheardStep DEF IInv
<1> QED
  BY <1>1, <1>2, PTL DEF Spec

\* The variables have their types: no more requests than attempts, no offset behind what
\* was read, and a buffer shorter than a telegram.
THEOREM TypeCorrect == Spec => []TypeOK
<1>1. ASSUME IInv PROVE TypeOK
  <2>1. writes \in 0..Attempts
    BY <1>1, Limits, Numbers DEF IInv, TypesOK, ProgramOK, Budget
  <2> QED
    BY <1>1, <2>1 DEF IInv, TypesOK, ArgumentsOK, ProgramOK, CaptureOK, TypeOK, Places
<1> QED
  BY <1>1, Invariance, PTL

\* Nothing is written before the operator has agreed: the passive mode never writes, and
\* direct-test only after both files and a whole startup window (run_diagnostic).
THEOREM WritesAreGated == Spec => []GatedWrite
<1>1. ASSUME IInv PROVE GatedWrite
  <2>1. SUFFICES ASSUME writes > 0
                 PROVE  /\ mode # "listen-startup"
                        /\ mode \in NeedsConsent => confirmed
                        /\ mode = "direct-test" => acts = {"power", "complete"} /\ onFor >= 1
    BY DEF GatedWrite
  <2>2. writes \in Nat /\ writes # 0 /\ Budget /\ Agreed /\ Timed
    BY <1>1, <2>1 DEF IInv, TypesOK, ProgramOK
  <2>3. mode # "listen-startup"
    BY <2>1, <2>2, Limits DEF Budget
  <2>4. pc \notin {"gates", "refused"}
    BY <2>2 DEF Budget
  <2> QED
    BY <2>1, <2>2, <2>3, <2>4 DEF Agreed, Timed
<1> QED
  BY <1>1, Invariance, PTL

\* What the report says of the answer, of the bytes sent and of the port is true,
\* whatever arrived, failed or was interrupted (Capture.process, run_diagnostic).
THEOREM ReportIsHonest == Spec => []HonestReport
<1>1. IInv => HonestReport
  BY DEF IInv, Reason, Answer, Counted, HonestReport, FreshAnswer, HonestTx, HonestSuccess, Asks
<1> QED
  BY <1>1, Invariance, PTL

\* The timer of the flush never closes the handle behind the program's back.
THEOREM HandleIsOwned == Spec => []ListenerOwnsHandle
<1>1. IInv => ListenerOwnsHandle
  BY DEF IInv, Handle, ListenerOwnsHandle
<1> QED
  BY <1>1, Invariance, PTL

\* The answer is awaited for a bounded time, however much noise and however many ACKs
\* arrive.
THEOREM ListenIsBounded == Spec => []BoundedListen
<1>1. ASSUME IInv PROVE BoundedListen
  <2>1. Patience /\ writes \in Nat /\ waited \in Nat
    BY <1>1 DEF IInv, TypesOK, ProgramOK
  <2>2. 2 * writes = writes * 2 /\ 2 * 2 = 4
    BY <2>1
  <2> QED
    BY <2>1, <2>2 DEF Patience, BoundedListen
<1> QED
  BY <1>1, Invariance, PTL

-----------------------------------------------------------------------------
(* Every mode keeps the promise of Exchange.                               *)

LEMMA SameVerdict ==
    ASSUME pc \notin {"done", "refused"}, pc' \notin {"done", "refused"}
    PROVE  Verdict = "none" /\ Verdict' = "none"
BY DEF Verdict

\* A step that is not seen.
LEMMA NotSeen ==
    ASSUME Limit' = Limit, writes' = writes, Heard' = Heard, Verdict' = Verdict
    PROVE  UNCHANGED Ex!vars
BY DEF Ex!vars

LEMMA StepRefines ==
    ASSUME IInv, IInv', [Next]_vars
    PROVE  [Ex!Next]_Ex!vars
<1>1. CASE UNCHANGED vars
  <2>1. Limit' = Limit /\ writes' = writes /\ Heard' = Heard /\ Verdict' = Verdict
    BY <1>1 DEF vars, Limit, Heard, Verdict
  <2> QED
    BY <2>1, NotSeen
<1>2. SUFFICES ASSUME Next PROVE [Ex!Next]_Ex!vars
  BY <1>1
<1>3. /\ mode' = mode /\ Limit' = Limit /\ TypesOK /\ Budget /\ Reason /\ Unheard
      /\ CaptureOK /\ CaptureOK' /\ writes \in Nat /\ success \in BOOLEAN
  BY <1>2, ModeKept DEF Limit, IInv, TypesOK, ProgramOK
<1>4. Heard \in BOOLEAN /\ Heard' \in BOOLEAN
  BY <1>3 DEF CaptureOK, Heard
<1>5. CASE /\ UNCHANGED <<ack, nak, startup, frames, echo, boundary, writes>>
           /\ pc \notin {"done", "refused"} /\ pc' \notin {"done", "refused"}
  <2>1. Heard' = Heard
    BY <1>3, <1>5 DEF Heard
  <2> QED
    BY <1>3, <1>5, <2>1, SameVerdict, NotSeen
<1>6. CASE Gates
  <2>1. /\ pc = "gates" /\ pc' \in {"opening", "refused"} /\ success' = success
        /\ UNCHANGED <<ack, nak, startup, frames, echo, boundary, writes>>
    BY <1>6 DEF Gates
  <2>2. CASE pc' = "opening"
    BY <1>5, <2>1, <2>2
  <2>3. CASE pc' = "refused"
    <3>1. ~success /\ Verdict = "none" /\ Verdict' = "failure"
      BY <1>3, <2>1, <2>3 DEF Reason, Verdict
    <3>2. Heard' = Heard /\ (Limit - writes)' = Limit - writes
      BY <1>3, <2>1 DEF Heard
    <3> QED
      BY <3>1, <3>2 DEF Ex!Next, Ex!Conclude
  <2> QED
    BY <2>1, <2>2, <2>3
<1>7. CASE Write \/ WriteRaises
  <2>1. /\ pc = "write" /\ pc' \in {"listen", "flush", "close"} /\ writes' = writes + 1
        /\ UNCHANGED <<ack, nak, startup, frames, echo, boundary>>
    BY <1>7 DEF Write, WriteRaises
  <2>2. Heard' = Heard /\ ~Heard /\ Verdict = "none" /\ Verdict' = "none"
    BY <1>3, <2>1, SameVerdict DEF Heard, Unheard
  <2>3. Limit - writes > 0 /\ (Limit - writes)' = Limit - writes - 1
    BY <1>3, <2>1, Limits DEF Budget
  <2> QED
    BY <2>2, <2>3 DEF Ex!Next, Ex!Send
<1>8. CASE Close
  <2>1. /\ pc = "close" /\ pc' = "done" /\ UNCHANGED <<ack, nak, startup, frames, echo, boundary, writes>>
    BY <1>8 DEF Close
  <2>2. Heard' = Heard /\ Verdict = "none" /\ (Limit - writes)' = Limit - writes
    BY <1>3, <2>1 DEF Heard, Verdict
  <2>3. Verdict' \in {"failure"} \cup (IF Heard THEN {"success"} ELSE {})
    <3>1. success' => Heard'
      BY DEF IInv, Reason
    <3> QED
      BY <2>1, <2>2, <3>1 DEF Verdict
  <2> QED
    BY <2>2, <2>3 DEF Ex!Next, Ex!Conclude
<1>9. ASSUME NEW data \in Data, Reads(data) PROVE [Ex!Next]_Ex!vars
  <2>1. /\ pc \in {"passive", "preTx", "listen"} /\ pc' \in {"passive", "preTx", "listen", "close"}
        /\ UNCHANGED <<boundary, writes>>
    BY <1>3, <1>9, PassiveCases, ListenCases DEF Reads, Passive, PreRead, Listen
  <2>2. Heard => Heard'
    BY <1>3, <1>9, <2>1, ReadStep, HeardGrows
  <2>3. Verdict = "none" /\ Verdict' = "none" /\ (Limit - writes)' = Limit - writes
    BY <1>3, <2>1, SameVerdict
  <2>4. CASE Heard' = Heard
    BY <1>3, <2>1, <2>3, <2>4, NotSeen
  <2>5. CASE Heard' = TRUE
    BY <2>3, <2>5 DEF Ex!Next, Ex!Hear
  <2> QED
    BY <1>4, <2>2, <2>4, <2>5
<1>10. CASE Prepare
  <2>1. pc = "preTx" /\ pc' = "write" /\ writes' = writes
    BY <1>10 DEF Prepare
  <2>2. ~Heard /\ ~Heard'
    BY <1>3, <2>1 DEF Unheard, IInv
  <2> QED
    BY <1>3, <1>4, <2>1, <2>2, SameVerdict, NotSeen
<1>11. CASE Open \/ FlushReturns \/ TimerFires \/ TimerJoined \/ ListenEnds \/ Fails
  BY <1>5, <1>11 DEF Open, First, FlushReturns, TimerFires, TimerRuns, TimerJoined, ListenEnds, Fails
<1>12. CASE Tick \/ \E m \in {"power", "complete"} : Confirm(m)
  BY <1>5, <1>12 DEF Tick, Confirm
<1> QED
  BY <1>1, <1>2, <1>6, <1>7, <1>8, <1>9, <1>10, <1>11, <1>12, Moves DEF Quiet

\* Each mode sends no more telegrams than it may, none once anything was heard from the
\* scanner, and reports success only of an exchange in which something was.
THEOREM ImplementsExchange == Spec => KeepsExchange
<1>1. ASSUME Init PROVE Ex!Init
  <2>1. IInv /\ pc = "gates" /\ writes = 0
    BY <1>1, Start DEF Init
  <2>2. Limit - writes \in Nat /\ Verdict = "none"
    BY <2>1, Limits DEF Verdict
  <2>3. Heard = FALSE
    BY <2>1, HeardType DEF IInv, TypesOK, Unheard
  <2> QED
    BY <2>2, <2>3 DEF Ex!Init
<1>2. IInv /\ IInv' /\ [Next]_vars => [Ex!Next]_Ex!vars
  BY StepRefines
<1> QED
  BY <1>1, <1>2, Invariance, PTL DEF Spec, KeepsExchange, Ex!Spec

=============================================================================
