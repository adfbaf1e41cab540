--------------------------- MODULE SessionProofs ---------------------------
(***************************************************************************)
(* What holds of the session for any rates, attempts, queue and amount of  *)
(* trouble: its types in every session; and in one that began with nothing *)
(* on its way, and in the one after it, that a stream is verified, that a  *)
(* confirmed stop is one and that nothing is written needlessly.           *)
(***************************************************************************)
EXTENDS Session, SequenceTheorems, WellFoundedInduction, TLAPS

-----------------------------------------------------------------------------
(* What is on its way: the ids of the events, of the replies on the line,  *)
(* and of the replies that the telegrams on the line are going to have.    *)

Commands == Reads \cup Mutations
Ids == {"ack", "nak", "A0", "B1", "BA", "F4", "BB", "F7", "92"}
Neutral == {"ack", "nak", "92"}

IdsOf(q) == [i \in 1..Len(q) |-> q[i].r]
Awaited(u) == [i \in 1..Len(u) |-> ResponseId(u[i])]

\* The id of step s, and the ids that earlier steps may have left on their way to it: only
\* reads are retried, and the reply of the step after a read comes behind all of its own.
Own(s) == IF s \in Commands THEN {ResponseId(s)} ELSE {}
Left(s) ==
    CASE s \in {"type", "variant", "write", "readback", "requiesce"} -> {"B1"}
      [] s = "config" -> {"BA"}
      [] s \in {"connected", "quiesce", "verifyStatus"} -> {"F4"}
      [] s \in {"stop", "closed"} -> {"B1", "BA", "F4", "BB", "F7"}
      [] OTHER -> {}

\* What must not come behind the reply of step s; a mutation is sent once and nothing after it.
Barred(s) == IF s \in Mutations THEN Ids ELSE Left(s)

Has(q, A) == \E i \in 1..Len(q) : q[i] \in A
Follows(q, A, B) == \A i, j \in 1..Len(q) : i < j /\ q[i] \in A => q[j] \notin B

Ranked(A, B, E, D, U) ==
    /\ Follows(E, A, B) /\ Follows(D, A, B) /\ Follows(U, A, B)
    /\ Has(E, A) => ~Has(D, B) /\ ~Has(U, B)
    /\ Has(D, A) => ~Has(U, B)

\* What is on its way belongs to step s, or was left by a read and comes before.
Tidy(s, ph, E, D, U) ==
    /\ LET K == Neutral \cup Own(s) \cup Left(s) IN E \in Seq(K) /\ D \in Seq(K) /\ U \in Seq(K)
    /\ Ranked(Own(s), Barred(s), E, D, U)
    /\ ph = "send" /\ s \in Mutations => ~Has(E, Own(s)) /\ ~Has(D, Own(s)) /\ ~Has(U, Own(s))

-----------------------------------------------------------------------------
(* The invariant.                                                          *)

\* The attempts of a command.
Trying == /\ phase = "wait" => step \in Commands /\ attempt >= 1 /\ attempt <= Attempts(step)
          /\ phase = "send" /\ step \in Commands => attempt < Attempts(step)

\* A status reports a rate, and a rate is set only if there is one to be set.
Reported == {e \in Events : e.r = "B1" => e.baud \in Bauds}
Rated == /\ events \in Seq(Reported) /\ down \in Seq(Reported)
         /\ up \in Seq(IF target = 0 THEN Commands \ {"baud"} ELSE Commands)
         /\ step = "baud" => target # 0

TypeInv == TypeOK /\ Trying /\ Rated

\* A session whose replies are its own: it began with nothing on its way, or is the one after
\* such a session and has its configuration.  This until an A0 command is left unanswered or it
\* ends otherwise than with a confirmed stop.
Opening == {"status", "type", "config"}
Begun == fresh \/ (after /\ step \notin Opening)
Settled == ~unanswered /\ (step = "closed" => confirmed)
Clean == Begun /\ Settled

\* While the scanner is only read the host has changed nothing, and there is nothing to stop.
Unchanged == step \in Opening \cup {"closed"} => ~changed

\* What is on its way has its ids in K, and nothing of B comes behind an id of A.
Carries(K, A, B) ==
    /\ IdsOf(events) \in Seq(Neutral \cup K) /\ IdsOf(down) \in Seq(Neutral \cup K)
    /\ Awaited(up) \in Seq(Neutral \cup K)
    /\ Ranked(A, B, IdsOf(events), IdsOf(down), Awaited(up))
Holds(K) == Carries(K, {}, {})

\* What a session that began with nothing on its way may leave: it ends in its opening, or it
\* has taken the type and there is no other on its way.
Leftover ==
    fresh => /\ step = "stop" => Holds(Ids \ {"BA"})
             /\ step = "closed" => Holds({"B1", "BA"}) \/ Holds({"BA", "F4"}) \/ Holds(Ids \ {"BA"})

\* What of it is on its way to the next session: what was left comes before the first reply of
\* its own that differs, and is behind it when the configuration is read.
Inherits ==
    after /\ ~fresh =>
      /\ step = "status" => \/ Holds({"B1", "BA"}) \/ Holds(Ids \ {"BA"})
                            \/ Carries({"B1", "BA", "F4"}, {"B1"}, {"BA", "F4"})
      /\ step = "type" => \/ Holds({"B1", "BA"})
                          \/ Carries(Ids, {"BA"}, Ids \ (Neutral \cup {"BA"}))
      /\ step = "config" => Carries({"B1", "BA", "F4"}, {"F4"}, {"B1", "BA"})

\* What the host read of the configuration, and is about to, is true if it matches.
Configured == {e \in Events : e.r = "F4" /\ e.config => config}
Believed == events \in Seq(Configured) /\ down \in Seq(Configured) /\ (conf => config)

\* Behind an unanswered A0 command, and a confirmed stop, there is only the cleanup.
Behind == /\ unanswered => step \in {"stop", "closed"}
          /\ confirmed => step = "closed"

\* What is on its way is tidy, and an A0 command is the step's.
Mine == {t \in Commands : ResponseId(t) = "A0" => t = step}
InOrder == Tidy(step, phase, IdsOf(events), IdsOf(down), Awaited(up)) /\ up \in Seq(Mine)

\* A positive report is still true.
Truthful == {e \in Events : e.r = "B1" /\ e.geometry => geometry}
Truth == events \in Seq(Truthful) /\ down \in Seq(Truthful)

\* So is a negative one, as long as nothing was written.
Lacking == {e \in Events : /\ step = "status" /\ e.r = "B1" /\ ~e.geometry => ~geometry
                           /\ step = "config" /\ e.r = "F4" /\ ~e.config => ~config}
Known == {"connected", "quiesce", "requiesce", "start", "streaming", "faulted"}
Planned == {"install", "baud", "rebaudStatus", "variant"}
Unwritten ==
    /\ step \in Known \cup {"type", "config"} /\ ~info.geometry => ~geometry
    /\ step \in Known /\ ~conf => ~config
    /\ step \in Planned /\ (step = "variant" => phase = "send") /\ plan.geometry => ~geometry
    /\ step \in Planned \cup {"write"} /\ (step = "write" => phase = "send") /\ plan.config => ~config
    /\ step = "variant" => plan.geometry
    /\ step = "write" => plan.config
Lack == events \in Seq(Lacking) /\ down \in Seq(Lacking) /\ Unwritten

\* The scanner did what an A0 that is on its way, or was taken, confirms.
Applied(s) == /\ s \in {"quiesce", "requiesce", "stop", "closed"} => mode = "request"
              /\ s \in {"start", "streaming"} => mode = "continuous" /\ baud = hostBaud
Idle == events = <<>> /\ down = <<>> /\ up = <<>>
Effect == /\ Has(IdsOf(events), {"A0"}) \/ Has(IdsOf(down), {"A0"}) => Applied(step)
          /\ step \in {"streaming", "closed"} => Idle /\ Applied(step)
          /\ step \in {"requiesce", "start", "streaming"} => geometry /\ config

\* Without a change of rate a variant comes behind no status, and one that is negative is true
\* in the next session too; so is the configuration that this one reads.
Denying == {e \in Events : e.r = "B1" /\ ~e.geometry => ~geometry}
Denied ==
    target = 0 /\ Separate =>
      /\ events \in Seq(Denying) /\ down \in Seq(Denying) /\ Carries(Ids, {"B1"}, {"BB"})
      /\ Clean /\ step \in {"variant", "write", "readback"} => Holds(Ids \ {"B1"})
Told ==
    target = 0 /\ after /\ ~fresh =>
      /\ step \in {"type", "config"} => ~Has(Awaited(up), {"BB"}) /\ (~info.geometry => ~geometry)
      /\ step = "config" => events \in Seq(Lacking) /\ down \in Seq(Lacking)

CleanInv == Clean => InOrder /\ Effect /\ (fresh \/ target = 0 => Lack)
LineInv == (Separate => Truth) /\ Leftover /\ Inherits
WriteInv == (target = 0 => step # "rebaudStatus") /\ Denied /\ Told
IInv == TypeInv /\ Believed /\ Behind /\ Unchanged /\ CleanInv /\ LineInv /\ WriteInv

-----------------------------------------------------------------------------
(* The commands.                                                           *)

\* The reply of each command.
LEMMA Replies ==
    /\ \A s \in Commands : ResponseId(s) \in Ids \ Neutral
    /\ \A s \in {"status", "rebaudStatus", "verifyStatus"} : ResponseId(s) = "B1"
    /\ ResponseId("type") = "BA"
    /\ ResponseId("config") = "F4" /\ ResponseId("readback") = "F4"
    /\ \A s \in {"quiesce", "install", "baud", "requiesce", "start", "stop"} : ResponseId(s) = "A0"
    /\ ResponseId("variant") = "BB" /\ ResponseId("write") = "F7"
BY DEF ResponseId, Commands, Reads, Mutations, Ids, Neutral

\* The commands that may follow a command.
Nexts(s) ==
    CASE s = "status" -> {"type"}
      [] s = "type" -> {"config"}
      [] s = "config" -> {"quiesce"}
      [] s = "quiesce" -> {"install", "baud", "variant", "write", "readback"}
      [] s = "install" -> {"baud", "variant", "write", "readback"}
      [] s = "baud" -> {"rebaudStatus"}
      [] s = "rebaudStatus" -> {"variant", "write", "readback"}
      [] s = "variant" -> {"write", "readback"}
      [] s = "write" -> {"readback"}
      [] s = "readback" -> {"verifyStatus"}
      [] s = "verifyStatus" -> {"requiesce"}
      [] s = "requiesce" -> {"start"}
      [] s = "start" -> {"streaming"}

\* A set of numbers has a least one.
LEMMA Least ==
    ASSUME NEW W, W \subseteq Nat, W # {}
    PROVE  \E m \in W : \A n \in W : m <= n
<1>1. PICK m \in W : \A n \in W : ~(<<n, m>> \in OpToRel(<, Nat))
  BY NatLessThanWellFounded, WFMin, Zenon
<1>2. \A n \in W : ~(n < m)
  BY <1>1 DEF OpToRel
<1> QED
  BY <1>2

LEMMA Positions == DOMAIN Order = 1..14 /\ \A i \in 1..14 : Position(Order[i]) = i
<1>1. DOMAIN Order = 1..14
  BY DEF Order
<1>2. \A i, j \in 1..14 : Order[i] = Order[j] => i = j
  BY DEF Order
<1>3. \A i \in 1..14 : Position(Order[i]) = i
  <2> TAKE i \in 1..14
  <2>1. \E j \in DOMAIN Order : Order[j] = Order[i]
    BY <1>1
  <2>2. Position(Order[i]) \in DOMAIN Order /\ Order[Position(Order[i])] = Order[i]
    BY <2>1 DEF Position
  <2> QED
    BY <1>1, <1>2, <2>2
<1> QED
  BY <1>1, <1>3

\* What follows is behind the command, needed, and not behind anything else that is.
LEMMA FollowingIs ==
    ASSUME NEW b, NEW p, NEW k \in 1..13, Order[k] # "baud",
           NEW m \in 1..14, m > k, Needed(Order[m], b, p)
    PROVE  \E n \in 1..14 : /\ n > k /\ n <= m /\ Needed(Order[n], b, p)
                            /\ Following(Order[k], b, p) = Order[n]
<1> DEFINE later == {i \in DOMAIN Order : i > Position(Order[k]) /\ Needed(Order[i], b, p)}
<1>1. Position(Order[k]) = k /\ DOMAIN Order = 1..14
  BY Positions
<1>2. later \subseteq Nat /\ m \in later
  BY <1>1
<1>3. \E i \in later : \A j \in later : i <= j
  <2> HIDE DEF later
  <2> QED
    BY <1>2, Least
<1> DEFINE n == CHOOSE i \in later : \A j \in later : i <= j
<1>4. n \in later /\ \A j \in later : n <= j
  <2> HIDE DEF later
  <2> QED
    BY <1>3
<1>5. Following(Order[k], b, p) = Order[n]
  BY DEF Following
<1>6. n \in 1..14 /\ n > k /\ Needed(Order[n], b, p)
  <2> HIDE DEF n
  <2> QED
    BY <1>1, <1>4
<1>7. n <= m
  <2> HIDE DEF n, later
  <2> QED
    BY <1>2, <1>4
<1> HIDE DEF n
<1> QED
  BY <1>5, <1>6, <1>7

LEMMA NextCommand ==
    ASSUME NEW s \in Commands \ {"stop"}, NEW b, NEW p
    PROVE  /\ Following(s, b, p) \in Nexts(s)
           /\ Following(s, b, p) = "baud" => target # 0
           /\ Following(s, b, p) = "variant" => p.geometry
           /\ Following(s, b, p) = "write" => p.config
<1>1. CASE s = "baud"
  BY <1>1 DEF Following, Nexts
<1>2. CASE s # "baud"
  <2>1. /\ Order[1] = "status" /\ Order[2] = "type" /\ Order[3] = "config" /\ Order[4] = "quiesce"
        /\ Order[5] = "install" /\ Order[6] = "baud" /\ Order[7] = "rebaudStatus" /\ Order[8] = "variant"
        /\ Order[9] = "write" /\ Order[10] = "readback" /\ Order[11] = "verifyStatus"
        /\ Order[12] = "requiesce" /\ Order[13] = "start" /\ Order[14] = "streaming"
    BY DEF Order
  <2>2. PICK k \in 1..13 : Order[k] = s /\ k # 6
    BY <1>2, <2>1 DEF Commands, Reads, Mutations
  <2>3. PICK m \in 1..14 : /\ m > k /\ (m = k + 1 \/ (k \in {4, 5, 7, 8, 9} /\ m = 10))
                           /\ m \in {2, 3, 4, 10, 11, 12, 13, 14}
    <3>1. \A i \in 1..13 : i # 6 => \E j \in 1..14 :
              /\ j > i /\ (j = i + 1 \/ (i \in {4, 5, 7, 8, 9} /\ j = 10))
              /\ j \in {2, 3, 4, 10, 11, 12, 13, 14}
      <4> TAKE i \in 1..13
      <4>1. CASE i \in {4, 5, 7, 8, 9}
        <5>1. 10 \in 1..14 /\ 10 > i
          BY <4>1
        <5> QED
          BY <4>1, <5>1
      <4>2. CASE i \notin {4, 5, 6, 7, 8, 9}
        <5>1. i + 1 \in 1..14 /\ i + 1 > i /\ (i # 6 => i + 1 \in {2, 3, 4, 10, 11, 12, 13, 14})
          BY <4>2
        <5> QED
          BY <5>1
      <4> QED
        BY <4>1, <4>2
    <3> QED
      BY <2>2, <3>1
  <2>4. Needed(Order[m], b, p)
    BY <2>1, <2>3 DEF Needed
  <2>5. PICK n \in 1..14 : /\ n > k /\ n <= m /\ Needed(Order[n], b, p)
                           /\ Following(Order[k], b, p) = Order[n]
    BY <1>2, <2>2, <2>3, <2>4, FollowingIs
  <2>6. n # 7
    BY <2>1, <2>5 DEF Needed
  <2>7. /\ k \notin {4, 5, 7, 8, 9} => n = k + 1
        /\ k \in {4, 5, 7, 8, 9} => n <= 10
    BY <2>3, <2>5
  <2>8. Order[n] \in Nexts(Order[k])
    <3>1. CASE k \in {1, 2, 3, 10, 11, 12, 13}
      <4>1. n = k + 1
        BY <2>7, <3>1
      <4> QED
        BY <2>1, <3>1, <4>1 DEF Nexts
    <3>2. CASE k \in {4, 5, 7, 8, 9}
      <4>1. n \in {5, 6, 8, 9, 10} /\ n > k
        BY <2>5, <2>6, <2>7, <3>2
      <4> QED
        BY <2>1, <3>2, <4>1 DEF Nexts
    <3> QED
      BY <2>2, <3>1, <3>2
  <2>9. /\ Order[n] = "baud" => target # 0
        /\ Order[n] = "variant" => p.geometry
        /\ Order[n] = "write" => p.config
    BY <2>5 DEF Needed
  <2> QED
    BY <2>2, <2>5, <2>8, <2>9
<1> QED
  BY <1>1, <1>2

-----------------------------------------------------------------------------
(* Types.                                                                  *)

LEMMA Numbers == /\ QueueSize \in Nat /\ QueueSize >= 1 /\ ReadAttempts \in Nat /\ ReadAttempts >= 1
                 /\ Len(Rates) \in Nat /\ Len(Rates) >= 1 /\ Rates \in Seq(Nat \ {0})
                 /\ DOMAIN Rates = 1..Len(Rates) /\ TargetBauds \subseteq Nat
BY SessionAssumption

LEMMA Tries == \A s \in Commands : Attempts(s) \in Nat /\ Attempts(s) >= 1 /\ Attempts(s) <= ReadAttempts
BY Numbers DEF Attempts

LEMMA RateTypes == /\ \A i \in DOMAIN Rates : Rates[i] \in Bauds
                   /\ \A b \in TargetBauds : b # 0 => b \in Bauds
BY DEF Bauds

\* The queue of events keeps its type and its bound.
LEMMA QueuedType ==
    ASSUME NEW S, events \in Seq(S), Len(events) <= QueueSize, NEW e \in S
    PROVE  Queued(e) \in Seq(S) /\ Len(Queued(e)) <= QueueSize
<1>1. CASE Len(events) = QueueSize
  <2>1. Len(events) # 0
    BY <1>1, Numbers
  <2>2. Tail(events) \in Seq(S) /\ Len(Tail(events)) = Len(events) - 1
    BY <2>1
  <2>3. Queued(e) = Append(Tail(events), e)
    BY <1>1 DEF Queued
  <2> QED
    BY <1>1, <2>2, <2>3, Numbers
<1>2. CASE Len(events) # QueueSize
  <2>1. Queued(e) = Append(events, e)
    BY <1>2 DEF Queued
  <2> QED
    BY <1>2, <2>1, Numbers
<1> QED
  BY <1>1, <1>2

\* Whatever the host does, it only takes events and replies.
Quiet(q, r) == r = q \/ r = <<>> \/ (q # <<>> /\ r = Tail(q))
LEMMA RaiseLine == ASSUME Raise \/ Abandon \/ Retry PROVE Quiet(down, down')
BY DEF Raise, Abandon, Retry, SetRate, Quiet

LEMMA TakeLine == ASSUME Take PROVE Quiet(events, events') /\ Quiet(down, down')
<1>1. CASE TakeNak
  BY <1>1, RaiseLine DEF TakeNak, RetryOrRaise, Quiet
<1>2. CASE TakeAck
  BY <1>2 DEF TakeAck, Quiet
<1>3. CASE TakeUnexpected
  BY <1>3 DEF TakeUnexpected, Quiet
<1>4. CASE TakeFailure
  BY <1>4, RaiseLine DEF TakeFailure, Quiet
<1>5. CASE TakeReply
  BY <1>5 DEF TakeReply, SetRate, Quiet
<1> QED
  BY <1>1, <1>2, <1>3, <1>4, <1>5 DEF Take

LEMMA HostLine ==
    ASSUME HostStep
    PROVE  (Quiet(events, events') /\ Quiet(down, down')) \/ Receive
<1>1. CASE Connect
  BY <1>1 DEF Connect, Quiet
<1>2. CASE Write
  BY <1>2 DEF Write, Quiet
<1>3. CASE Timeout
  BY <1>3, RaiseLine DEF Timeout, RetryOrRaise, Quiet
<1>4. CASE Close \/ Restart \/ StreamFaults
  BY <1>4 DEF Close, Restart, StreamFaults, restFrame, Quiet
<1> QED
  BY <1>1, <1>2, <1>3, <1>4, TakeLine DEF HostStep

LEMMA QuietType ==
    ASSUME NEW S, NEW q \in Seq(S), NEW r, Quiet(q, r)
    PROVE  r \in Seq(S) /\ Len(r) <= Len(q)
<1>1. CASE r = q
  BY <1>1
<1>2. CASE r = <<>>
  BY <1>2
<1>3. CASE q # <<>> /\ r = Tail(q)
  BY <1>3
<1> QED
  BY <1>1, <1>2, <1>3 DEF Quiet

\* Events and replies keep a property that the scanner's answers have.
LEMMA RepliesKept ==
    ASSUME NEW S, events \in Seq(S), down \in Seq(S), Len(events) <= QueueSize, [Next]_vars,
           Process => Event("ack") \in S /\ Answer(Head(up)) \in S, RefuseTelegram => Event("nak") \in S
    PROVE  events' \in Seq(S) /\ down' \in Seq(S) /\ Len(events') <= QueueSize
<1>0. Len(events) \in Nat /\ QueueSize \in Nat
  BY Numbers
<1>1. CASE HostStep /\ ~Receive
  <2>1. Quiet(events, events') /\ Quiet(down, down')
    BY <1>1, HostLine
  <2>2. events' \in Seq(S) /\ Len(events') <= Len(events) /\ down' \in Seq(S)
    BY <2>1, QuietType
  <2>3. Len(events') \in Nat
    BY <2>2
  <2> QED
    BY <1>0, <2>2, <2>3
<1>2. CASE Receive
  <2>1. Head(down) \in S /\ Tail(down) \in Seq(S)
    BY <1>2 DEF Receive
  <2> QED
    BY <1>2, <2>1, QueuedType DEF Receive
<1>3. CASE Process
  <2>1. <<Event("ack"), Answer(Head(up))>> \in Seq(S)
    BY <1>3
  <2>2. events' = events
    BY <1>3 DEF Process, host
  <2>3. down' = down \/ down' = down \o <<Event("ack"), Answer(Head(up))>>
    BY <1>3 DEF Process, Emit
  <2> QED
    BY <2>1, <2>2, <2>3
<1>4. CASE RefuseTelegram
  <2>1. <<Event("nak")>> \in Seq(S)
    BY <1>4
  <2>2. events' = events
    BY <1>4 DEF RefuseTelegram, host
  <2>3. down' = down \/ down' = down \o <<Event("nak")>>
    BY <1>4 DEF RefuseTelegram, Emit
  <2> QED
    BY <2>1, <2>2, <2>3
<1>5. CASE LoseTelegram \/ PowerCycle \/ UNCHANGED vars
  BY <1>5 DEF LoseTelegram, PowerCycle, host, vars
<1>6. CASE LoseReply
  BY <1>6 DEF LoseReply, host
<1> QED
  BY <1>1, <1>2, <1>3, <1>4, <1>5, <1>6 DEF Next, LineStep

\* Where a step leaves the host: a command is issued, sent or to be sent again, or nothing.
Issued == \E n \in Steps : /\ Issue(n)
                           /\ n = "baud" => target # 0

LEMMA RaiseControl == ASSUME Raise \/ Abandon PROVE Issued
<1>1. "status" \in Steps /\ "stop" \in Steps /\ "closed" \in Steps
  BY DEF Steps, Reads, Mutations
<1>2. (Raise \/ Abandon) => Issue("status") \/ Issue("stop") \/ Issue("closed")
  BY DEF Raise, Abandon
<1> QED
  BY <1>1, <1>2 DEF Issued

LEMMA TakeReplyControl ==
    ASSUME TypeInv, TakeReply
    PROVE  Issued
<1>1. step \in Commands
  BY DEF TypeInv, Trying, TakeReply
<1>2. CASE step = "stop" \/ (step = "config" /\ Issue("connected"))
  BY <1>2 DEF TakeReply, Issued, Steps
<1>3. CASE step # "stop" /\ ~(step = "config" /\ Issue("connected"))
  <2>1. PICK b, p : Issue(Following(step, b, p))
    BY <1>3 DEF TakeReply
  <2>2. /\ Following(step, b, p) \in Nexts(step)
        /\ Following(step, b, p) = "baud" => target # 0
    BY <1>1, <1>3, NextCommand
  <2>3. \A s \in Commands \ {"stop"} : Nexts(s) \subseteq Steps
    BY DEF Nexts, Steps, Reads, Mutations, Commands
  <2> QED
    BY <1>1, <1>3, <2>1, <2>2, <2>3 DEF Issued
<1> QED
  BY <1>2, <1>3 DEF TakeReply

LEMMA Control ==
    ASSUME TypeInv, [Next]_vars
    PROVE  \/ UNCHANGED <<step, phase, attempt>>
           \/ Write
           \/ phase = "wait" /\ Retry /\ attempt < Attempts(step)
           \/ Issued
<1>1. CASE Connect
  BY <1>1 DEF Connect, Issued, Steps, Reads
<1>2. CASE Timeout \/ TakeNak
  BY <1>2, RaiseControl DEF Timeout, TakeNak, RetryOrRaise
<1>3. CASE TakeFailure
  BY <1>3, RaiseControl DEF TakeFailure
<1>4. CASE TakeReply
  BY <1>4, TakeReplyControl
<1>5. CASE Close \/ Restart \/ StreamFaults
  BY <1>5 DEF Close, Restart, StreamFaults, Issued, Steps, Mutations
<1>6. CASE PowerCycle
  BY <1>6 DEF PowerCycle, Issued, Steps
<1>7. CASE Receive \/ TakeAck \/ TakeUnexpected
  BY <1>7 DEF Receive, TakeAck, TakeUnexpected
<1>8. CASE Process \/ RefuseTelegram \/ LoseTelegram \/ LoseReply \/ UNCHANGED vars
  BY <1>8 DEF Process, RefuseTelegram, LoseTelegram, LoseReply, host, vars
<1> QED
  BY <1>1, <1>2, <1>3, <1>4, <1>5, <1>6, <1>7, <1>8 DEF Next, HostStep, LineStep, Take

LEMMA TargetKept == ASSUME [Next]_vars PROVE target' = target
<1>1. CASE HostStep
  BY <1>1 DEF HostStep, Connect, Write, Receive, Timeout, Take, TakeNak, TakeAck, TakeUnexpected,
              TakeFailure, TakeReply, Close, Restart, StreamFaults, restFrame
<1>2. CASE LineStep \/ UNCHANGED vars
  BY <1>2 DEF LineStep, Process, RefuseTelegram, LoseTelegram, LoseReply, PowerCycle, vars
<1> QED
  BY <1>1, <1>2 DEF Next

LEMMA ControlStep ==
    ASSUME TypeInv, [Next]_vars
    PROVE  /\ step' \in Steps /\ phase' \in {"send", "wait"} /\ attempt' \in 0..ReadAttempts
           /\ Trying' /\ (step' = "baud" => target' # 0)
<1>1. target' = target
  BY TargetKept
<1>2. /\ step \in Steps /\ phase \in {"send", "wait"} /\ attempt \in 0..ReadAttempts
      /\ Trying /\ (step = "baud" => target # 0)
  BY DEF TypeInv, TypeOK, Rated
<1>3. CASE UNCHANGED <<step, phase, attempt>>
  BY <1>1, <1>2, <1>3 DEF Trying, Attempts
<1>4. CASE Write
  <2>1. step \in Commands /\ phase = "send" /\ step' = step /\ phase' = "wait" /\ attempt' = attempt + 1
    BY <1>4 DEF Write, Commands
  <2>2. attempt \in Nat /\ attempt < Attempts(step) /\ Attempts(step) \in Nat /\ Attempts(step) <= ReadAttempts
    BY <1>2, <2>1, Tries, Numbers DEF Trying
  <2>3. attempt' \in 0..ReadAttempts /\ attempt' >= 1 /\ attempt' <= Attempts(step)
    BY <2>1, <2>2, Numbers
  <2> QED
    BY <1>1, <1>2, <2>1, <2>3 DEF Trying, Attempts
<1>5. CASE phase = "wait" /\ Retry /\ attempt < Attempts(step)
  BY <1>1, <1>2, <1>5 DEF Retry, Trying, Attempts
<1>6. CASE Issued
  <2>1. PICK n \in Steps : Issue(n) /\ (n = "baud" => target # 0)
    BY <1>6 DEF Issued
  <2>2. step' = n /\ phase' = "send" /\ attempt' = 0
    BY <2>1 DEF Issue
  <2>3. 0 \in 0..ReadAttempts /\ (n \in Commands => 0 < Attempts(n))
    BY Tries, Numbers
  <2>4. Trying'
    BY <2>2, <2>3 DEF Trying, Attempts
  <2> QED
    BY <1>1, <2>1, <2>2, <2>3, <2>4
<1> QED
  BY <1>3, <1>4, <1>5, <1>6, Control

\* What the scanner answers.
LEMMA AnswerType ==
    ASSUME TypeInv, NEW s \in Commands
    PROVE  /\ Answer(s) \in Reported /\ Event("ack") \in Reported /\ Event("nak") \in Reported
           /\ Answer(s).r \in {ResponseId(s), "92"}
           /\ Answer(s).r = "B1" => Answer(s).geometry = geometry
           /\ Answer(s).r = "F4" => Answer(s).config = config
<1>1. baud \in Bauds /\ geometry \in BOOLEAN /\ config \in BOOLEAN
  BY DEF TypeInv, TypeOK
<1>2. /\ \A id \in Ids : Event(id) \in Events /\ Event(id).r = id
      /\ \A e \in Events : e \in Reported <=> (e.r = "B1" => e.baud \in Bauds)
  BY DEF Event, Events, Ids, Reported
<1>3. \A f \in Events :
         /\ LET e == [f EXCEPT !.geometry = geometry, !.baud = baud]
            IN e \in Events /\ e.r = f.r /\ e.geometry = geometry /\ e.baud = baud
         /\ LET e == [f EXCEPT !.config = config]
            IN e \in Events /\ e.r = f.r /\ e.config = config
  BY <1>1 DEF Events
<1>4. ResponseId(s) \in Ids \ Neutral
  BY Replies
<1>5. CASE Rejects(s)
  <2>1. ResponseId(s) \notin {"B1", "F4"}
    BY <1>5, Replies DEF Rejects
  <2>2. Answer(s) = Event("92")
    BY <1>5, <2>1 DEF Answer
  <2> QED
    BY <1>2, <2>2 DEF Ids
<1>6. CASE ~Rejects(s) /\ ResponseId(s) = "B1"
  <2>1. ~Rejects(s) /\ Answer(s) = [Event("B1") EXCEPT !.geometry = geometry, !.baud = baud]
    BY <1>6 DEF Answer
  <2>2. Event("B1") \in Events /\ Event("B1").r = "B1"
    BY <1>2 DEF Ids
  <2>3. Answer(s) \in Events /\ Answer(s).r = "B1" /\ Answer(s).geometry = geometry /\ Answer(s).baud = baud
    BY <1>3, <2>1, <2>2
  <2> QED
    BY <1>1, <1>2, <1>6, <2>3 DEF Ids
<1>7. CASE ~Rejects(s) /\ ResponseId(s) = "F4"
  <2>1. ~Rejects(s) /\ Answer(s) = [Event("F4") EXCEPT !.config = config]
    BY <1>7 DEF Answer
  <2>2. Event("F4") \in Events /\ Event("F4").r = "F4"
    BY <1>2 DEF Ids
  <2>3. Answer(s) \in Events /\ Answer(s).r = "F4" /\ Answer(s).config = config
    BY <1>3, <2>1, <2>2
  <2> QED
    BY <1>2, <1>7, <2>3 DEF Ids
<1>8. CASE ~Rejects(s) /\ ResponseId(s) \notin {"B1", "F4"}
  <2>1. Answer(s) = Event(ResponseId(s))
    BY <1>8 DEF Answer
  <2> QED
    BY <1>2, <1>4, <1>8, <2>1 DEF Ids
<1> QED
  BY <1>5, <1>6, <1>7, <1>8

Telegrams == IF target = 0 THEN Commands \ {"baud"} ELSE Commands

LEMMA RatedStep ==
    ASSUME TypeInv, [Next]_vars
    PROVE  Rated' /\ Len(events') <= QueueSize
<1>1. events \in Seq(Reported) /\ down \in Seq(Reported) /\ up \in Seq(Telegrams)
  BY DEF TypeInv, Rated, Telegrams
<1>2. Reported' = Reported
  BY DEF Reported, Events, Bauds
<1>3. Process => Answer(Head(up)) \in Reported
  <2>1. Process => Head(up) \in Commands
    BY <1>1 DEF Process, Telegrams
  <2> QED
    BY <2>1, AnswerType
<1>4. Event("ack") \in Reported /\ Event("nak") \in Reported
  BY AnswerType DEF Commands, Reads
<1>5. Len(events) <= QueueSize
  BY DEF TypeInv, TypeOK
<1>6. events' \in Seq(Reported) /\ down' \in Seq(Reported) /\ Len(events') <= QueueSize
  BY <1>1, <1>3, <1>4, <1>5, RepliesKept
<1>7. up' \in Seq(Telegrams)
  <2>1. CASE Write
    <3>1. step \in Telegrams
      BY <2>1 DEF Write, Telegrams, Commands, TypeInv, Rated
    <3> QED
      BY <1>1, <2>1, <3>1 DEF Write
  <2>2. CASE Process \/ RefuseTelegram \/ LoseTelegram
    <3>1. up # <<>> /\ up' = Tail(up)
      BY <2>2 DEF Process, RefuseTelegram, LoseTelegram
    <3> QED
      BY <1>1, <3>1
  <2>3. CASE PowerCycle
    BY <2>3 DEF PowerCycle
  <2>4. CASE UNCHANGED up
    BY <1>1, <2>4
  <2>5. HostStep /\ ~Write => UNCHANGED up
    BY DEF HostStep, Connect, Receive, Timeout, Take, TakeNak, TakeAck, TakeUnexpected,
           TakeFailure, TakeReply, Close, Restart, StreamFaults, restFrame
  <2>6. LoseReply \/ UNCHANGED vars => UNCHANGED up
    BY DEF LoseReply, vars
  <2> QED
    BY <2>1, <2>2, <2>3, <2>4, <2>5, <2>6 DEF Next, LineStep
<1>8. Telegrams' = Telegrams /\ (step' = "baud" => target' # 0)
  BY TargetKept, ControlStep DEF Telegrams
<1> QED
  BY <1>2, <1>6, <1>7, <1>8 DEF Rated, Telegrams

\* What the host knows and plans.
HostTypes == /\ ack \in BOOLEAN /\ rate \in DOMAIN Rates /\ hostBaud \in Bauds
             /\ info \in [geometry : BOOLEAN, baud : Bauds] /\ conf \in BOOLEAN
             /\ plan \in [geometry : BOOLEAN, config : BOOLEAN]
             /\ changed \in BOOLEAN /\ confirmed \in BOOLEAN /\ unanswered \in BOOLEAN
Limits == sessions \in 0..MaxSessions /\ trouble \in 0..MaxTrouble
          /\ fresh \in BOOLEAN /\ after \in BOOLEAN
ScannerTypes == /\ mode \in {"installation", "continuous", "request"} /\ baud \in Bauds
                /\ geometry \in BOOLEAN /\ config \in BOOLEAN

LEMMA RaiseTypes ==
    ASSUME HostTypes, Raise \/ Abandon \/ Retry
    PROVE  /\ ack' \in BOOLEAN /\ rate' \in DOMAIN Rates /\ hostBaud' \in Bauds
           /\ changed' \in BOOLEAN /\ confirmed' \in BOOLEAN /\ unanswered' \in BOOLEAN
<1>1. CASE Abandon
  BY <1>1 DEF HostTypes, Abandon, Issue
<1>2. CASE Retry
  BY <1>2 DEF HostTypes, Retry
<1>3. CASE Raise /\ ~Abandon
  <2>1. rate' = rate + 1 /\ rate < Len(Rates) /\ hostBaud' = Rates[rate + 1] /\ ack' = FALSE
        /\ UNCHANGED <<changed, confirmed, unanswered>>
    BY <1>3 DEF Raise, SetRate, Issue
  <2>2. rate + 1 \in DOMAIN Rates
    BY <2>1, Numbers DEF HostTypes
  <2> QED
    BY <2>1, <2>2, RateTypes DEF HostTypes
<1> QED
  BY <1>1, <1>2, <1>3

LEMMA TakeReplyTypes ==
    ASSUME HostTypes, TypeInv, TakeReply
    PROVE  HostTypes'
<1>1. Head(events) \in Reported
  BY DEF TypeInv, Rated, TakeReply
<1>2. info' \in [geometry : BOOLEAN, baud : Bauds] /\ conf' \in BOOLEAN
  BY <1>1 DEF HostTypes, TakeReply, Reported, Events
<1>3. plan' \in [geometry : BOOLEAN, config : BOOLEAN]
  BY DEF HostTypes, TakeReply
<1>4. hostBaud' \in Bauds
  <2>1. step = "baud" => target \in Bauds
    BY RateTypes DEF TypeInv, Rated, TypeOK
  <2> QED
    BY <2>1 DEF HostTypes, TakeReply, SetRate
<1>5. ack' = FALSE
  BY DEF TakeReply, Issue
<1>6. changed' \in BOOLEAN /\ confirmed' \in BOOLEAN /\ UNCHANGED <<unanswered, rate>>
  BY DEF TakeReply, HostTypes
<1> QED
  BY <1>2, <1>3, <1>4, <1>5, <1>6 DEF HostTypes

LEMMA HostTypesStep ==
    ASSUME TypeInv, [Next]_vars
    PROVE  HostTypes'
<1>1. HostTypes
  BY DEF TypeInv, TypeOK, HostTypes
<1>2. CASE Connect
  <2>1. 1 \in DOMAIN Rates
    BY Numbers
  <2> QED
    BY <1>1, <1>2, <2>1, RateTypes DEF HostTypes, Connect, Issue
<1>3. CASE Write
  BY <1>1, <1>3 DEF HostTypes, Write
<1>4. CASE Timeout \/ TakeNak \/ TakeFailure
  BY <1>1, <1>4, RaiseTypes DEF HostTypes, Timeout, TakeNak, TakeFailure, RetryOrRaise
<1>5. CASE TakeAck
  BY <1>1, <1>5 DEF HostTypes, TakeAck
<1>6. CASE TakeReply
  BY <1>1, <1>6, TakeReplyTypes
<1>7. CASE Close \/ Restart \/ StreamFaults \/ PowerCycle
  BY <1>1, <1>7 DEF HostTypes, Close, Restart, StreamFaults, PowerCycle, Issue, restFrame
<1>8. CASE Receive \/ TakeUnexpected
  BY <1>1, <1>8 DEF HostTypes, Receive, TakeUnexpected
<1>9. CASE Process \/ RefuseTelegram \/ LoseTelegram \/ LoseReply \/ UNCHANGED vars
  BY <1>1, <1>9 DEF HostTypes, Process, RefuseTelegram, LoseTelegram, LoseReply, host, vars
<1> QED
  BY <1>2, <1>3, <1>4, <1>5, <1>6, <1>7, <1>8, <1>9 DEF Next, HostStep, LineStep, Take

LEMMA ScannerStep ==
    ASSUME TypeInv, [Next]_vars
    PROVE  ScannerTypes'
<1>1. ScannerTypes
  BY DEF TypeInv, TypeOK, ScannerTypes
<1>2. CASE HostStep
  BY <1>1, <1>2 DEF ScannerTypes, scanner, HostStep, Connect, Write, Receive, Timeout, Take, TakeNak,
                    TakeAck, TakeUnexpected, TakeFailure, TakeReply, Close, Restart, StreamFaults, restFrame
<1>3. CASE Process
  <2>1. Head(up) = "baud" => target # 0 /\ target \in TargetBauds
    BY <1>3 DEF TypeInv, TypeOK, Rated, Process
  <2>2. baud' \in Bauds
    BY <1>1, <1>3, <2>1, RateTypes DEF Process, Execute, ScannerTypes
  <2> QED
    BY <1>1, <1>3, <2>2 DEF Process, Execute, ScannerTypes
<1>4. CASE RefuseTelegram \/ LoseTelegram \/ LoseReply \/ UNCHANGED vars
  BY <1>1, <1>4 DEF ScannerTypes, scanner, RefuseTelegram, LoseTelegram, LoseReply, vars
<1>5. CASE PowerCycle
  <2>1. Rates[1] \in Bauds
    BY RateTypes, Numbers
  <2> QED
    BY <1>1, <1>5, <2>1 DEF PowerCycle, ScannerTypes
<1> QED
  BY <1>2, <1>3, <1>4, <1>5 DEF Next, LineStep

LEMMA LimitsStep ==
    ASSUME TypeInv, [Next]_vars
    PROVE  Limits'
<1>1. Limits /\ MaxSessions \in Nat /\ MaxTrouble \in Nat
  BY SessionAssumption DEF TypeInv, TypeOK, Limits
<1>2. CASE Connect
  BY <1>1, <1>2 DEF Limits, Connect
<1>3. CASE HostStep /\ ~Connect
  BY <1>1, <1>3 DEF Limits, HostStep, Write, Receive, Timeout, Take, TakeNak,
                    TakeAck, TakeUnexpected, TakeFailure, TakeReply, Close, Restart, StreamFaults, restFrame
<1>4. CASE LineStep \/ UNCHANGED vars
  <2>1. sessions' = sessions /\ fresh' = fresh /\ after' = after
        /\ (trouble' = trouble \/ (trouble < MaxTrouble /\ trouble' = trouble + 1))
    BY <1>4 DEF LineStep, Process, RefuseTelegram, LoseTelegram, LoseReply, PowerCycle, vars
  <2> QED
    BY <1>1, <2>1 DEF Limits
<1> QED
  BY <1>2, <1>3, <1>4 DEF Next

LEMMA InitType == Init => TypeInv
<1> SUFFICES ASSUME Init PROVE TypeInv
  OBVIOUS
<1> USE DEF Init
<1>1. 1 \in DOMAIN Rates /\ Rates[1] \in Bauds
  BY Numbers, RateTypes
<1>2. HostTypes /\ ScannerTypes
  BY <1>1 DEF HostTypes, ScannerTypes
<1>3. Limits
  <2>1. fresh \in BOOLEAN /\ after \in BOOLEAN /\ sessions = 0 /\ trouble = 0
    OBVIOUS
  <2>2. 0 \in 0..MaxSessions /\ 0 \in 0..MaxTrouble
    BY SessionAssumption
  <2> QED
    BY <2>1, <2>2 DEF Limits
<1>4. Trying /\ "closed" \notin Commands /\ "closed" \in Steps
  BY DEF Trying, Commands, Reads, Mutations, Steps
<1>5. /\ events \in Seq(Reported) /\ down \in Seq(Reported) /\ up \in Seq(Telegrams)
      /\ events \in Seq(Events) /\ down \in Seq(Events) /\ up \in Seq(Reads \cup Mutations)
      /\ Len(events) <= QueueSize
  BY Numbers
<1>6. Rated
  BY <1>5 DEF Rated, Telegrams
<1>7. attempt \in 0..ReadAttempts
  BY Numbers
<1> QED
  BY <1>2, <1>3, <1>4, <1>5, <1>6, <1>7 DEF TypeInv, TypeOK, HostTypes, ScannerTypes, Limits

LEMMA NextType == TypeInv /\ [Next]_vars => TypeInv'
<1> SUFFICES ASSUME TypeInv, [Next]_vars PROVE TypeInv'
  OBVIOUS
<1>1. /\ step' \in Steps /\ phase' \in {"send", "wait"} /\ attempt' \in 0..ReadAttempts /\ Trying'
  BY ControlStep
<1>2. Rated' /\ Len(events') <= QueueSize
  BY RatedStep
<1>3. HostTypes' /\ ScannerTypes' /\ Limits'
  BY HostTypesStep, ScannerStep, LimitsStep
<1>4. target' \in TargetBauds
  BY TargetKept DEF TypeInv, TypeOK
<1>5. events' \in Seq(Events) /\ down' \in Seq(Events) /\ up' \in Seq(Reads \cup Mutations)
  <2>1. \A S, T : S \subseteq T => Seq(S) \subseteq Seq(T)
    OBVIOUS
  <2>2. Reported' \subseteq Events
    BY DEF Reported, Events, Bauds
  <2> QED
    BY <1>2, <2>1, <2>2 DEF Rated, Commands
<1> QED
  BY <1>1, <1>2, <1>3, <1>4, <1>5 DEF TypeInv, TypeOK, HostTypes, ScannerTypes, Limits, Events, Bauds

\* The host's attempts, what it knows and plans, its bounded queue and what is on the line
\* are of their types in every session, for any rates, attempts and trouble.
THEOREM TypeCorrect == Spec => []TypeOK
<1>1. TypeInv => TypeOK
  BY DEF TypeInv
<1> QED
  BY <1>1, InitType, NextType, PTL DEF Spec

-----------------------------------------------------------------------------
(* Sequences of ids.                                                       *)

LEMMA HasTail ==
    ASSUME NEW S, NEW q \in Seq(S), q # <<>>, NEW A, NEW B, Follows(q, A, B)
    PROVE  /\ Follows(Tail(q), A, B)
           /\ \A X : Has(Tail(q), X) => Has(q, X)
           /\ q[1] \in A => ~Has(Tail(q), B)
           /\ \A X : q[1] \in X => Has(q, X)
<1>1. Len(q) \in Nat /\ Len(q) >= 1 /\ Tail(q) \in Seq(S) /\ Len(Tail(q)) = Len(q) - 1
  OBVIOUS
<1>2. \A i \in 1..Len(Tail(q)) : i + 1 \in 1..Len(q) /\ Tail(q)[i] = q[i + 1] /\ 1 < i + 1
  BY <1>1
<1>3. \A i, j \in 1..Len(Tail(q)) : i < j => i + 1 < j + 1
  BY <1>1
<1>4. 1 \in 1..Len(q)
  BY <1>1
<1>5. Follows(Tail(q), A, B)
  BY <1>2, <1>3 DEF Follows
<1> QED
  BY <1>2, <1>4, <1>5 DEF Has, Follows

LEMMA HasAppend ==
    ASSUME NEW S, NEW q \in Seq(S), NEW x \in S, NEW A, NEW B, Follows(q, A, B), x \notin B \/ ~Has(q, A)
    PROVE  /\ Follows(Append(q, x), A, B)
           /\ \A X : Has(Append(q, x), X) <=> Has(q, X) \/ x \in X
<1>1. /\ Len(q) \in Nat /\ Len(Append(q, x)) = Len(q) + 1 /\ Append(q, x)[Len(q) + 1] = x
      /\ \A i \in 1..Len(q) : Append(q, x)[i] = q[i]
  OBVIOUS
<1>2. \A n \in Nat : 1..n + 1 = 1..n \cup {n + 1}
  OBVIOUS
<1>3. 1..Len(Append(q, x)) = 1..Len(q) \cup {Len(q) + 1}
  BY <1>1, <1>2
<1>4. \A i \in 1..Len(q) : i < Len(q) + 1 /\ ~(Len(q) + 1 < i) /\ ~(Len(q) + 1 < Len(q) + 1)
  BY <1>1
<1>5. Follows(Append(q, x), A, B)
  BY <1>1, <1>3, <1>4 DEF Follows, Has
<1>6. \A X : Has(Append(q, x), X) <=> Has(q, X) \/ x \in X
  BY <1>1, <1>3 DEF Has
<1> QED
  BY <1>5, <1>6

LEMMA HasEmpty == \A A, B : ~Has(<<>>, A) /\ Follows(<<>>, A, B)
BY DEF Has, Follows

LEMMA HasMember ==
    ASSUME NEW K, NEW q \in Seq(K), NEW X
    PROVE  Has(q, X) => \E x \in K : x \in X
BY DEF Has

LEMMA NotHas ==
    ASSUME NEW K, NEW q \in Seq(K), NEW X, ~Has(q, X)
    PROVE  q \in Seq(K \ X)
BY DEF Has

\* The ids of a sequence of events, and of the replies to a sequence of telegrams.
LEMMA IdsAre ==
    /\ IdsOf(<<>>) = <<>> /\ Awaited(<<>>) = <<>>
    /\ \A q \in Seq(Events) : IdsOf(q) \in Seq(Ids) /\ Len(IdsOf(q)) = Len(q)
    /\ \A u \in Seq(Commands) : Awaited(u) \in Seq(Ids) /\ Len(Awaited(u)) = Len(u)
<1>1. \A e \in Events : e.r \in Ids
  BY DEF Events, Ids
<1>2. \A s \in Commands : ResponseId(s) \in Ids
  BY Replies
<1> QED
  BY <1>1, <1>2 DEF IdsOf, Awaited

LEMMA IdsTail ==
    ASSUME NEW q \in Seq(Events), q # <<>>
    PROVE  /\ IdsOf(q) # <<>> /\ IdsOf(Tail(q)) = Tail(IdsOf(q))
           /\ IdsOf(q)[1] = Head(q).r /\ Head(q) \in Events
<1>1. Len(q) \in Nat /\ Len(q) >= 1 /\ Tail(q) \in Seq(Events) /\ Len(Tail(q)) = Len(q) - 1
  OBVIOUS
<1>2. \A i \in 1..Len(Tail(q)) : Tail(q)[i] = q[i + 1] /\ i + 1 \in 1..Len(q)
  BY <1>1
<1>3. IdsOf(q) \in Seq(Ids) /\ Len(IdsOf(q)) = Len(q) /\ IdsOf(q) # <<>>
  BY <1>1, IdsAre
<1>4. \A i \in 1..Len(q) - 1 : Tail(IdsOf(q))[i] = IdsOf(q)[i + 1]
  BY <1>3
<1>5. Tail(IdsOf(q)) \in Seq(Ids) /\ Len(Tail(IdsOf(q))) = Len(q) - 1
  BY <1>3
<1>6. IdsOf(Tail(q)) \in Seq(Ids) /\ Len(IdsOf(Tail(q))) = Len(q) - 1
  BY <1>1, IdsAre
<1>7. \A i \in 1..Len(q) - 1 : IdsOf(Tail(q))[i] = Tail(IdsOf(q))[i]
  BY <1>1, <1>2, <1>4 DEF IdsOf
<1>8. IdsOf(Tail(q)) = Tail(IdsOf(q))
  BY <1>5, <1>6, <1>7, SeqEqual
<1>9. IdsOf(q)[1] = Head(q).r /\ Head(q) \in Events
  BY <1>1 DEF IdsOf
<1> QED
  BY <1>3, <1>8, <1>9

LEMMA IdsAppend ==
    ASSUME NEW q \in Seq(Events), NEW e \in Events
    PROVE  IdsOf(Append(q, e)) = Append(IdsOf(q), e.r) /\ e.r \in Ids
<1>1. /\ Len(q) \in Nat /\ Append(q, e) \in Seq(Events) /\ Len(Append(q, e)) = Len(q) + 1
      /\ Append(q, e)[Len(q) + 1] = e /\ \A i \in 1..Len(q) : Append(q, e)[i] = q[i]
  OBVIOUS
<1>2. e.r \in Ids
  BY DEF Events, Ids
<1>3. IdsOf(q) \in Seq(Ids) /\ Len(IdsOf(q)) = Len(q)
  BY IdsAre
<1>4. /\ Append(IdsOf(q), e.r) \in Seq(Ids) /\ Len(Append(IdsOf(q), e.r)) = Len(q) + 1
      /\ Append(IdsOf(q), e.r)[Len(q) + 1] = e.r
      /\ \A i \in 1..Len(q) : Append(IdsOf(q), e.r)[i] = IdsOf(q)[i]
  BY <1>2, <1>3
<1>5. IdsOf(Append(q, e)) \in Seq(Ids) /\ Len(IdsOf(Append(q, e))) = Len(q) + 1
  BY <1>1, IdsAre
<1>6. \A n \in Nat : 1..n + 1 = 1..n \cup {n + 1}
  OBVIOUS
<1>7. \A i \in 1..Len(q) + 1 : IdsOf(Append(q, e))[i] = Append(IdsOf(q), e.r)[i]
  BY <1>1, <1>4, <1>6 DEF IdsOf
<1> QED
  BY <1>2, <1>4, <1>5, <1>7, SeqEqual

LEMMA AwaitedTail ==
    ASSUME NEW u \in Seq(Commands), u # <<>>
    PROVE  /\ Awaited(u) # <<>> /\ Awaited(Tail(u)) = Tail(Awaited(u))
           /\ Awaited(u)[1] = ResponseId(Head(u)) /\ Head(u) \in Commands
<1>1. /\ Len(u) \in Nat /\ Len(u) >= 1 /\ Tail(u) \in Seq(Commands) /\ Len(Tail(u)) = Len(u) - 1
      /\ Head(u) = u[1] /\ Head(u) \in Commands
  OBVIOUS
<1>2. \A i \in 1..Len(Tail(u)) : Tail(u)[i] = u[i + 1] /\ i + 1 \in 1..Len(u)
  BY <1>1
<1>3. Awaited(u) \in Seq(Ids) /\ Len(Awaited(u)) = Len(u) /\ Awaited(u) # <<>>
  BY <1>1, IdsAre
<1>4. \A i \in 1..Len(u) - 1 : Tail(Awaited(u))[i] = Awaited(u)[i + 1]
  BY <1>3
<1>5. Tail(Awaited(u)) \in Seq(Ids) /\ Len(Tail(Awaited(u))) = Len(u) - 1
  BY <1>3
<1>6. Awaited(Tail(u)) \in Seq(Ids) /\ Len(Awaited(Tail(u))) = Len(u) - 1
  BY <1>1, IdsAre
<1>7. \A i \in 1..Len(u) - 1 : Awaited(Tail(u))[i] = Tail(Awaited(u))[i]
  BY <1>1, <1>2, <1>4 DEF Awaited
<1>8. Awaited(Tail(u)) = Tail(Awaited(u))
  BY <1>5, <1>6, <1>7, SeqEqual
<1>9. Awaited(u)[1] = ResponseId(Head(u))
  BY <1>1 DEF Awaited
<1> QED
  BY <1>1, <1>3, <1>8, <1>9

LEMMA AwaitedAppend ==
    ASSUME NEW u \in Seq(Commands), NEW s \in Commands
    PROVE  Awaited(Append(u, s)) = Append(Awaited(u), ResponseId(s)) /\ ResponseId(s) \in Ids
<1>1. /\ Len(u) \in Nat /\ Append(u, s) \in Seq(Commands) /\ Len(Append(u, s)) = Len(u) + 1
      /\ Append(u, s)[Len(u) + 1] = s /\ \A i \in 1..Len(u) : Append(u, s)[i] = u[i]
  OBVIOUS
<1>2. ResponseId(s) \in Ids
  BY Replies
<1>3. Awaited(u) \in Seq(Ids) /\ Len(Awaited(u)) = Len(u)
  BY IdsAre
<1>4. /\ Append(Awaited(u), ResponseId(s)) \in Seq(Ids) /\ Len(Append(Awaited(u), ResponseId(s))) = Len(u) + 1
      /\ Append(Awaited(u), ResponseId(s))[Len(u) + 1] = ResponseId(s)
      /\ \A i \in 1..Len(u) : Append(Awaited(u), ResponseId(s))[i] = Awaited(u)[i]
  BY <1>2, <1>3
<1>5. Awaited(Append(u, s)) \in Seq(Ids) /\ Len(Awaited(Append(u, s))) = Len(u) + 1
  BY <1>1, IdsAre
<1>6. \A n \in Nat : 1..n + 1 = 1..n \cup {n + 1}
  OBVIOUS
<1>7. \A i \in 1..Len(u) + 1 : Awaited(Append(u, s))[i] = Append(Awaited(u), ResponseId(s))[i]
  BY <1>1, <1>4, <1>6 DEF Awaited
<1> QED
  BY <1>2, <1>4, <1>5, <1>7, SeqEqual

LEMMA Appended ==
    ASSUME NEW q \in Seq(Events), NEW a \in Events, NEW b \in Events
    PROVE  q \o <<a>> = Append(q, a) /\ q \o <<a, b>> = Append(Append(q, a), b)
<1>1. q \o <<a>> = Append(q, a)
  BY AppendIsConcat
<1>2. Append(Append(q, a), b) = (q \o <<a>>) \o <<b>>
  <2>1. \A r \in Seq(Events), e \in Events : Append(r, e) = r \o <<e>>
    BY AppendIsConcat
  <2>2. Append(q, a) \in Seq(Events)
    OBVIOUS
  <2> QED
    BY <1>1, <2>1, <2>2
<1>3. (q \o <<a>>) \o <<b>> = q \o (<<a>> \o <<b>>)
  <2>1. <<a>> \in Seq(Events) /\ <<b>> \in Seq(Events)
    OBVIOUS
  <2> QED
    BY <2>1, ConcatAssociative
<1>4. <<a>> \o <<b>> = <<a, b>>
  <2>1. <<a>> \in Seq(Events) /\ Append(<<a>>, b) = <<a>> \o <<b>>
    BY AppendIsConcat
  <2>2. Append(<<a>>, b) = <<a, b>>
    <3>1. /\ <<a, b>> \in Seq(Events) /\ Len(<<a, b>>) = 2 /\ <<a, b>>[1] = a /\ <<a, b>>[2] = b
          /\ Append(<<a>>, b) \in Seq(Events) /\ Len(Append(<<a>>, b)) = 2
          /\ Append(<<a>>, b)[1] = a /\ Append(<<a>>, b)[2] = b
      OBVIOUS
    <3>2. \A s, t \in Seq(Events) : Len(s) = 2 /\ Len(t) = 2 /\ s[1] = t[1] /\ s[2] = t[2] => s = t
      OBVIOUS
    <3> QED
      BY <3>1, <3>2
  <2> QED
    BY <2>1, <2>2
<1> QED
  BY <1>1, <1>2, <1>3, <1>4

-----------------------------------------------------------------------------
(* The order of what is on its way.                                        *)

LEMMA QuietIds ==
    ASSUME NEW S, NEW q \in Seq(S), NEW r, Quiet(q, r), NEW A, NEW B, Follows(q, A, B)
    PROVE  r \in Seq(S) /\ Follows(r, A, B) /\ \A X : Has(r, X) => Has(q, X)
<1>1. CASE r = q
  BY <1>1
<1>2. CASE r = <<>>
  BY <1>2, HasEmpty
<1>3. CASE q # <<>> /\ r = Tail(q)
  BY <1>3, HasTail
<1> QED
  BY <1>1, <1>2, <1>3 DEF Quiet

\* Losing, discarding and taking what is first does not change the order.
LEMMA RankedQuiet ==
    ASSUME NEW S, NEW E \in Seq(S), NEW D \in Seq(S), NEW U \in Seq(S), NEW A, NEW B, Ranked(A, B, E, D, U),
           NEW e, NEW d, NEW u, Quiet(E, e), Quiet(D, d), Quiet(U, u)
    PROVE  Ranked(A, B, e, d, u) /\ e \in Seq(S) /\ d \in Seq(S) /\ u \in Seq(S)
<1>1. e \in Seq(S) /\ Follows(e, A, B) /\ \A X : Has(e, X) => Has(E, X)
  BY QuietIds DEF Ranked
<1>2. d \in Seq(S) /\ Follows(d, A, B) /\ \A X : Has(d, X) => Has(D, X)
  BY QuietIds DEF Ranked
<1>3. u \in Seq(S) /\ Follows(u, A, B) /\ \A X : Has(u, X) => Has(U, X)
  BY QuietIds DEF Ranked
<1> QED
  BY <1>1, <1>2, <1>3 DEF Ranked

\* Behind an own reply that is taken nothing is left that it bars.
LEMMA RankedFirst ==
    ASSUME NEW S, NEW E \in Seq(S), NEW D, NEW U, NEW A, NEW B, Ranked(A, B, E, D, U), E # <<>>, E[1] \in A
    PROVE  ~Has(Tail(E), B) /\ ~Has(D, B) /\ ~Has(U, B)
BY HasTail DEF Ranked

\* A reply is received.
LEMMA RankedReceive ==
    ASSUME NEW S, NEW E \in Seq(S), NEW D \in Seq(S), NEW U, NEW A, NEW B, Ranked(A, B, E, D, U), D # <<>>
    PROVE  Ranked(A, B, Append(E, D[1]), Tail(D), U) /\ D[1] \in S
<1>1. D[1] \in S
  OBVIOUS
<1>2. /\ Follows(Tail(D), A, B) /\ \A X : Has(Tail(D), X) => Has(D, X)
      /\ D[1] \in A => ~Has(Tail(D), B)
      /\ \A X : D[1] \in X => Has(D, X)
  BY HasTail DEF Ranked
<1>3. D[1] \notin B \/ ~Has(E, A)
  BY <1>2 DEF Ranked
<1>4. /\ Follows(Append(E, D[1]), A, B)
      /\ \A X : Has(Append(E, D[1]), X) <=> Has(E, X) \/ D[1] \in X
  BY <1>1, <1>3, HasAppend DEF Ranked
<1> QED
  BY <1>1, <1>2, <1>4 DEF Ranked

\* A reply is sent while telegrams are on their way: neutral, or the first one's.
LEMMA RankedReply ==
    ASSUME NEW E, NEW D \in Seq(Ids), NEW U \in Seq(Ids), NEW A, NEW B, Ranked(A, B, E, D, U), U # <<>>,
           A \cap Neutral = {}, B \cap Neutral = {} \/ B = Ids, NEW x \in Neutral
    PROVE  /\ Ranked(A, B, E, Append(D, x), U) /\ Append(D, x) \in Seq(Ids)
           /\ Ranked(A, B, E, Append(D, U[1]), Tail(U)) /\ Append(D, U[1]) \in Seq(Ids)
<1>1. U[1] \in Ids /\ x \in Ids
  BY DEF Neutral, Ids
<1>2. /\ Follows(Tail(U), A, B) /\ \A X : Has(Tail(U), X) => Has(U, X)
      /\ U[1] \in A => ~Has(Tail(U), B)
      /\ \A X : U[1] \in X => Has(U, X)
  BY HasTail DEF Ranked
<1>3. x \in B => ~Has(D, A) /\ ~Has(E, A)
  BY <1>1, <1>2 DEF Ranked
<1>4. U[1] \in B => ~Has(D, A) /\ ~Has(E, A)
  BY <1>2 DEF Ranked
<1>5. \A y \in {x, U[1]} : /\ Append(D, y) \in Seq(Ids) /\ Follows(Append(D, y), A, B)
                           /\ \A X : Has(Append(D, y), X) <=> Has(D, X) \/ y \in X
  <2> TAKE y \in {x, U[1]}
  <2>1. y \in Ids /\ (y \notin B \/ ~Has(D, A))
    BY <1>1, <1>3, <1>4
  <2>2. Append(D, y) \in Seq(Ids)
    BY <2>1
  <2> QED
    BY <2>1, <2>2, HasAppend DEF Ranked
<1>6. Ranked(A, B, E, Append(D, x), U)
  BY <1>3, <1>5 DEF Ranked
<1>7. Ranked(A, B, E, Append(D, U[1]), Tail(U))
  BY <1>2, <1>4, <1>5 DEF Ranked
<1> QED
  BY <1>5, <1>6, <1>7

\* A telegram is written.
LEMMA RankedWrite ==
    ASSUME NEW S, NEW E, NEW D, NEW U \in Seq(S), NEW A, NEW B, Ranked(A, B, E, D, U), NEW x \in S,
           x \notin B \/ (~Has(D, A) /\ ~Has(U, A))
    PROVE  Ranked(A, B, <<>>, D, Append(U, x)) /\ Ranked(A, B, <<>>, D, U)
<1>1. /\ Follows(Append(U, x), A, B)
      /\ \A X : Has(Append(U, x), X) <=> Has(U, X) \/ x \in X
  BY HasAppend DEF Ranked
<1> QED
  BY <1>1, HasEmpty DEF Ranked

\* A step is issued when what is on its way was left to it.
LEMMA Issuable ==
    ASSUME NEW n, NEW ph, NEW K, K \subseteq Neutral \cup Left(n), K \cap Own(n) = {},
           NEW E \in Seq(K), NEW D \in Seq(K), NEW U \in Seq(K)
    PROVE  Tidy(n, ph, E, D, U)
<1>1. ~Has(E, Own(n)) /\ ~Has(D, Own(n)) /\ ~Has(U, Own(n))
  BY HasMember
<1>2. Ranked(Own(n), Barred(n), E, D, U)
  BY <1>1 DEF Ranked, Follows, Has
<1>3. \A T : K \subseteq T => Seq(K) \subseteq Seq(T)
  OBVIOUS
<1> QED
  BY <1>1, <1>2, <1>3 DEF Tidy

\* The ids of a step, and what was left to it.
LEMMA Tables ==
    ASSUME NEW s \in Steps
    PROVE  /\ Own(s) \subseteq Ids \ Neutral /\ Left(s) \subseteq Ids \ Neutral /\ Neutral \subseteq Ids
           /\ Own(s) \cap Left(s) = {} /\ "A0" \notin Left(s) /\ Own(s) \cap Neutral = {}
           /\ s \in Commands => Own(s) = {ResponseId(s)}
           /\ Barred(s) \cap Neutral = {} \/ Barred(s) = Ids
           /\ s \in Mutations => Barred(s) = Ids /\ s \notin Reads
           /\ s \notin Mutations => Barred(s) = Left(s)
           /\ s \in {"connected", "streaming", "faulted", "closed"} => Own(s) = {} /\ s \notin Commands
<1>1. Own(s) \subseteq Ids \ Neutral /\ (s \in Commands => Own(s) = {ResponseId(s)})
  BY Replies DEF Own
<1>2. Left(s) \subseteq Ids \ Neutral /\ "A0" \notin Left(s)
  BY DEF Left, Ids, Neutral
<1>3. Own(s) \cap Left(s) = {}
  BY Replies DEF Own, Left, Commands, Reads, Mutations
<1>4. s \in {"connected", "streaming", "faulted", "closed"} => Own(s) = {} /\ s \notin Commands
  BY DEF Own, Commands, Reads, Mutations
<1>5. s \in Mutations => s \notin Reads
  BY DEF Reads, Mutations
<1> QED
  BY <1>1, <1>2, <1>3, <1>4, <1>5 DEF Barred, Neutral, Ids

\* What is still on its way when step s has its reply.
Rest(s) == IF s \in Reads THEN Neutral \cup Own(s) ELSE {}

LEMMA TakenOwn ==
    ASSUME NEW s \in Commands, NEW ph, NEW E, NEW D, NEW U, Tidy(s, ph, E, D, U), E # <<>>, E[1] \in Own(s)
    PROVE  Tail(E) \in Seq(Rest(s)) /\ D \in Seq(Rest(s)) /\ U \in Seq(Rest(s))
<1> DEFINE K == Neutral \cup Own(s) \cup Left(s)
<1>0. s \in Steps
  BY DEF Steps, Commands
<1>1. E \in Seq(K) /\ D \in Seq(K) /\ U \in Seq(K) /\ Tail(E) \in Seq(K)
  BY DEF Tidy
<1>2. ~Has(Tail(E), Barred(s)) /\ ~Has(D, Barred(s)) /\ ~Has(U, Barred(s))
  <2>1. Ranked(Own(s), Barred(s), E, D, U)
    BY DEF Tidy
  <2> HIDE DEF K
  <2> QED
    BY <1>1, <2>1, RankedFirst
<1>3. K \ Barred(s) \subseteq Rest(s)
  BY <1>0, Tables DEF Rest, Commands
<1>4. Seq(K \ Barred(s)) \subseteq Seq(Rest(s))
  BY <1>3
<1> HIDE DEF K
<1> QED
  BY <1>1, <1>2, <1>4, NotHas

\* It was left to the next one.
LEMMA RestIsLeft ==
    ASSUME NEW s \in Commands,
           NEW n, (n \in Nexts(s) /\ s # "stop") \/ (s = "config" /\ n = "connected") \/ (s = "stop" /\ n = "closed")
    PROVE  Rest(s) \subseteq Neutral \cup Left(n) /\ Rest(s) \cap Own(n) = {} /\ "A0" \notin Rest(s)
<1>1. CASE s \in Mutations
  BY <1>1, Tables DEF Rest, Reads, Mutations
<1>2. CASE s \in Reads
  <2>1. Own(s) \subseteq Left(n)
    BY <1>2, Replies DEF Nexts, Left, Own, Reads, Commands
  <2>2. n \in Steps
    BY <1>2 DEF Nexts, Steps, Reads, Mutations
  <2>3. Own(n) \cap Left(n) = {} /\ Own(n) \cap Neutral = {} /\ "A0" \notin Left(n)
    BY <2>2, Tables
  <2>4. "A0" \notin Neutral
    BY DEF Neutral
  <2> QED
    BY <1>2, <2>1, <2>3, <2>4 DEF Rest
<1> QED
  BY <1>1, <1>2 DEF Commands

LEMMA NoMutation ==
    ASSUME NEW u \in Seq(Commands), NEW K, Awaited(u) \in Seq(K), "A0" \notin K
    PROVE  u \in Seq({t \in Commands : ResponseId(t) # "A0"})
<1>1. Len(Awaited(u)) = Len(u)
  BY IdsAre
<1>2. \A i \in 1..Len(u) : Awaited(u)[i] \in K /\ Awaited(u)[i] = ResponseId(u[i])
  BY <1>1 DEF Awaited
<1> QED
  BY <1>2

-----------------------------------------------------------------------------
(* A clean session.                                                        *)

LEMMA FreshKept ==
    ASSUME [Next]_vars, ~Connect
    PROVE  fresh' = fresh /\ after' = after /\ sessions' = sessions
<1>1. CASE HostStep
  BY <1>1 DEF HostStep, Write, Receive, Timeout, Take, TakeNak, TakeAck, TakeUnexpected,
              TakeFailure, TakeReply, Close, Restart, StreamFaults, restFrame
<1>2. CASE LineStep \/ UNCHANGED vars
  BY <1>2 DEF LineStep, Process, RefuseTelegram, LoseTelegram, LoseReply, PowerCycle, vars
<1> QED
  BY <1>1, <1>2 DEF Next

\* While the transport is closed the host does nothing but connect.
LEMMA ClosedStep ==
    ASSUME TypeInv, step = "closed", [Next]_vars, ~Connect
    PROVE  UNCHANGED <<host, unanswered>> /\ ~HostStep /\ ~PowerCycle
<1>1. "closed" \notin Commands /\ phase = "send"
  BY DEF Commands, Reads, Mutations, TypeInv, TypeOK, Trying
<1>2. ~HostStep
  BY <1>1 DEF HostStep, Write, Receive, Timeout, Take, TakeNak, TakeAck, TakeUnexpected,
              TakeFailure, TakeReply, Close, Restart, StreamFaults, resting, Commands
<1>3. ~PowerCycle
  BY DEF PowerCycle, resting
<1> QED
  BY <1>2, <1>3 DEF Next, LineStep, Process, RefuseTelegram, LoseTelegram, LoseReply, vars

\* What the cleanup leaves.
LEMMA AbandonBehind ==
    ASSUME Behind, step \in Commands, Raise \/ Abandon
    PROVE  Behind'
<1>1. "closed" \notin Commands
  BY DEF Commands, Reads, Mutations
<1>2. CASE Abandon
  BY <1>1, <1>2 DEF Behind, Abandon, Issue
<1>3. CASE Raise /\ ~Abandon
  <2>1. step = "status" /\ step' = "status" /\ UNCHANGED <<confirmed, unanswered>>
    BY <1>3 DEF Raise, Issue
  <2> QED
    BY <2>1 DEF Behind
<1> QED
  BY <1>2, <1>3

LEMMA BehindStep ==
    ASSUME TypeInv, Behind, [Next]_vars
    PROVE  Behind'
<1>0. phase = "wait" => step \in Commands
  BY DEF TypeInv, Trying
<1>1. CASE Connect
  BY <1>1 DEF Connect, Behind, Issue
<1>2. CASE Write \/ Receive \/ TakeAck \/ TakeUnexpected
  BY <1>2 DEF Behind, Write, Receive, TakeAck, TakeUnexpected
<1>3. CASE Timeout \/ TakeNak
  <2>1. CASE Retry
    BY <2>1 DEF Retry, Behind
  <2> QED
    BY <1>0, <1>3, <2>1, AbandonBehind DEF Timeout, TakeNak, RetryOrRaise
<1>4. CASE TakeFailure
  BY <1>0, <1>4, AbandonBehind DEF TakeFailure
<1>5. CASE TakeReply
  <2>1. step \in Commands
    BY <1>5 DEF TypeInv, Trying, TakeReply
  <2>2. CASE step = "stop"
    BY <1>5, <2>2 DEF TakeReply, Behind, Issue
  <2>3. CASE step # "stop"
    <3>1. step # "closed" /\ ~unanswered /\ ~confirmed
      BY <2>1, <2>3 DEF Behind, Commands, Reads, Mutations
    <3>2. ~unanswered' /\ ~confirmed'
      BY <1>5, <2>3, <3>1 DEF TakeReply
    <3> QED
      BY <3>2 DEF Behind
  <2> QED
    BY <2>2, <2>3
<1>6. CASE Close \/ Restart \/ StreamFaults \/ PowerCycle
  <2>1. step \notin {"stop", "closed"}
    BY <1>6 DEF Close, Restart, StreamFaults, PowerCycle, resting
  <2>2. UNCHANGED <<confirmed, unanswered>>
    BY <1>6 DEF Close, Restart, StreamFaults, PowerCycle, restFrame
  <2> QED
    BY <2>1, <2>2 DEF Behind
<1>7. CASE Process \/ RefuseTelegram \/ LoseTelegram \/ LoseReply \/ UNCHANGED vars
  BY <1>7 DEF Behind, Process, RefuseTelegram, LoseTelegram, LoseReply, host, vars
<1> QED
  BY <1>1, <1>2, <1>3, <1>4, <1>5, <1>6, <1>7 DEF Next, HostStep, LineStep, Take

LEMMA LineTypes ==
    ASSUME TypeInv
    PROVE  /\ events \in Seq(Events) /\ down \in Seq(Events) /\ up \in Seq(Commands) /\ step \in Steps
           /\ IdsOf(events) \in Seq(Ids) /\ IdsOf(down) \in Seq(Ids) /\ Awaited(up) \in Seq(Ids)
<1>1. events \in Seq(Events) /\ down \in Seq(Events) /\ up \in Seq(Commands) /\ step \in Steps
  BY DEF TypeInv, TypeOK, Commands
<1> QED
  BY <1>1, IdsAre

LEMMA QuietMaps ==
    /\ \A r : \A q \in Seq(Events) : Quiet(q, r) => Quiet(IdsOf(q), IdsOf(r))
    /\ \A r : \A u \in Seq(Commands) : Quiet(u, r) => Quiet(Awaited(u), Awaited(r))
<1>1. ASSUME NEW q \in Seq(Events), NEW r, Quiet(q, r) PROVE Quiet(IdsOf(q), IdsOf(r))
  <2>1. CASE r = q
    BY <2>1 DEF Quiet
  <2>2. CASE r = <<>>
    BY <2>2, IdsAre DEF Quiet
  <2>3. CASE q # <<>> /\ r = Tail(q)
    BY <2>3, IdsTail DEF Quiet
  <2> QED
    BY <1>1, <2>1, <2>2, <2>3 DEF Quiet
<1>2. ASSUME NEW u \in Seq(Commands), NEW r, Quiet(u, r) PROVE Quiet(Awaited(u), Awaited(r))
  <2>1. CASE r = u
    BY <2>1 DEF Quiet
  <2>2. CASE r = <<>>
    BY <2>2, IdsAre DEF Quiet
  <2>3. CASE u # <<>> /\ r = Tail(u)
    BY <2>3, AwaitedTail DEF Quiet
  <2> QED
    BY <1>2, <2>1, <2>2, <2>3 DEF Quiet
<1> QED
  BY <1>1, <1>2

\* Losing, discarding and taking what is first keeps the order.
LEMMA TidyQuiet ==
    ASSUME NEW s, NEW ph, NEW ph2, NEW E, NEW D, NEW U, Tidy(s, ph, E, D, U),
           ph2 = "send" /\ s \in Mutations => ph = "send",
           NEW e, NEW d, NEW u, Quiet(E, e), Quiet(D, d), Quiet(U, u)
    PROVE  Tidy(s, ph2, e, d, u)
<1> DEFINE K == Neutral \cup Own(s) \cup Left(s)
<1>1. E \in Seq(K) /\ D \in Seq(K) /\ U \in Seq(K) /\ Ranked(Own(s), Barred(s), E, D, U)
  BY DEF Tidy
<1>2. Follows(E, Own(s), Barred(s)) /\ Follows(D, Own(s), Barred(s)) /\ Follows(U, Own(s), Barred(s))
  BY <1>1 DEF Ranked
<1> HIDE DEF K
<1>3. /\ \A X : Has(e, X) => Has(E, X)
      /\ \A X : Has(d, X) => Has(D, X)
      /\ \A X : Has(u, X) => Has(U, X)
  BY <1>1, <1>2, QuietIds
<1>4. Ranked(Own(s), Barred(s), e, d, u) /\ e \in Seq(K) /\ d \in Seq(K) /\ u \in Seq(K)
  BY <1>1, RankedQuiet
<1> QED
  BY <1>3, <1>4 DEF Tidy, K

LEMMA OrderQuiet ==
    ASSUME TypeInv, InOrder, step' = step, phase' = "send" /\ step \in Mutations => phase = "send",
           Quiet(events, events'), Quiet(down, down'), Quiet(up, up')
    PROVE  InOrder'
<1>1. /\ Quiet(IdsOf(events), IdsOf(events')) /\ Quiet(IdsOf(down), IdsOf(down'))
      /\ Quiet(Awaited(up), Awaited(up'))
  BY LineTypes, QuietMaps
<1>2. Tidy(step, phase', IdsOf(events'), IdsOf(down'), Awaited(up'))
  BY <1>1, TidyQuiet DEF InOrder
<1>3. up' \in Seq(Mine) /\ Mine' = Mine
  BY QuietType DEF InOrder, Mine
<1> QED
  BY <1>2, <1>3 DEF InOrder

LEMMA OrderReceive ==
    ASSUME TypeInv, InOrder, Receive
    PROVE  InOrder'
<1> DEFINE E == IdsOf(events)  D == IdsOf(down)  U == Awaited(up)  A == Own(step)  B == Barred(step)
           K == Neutral \cup Own(step) \cup Left(step)
           Q == IF Len(events) = QueueSize THEN Tail(events) ELSE events
<1>1. /\ step' = step /\ phase' = phase /\ up' = up /\ down # <<>> /\ down' = Tail(down)
      /\ events' = Append(Q, Head(down))
  BY DEF Receive, Queued
<1>2. events \in Seq(Events) /\ down \in Seq(Events) /\ up \in Seq(Commands)
  BY LineTypes
<1>3. Q \in Seq(Events) /\ Quiet(events, Q)
  <2>1. Len(events) = QueueSize => events # <<>>
    BY Numbers
  <2> QED
    BY <1>2, <2>1 DEF Quiet
<1>4. Tidy(step, phase, IdsOf(Q), D, U)
  <2>1. Quiet(E, IdsOf(Q)) /\ Quiet(D, D) /\ Quiet(U, U)
    BY <1>2, <1>3, QuietMaps DEF Quiet
  <2>2. Tidy(step, phase, E, D, U)
    BY DEF InOrder
  <2> HIDE DEF E, D, U, Q
  <2> QED
    BY <2>1, <2>2, TidyQuiet
<1>5. D # <<>> /\ IdsOf(down') = Tail(D) /\ D[1] = Head(down).r /\ Head(down) \in Events
  BY <1>1, <1>2, IdsTail
<1>6. IdsOf(events') = Append(IdsOf(Q), D[1])
  BY <1>1, <1>3, <1>5, IdsAppend
<1> DEFINE F == IdsOf(Q)
<1>7. F \in Seq(K) /\ D \in Seq(K) /\ U \in Seq(K) /\ Ranked(A, B, F, D, U)
  BY <1>4 DEF Tidy
<1>8. Ranked(A, B, Append(F, D[1]), Tail(D), U) /\ D[1] \in K
  <2> HIDE DEF A, B, D, U, K, F
  <2> QED
    BY <1>5, <1>7, RankedReceive
<1>9. Append(F, D[1]) \in Seq(K) /\ Tail(D) \in Seq(K)
  <2> HIDE DEF D, K, F
  <2> QED
    BY <1>5, <1>7, <1>8
<1>10. phase = "send" /\ step \in Mutations => ~Has(Append(F, D[1]), A) /\ ~Has(Tail(D), A) /\ ~Has(U, A)
  <2>1. phase = "send" /\ step \in Mutations => ~Has(F, A) /\ ~Has(D, A) /\ ~Has(U, A)
    BY <1>4 DEF Tidy
  <2>2. Follows(D, A, B) /\ Follows(F, A, B)
    BY <1>7 DEF Ranked
  <2> HIDE DEF A, B, D, U, K, F
  <2>3. /\ \A X : Has(Tail(D), X) => Has(D, X)
        /\ \A X : D[1] \in X => Has(D, X)
    BY <1>5, <1>7, <2>2, HasTail
  <2>4. ~Has(F, A) => \A X : Has(Append(F, D[1]), X) <=> Has(F, X) \/ D[1] \in X
    BY <1>7, <1>8, <2>2, HasAppend
  <2> QED
    BY <2>1, <2>3, <2>4
<1>11. Tidy(step, phase, Append(F, D[1]), Tail(D), U)
  BY <1>7, <1>8, <1>9, <1>10 DEF Tidy
<1>12. InOrder' <=> Tidy(step', phase', IdsOf(events'), IdsOf(down'), Awaited(up')) /\ up' \in Seq(Mine')
  BY DEF InOrder
<1>13. up' \in Seq(Mine')
  BY <1>1 DEF InOrder, Mine
<1> QED
  BY <1>1, <1>5, <1>6, <1>11, <1>12, <1>13

\* The scanner sends something neutral, or the reply to the first telegram.
LEMMA TidyReply ==
    ASSUME NEW s \in Steps, NEW ph, NEW E, NEW D, NEW U, Tidy(s, ph, E, D, U), U # <<>>, NEW x \in Neutral
    PROVE  Tidy(s, ph, E, Append(D, x), U) /\ Tidy(s, ph, E, Append(D, U[1]), Tail(U))
<1> DEFINE A == Own(s)  B == Barred(s)  K == Neutral \cup Own(s) \cup Left(s)
<1>1. E \in Seq(K) /\ D \in Seq(K) /\ U \in Seq(K) /\ Ranked(A, B, E, D, U)
  BY DEF Tidy
<1>2. A \cap Neutral = {} /\ (B \cap Neutral = {} \/ B = Ids) /\ K \subseteq Ids /\ x \in K
  BY Tables
<1>4. ph = "send" /\ s \in Mutations => ~Has(E, A) /\ ~Has(D, A) /\ ~Has(U, A)
  BY DEF Tidy
<1>5. D \in Seq(Ids) /\ U \in Seq(Ids)
  BY <1>1, <1>2
<1>6. Follows(D, A, B) /\ Follows(U, A, B)
  BY <1>1 DEF Ranked
<1> HIDE DEF A, B, K
<1>7. /\ Ranked(A, B, E, Append(D, x), U)
      /\ Ranked(A, B, E, Append(D, U[1]), Tail(U))
  BY <1>1, <1>2, <1>5, RankedReply
<1>8. /\ U[1] \in K /\ Tail(U) \in Seq(K)
      /\ Append(D, x) \in Seq(K) /\ Append(D, U[1]) \in Seq(K)
  BY <1>1, <1>2
<1>9. /\ \A X : Has(Tail(U), X) => Has(U, X)
      /\ \A X : U[1] \in X => Has(U, X)
  BY <1>5, <1>6, HasTail
<1>10. /\ ~Has(D, A) => ~Has(Append(D, x), A)
       /\ ~Has(D, A) /\ ~Has(U, A) => ~Has(Append(D, U[1]), A)
  BY <1>1, <1>2, <1>6, <1>8, <1>9, HasAppend
<1>11. ph = "send" /\ s \in Mutations => /\ ~Has(E, A) /\ ~Has(Append(D, x), A) /\ ~Has(U, A)
                                         /\ ~Has(Append(D, U[1]), A) /\ ~Has(Tail(U), A)
  BY <1>4, <1>9, <1>10
<1> QED
  BY <1>1, <1>7, <1>8, <1>11 DEF Tidy, A, B, K

LEMMA OrderProcess ==
    ASSUME TypeInv, InOrder, Process
    PROVE  InOrder'
<1> DEFINE D == IdsOf(down)  U == Awaited(up)  E == IdsOf(events)  a == Answer(Head(up))
           D1 == Append(D, "ack")  D2 == Append(D1, a.r)
<1>1. step' = step /\ phase' = phase /\ events' = events /\ up # <<>> /\ up' = Tail(up)
  BY DEF Process, host
<1>2. CASE down' = down
  <2>1. Quiet(events, events') /\ Quiet(down, down') /\ Quiet(up, up')
    BY <1>1, <1>2 DEF Quiet
  <2> QED
    BY <1>1, <2>1, OrderQuiet
<1>3. CASE down' # down
  <2>1. events \in Seq(Events) /\ down \in Seq(Events) /\ up \in Seq(Commands) /\ step \in Steps
    BY LineTypes
  <2>2. U # <<>> /\ Awaited(up') = Tail(U) /\ U[1] = ResponseId(Head(up)) /\ Head(up) \in Commands
    BY <1>1, <2>1, AwaitedTail
  <2>3. a \in Events /\ Event("ack") \in Events /\ a.r \in {U[1], "92"} /\ Event("ack").r = "ack"
    BY <2>2, AnswerType DEF Reported, Event
  <2>4. down' = Append(Append(down, Event("ack")), a)
    <3>1. down' = down \o <<Event("ack"), a>>
      BY <1>3 DEF Process, Emit
    <3> QED
      BY <2>1, <2>3, <3>1, Appended
  <2>5. IdsOf(down') = D2
    <3>1. Append(down, Event("ack")) \in Seq(Events) /\ IdsOf(Append(down, Event("ack"))) = D1
      BY <2>1, <2>3, IdsAppend
    <3> QED
      BY <2>3, <2>4, <3>1, IdsAppend
  <2>6. Tidy(step, phase, E, D, U)
    BY DEF InOrder
  <2>7. "ack" \in Neutral /\ "92" \in Neutral
    BY DEF Neutral
  <2>8. Tidy(step, phase, E, D1, U)
    <3> HIDE DEF D, U, E
    <3> QED
      BY <2>1, <2>2, <2>6, <2>7, TidyReply
  <2>9. Tidy(step, phase, E, D2, Tail(U))
    <3> HIDE DEF D, U, E, D1
    <3>1. Tidy(step, phase, E, Append(D1, "92"), U) /\ Tidy(step, phase, E, Append(D1, U[1]), Tail(U))
      BY <2>1, <2>2, <2>7, <2>8, TidyReply
    <3>2. Quiet(E, E) /\ Quiet(Append(D1, "92"), Append(D1, "92")) /\ Quiet(U, Tail(U))
      BY <2>2 DEF Quiet
    <3>3. Tidy(step, phase, E, Append(D1, "92"), Tail(U))
      BY <3>1, <3>2, TidyQuiet
    <3> QED
      BY <2>3, <3>1, <3>3
  <2>10. up' \in Seq(Mine')
    <3>1. up \in Seq(Mine) /\ Mine' = Mine
      BY <1>1 DEF InOrder, Mine
    <3> QED
      BY <1>1, <3>1
  <2> QED
    BY <1>1, <2>2, <2>5, <2>9, <2>10 DEF InOrder
<1> QED
  BY <1>2, <1>3

LEMMA OrderRefuse ==
    ASSUME TypeInv, InOrder, RefuseTelegram
    PROVE  InOrder'
<1> DEFINE D == IdsOf(down)  U == Awaited(up)  E == IdsOf(events)  D1 == Append(D, "nak")
<1>1. step' = step /\ phase' = phase /\ events' = events /\ up # <<>> /\ up' = Tail(up)
  BY DEF RefuseTelegram, host
<1>2. CASE down' = down
  <2>1. Quiet(events, events') /\ Quiet(down, down') /\ Quiet(up, up')
    BY <1>1, <1>2 DEF Quiet
  <2> QED
    BY <1>1, <2>1, OrderQuiet
<1>3. CASE down' # down
  <2>1. events \in Seq(Events) /\ down \in Seq(Events) /\ up \in Seq(Commands) /\ step \in Steps
    BY LineTypes
  <2>2. U # <<>> /\ Awaited(up') = Tail(U)
    BY <1>1, <2>1, AwaitedTail
  <2>3. Event("nak") \in Events /\ Event("nak").r = "nak"
    BY DEF Event, Events
  <2>4. down' = Append(down, Event("nak"))
    <3>1. down' = down \o <<Event("nak")>>
      BY <1>3 DEF RefuseTelegram, Emit
    <3> QED
      BY <2>1, <2>3, <3>1, Appended
  <2>5. IdsOf(down') = D1
    BY <2>1, <2>3, <2>4, IdsAppend
  <2>6. Tidy(step, phase, E, D, U) /\ "nak" \in Neutral
    BY DEF InOrder, Neutral
  <2>7. Tidy(step, phase, E, D1, Tail(U))
    <3> HIDE DEF D, U, E
    <3>1. Tidy(step, phase, E, D1, U)
      BY <2>1, <2>2, <2>6, TidyReply
    <3>2. Quiet(E, E) /\ Quiet(D1, D1) /\ Quiet(U, Tail(U))
      BY <2>2 DEF Quiet
    <3> QED
      BY <3>1, <3>2, TidyQuiet
  <2>8. up' \in Seq(Mine')
    <3>1. up \in Seq(Mine) /\ Mine' = Mine
      BY <1>1 DEF InOrder, Mine
    <3> QED
      BY <1>1, <3>1
  <2> QED
    BY <1>1, <2>2, <2>5, <2>7, <2>8 DEF InOrder
<1> QED
  BY <1>2, <1>3

LEMMA OrderWrite ==
    ASSUME TypeInv, InOrder, Write
    PROVE  InOrder'
<1> DEFINE D == IdsOf(down)  U == Awaited(up)  E == IdsOf(events)  A == Own(step)  B == Barred(step)
           K == Neutral \cup Own(step) \cup Left(step)  x == ResponseId(step)
<1>1. /\ step' = step /\ phase = "send" /\ phase' = "wait" /\ events' = <<>> /\ down' = down
      /\ step \in Commands /\ (up' = up \/ up' = Append(up, step))
  BY DEF Write, Commands
<1>2. events \in Seq(Events) /\ down \in Seq(Events) /\ up \in Seq(Commands) /\ step \in Steps
  BY LineTypes
<1>3. /\ E \in Seq(K) /\ D \in Seq(K) /\ U \in Seq(K) /\ Ranked(A, B, E, D, U)
      /\ step \in Mutations => ~Has(E, A) /\ ~Has(D, A) /\ ~Has(U, A)
  BY <1>1 DEF InOrder, Tidy
<1>4. A = {x} /\ x \in K /\ A \cap Left(step) = {} /\ (step \notin Mutations => B = Left(step))
  BY <1>1, <1>2, Tables
<1>5. x \notin B \/ (~Has(D, A) /\ ~Has(U, A))
  BY <1>3, <1>4
<1>6. Ranked(A, B, <<>>, D, Append(U, x)) /\ Ranked(A, B, <<>>, D, U)
  <2> HIDE DEF A, B, D, U, E, K, x
  <2> QED
    BY <1>3, <1>4, <1>5, RankedWrite
<1>7. Append(U, x) \in Seq(K) /\ <<>> \in Seq(K)
  <2> HIDE DEF U, K, x
  <2> QED
    BY <1>3, <1>4
<1>8. Tidy(step, "wait", <<>>, D, Append(U, x)) /\ Tidy(step, "wait", <<>>, D, U)
  BY <1>3, <1>6, <1>7 DEF Tidy
<1>9. Awaited(up') = U \/ Awaited(up') = Append(U, x)
  BY <1>1, <1>2, AwaitedAppend
<1>10. up' \in Seq(Mine')
  <2>1. up \in Seq(Mine) /\ Mine' = Mine /\ step \in Mine
    BY <1>1 DEF InOrder, Mine
  <2> QED
    BY <1>1, <2>1
<1>11. IdsOf(events') = <<>> /\ IdsOf(down') = D
  BY <1>1, IdsAre
<1> QED
  BY <1>1, <1>8, <1>9, <1>10, <1>11 DEF InOrder

\* A step is issued with what was left to it on its way.
LEMMA OrderIssue ==
    ASSUME TypeInv, NEW n \in Steps, Issue(n), NEW K, K \subseteq Neutral \cup Left(n), K \cap Own(n) = {}, "A0" \notin K,
           NEW e \in Seq(K), e = IdsOf(events'), NEW d \in Seq(K), Quiet(d, IdsOf(down')),
           Awaited(up) \in Seq(K), UNCHANGED up
    PROVE  InOrder'
<1>1. IdsOf(down') \in Seq(K)
  BY QuietType
<1>2. Tidy(n, "send", IdsOf(events'), IdsOf(down'), Awaited(up))
  BY <1>1, Issuable
<1>3. step' = n /\ phase' = "send" /\ up' = up
  BY DEF Issue
<1>4. up' \in Seq(Mine')
  <2>1. up \in Seq({t \in Commands : ResponseId(t) # "A0"})
    BY LineTypes, NoMutation
  <2>2. {t \in Commands : ResponseId(t) # "A0"} \subseteq Mine'
    BY DEF Mine
  <2>3. \A S, T : S \subseteq T => Seq(S) \subseteq Seq(T)
    OBVIOUS
  <2> QED
    BY <1>3, <2>1, <2>2, <2>3
<1> QED
  BY <1>2, <1>3, <1>4 DEF InOrder

\* What may be on its way to a step that is issued while nothing was taken.
LEMMA OrderPass ==
    ASSUME TypeInv, InOrder, NEW n \in Steps, Issue(n), Own(step) \cup Left(step) \subseteq Left(n),
           "A0" \notin Own(step) \cup Left(step), Own(n) \cap Left(n) = {}, Quiet(events, events'),
           Quiet(down, down'), UNCHANGED up
    PROVE  InOrder'
<1> DEFINE K == Neutral \cup Own(step) \cup Left(step)
<1>1. IdsOf(events) \in Seq(K) /\ IdsOf(down) \in Seq(K) /\ Awaited(up) \in Seq(K)
  BY DEF InOrder, Tidy
<1>2. /\ Quiet(IdsOf(events), IdsOf(events')) /\ Quiet(IdsOf(down), IdsOf(down'))
  BY LineTypes, QuietMaps
<1>3. K \subseteq Neutral \cup Left(n) /\ K \cap Own(n) = {} /\ "A0" \notin K
  <2>1. Own(n) \cap Neutral = {}
    BY Tables
  <2> QED
    BY <2>1 DEF Neutral
<1>4. IdsOf(events') \in Seq(K)
  <2> HIDE DEF K
  <2> QED
    BY <1>1, <1>2, QuietType
<1> HIDE DEF K
<1> QED
  BY <1>1, <1>2, <1>3, <1>4, OrderIssue

\* The step that a reply leads to.
LEMMA TakeReplyIssues ==
    ASSUME TypeInv, TakeReply
    PROVE  /\ step \in Commands /\ IdsOf(events) # <<>> /\ IdsOf(events)[1] \in Own(step)
           /\ Head(events).r = ResponseId(step) /\ Head(events) \in Reported
           /\ \E n \in Steps : /\ Issue(n)
                               /\ \/ n \in Nexts(step) /\ step # "stop"
                                  \/ step = "config" /\ n = "connected"
                                  \/ step = "stop" /\ n = "closed"
                               /\ n = "variant" => plan'.geometry
                               /\ n = "write" => plan'.config
<1>1. step \in Commands /\ events # <<>> /\ Head(events).r = ResponseId(step)
  BY DEF TypeInv, Trying, TakeReply, Matches
<1>2. IdsOf(events) # <<>> /\ IdsOf(events)[1] \in Own(step)
  BY <1>1, LineTypes, IdsTail DEF Own
<1>3. Head(events) \in Reported
  BY <1>1 DEF TypeInv, Rated
<1>4. CASE step = "stop"
  <2>1. Issue("closed") /\ "closed" \in Steps
    BY <1>4 DEF TakeReply, Steps
  <2> QED
    BY <1>1, <1>2, <1>3, <1>4, <2>1
<1>5. CASE step = "config" /\ Issue("connected")
  <2>1. "connected" \in Steps
    BY DEF Steps
  <2> QED
    BY <1>1, <1>2, <1>3, <1>5, <2>1
<1>6. CASE step # "stop" /\ ~(step = "config" /\ Issue("connected"))
  <2>1. PICK b : Issue(Following(step, b, plan'))
    BY <1>6 DEF TakeReply
  <2>2. /\ Following(step, b, plan') \in Nexts(step)
        /\ Following(step, b, plan') = "variant" => plan'.geometry
        /\ Following(step, b, plan') = "write" => plan'.config
    BY <1>1, <1>6, NextCommand
  <2>3. \A s \in Commands \ {"stop"} : Nexts(s) \subseteq Steps
    BY DEF Nexts, Steps, Reads, Mutations, Commands
  <2> QED
    BY <1>1, <1>2, <1>3, <1>6, <2>1, <2>2, <2>3
<1> QED
  BY <1>4, <1>5, <1>6

LEMMA OrderTakeReply ==
    ASSUME TypeInv, InOrder, TakeReply
    PROVE  InOrder'
<1>1. /\ step \in Commands /\ IdsOf(events) # <<>> /\ IdsOf(events)[1] \in Own(step)
  BY TakeReplyIssues
<1>2. PICK n \in Steps : /\ Issue(n)
                         /\ \/ n \in Nexts(step) /\ step # "stop"
                            \/ step = "config" /\ n = "connected"
                            \/ step = "stop" /\ n = "closed"
  BY TakeReplyIssues
<1>3. Rest(step) \subseteq Neutral \cup Left(n) /\ Rest(step) \cap Own(n) = {} /\ "A0" \notin Rest(step)
  BY <1>1, <1>2, RestIsLeft
<1>4. /\ Tail(IdsOf(events)) \in Seq(Rest(step)) /\ IdsOf(down) \in Seq(Rest(step))
      /\ Awaited(up) \in Seq(Rest(step))
  BY <1>1, TakenOwn DEF InOrder
<1>5. events # <<>> /\ events' = Tail(events) /\ UNCHANGED up
  BY DEF TakeReply
<1>6. IdsOf(events') = Tail(IdsOf(events))
  BY <1>5, LineTypes, IdsTail
<1>7. Quiet(down, down')
  BY TakeLine DEF Take
<1>8. Quiet(IdsOf(down), IdsOf(down'))
  BY <1>7, LineTypes, QuietMaps
<1> QED
  BY <1>2, <1>3, <1>4, <1>5, <1>6, <1>8, OrderIssue

\* A failed command leads to the next rate, or to the stop.
LEMMA OrderRaise ==
    ASSUME TypeInv, InOrder, Clean', phase = "wait", Raise \/ Abandon, Quiet(events, events'), UNCHANGED up
    PROVE  InOrder'
<1>0. step \in Commands /\ step \in Steps /\ Quiet(down, down') /\ Quiet(up, up')
  BY RaiseLine, LineTypes DEF TypeInv, Trying, Quiet
<1>1. CASE Raise /\ ~Abandon
  <2>1. step = "status" /\ step' = step
    BY <1>1 DEF Raise, Issue
  <2>2. step \notin Mutations
    BY <2>1 DEF Mutations
  <2> QED
    BY <1>0, <2>1, <2>2, OrderQuiet
<1>2. CASE Abandon
  <2>1. ~unanswered'
    BY DEF Clean, Settled
  <2>2. ~Issue("closed") \/ confirmed'
    BY DEF Clean, Settled, Issue
  <2>3. step # "stop" /\ Issue("stop") /\ ResponseId(step) # "A0"
    BY <1>2, <2>1, <2>2 DEF Abandon
  <2>4. "stop" \in Steps
    BY DEF Steps, Mutations
  <2>5. Own(step) \cup Left(step) \subseteq Left("stop") /\ "A0" \notin Own(step) \cup Left(step)
    <3>1. Own(step) = {ResponseId(step)} /\ Own(step) \cup Left(step) \subseteq Ids \ Neutral /\ "A0" \notin Left(step)
      BY <1>0, Tables
    <3>2. Left("stop") = {"B1", "BA", "F4", "BB", "F7"}
      BY DEF Left
    <3> QED
      BY <2>3, <3>1, <3>2 DEF Ids, Neutral
  <2>6. Own("stop") \cap Left("stop") = {}
    BY <2>4, Tables
  <2> QED
    BY <1>0, <2>3, <2>4, <2>5, <2>6, OrderPass
<1> QED
  BY <1>1, <1>2

LEMMA OrderRest ==
    ASSUME TypeInv, Behind, InOrder, Clean', Close \/ Restart \/ StreamFaults
    PROVE  InOrder'
<1>1. step \in Steps /\ resting /\ UNCHANGED <<events, down, up, confirmed>>
  BY LineTypes DEF Close, Restart, StreamFaults, restFrame, resting
<1>2. Quiet(events, events') /\ Quiet(down, down')
  BY <1>1 DEF Quiet
<1>3. ~Issue("closed")
  BY <1>1 DEF Clean, Settled, Issue, Behind, resting
<1>4. PICK n \in {"stop", "quiesce", "faulted"} : /\ Issue(n)
                                                  /\ n = "faulted" => step = "streaming"
  BY <1>3 DEF Close, Restart, StreamFaults
<1>5. n \in Steps
  BY DEF Steps, Mutations
<1>6. Own(step) = {}
  BY <1>1, Tables DEF resting
<1>7. Left(step) \subseteq Left(n) /\ "A0" \notin Left(step)
  BY <1>1, <1>4 DEF Left, resting
<1>8. Own(n) \cap Left(n) = {}
  BY <1>5, Tables
<1> QED
  BY <1>1, <1>2, <1>4, <1>5, <1>6, <1>7, <1>8, OrderPass

LEMMA OrderPower ==
    ASSUME TypeInv, InOrder, PowerCycle
    PROVE  InOrder'
<1>1. UNCHANGED <<events, down>> /\ up' = <<>> /\ phase = "send"
  <2>1. step \notin Commands
    BY LineTypes, Tables DEF PowerCycle, resting
  <2> QED
    BY <2>1 DEF PowerCycle, TypeInv, TypeOK, Trying
<1>2. Quiet(events, events') /\ Quiet(down, down') /\ Quiet(up, up')
  BY <1>1 DEF Quiet
<1>3. CASE step # "streaming"
  BY <1>1, <1>2, <1>3, OrderQuiet DEF PowerCycle
<1>4. CASE step = "streaming"
  <2>1. /\ step' = "faulted" /\ phase' = "send"
    BY <1>4 DEF PowerCycle, Issue
  <2>2. Own("faulted") = {} /\ Own("streaming") = {} /\ Left("faulted") = {} /\ Left("streaming") = {}
    BY DEF Own, Left, Commands, Reads, Mutations
  <2>3. IdsOf(events') \in Seq(Neutral) /\ IdsOf(down') \in Seq(Neutral) /\ Awaited(up') \in Seq(Neutral)
    <3>1. Neutral \cup Own(step) \cup Left(step) = Neutral
      BY <1>4, <2>2
    <3>2. IdsOf(events) \in Seq(Neutral) /\ IdsOf(down) \in Seq(Neutral)
      BY <3>1 DEF InOrder, Tidy
    <3>3. Awaited(up') = <<>>
      BY <1>1, IdsAre
    <3>4. <<>> \in Seq(Neutral) /\ events' = events /\ down' = down
      BY <1>1
    <3> QED
      BY <3>2, <3>3, <3>4, Zenon
  <2>4. Tidy("faulted", "send", IdsOf(events'), IdsOf(down'), Awaited(up'))
    BY <2>2, <2>3, Issuable
  <2> QED
    BY <1>1, <2>1, <2>4 DEF InOrder
<1> QED
  BY <1>3, <1>4

LEMMA OrderStep ==
    ASSUME TypeInv, Behind, Clean, InOrder, [Next]_vars, ~Connect, Clean'
    PROVE  InOrder'
<1>2. CASE Write \/ Receive \/ TakeReply \/ Process \/ RefuseTelegram \/ PowerCycle
  BY <1>2, OrderWrite, OrderReceive, OrderTakeReply, OrderProcess, OrderRefuse, OrderPower
<1>3. CASE Timeout \/ TakeNak \/ TakeFailure
  <2>1. phase = "wait" /\ Quiet(events, events') /\ UNCHANGED up
    BY <1>3, TakeLine DEF Timeout, TakeNak, TakeFailure, Take, Quiet
  <2>2. CASE Raise \/ Abandon
    BY <2>1, <2>2, OrderRaise
  <2>3. CASE Retry /\ attempt < Attempts(step)
    <3>1. step \in Commands /\ attempt \in Nat /\ attempt >= 1
      BY <2>1 DEF TypeInv, TypeOK, Trying
    <3>2. step \notin Mutations
      <4>1. step \in Mutations => Attempts(step) = 1
        BY DEF Attempts, Reads, Mutations
      <4> QED
        BY <2>3, <3>1, <4>1
    <3>3. Quiet(down, down') /\ Quiet(up, up') /\ step' = step
      BY <2>1, <2>3, RaiseLine DEF Retry, Quiet
    <3> QED
      BY <2>1, <3>2, <3>3, OrderQuiet
  <2> QED
    BY <1>3, <2>2, <2>3 DEF Timeout, TakeNak, TakeFailure, RetryOrRaise
<1>4. CASE Close \/ Restart \/ StreamFaults
  BY <1>4, OrderRest
<1>5. CASE TakeAck \/ TakeUnexpected \/ LoseTelegram \/ LoseReply \/ UNCHANGED vars
  <2>1. UNCHANGED <<step, phase>>
    BY <1>5 DEF TakeAck, TakeUnexpected, LoseTelegram, LoseReply, host, vars
  <2>2. Quiet(events, events') /\ Quiet(down, down') /\ Quiet(up, up')
    BY <1>5 DEF TakeAck, TakeUnexpected, LoseTelegram, LoseReply, host, vars, Quiet
  <2> QED
    BY <2>1, <2>2, OrderQuiet
<1> QED
  BY <1>2, <1>3, <1>4, <1>5 DEF Next, HostStep, LineStep, Take

-----------------------------------------------------------------------------
(* What is known of the scanner.                                           *)

LEMMA KnowledgeKept ==
    ASSUME [Next]_vars, ~TakeReply
    PROVE  UNCHANGED <<info, conf, plan>>
<1>1. CASE HostStep
  BY <1>1 DEF HostStep, Connect, Write, Receive, Timeout, Take, TakeNak, TakeAck, TakeUnexpected,
              TakeFailure, Close, Restart, StreamFaults, restFrame
<1>2. CASE LineStep \/ UNCHANGED vars
  BY <1>2 DEF LineStep, Process, RefuseTelegram, LoseTelegram, LoseReply, PowerCycle, host, vars
<1> QED
  BY <1>1, <1>2 DEF Next

\* The scanner changes by executing a telegram and by losing its power.
LEMMA ScannerKept ==
    ASSUME [Next]_vars, ~Process, ~PowerCycle
    PROVE  UNCHANGED scanner
<1>1. CASE HostStep
  BY <1>1 DEF HostStep, Connect, Write, Receive, Timeout, Take, TakeNak, TakeAck, TakeUnexpected,
              TakeFailure, TakeReply, Close, Restart, StreamFaults, restFrame
<1>2. CASE LineStep \/ UNCHANGED vars
  BY <1>2 DEF LineStep, RefuseTelegram, LoseTelegram, LoseReply, vars
<1> QED
  BY <1>1, <1>2 DEF Next

LEMMA Grows ==
    ASSUME TypeInv, [Next]_vars
    PROVE  /\ ~PowerCycle => (geometry => geometry') /\ (config => config')
           /\ PowerCycle => config' = config /\ (geometry' => geometry)
<1>1. geometry \in BOOLEAN /\ config \in BOOLEAN
  BY DEF TypeInv, TypeOK
<1>2. Process => (geometry => geometry') /\ (config => config')
  BY <1>1 DEF Process, Execute
<1>3. PowerCycle => config' = config /\ (geometry' => geometry)
  <2>1. PowerCycle => config' = config
    BY DEF PowerCycle
  <2>2. PowerCycle => geometry' = geometry \/ geometry' = FALSE
    BY DEF PowerCycle
  <2> QED
    BY <1>1, <2>1, <2>2
<1>4. ~Process /\ ~PowerCycle => geometry' = geometry /\ config' = config
  BY ScannerKept DEF scanner
<1> QED
  BY <1>1, <1>2, <1>3, <1>4

\* The events and replies whose ids are in K.
LEMMA OnlyIds ==
    ASSUME NEW q \in Seq(Events), NEW K, IdsOf(q) \in Seq(K)
    PROVE  q \in Seq({e \in Events : e.r \in K})
<1>1. Len(IdsOf(q)) = Len(q)
  BY IdsAre
<1>2. \A i \in 1..Len(q) : IdsOf(q)[i] \in K /\ IdsOf(q)[i] = q[i].r
  BY <1>1 DEF IdsOf
<1> QED
  BY <1>2

LEMMA SeqGrows == \A S, T : S \subseteq T => Seq(S) \subseteq Seq(T)
OBVIOUS

LEMMA Neutrals ==
    /\ Event("ack") \in Events /\ Event("ack").r = "ack"
    /\ Event("nak") \in Events /\ Event("nak").r = "nak"
BY DEF Event, Events

LEMMA AnswersTelegram ==
    ASSUME TypeInv, Process
    PROVE  /\ Head(up) \in Commands /\ Answer(Head(up)) \in Events
           /\ Answer(Head(up)).r = "B1" => Answer(Head(up)).geometry = geometry
           /\ Answer(Head(up)).r = "F4" => Answer(Head(up)).config = config
<1>1. Head(up) \in Commands
  BY LineTypes DEF Process
<1> QED
  BY <1>1, AnswerType DEF Reported

LEMMA TruthStep ==
    ASSUME TypeInv, PowerCycle => InOrder, Truth, [Next]_vars
    PROVE  Truth'
<1>1. /\ geometry \in BOOLEAN /\ config \in BOOLEAN /\ Len(events) <= QueueSize
      /\ events \in Seq(Events) /\ down \in Seq(Events) /\ step \in Steps
  BY LineTypes DEF TypeInv, TypeOK
<1>2. events' \in Seq(Truthful') /\ down' \in Seq(Truthful')
  <2>1. CASE ~PowerCycle
    <3>1. Truthful \subseteq Truthful'
      BY <2>1, Grows DEF Truthful, Events, Bauds
    <3>2. events \in Seq(Truthful') /\ down \in Seq(Truthful')
      BY <3>1, SeqGrows DEF Truth
    <3>3. Events' = Events
      BY DEF Events, Bauds
    <3>4. Event("ack") \in Truthful' /\ Event("nak") \in Truthful'
      BY <3>3, Neutrals DEF Truthful
    <3>5. Process => Answer(Head(up)) \in Truthful'
      BY <1>1, <2>1, <3>3, AnswersTelegram, Grows DEF Truthful
    <3> QED
      BY <1>1, <3>2, <3>4, <3>5, RepliesKept
  <2>2. CASE PowerCycle
    <3> DEFINE K == Neutral \cup Own(step) \cup Left(step)
    <3>1. IdsOf(events) \in Seq(K) /\ IdsOf(down) \in Seq(K)
      BY <2>2 DEF InOrder, Tidy
    <3>2. "B1" \notin K
      <4>1. step \in {"connected", "streaming", "faulted"}
        BY <2>2 DEF PowerCycle, resting
      <4> QED
        BY <1>1, <4>1, Tables DEF Left, Neutral
    <3> HIDE DEF K
    <3>3. events \in Seq({e \in Events : e.r \in K}) /\ down \in Seq({e \in Events : e.r \in K})
      BY <1>1, <3>1, OnlyIds
    <3>4. \A i \in 1..Len(events) : events[i] \in Truthful'
      BY <2>2, <3>2, <3>3, Grows DEF Truth, Truthful, Events, Bauds
    <3>5. \A i \in 1..Len(down) : down[i] \in Truthful'
      BY <2>2, <3>2, <3>3, Grows DEF Truth, Truthful, Events, Bauds
    <3>6. UNCHANGED <<events, down>>
      BY <2>2 DEF PowerCycle
    <3> QED
      BY <1>1, <3>4, <3>5, <3>6
  <2> QED
    BY <2>1, <2>2
<1> QED
  BY <1>2 DEF Truth

\* The configuration matches for good once it does.
LEMMA BelievedStep ==
    ASSUME TypeInv, Believed, [Next]_vars
    PROVE  Believed'
<1>1. /\ config \in BOOLEAN /\ Len(events) <= QueueSize /\ Events' = Events
  BY DEF TypeInv, TypeOK, Events, Bauds
<1>2. config => config'
  BY Grows
<1>3. events \in Seq(Configured') /\ down \in Seq(Configured')
  <2>1. Configured \subseteq Configured'
    BY <1>1, <1>2 DEF Configured
  <2> QED
    BY <2>1, SeqGrows DEF Believed
<1>4. Event("ack") \in Configured' /\ Event("nak") \in Configured'
  BY <1>1, Neutrals DEF Configured
<1>5. Process => Answer(Head(up)) \in Configured'
  BY <1>1, <1>2, AnswersTelegram DEF Configured
<1>6. events' \in Seq(Configured') /\ down' \in Seq(Configured')
  BY <1>1, <1>3, <1>4, <1>5, RepliesKept
<1>7. conf' => config'
  <2>2. CASE TakeReply
    <3>1. Head(events) \in Configured
      BY <2>2 DEF TakeReply, Believed
    <3>2. conf' = conf \/ (Head(events).r = "F4" /\ conf' = Head(events).config)
      BY <2>2 DEF TakeReply
    <3> QED
      BY <1>2, <3>1, <3>2 DEF Believed, Configured
  <2>3. CASE ~TakeReply
    BY <1>2, <2>3, KnowledgeKept DEF Believed
  <2> QED
    BY <2>2, <2>3
<1> QED
  BY <1>6, <1>7 DEF Believed

\* Where the host goes, in a clean session, when it takes no reply.
LEMMA Stays ==
    ASSUME TypeInv, Behind, Clean, Clean', [Next]_vars, ~Connect, ~TakeReply
    PROVE  \/ /\ step' = step /\ (phase' = "send" /\ step \in Mutations => phase = "send")
              /\ hostBaud' = hostBaud \/ step = "status"
           \/ step' = "stop" /\ hostBaud' = hostBaud
           \/ Restart \/ StreamFaults
           \/ PowerCycle /\ step = "streaming" /\ step' = "faulted"
<1>2. CASE Write \/ Receive \/ TakeAck \/ TakeUnexpected
  BY <1>2 DEF Write, Receive, TakeAck, TakeUnexpected
<1>3. CASE Timeout \/ TakeNak \/ TakeFailure
  <2>1. CASE Abandon
    <3>1. ~Issue("closed") \/ confirmed'
      BY DEF Clean, Settled, Issue
    <3> QED
      BY <2>1, <3>1 DEF Abandon, Issue
  <2>2. CASE Raise /\ ~Abandon
    <3>1. step = "status" /\ step' = step
      BY <2>2 DEF Raise, Issue
    <3> QED
      BY <3>1 DEF Mutations
  <2>3. CASE Retry /\ attempt < Attempts(step)
    <3>1. step \in Commands /\ attempt \in Nat /\ attempt >= 1
      BY <1>3 DEF TypeInv, TypeOK, Trying, Timeout, TakeNak, TakeFailure
    <3>2. step \in Mutations => Attempts(step) = 1
      BY DEF Attempts, Reads, Mutations
    <3>3. step \notin Mutations
      BY <2>3, <3>1, <3>2
    <3> QED
      BY <2>3, <3>3 DEF Retry
  <2> QED
    BY <1>3, <2>1, <2>2, <2>3 DEF Timeout, TakeNak, TakeFailure, RetryOrRaise
<1>4. CASE Close
  <2>1. ~Issue("closed")
    BY <1>4 DEF Close, restFrame, resting, Clean, Settled, Issue, Behind
  <2> QED
    BY <1>4, <2>1 DEF Close, Issue, restFrame
<1>5. CASE PowerCycle
  BY <1>5 DEF PowerCycle, Issue
<1>6. CASE Process \/ RefuseTelegram \/ LoseTelegram \/ LoseReply \/ UNCHANGED vars
  BY <1>6 DEF Process, RefuseTelegram, LoseTelegram, LoseReply, host, vars
<1> QED
  BY <1>2, <1>3, <1>4, <1>5, <1>6 DEF Next, HostStep, LineStep, Take

\* A reply that is on its way to no one: a telegram without it is not on the line.
LEMMA NotNext ==
    ASSUME TypeInv, InOrder, up # <<>>, NEW t \in Commands,
           \/ ResponseId(t) \notin Neutral \cup Own(step) \cup Left(step)
           \/ phase = "send" /\ step = t /\ t \in Mutations
    PROVE  Head(up) # t
<1>1. Awaited(up) # <<>> /\ Awaited(up)[1] = ResponseId(Head(up)) /\ Awaited(up) \in Seq(Ids)
  BY LineTypes, AwaitedTail
<1>2. Awaited(up) \in Seq(Neutral \cup Own(step) \cup Left(step))
  BY DEF InOrder, Tidy
<1>3. phase = "send" /\ step \in Mutations => ~Has(Awaited(up), Own(step))
  BY DEF InOrder, Tidy
<1>4. Awaited(up)[1] \in Neutral \cup Own(step) \cup Left(step)
  <2> HIDE DEF Awaited
  <2> QED
    BY <1>1, <1>2
<1>5. CASE ResponseId(t) \notin Neutral \cup Own(step) \cup Left(step)
  BY <1>1, <1>4, <1>5
<1>6. CASE phase = "send" /\ step = t /\ t \in Mutations
  <2>1. Own(step) = {ResponseId(t)}
    BY <1>6 DEF Own
  <2>2. ~Has(Awaited(up), Own(step)) /\ 1 \in 1..Len(Awaited(up))
    BY <1>1, <1>3, <1>6
  <2> QED
    BY <1>1, <2>1, <2>2 DEF Has
<1> QED
  BY <1>5, <1>6

\* What the scanner does not have it is given by a variant or a write only.
LEMMA LacksStill ==
    ASSUME TypeInv, InOrder, [Next]_vars
    PROVE  /\ step \in Known \cup {"status", "type", "config"} \cup Planned /\ (step = "variant" => phase = "send")
                => (~geometry => ~geometry')
           /\ step \in Known \cup {"status", "type", "config", "write"} \cup Planned /\ (step = "write" => phase = "send")
                => (~config => ~config')
<1>0. geometry \in BOOLEAN /\ config \in BOOLEAN
  BY DEF TypeInv, TypeOK
<1>1. CASE Process
  <2>1. /\ Head(up) # "variant" /\ ~geometry => ~geometry'
        /\ Head(up) # "write" /\ ~config => ~config'
    BY <1>0, <1>1 DEF Process, Execute
  <2>2. "variant" \in Commands \cap Mutations /\ "write" \in Commands \cap Mutations
    BY DEF Commands, Mutations
  <2>3. up # <<>>
    BY <1>1 DEF Process
  <2>4. ASSUME step \in Known \cup {"status", "type", "config"} \cup Planned, step = "variant" => phase = "send"
        PROVE  Head(up) # "variant"
    <3>1. step # "variant" => "BB" \notin Neutral \cup Own(step) \cup Left(step)
      BY <2>4, Replies DEF Known, Planned, Neutral, Own, Left, Commands, Reads, Mutations
    <3> QED
      BY <2>2, <2>3, <2>4, <3>1, NotNext, Replies
  <2>5. ASSUME step \in Known \cup {"status", "type", "config", "write"} \cup Planned, step = "write" => phase = "send"
        PROVE  Head(up) # "write"
    <3>1. step # "write" => "F7" \notin Neutral \cup Own(step) \cup Left(step)
      BY <2>5, Replies DEF Known, Planned, Neutral, Own, Left, Commands, Reads, Mutations
    <3> QED
      BY <2>2, <2>3, <2>5, <3>1, NotNext, Replies
  <2> QED
    BY <2>1, <2>4, <2>5
<1>2. CASE PowerCycle
  BY <1>0, <1>2, Grows
<1>3. CASE ~Process /\ ~PowerCycle
  BY <1>3, ScannerKept DEF scanner
<1> QED
  BY <1>1, <1>2, <1>3

LEMMA LackingStep ==
    ASSUME TypeInv, Behind, Clean, InOrder, Lack, [Next]_vars, ~Connect, Clean'
    PROVE  events' \in Seq(Lacking') /\ down' \in Seq(Lacking')
<1>1. /\ geometry \in BOOLEAN /\ config \in BOOLEAN /\ Len(events) <= QueueSize /\ Events' = Events
      /\ events \in Seq(Events) /\ down \in Seq(Events) /\ step \in Steps
  BY LineTypes DEF TypeInv, TypeOK, Events, Bauds
<1>2. CASE step' \notin {"status", "config"}
  <2>1. Lacking' = Events
    BY <1>1, <1>2 DEF Lacking
  <2>2. Event("ack") \in Events /\ Event("nak") \in Events
    BY Neutrals
  <2>3. Process => Answer(Head(up)) \in Events
    BY AnswersTelegram
  <2> QED
    BY <1>1, <2>1, <2>2, <2>3, RepliesKept
<1>3. CASE step' \in {"status", "config"} /\ ~TakeReply
  <2>1. step' = step
    BY <1>3, Stays DEF Restart, StreamFaults, Issue
  <2>2. (~geometry => ~geometry') /\ (~config => ~config')
    BY <1>3, <2>1, LacksStill
  <2>3. Lacking \subseteq Lacking'
    BY <1>1, <2>1, <2>2 DEF Lacking
  <2>4. events \in Seq(Lacking') /\ down \in Seq(Lacking')
    BY <2>3, SeqGrows DEF Lack
  <2>5. Event("ack") \in Lacking' /\ Event("nak") \in Lacking'
    BY <1>1, Neutrals DEF Lacking
  <2>6. Process => Answer(Head(up)) \in Lacking'
    BY <1>1, <2>2, AnswersTelegram DEF Lacking
  <2> QED
    BY <1>1, <2>4, <2>5, <2>6, RepliesKept
<1>4. CASE step' \in {"status", "config"} /\ TakeReply
  <2>1. step \in Commands /\ IdsOf(events) # <<>> /\ IdsOf(events)[1] \in Own(step)
    BY <1>4, TakeReplyIssues
  <2>2. step = "type" /\ step' = "config"
    BY <1>4, TakeReplyIssues DEF Issue, Nexts, Commands, Reads, Mutations
  <2>3. /\ Tail(IdsOf(events)) \in Seq(Rest(step)) /\ IdsOf(down) \in Seq(Rest(step))
    BY <2>1, TakenOwn DEF InOrder
  <2>4. "F4" \notin Rest(step)
    BY <2>2, Replies DEF Rest, Neutral, Own
  <2>5. events' = Tail(events) /\ events # <<>> /\ Quiet(down, down')
    BY <1>4, TakeLine DEF TakeReply, Take
  <2>6. Tail(events) \in Seq(Events) /\ IdsOf(Tail(events)) = Tail(IdsOf(events))
    BY <1>1, <2>5, IdsTail
  <2>7. Tail(events) \in Seq({e \in Events : e.r \in Rest(step)}) /\ down \in Seq({e \in Events : e.r \in Rest(step)})
    BY <1>1, <2>3, <2>6, OnlyIds
  <2>8. {e \in Events : e.r \in Rest(step)} \subseteq Lacking'
    BY <1>1, <2>2, <2>4 DEF Lacking
  <2>9. events' \in Seq(Lacking') /\ down \in Seq(Lacking')
    BY <2>5, <2>7, <2>8, SeqGrows
  <2> QED
    BY <2>5, <2>9, QuietType
<1> QED
  BY <1>2, <1>3, <1>4

LEMMA UnwrittenStep ==
    ASSUME TypeInv, Behind, Clean, InOrder, Truth, Lack, [Next]_vars, ~Connect, Clean'
    PROVE  Unwritten'
<1>1. CASE ~TakeReply
  <2>1. UNCHANGED <<info, conf, plan>>
    BY <1>1, KnowledgeKept
  <2>2. CASE step' = step /\ (phase' = "send" /\ step \in Mutations => phase = "send")
    <3>1. "variant" \in Mutations /\ "write" \in Mutations
      BY DEF Mutations
    <3> QED
      BY <2>1, <2>2, <3>1, LacksStill DEF Lack, Unwritten, Known, Planned
  <2>3. CASE step' = "stop"
    BY <2>3 DEF Known, Planned, Unwritten
  <2>4. CASE \/ Restart \/ StreamFaults
             \/ PowerCycle /\ step = "streaming" /\ step' = "faulted"
    <3>1. step \in {"connected", "faulted", "streaming"} /\ step' \in {"quiesce", "faulted"}
      BY <2>4 DEF Restart, StreamFaults, Issue
    <3>2. /\ step \in Known /\ step' \in Known
          /\ step' \notin Planned \cup {"write", "variant", "type", "config"}
      BY <3>1 DEF Known, Planned
    <3> QED
      BY <2>1, <3>1, <3>2, LacksStill DEF Lack, Unwritten
  <2> QED
    BY <1>1, <2>2, <2>3, <2>4, Stays
<1>2. CASE TakeReply
  <2>1. ~Process /\ ~PowerCycle => geometry' = geometry /\ config' = config
    BY ScannerKept DEF scanner
  <2>2. geometry' = geometry /\ config' = config
    BY <1>2 DEF TakeReply, scanner
  <2>3. step \in Commands /\ Head(events).r = ResponseId(step) /\ events # <<>>
    BY <1>2, TakeReplyIssues DEF TakeReply
  <2>4. PICK n \in Steps : /\ Issue(n)
                           /\ \/ n \in Nexts(step) /\ step # "stop"
                              \/ step = "config" /\ n = "connected"
                              \/ step = "stop" /\ n = "closed"
                           /\ n = "variant" => plan'.geometry
                           /\ n = "write" => plan'.config
    BY <1>2, TakeReplyIssues
  <2>5. step' = n /\ phase' = "send"
    BY <2>4 DEF Issue
  <2>6. /\ info' = IF Head(events).r = "B1" THEN [geometry |-> Head(events).geometry, baud |-> Head(events).baud] ELSE info
        /\ conf' = IF Head(events).r = "F4" THEN Head(events).config ELSE conf
        /\ plan' = IF step = "quiesce" THEN [geometry |-> ~info.geometry, config |-> ~conf] ELSE plan
        /\ Accepts(step, Head(events))
    BY <1>2 DEF TakeReply
  <2>7. Head(events) \in Lacking
    BY <2>3 DEF Lack
  <2>8. CASE step = "status"
    BY <2>2, <2>3, <2>4, <2>5, <2>6, <2>7, <2>8, Replies DEF Nexts, Known, Planned, Unwritten, Lacking
  <2>9. CASE step = "type"
    BY <2>2, <2>3, <2>4, <2>5, <2>6, <2>9, Replies DEF Nexts, Known, Planned, Unwritten, Lack
  <2>10. CASE step = "config"
    BY <2>2, <2>3, <2>4, <2>5, <2>6, <2>7, <2>10, Replies DEF Nexts, Known, Planned, Unwritten, Lack, Lacking
  <2>11. CASE step = "quiesce"
    BY <2>2, <2>3, <2>4, <2>5, <2>6, <2>11, Replies DEF Nexts, Known, Planned, Unwritten, Lack
  <2>12. CASE step \in {"install", "baud", "rebaudStatus"}
    BY <2>2, <2>3, <2>4, <2>5, <2>6, <2>12, Replies DEF Nexts, Known, Planned, Unwritten, Lack
  <2>13. CASE step = "variant"
    BY <2>2, <2>3, <2>4, <2>5, <2>6, <2>13, Replies DEF Nexts, Known, Planned, Unwritten, Lack
  <2>14. CASE step \in {"write", "readback", "stop"}
    BY <2>4, <2>5, <2>14 DEF Nexts, Known, Planned, Unwritten
  <2>15. CASE step = "verifyStatus"
    BY <2>3, <2>4, <2>5, <2>6, <2>15, Replies DEF Nexts, Known, Planned, Unwritten, Accepts
  <2>16. CASE step \in {"requiesce", "start"}
    BY <2>2, <2>3, <2>4, <2>5, <2>6, <2>16, Replies DEF Nexts, Known, Planned, Unwritten, Lack
  <2> QED
    BY <2>3, <2>8, <2>9, <2>10, <2>11, <2>12, <2>13, <2>14, <2>15, <2>16 DEF Commands, Reads, Mutations
<1> QED
  BY <1>1, <1>2

\* The events or replies that are not an A0.
LEMMA NoA0 ==
    ASSUME NEW q \in Seq(Events)
    PROVE  ~Has(IdsOf(q), {"A0"}) <=> q \in Seq({e \in Events : e.r # "A0"})
<1>1. Len(IdsOf(q)) = Len(q) /\ \A i \in 1..Len(q) : IdsOf(q)[i] = q[i].r
  <2>1. Len(IdsOf(q)) = Len(q)
    BY IdsAre
  <2> QED
    BY <2>1 DEF IdsOf
<1>2. ~Has(IdsOf(q), {"A0"}) <=> \A i \in 1..Len(q) : q[i].r # "A0"
  BY <1>1 DEF Has
<1>3. q \in Seq({e \in Events : e.r # "A0"}) <=> \A i \in 1..Len(q) : q[i].r # "A0"
  OBVIOUS
<1> QED
  BY <1>2, <1>3

\* An A0 that is on its way to the host is the step's, and the last thing that is.
LEMMA ConfirmsStep ==
    ASSUME TypeInv, InOrder, Has(IdsOf(events), {"A0"}) \/ Has(IdsOf(down), {"A0"})
    PROVE  /\ step \in Mutations /\ ResponseId(step) = "A0" /\ phase = "wait" /\ up = <<>>
<1> DEFINE E == IdsOf(events)  D == IdsOf(down)  U == Awaited(up)  K == Neutral \cup Own(step) \cup Left(step)
<1>1. Tidy(step, phase, E, D, U) /\ step \in Steps /\ phase \in {"send", "wait"}
  BY DEF InOrder, TypeInv, TypeOK
<1>2. E \in Seq(K) /\ D \in Seq(K) /\ U \in Seq(K)
  BY <1>1 DEF Tidy
<1>3. "A0" \in K
  <2> HIDE DEF E, D, K
  <2> QED
    BY <1>2 DEF E, D, Has
<1>4. "A0" \in Own(step)
  BY <1>1, <1>3, Tables DEF Neutral
<1>5. step \in Commands /\ ResponseId(step) = "A0"
  BY <1>4 DEF Own
<1>6. step \in Mutations
  BY <1>5, Replies DEF Commands, Reads, Mutations
<1>7. Own(step) = {"A0"} /\ Barred(step) = Ids
  BY <1>5, <1>6, Tables, <1>1
<1>8. ~Has(U, Ids)
  BY <1>1, <1>7 DEF Tidy, Ranked
<1>9. phase = "wait"
  BY <1>1, <1>6, <1>7 DEF Tidy
<1>10. up = <<>>
  <2>1. up \in Seq(Commands) /\ U \in Seq(Ids)
    BY LineTypes
  <2>2. up # <<>> => U # <<>> /\ U[1] \in Ids
    <3>1. up # <<>> => U # <<>>
      BY <2>1, AwaitedTail
    <3> QED
      BY <2>1, <3>1
  <2>3. U # <<>> => 1 \in 1..Len(U)
    BY <2>1
  <2> QED
    BY <1>8, <2>2, <2>3 DEF Has
<1> QED
  BY <1>5, <1>6, <1>9, <1>10

\* The step of a command that is still waited for was issued at its rate.
LEMMA WaitsStill ==
    ASSUME TypeInv, Behind, Clean, Clean', [Next]_vars, ~Connect, phase' = "wait"
    PROVE  step' = step /\ ~TakeReply /\ ~PowerCycle /\ (step \in Mutations => hostBaud' = hostBaud)
<1>1. ~TakeReply
  <2>1. TakeReply => \E n \in Steps : Issue(n)
    BY TakeReplyIssues
  <2> QED
    BY <2>1 DEF Issue
<1>2. ~PowerCycle /\ ~Restart /\ ~StreamFaults
  BY DEF PowerCycle, Restart, StreamFaults, Issue, resting, TypeInv, TypeOK, Trying, Commands, Reads, Mutations
<1>3. step' = step \/ step' = "stop"
  BY <1>1, <1>2, Stays
<1>4. step' = step
  <2>1. UNCHANGED <<step, phase, attempt>> \/ Write \/ (phase = "wait" /\ Retry /\ attempt < Attempts(step)) \/ Issued
    BY Control
  <2> QED
    BY <2>1 DEF Write, Retry, Issued, Issue
<1>5. step \in Mutations => hostBaud' = hostBaud
  <2>1. \/ step' = step /\ (hostBaud' = hostBaud \/ step = "status")
        \/ step' = "stop" /\ hostBaud' = hostBaud
    BY <1>1, <1>2, Stays
  <2> QED
    BY <1>4, <2>1 DEF Mutations
<1> QED
  BY <1>1, <1>2, <1>4, <1>5

LEMMA ConfirmStep ==
    ASSUME TypeInv, Behind, Clean, InOrder, Effect, [Next]_vars, ~Connect, Clean', InOrder', TypeInv',
           Has(IdsOf(events'), {"A0"}) \/ Has(IdsOf(down'), {"A0"})
    PROVE  Applied(step)'
<1>1. step' \in Mutations /\ phase' = "wait"
  <2>1. (TypeInv /\ InOrder /\ (Has(IdsOf(events), {"A0"}) \/ Has(IdsOf(down), {"A0"}))
           => step \in Mutations /\ ResponseId(step) = "A0" /\ phase = "wait" /\ up = <<>>)'
    BY ConfirmsStep, PTL
  <2> QED
    BY <2>1
<1>2. step' = step /\ ~TakeReply /\ ~PowerCycle /\ hostBaud' = hostBaud
  BY <1>1, WaitsStill
<1>3. CASE Has(IdsOf(events), {"A0"}) \/ Has(IdsOf(down), {"A0"})
  <2>1. up = <<>>
    BY <1>3, ConfirmsStep
  <2>2. UNCHANGED scanner
    BY <1>2, <2>1, ScannerKept DEF Process
  <2> QED
    BY <1>2, <1>3, <2>2 DEF Effect, Applied, scanner
<1>4. CASE ~Has(IdsOf(events), {"A0"}) /\ ~Has(IdsOf(down), {"A0"})
  <2> DEFINE S == {e \in Events : e.r # "A0"}
  <2>1. /\ events \in Seq(Events) /\ down \in Seq(Events) /\ events' \in Seq(Events) /\ down' \in Seq(Events)
        /\ Len(events) <= QueueSize
    <3>1. events' \in Seq(Events') /\ down' \in Seq(Events') /\ Events' = Events
      BY DEF TypeInv, TypeOK, Events, Bauds
    <3> QED
      BY <3>1 DEF TypeInv, TypeOK
  <2>2. events \in Seq(S) /\ down \in Seq(S) /\ ~(events' \in Seq(S) /\ down' \in Seq(S))
    BY <1>4, <2>1, NoA0
  <2>3. Event("ack") \in S /\ Event("nak") \in S
    BY Neutrals
  <2>4. Process /\ Answer(Head(up)) \notin S
    <3> HIDE DEF S
    <3> QED
      BY <2>1, <2>2, <2>3, RepliesKept
  <2>5. Head(up) \in Commands /\ Answer(Head(up)) \in Events /\ Answer(Head(up)).r = "A0"
    BY <2>4, AnswersTelegram
  <2>6. ResponseId(Head(up)) = "A0"
    BY <2>5, AnswerType
  <2>7. Head(up) = step
    <3>1. up # <<>> /\ up \in Seq(Mine)
      BY <2>4 DEF Process, InOrder
    <3>2. Head(up) \in Mine
      BY <3>1
    <3> QED
      BY <2>6, <3>2 DEF Mine
  <2>8. hostBaud = baud
    <3>1. down' # down
      <4>1. events' = events
        BY <2>4 DEF Process, host
      <4> QED
        BY <2>2, <4>1
    <3> QED
      BY <2>4, <3>1 DEF Process, Emit
  <2>9. /\ step \in {"quiesce", "requiesce", "stop"} => mode' = "request"
        /\ step = "start" => mode' = "continuous" /\ baud' = baud
    BY <2>4, <2>7 DEF Process, Execute
  <2>10. step \notin {"closed", "streaming"}
    BY <1>1, <1>2 DEF Mutations
  <2> QED
    BY <1>2, <2>8, <2>9, <2>10 DEF Applied
<1> QED
  BY <1>3, <1>4

\* The reply is taken: nothing is left on the line behind that of an A0 command.
LEMMA TakesConfirmation ==
    ASSUME TypeInv, InOrder, Effect, TakeReply, step \in {"start", "stop"}
    PROVE  Idle' /\ Applied(step)
<1>1. /\ Head(events).r = "A0" /\ events # <<>> /\ IdsOf(events) # <<>> /\ IdsOf(events)[1] = "A0"
      /\ IdsOf(events)[1] \in Own(step)
  BY TakeReplyIssues, Tables, Replies DEF Own, TakeReply
<1>2. IdsOf(events) \in Seq(Ids)
  BY LineTypes
<1>3. 1 \in 1..Len(IdsOf(events))
  <2> HIDE DEF IdsOf
  <2> QED
    BY <1>1, <1>2
<1>4. Has(IdsOf(events), {"A0"})
  BY <1>1, <1>3 DEF Has
<1>5. up = <<>> /\ Applied(step)
  BY <1>4, ConfirmsStep DEF Effect
<1>6. Rest(step) = {} /\ step \in Commands
  BY DEF Rest, Reads, Mutations, Commands
<1>7. Tail(IdsOf(events)) \in Seq({}) /\ IdsOf(down) \in Seq({})
  BY <1>1, <1>6, TakenOwn DEF InOrder
<1>8. events' = Tail(events) /\ up' = up /\ (down' = down \/ down' = <<>>)
  BY DEF TakeReply, SetRate
<1>9. \A q \in Seq({}) : q = <<>>
  OBVIOUS
<1>10. events' \in Seq(Events) /\ IdsOf(events') = <<>> /\ down \in Seq(Events) /\ IdsOf(down) = <<>>
  BY <1>1, <1>7, <1>8, <1>9, LineTypes, IdsTail
<1>11. events' = <<>> /\ down = <<>>
  <2>1. \A q \in Seq(Events) : IdsOf(q) = <<>> => q = <<>>
    <3> TAKE q \in Seq(Events)
    <3>1. Len(IdsOf(q)) = Len(q)
      BY IdsAre
    <3> QED
      BY <3>1
  <2> QED
    BY <1>10, <2>1
<1> QED
  BY <1>5, <1>8, <1>11 DEF Idle

\* Nothing comes to a host that issues nothing.
LEMMA IdleStep ==
    ASSUME TypeInv, Idle, step \in {"streaming", "closed"}, step' = step, [Next]_vars
    PROVE  Idle' /\ UNCHANGED scanner
<1>1. ~Write /\ ~Process /\ ~Receive
  BY DEF Write, Process, Receive, Reads, Mutations, Idle
<1>2. ~PowerCycle
  BY DEF PowerCycle, Issue, resting
<1>3. CASE HostStep
  <2>1. up' = up
    BY <1>1, <1>3 DEF HostStep, Connect, Timeout, Take, TakeNak, TakeAck, TakeUnexpected,
              TakeFailure, TakeReply, Close, Restart, StreamFaults, restFrame
  <2>2. Quiet(events, events') /\ Quiet(down, down')
    BY <1>1, <1>3, HostLine
  <2> QED
    BY <1>1, <1>2, <2>1, <2>2, ScannerKept DEF Quiet, Idle
<1>4. CASE LineStep \/ UNCHANGED vars
  BY <1>1, <1>2, <1>4 DEF LineStep, RefuseTelegram, LoseTelegram, LoseReply, host, scanner, vars, Idle
<1> QED
  BY <1>3, <1>4 DEF Next

LEMMA RestEffectStep ==
    ASSUME TypeInv, Believed, Behind, Clean, InOrder, Truth, Effect, [Next]_vars, ~Connect, Clean'
    PROVE  /\ step' \in {"streaming", "closed"} => Idle' /\ Applied(step)'
           /\ step' \in {"requiesce", "start", "streaming"} => geometry' /\ config'
<1>0. geometry \in BOOLEAN /\ config \in BOOLEAN /\ step \in Steps
  BY DEF TypeInv, TypeOK
<1>1. CASE TakeReply
  <2>1. step \in Commands /\ Head(events).r = ResponseId(step) /\ events # <<>>
    BY <1>1, TakeReplyIssues DEF TakeReply
  <2>2. PICK n \in Steps : /\ Issue(n)
                           /\ \/ n \in Nexts(step) /\ step # "stop"
                              \/ step = "config" /\ n = "connected"
                              \/ step = "stop" /\ n = "closed"
    BY <1>1, TakeReplyIssues
  <2>3. step' = n
    BY <2>2 DEF Issue
  <2>4. UNCHANGED scanner
    BY <1>1 DEF TakeReply
  <2>5. step' = "closed" => step = "stop"
    BY <2>1, <2>2, <2>3 DEF Nexts, Commands, Reads, Mutations
  <2>6. step' = "streaming" => step = "start"
    BY <2>1, <2>2, <2>3 DEF Nexts, Commands, Reads, Mutations
  <2>7. step = "start" => hostBaud' = hostBaud
    BY <1>1 DEF TakeReply, SetRate
  <2>8. step' \in {"streaming", "closed"} => Idle' /\ Applied(step)'
    BY <1>1, <2>4, <2>5, <2>6, <2>7, TakesConfirmation DEF Applied, scanner
  <2>9. /\ step' = "requiesce" => step = "verifyStatus"
        /\ step' = "start" => step = "requiesce"
    BY <2>1, <2>2, <2>3 DEF Nexts, Commands, Reads, Mutations
  <2>10. step = "verifyStatus" => geometry /\ config
    <3>1. Head(events) \in Truthful
      BY <2>1 DEF Truth
    <3>2. Accepts(step, Head(events))
      BY <1>1 DEF TakeReply
    <3> QED
      BY <2>1, <3>1, <3>2, Replies DEF Accepts, Believed, Truthful
  <2> QED
    BY <2>4, <2>6, <2>8, <2>9, <2>10 DEF Effect, scanner
<1>2. CASE ~TakeReply
  <2>1. step = "closed" => UNCHANGED <<step, hostBaud>>
    BY ClosedStep DEF host
  <2>2. step' \in {"requiesce", "start", "streaming", "closed"} => step' = step /\ (step # "status" => hostBaud' = hostBaud)
    BY <1>2, <2>1, Stays DEF Restart, StreamFaults, Issue
  <2>3. step' \in {"requiesce", "start", "streaming"} => geometry' /\ config'
    <3>1. step' \in {"requiesce", "start", "streaming"} => ~PowerCycle
      BY <2>2 DEF PowerCycle, Issue, resting
    <3> QED
      BY <1>0, <2>2, <3>1, Grows DEF Effect
  <2>4. step' \in {"streaming", "closed"} => Idle' /\ Applied(step)'
    BY <2>2, IdleStep DEF Effect, Applied, scanner
  <2> QED
    BY <2>3, <2>4
<1> QED
  BY <1>1, <1>2

-----------------------------------------------------------------------------
(* What is on its way from one session to the next.                        *)

LEMMA HoldsMore ==
    ASSUME NEW K, NEW L, NEW A, NEW B, Holds(K), K \subseteq L, A \cap (Neutral \cup K) = {}
    PROVE  Carries(L, A, B)
<1> DEFINE E == IdsOf(events)  D == IdsOf(down)  U == Awaited(up)  S == Neutral \cup K  T == Neutral \cup L
<1>1. E \in Seq(S) /\ D \in Seq(S) /\ U \in Seq(S)
  BY DEF Holds, Carries
<1>2. S \subseteq T /\ A \cap S = {}
  OBVIOUS
<1> SUFFICES E \in Seq(T) /\ D \in Seq(T) /\ U \in Seq(T) /\ Ranked(A, B, E, D, U)
  BY DEF Carries
<1> HIDE DEF E, D, U, S, T
<1>3. E \in Seq(T) /\ D \in Seq(T) /\ U \in Seq(T)
  BY <1>1, <1>2, SeqGrows
<1>4. ~Has(E, A) /\ ~Has(D, A) /\ ~Has(U, A)
  BY <1>1, <1>2, HasMember
<1>5. Ranked(A, B, E, D, U)
  BY <1>4 DEF Ranked, Follows, Has
<1> QED
  BY <1>3, <1>5

LEMMA CarriesOnly ==
    ASSUME NEW K, NEW L, NEW A, NEW B, Carries(K, A, B), K \subseteq L
    PROVE  Holds(L)
<1>1. Neutral \cup K \subseteq Neutral \cup L
  OBVIOUS
<1>2. Seq(Neutral \cup K) \subseteq Seq(Neutral \cup L)
  BY <1>1, SeqGrows
<1>3. Ranked({}, {}, IdsOf(events), IdsOf(down), Awaited(up))
  BY DEF Ranked, Follows, Has
<1> QED
  BY <1>2, <1>3 DEF Carries, Holds

LEMMA CarriesQuiet ==
    ASSUME TypeInv, NEW K, NEW A, NEW B, Carries(K, A, B),
           Quiet(events, events'), Quiet(down, down'), Quiet(up, up')
    PROVE  Carries(K, A, B)'
<1>1. /\ Quiet(IdsOf(events), IdsOf(events')) /\ Quiet(IdsOf(down), IdsOf(down'))
      /\ Quiet(Awaited(up), Awaited(up'))
  BY LineTypes, QuietMaps
<1> DEFINE S == Neutral \cup K
<1>2. /\ IdsOf(events) \in Seq(S) /\ IdsOf(down) \in Seq(S) /\ Awaited(up) \in Seq(S)
      /\ Ranked(A, B, IdsOf(events), IdsOf(down), Awaited(up))
  BY DEF Carries
<1>3. /\ Ranked(A, B, IdsOf(events'), IdsOf(down'), Awaited(up'))
      /\ IdsOf(events') \in Seq(S) /\ IdsOf(down') \in Seq(S) /\ Awaited(up') \in Seq(S)
  <2> HIDE DEF S
  <2> QED
    BY <1>1, <1>2, RankedQuiet
<1> QED
  BY <1>3 DEF Carries

LEMMA CarriesReceive ==
    ASSUME TypeInv, NEW K, NEW A, NEW B, Carries(K, A, B), Receive
    PROVE  Carries(K, A, B)'
<1> DEFINE E == IdsOf(events)  D == IdsOf(down)  U == Awaited(up)  S == Neutral \cup K
           Q == IF Len(events) = QueueSize THEN Tail(events) ELSE events  F == IdsOf(Q)
<1>1. up' = up /\ down # <<>> /\ down' = Tail(down) /\ events' = Append(Q, Head(down))
  BY DEF Receive, Queued
<1>2. events \in Seq(Events) /\ down \in Seq(Events) /\ up \in Seq(Commands)
  BY LineTypes
<1>3. Q \in Seq(Events) /\ Quiet(events, Q)
  <2>1. Len(events) = QueueSize => events # <<>>
    BY Numbers
  <2> QED
    BY <1>2, <2>1 DEF Quiet
<1>4. Quiet(E, F) /\ Quiet(D, D) /\ Quiet(U, U)
  BY <1>2, <1>3, QuietMaps DEF Quiet
<1>5. E \in Seq(S) /\ D \in Seq(S) /\ U \in Seq(S) /\ Ranked(A, B, E, D, U)
  BY DEF Carries
<1>6. D # <<>> /\ IdsOf(down') = Tail(D) /\ D[1] = Head(down).r /\ Head(down) \in Events
  BY <1>1, <1>2, IdsTail
<1>7. IdsOf(events') = Append(F, D[1])
  BY <1>1, <1>3, <1>6, IdsAppend
<1>8. /\ Ranked(A, B, Append(F, D[1]), Tail(D), U)
      /\ Append(F, D[1]) \in Seq(S) /\ Tail(D) \in Seq(S)
  <2> HIDE DEF E, D, U, S, F
  <2>1. F \in Seq(S) /\ Ranked(A, B, F, D, U)
    BY <1>4, <1>5, RankedQuiet
  <2>2. Ranked(A, B, Append(F, D[1]), Tail(D), U) /\ D[1] \in S
    BY <1>5, <1>6, <2>1, RankedReceive
  <2> QED
    BY <1>5, <1>6, <2>1, <2>2
<1> QED
  BY <1>1, <1>5, <1>6, <1>7, <1>8 DEF Carries

\* The scanner sends something neutral, or the reply to the first telegram.
LEMMA CarriesReply ==
    ASSUME NEW S, Neutral \subseteq S, S \subseteq Ids, NEW E \in Seq(S), NEW D \in Seq(S), NEW U \in Seq(S), U # <<>>,
           NEW A, A \cap Neutral = {}, NEW B, B \cap Neutral = {}, Ranked(A, B, E, D, U), NEW x \in Neutral
    PROVE  /\ Ranked(A, B, E, Append(D, x), U) /\ Append(D, x) \in Seq(S)
           /\ Ranked(A, B, E, Append(D, U[1]), Tail(U)) /\ Append(D, U[1]) \in Seq(S) /\ Tail(U) \in Seq(S)
<1>1. D \in Seq(Ids) /\ U \in Seq(Ids)
  BY SeqGrows
<1>2. Append(D, x) \in Seq(S) /\ Append(D, U[1]) \in Seq(S) /\ Tail(U) \in Seq(S)
  OBVIOUS
<1> QED
  BY <1>1, <1>2, RankedReply

LEMMA CarriesProcess ==
    ASSUME TypeInv, NEW K, NEW A, NEW B, Carries(K, A, B), K \subseteq Ids, A \cap Neutral = {}, B \cap Neutral = {},
           Process \/ RefuseTelegram
    PROVE  Carries(K, A, B)'
<1> DEFINE E == IdsOf(events)  D == IdsOf(down)  U == Awaited(up)  S == Neutral \cup K  a == Answer(Head(up))
           D1 == Append(D, "ack")  D2 == Append(D1, a.r)  D3 == Append(D, "nak")
<1>1. events' = events /\ up # <<>> /\ up' = Tail(up)
  BY DEF Process, RefuseTelegram, host
<1>2. CASE down' = down
  BY <1>1, <1>2, CarriesQuiet DEF Quiet
<1>3. CASE down' # down
  <2>1. events \in Seq(Events) /\ down \in Seq(Events) /\ up \in Seq(Commands)
    BY LineTypes
  <2>2. U # <<>> /\ Awaited(up') = Tail(U) /\ U[1] = ResponseId(Head(up)) /\ Head(up) \in Commands
    BY <1>1, <2>1, AwaitedTail
  <2>3. E \in Seq(S) /\ D \in Seq(S) /\ U \in Seq(S) /\ Ranked(A, B, E, D, U)
    BY DEF Carries
  <2>4. Neutral \subseteq S /\ S \subseteq Ids /\ "ack" \in Neutral /\ "nak" \in Neutral /\ "92" \in Neutral
    BY DEF Neutral, Ids
  <2>5. CASE Process
    <3>1. a \in Events /\ Event("ack") \in Events /\ a.r \in {U[1], "92"} /\ Event("ack").r = "ack"
      BY <2>2, AnswerType DEF Reported, Event
    <3>2. down' = Append(Append(down, Event("ack")), a)
      <4>1. down' = down \o <<Event("ack"), a>>
        BY <1>3, <2>5 DEF Process, Emit
      <4> QED
        BY <2>1, <3>1, <4>1, Appended
    <3>3. IdsOf(down') = D2
      <4>1. Append(down, Event("ack")) \in Seq(Events) /\ IdsOf(Append(down, Event("ack"))) = D1
        BY <2>1, <3>1, IdsAppend
      <4> QED
        BY <3>1, <3>2, <4>1, IdsAppend
    <3>4. Ranked(A, B, E, D2, Tail(U)) /\ D2 \in Seq(S) /\ Tail(U) \in Seq(S)
      <4> HIDE DEF E, D, U, S, a
      <4>1. Ranked(A, B, E, D1, U) /\ D1 \in Seq(S)
        BY <2>2, <2>3, <2>4, CarriesReply
      <4> HIDE DEF D1
      <4>2. /\ Ranked(A, B, E, Append(D1, "92"), U) /\ Append(D1, "92") \in Seq(S)
            /\ Ranked(A, B, E, Append(D1, U[1]), Tail(U)) /\ Append(D1, U[1]) \in Seq(S) /\ Tail(U) \in Seq(S)
        BY <2>2, <2>3, <2>4, <4>1, CarriesReply
      <4>3. Quiet(E, E) /\ Quiet(Append(D1, "92"), Append(D1, "92")) /\ Quiet(U, Tail(U))
        BY <2>2 DEF Quiet
      <4>4. Ranked(A, B, E, Append(D1, "92"), Tail(U))
        BY <2>3, <4>2, <4>3, RankedQuiet
      <4> QED
        BY <3>1, <4>2, <4>4
    <3> QED
      BY <1>1, <2>2, <2>3, <3>3, <3>4 DEF Carries
  <2>6. CASE RefuseTelegram
    <3>1. down' = Append(down, Event("nak"))
      <4>1. down' = down \o <<Event("nak")>>
        BY <1>3, <2>6 DEF RefuseTelegram, Emit
      <4> QED
        BY <2>1, <4>1, Neutrals, Appended
    <3>2. IdsOf(down') = D3
      BY <2>1, <3>1, Neutrals, IdsAppend
    <3>3. Ranked(A, B, E, D3, Tail(U)) /\ D3 \in Seq(S) /\ Tail(U) \in Seq(S)
      <4> HIDE DEF E, D, U, S
      <4>1. Ranked(A, B, E, D3, U) /\ D3 \in Seq(S) /\ Tail(U) \in Seq(S)
        BY <2>2, <2>3, <2>4, CarriesReply
      <4>2. Quiet(E, E) /\ Quiet(D3, D3) /\ Quiet(U, Tail(U))
        BY <2>2 DEF Quiet
      <4> HIDE DEF D3
      <4>3. Ranked(A, B, E, D3, Tail(U))
        BY <2>3, <4>1, <4>2, RankedQuiet
      <4> QED
        BY <4>1, <4>3
    <3> QED
      BY <1>1, <2>2, <2>3, <3>2, <3>3 DEF Carries
  <2> QED
    BY <2>5, <2>6
<1> QED
  BY <1>2, <1>3

LEMMA CarriesWrite ==
    ASSUME TypeInv, NEW K, NEW A, NEW B, Carries(K, A, B), Write, ResponseId(step) \in K,
           ResponseId(step) \notin B \/ (~Has(IdsOf(down), A) /\ ~Has(Awaited(up), A))
    PROVE  Carries(K, A, B)'
<1> DEFINE E == IdsOf(events)  D == IdsOf(down)  U == Awaited(up)  S == Neutral \cup K  x == ResponseId(step)
<1>1. /\ events' = <<>> /\ down' = down /\ step \in Commands /\ (up' = up \/ up' = Append(up, step))
  BY DEF Write, Commands
<1>2. up \in Seq(Commands)
  BY LineTypes
<1>3. E \in Seq(S) /\ D \in Seq(S) /\ U \in Seq(S) /\ Ranked(A, B, E, D, U) /\ x \in S
  BY DEF Carries
<1>4. Ranked(A, B, <<>>, D, Append(U, x)) /\ Ranked(A, B, <<>>, D, U) /\ Append(U, x) \in Seq(S) /\ <<>> \in Seq(S)
  <2>1. x \notin B \/ (~Has(D, A) /\ ~Has(U, A))
    OBVIOUS
  <2> HIDE DEF E, D, U, S, x
  <2> QED
    BY <1>3, <2>1, RankedWrite
<1>5. Awaited(up') = U \/ Awaited(up') = Append(U, x)
  BY <1>1, <1>2, AwaitedAppend
<1>6. IdsOf(events') = <<>> /\ IdsOf(down') = D
  BY <1>1, IdsAre
<1> QED
  BY <1>3, <1>4, <1>5, <1>6 DEF Carries

\* What is on its way stays as it is but for a telegram that is written.
LEMMA CarriesStep ==
    ASSUME TypeInv, NEW K, NEW A, NEW B, Carries(K, A, B), K \subseteq Ids, A \cap Neutral = {}, B \cap Neutral = {},
           [Next]_vars, Write => /\ ResponseId(step) \in K
                                 /\ ResponseId(step) \notin B \/ (~Has(IdsOf(down), A) /\ ~Has(Awaited(up), A))
    PROVE  Carries(K, A, B)'
<1>1. CASE Write
  BY <1>1, CarriesWrite
<1>2. CASE Receive
  BY <1>2, CarriesReceive
<1>3. CASE Process \/ RefuseTelegram
  BY <1>3, CarriesProcess
<1>4. CASE HostStep /\ ~Write /\ ~Receive
  <2>1. up' = up
    BY <1>4 DEF HostStep, Connect, Timeout, Take, TakeNak, TakeAck, TakeUnexpected,
              TakeFailure, TakeReply, Close, Restart, StreamFaults, restFrame
  <2>2. Quiet(events, events') /\ Quiet(down, down') /\ Quiet(up, up')
    BY <1>4, <2>1, HostLine DEF Quiet
  <2> QED
    BY <2>2, CarriesQuiet
<1>5. CASE LoseTelegram \/ LoseReply \/ PowerCycle \/ UNCHANGED vars
  <2>1. Quiet(events, events') /\ Quiet(down, down') /\ Quiet(up, up')
    BY <1>5 DEF LoseTelegram, LoseReply, PowerCycle, host, vars, Quiet
  <2> QED
    BY <2>1, CarriesQuiet
<1> QED
  BY <1>1, <1>2, <1>3, <1>4, <1>5 DEF Next, LineStep

\* Behind a reply of the step that is taken nothing is left that must not come behind it.
LEMMA CarriesTake ==
    ASSUME TypeInv, NEW K, NEW A, NEW B, Carries(K, A, B), TakeReply, ResponseId(step) \in A
    PROVE  Holds(K \ B)' /\ ~Has(Awaited(up'), B)
<1> DEFINE E == IdsOf(events)  D == IdsOf(down)  U == Awaited(up)  S == Neutral \cup K
<1>1. E # <<>> /\ E[1] \in A
  BY TakeReplyIssues DEF Own
<1>2. events # <<>> /\ events' = Tail(events) /\ up' = up /\ Quiet(down, down')
  BY TakeLine DEF TakeReply, Take
<1>3. E \in Seq(S) /\ D \in Seq(S) /\ U \in Seq(S) /\ Ranked(A, B, E, D, U)
  BY DEF Carries
<1>4. IdsOf(events') = Tail(E) /\ Quiet(D, IdsOf(down'))
  BY <1>2, LineTypes, IdsTail, QuietMaps
<1>5. ~Has(Tail(E), B) /\ ~Has(D, B) /\ ~Has(U, B) /\ Tail(E) \in Seq(S)
  <2> HIDE DEF E, D, U, S
  <2> QED
    BY <1>1, <1>3, RankedFirst
<1>6. Tail(E) \in Seq(S \ B) /\ D \in Seq(S \ B) /\ U \in Seq(S \ B)
  <2> HIDE DEF E, D, U, S
  <2> QED
    BY <1>3, <1>5, NotHas
<1>7. Seq(S \ B) \subseteq Seq(Neutral \cup (K \ B))
  <2>1. S \ B \subseteq Neutral \cup (K \ B)
    OBVIOUS
  <2> QED
    BY <2>1, SeqGrows
<1>8. IdsOf(down') \in Seq(S \ B)
  <2> HIDE DEF D, S
  <2> QED
    BY <1>4, <1>6, QuietType
<1>9. Ranked({}, {}, IdsOf(events'), IdsOf(down'), Awaited(up'))
  BY DEF Ranked, Follows, Has
<1> QED
  BY <1>2, <1>4, <1>5, <1>6, <1>7, <1>8, <1>9 DEF Carries, Holds

LEMMA HoldsThen ==
    ASSUME NEW K, NEW L, NEW A, NEW B, Holds(K)', K \subseteq L, A \cap (Neutral \cup K) = {}
    PROVE  Carries(L, A, B)'
<1>1. (Holds(K) /\ K \subseteq L /\ A \cap (Neutral \cup K) = {} => Carries(L, A, B))'
  BY HoldsMore, PTL
<1> QED
  BY <1>1

LEMMA Opens ==
    ASSUME TypeInv, Unchanged, [Next]_vars, ~Connect, step \in Opening
    PROVE  \/ ~TakeReply /\ step' = step
           \/ ~TakeReply /\ step' = "closed" /\ ~confirmed' /\ ~changed'
           \/ TakeReply /\ step = "status" /\ step' = "type" /\ changed' = changed
           \/ TakeReply /\ step = "type" /\ step' = "config" /\ changed' = changed
           \/ TakeReply /\ step = "config" /\ step' \in {"quiesce", "connected"}
<1>0. /\ ~changed /\ step \notin {"stop", "connected", "streaming", "faulted"} /\ step \in Commands
  BY DEF Unchanged, Opening, Commands, Reads
<1>1. CASE Write \/ Receive \/ TakeAck \/ TakeUnexpected
  <2>1. step' = step
    BY <1>1 DEF Write, Receive, TakeAck, TakeUnexpected
  <2>2. TakeReply => \E n : Issue(n) /\ n # step
    <3> SUFFICES ASSUME TakeReply PROVE \E n : Issue(n) /\ n # step
      OBVIOUS
    <3>1. PICK n \in Steps : /\ Issue(n)
                             /\ \/ n \in Nexts(step) /\ step # "stop"
                                \/ step = "config" /\ n = "connected"
                                \/ step = "stop" /\ n = "closed"
      BY TakeReplyIssues
    <3>2. n # step
      BY <1>0, <3>1 DEF Nexts, Opening
    <3> QED
      BY <3>1, <3>2
  <2>3. ~TakeReply
    BY <2>1, <2>2 DEF Issue
  <2> QED
    BY <2>1, <2>3
<1>2. CASE TakeReply
  <2>1. PICK n \in Steps : /\ Issue(n)
                           /\ \/ n \in Nexts(step) /\ step # "stop"
                              \/ step = "config" /\ n = "connected"
                              \/ step = "stop" /\ n = "closed"
    BY <1>2, TakeReplyIssues
  <2>2. step' = n
    BY <2>1 DEF Issue
  <2>3. changed' = changed
    BY <1>0, <1>2 DEF TakeReply
  <2> QED
    BY <1>0, <1>2, <2>1, <2>2, <2>3 DEF Nexts, Opening
<1>3. CASE ~TakeReply /\ (Timeout \/ TakeNak \/ TakeFailure)
  <2>1. CASE Abandon
    BY <1>0, <1>3, <2>1 DEF Abandon, Issue
  <2>2. CASE Raise /\ ~Abandon
    BY <1>3, <2>2 DEF Raise, Issue
  <2>3. CASE Retry
    BY <1>3, <2>3 DEF Retry
  <2> QED
    BY <1>3, <2>1, <2>2, <2>3 DEF Timeout, TakeNak, TakeFailure, RetryOrRaise
<1>4. CASE ~TakeReply /\ (LineStep \/ UNCHANGED vars)
  <2>1. ~PowerCycle
    BY <1>0 DEF PowerCycle, resting
  <2> QED
    BY <1>4, <2>1 DEF LineStep, Process, RefuseTelegram, LoseTelegram, LoseReply, host, vars
<1>5. ~Close /\ ~Restart /\ ~StreamFaults
  BY <1>0 DEF Close, Restart, StreamFaults, resting
<1> QED
  BY <1>1, <1>2, <1>3, <1>4, <1>5 DEF Next, HostStep, Take

\* The opening is entered by connecting only.
LEMMA OpensOnly ==
    ASSUME TypeInv, [Next]_vars, ~Connect, step' \in Opening
    PROVE  step \in Opening
<1>0. step' \notin {"stop", "closed", "connected", "streaming", "faulted", "quiesce"}
  BY DEF Opening
<1>1. CASE Write \/ Receive \/ TakeAck \/ TakeUnexpected
  BY <1>1 DEF Write, Receive, TakeAck, TakeUnexpected
<1>2. CASE TakeReply
  <2>1. PICK n \in Steps : /\ Issue(n)
                           /\ \/ n \in Nexts(step) /\ step # "stop"
                              \/ step = "config" /\ n = "connected"
                              \/ step = "stop" /\ n = "closed"
    BY <1>2, TakeReplyIssues
  <2>2. step' = n /\ step \in Commands
    BY <1>2, <2>1, TakeReplyIssues DEF Issue
  <2> QED
    BY <1>0, <2>1, <2>2 DEF Nexts, Opening, Commands, Reads, Mutations
<1>3. CASE Timeout \/ TakeNak \/ TakeFailure
  <2>1. CASE Abandon
    BY <1>0, <2>1 DEF Abandon, Issue
  <2>2. CASE Raise /\ ~Abandon
    BY <2>2 DEF Raise, Opening
  <2>3. CASE Retry
    BY <2>3 DEF Retry
  <2> QED
    BY <1>3, <2>1, <2>2, <2>3 DEF Timeout, TakeNak, TakeFailure, RetryOrRaise
<1>4. CASE LineStep \/ UNCHANGED vars
  BY <1>0, <1>4 DEF LineStep, PowerCycle, Issue, Process, RefuseTelegram, LoseTelegram, LoseReply, host, vars
<1>5. ~Close /\ ~Restart /\ ~StreamFaults
  BY <1>0 DEF Close, Restart, StreamFaults, Issue
<1> QED
  BY <1>1, <1>2, <1>3, <1>4, <1>5 DEF Next, HostStep, Take

\* A connection that is closed has nothing to be stopped.
LEMMA Closes ==
    ASSUME TypeInv, Unchanged, [Next]_vars, ~Connect, step' = "closed"
    PROVE  ~changed'
<1>1. CASE step = "closed"
  BY <1>1, ClosedStep DEF Unchanged, host
<1>2. CASE step # "closed"
  <2>1. ~Write /\ ~Receive /\ ~TakeAck /\ ~TakeUnexpected /\ ~Restart /\ ~StreamFaults
    BY <1>2 DEF Write, Receive, TakeAck, TakeUnexpected, Restart, StreamFaults, Issue
  <2>2. ~LineStep /\ ~UNCHANGED vars
    BY <1>2 DEF LineStep, PowerCycle, Issue, Process, RefuseTelegram, LoseTelegram, LoseReply, host, vars
  <2>3. CASE TakeReply
    <3>1. PICK n \in Steps : /\ Issue(n)
                             /\ \/ n \in Nexts(step) /\ step # "stop"
                                \/ step = "config" /\ n = "connected"
                                \/ step = "stop" /\ n = "closed"
      BY <2>3, TakeReplyIssues
    <3>2. step' = n /\ step \in Commands
      BY <2>3, <3>1, TakeReplyIssues DEF Issue
    <3>3. step = "stop"
      BY <3>1, <3>2 DEF Nexts, Commands, Reads, Mutations
    <3> QED
      BY <2>3, <3>3 DEF TakeReply
  <2>4. CASE Timeout \/ TakeNak \/ TakeFailure
    <3>1. ~Retry /\ (Raise => Abandon)
      BY <1>2 DEF Retry, Raise, Issue
    <3>2. Abandon
      BY <2>4, <3>1 DEF Timeout, TakeNak, TakeFailure, RetryOrRaise
    <3> QED
      BY <3>2 DEF Abandon, Issue
  <2>5. CASE Close
    BY <2>5 DEF Close, Issue
  <2> QED
    BY <2>1, <2>2, <2>3, <2>4, <2>5 DEF Next, HostStep, Take
<1> QED
  BY <1>1, <1>2

LEMMA UnchangedStep ==
    ASSUME TypeInv, Unchanged, [Next]_vars
    PROVE  Unchanged'
<1>1. CASE Connect
  BY <1>1 DEF Connect, Unchanged
<1>2. CASE ~Connect /\ step' = "closed"
  BY <1>2, Closes DEF Unchanged
<1>3. CASE ~Connect /\ step' \in Opening
  <2>1. step \in Opening /\ ~changed
    BY <1>3, OpensOnly DEF Unchanged
  <2>2. changed' = changed
    <3>1. CASE Write
      <4>1. step \notin Mutations /\ changed \in BOOLEAN
        BY <2>1 DEF Opening, Mutations, TypeInv, TypeOK
      <4> QED
        BY <3>1, <4>1 DEF Write
    <3>2. CASE TakeReply
      BY <1>3, <2>1, <3>2, Opens DEF Opening
    <3>3. CASE Timeout \/ TakeNak \/ TakeFailure
      <4>1. ~Abandon
        BY <1>3 DEF Abandon, Issue, Opening
      <4> QED
        BY <3>3, <4>1 DEF Timeout, TakeNak, TakeFailure, RetryOrRaise, Raise, Retry
    <3>4. CASE Receive \/ TakeAck \/ TakeUnexpected \/ Close \/ Restart \/ StreamFaults
      BY <3>4 DEF Receive, TakeAck, TakeUnexpected, Close, Restart, StreamFaults
    <3>5. CASE LineStep \/ UNCHANGED vars
      BY <3>5 DEF LineStep, PowerCycle, Process, RefuseTelegram, LoseTelegram, LoseReply, host, vars
    <3> QED
      BY <1>3, <3>1, <3>2, <3>3, <3>4, <3>5 DEF Next, HostStep, Take
  <2> QED
    BY <2>1, <2>2 DEF Unchanged
<1> QED
  BY <1>1, <1>2, <1>3 DEF Unchanged

\* A state of a clean session comes from one of it, from connecting, or from the configuration
\* that the session after it reads.
LEMMA CleanBefore ==
    ASSUME TypeInv, Behind, Unchanged, [Next]_vars, ~Connect, Clean'
    PROVE  Clean \/ (after /\ ~fresh /\ step = "config" /\ TakeReply /\ step' \in {"quiesce", "connected"})
<1>1. fresh' = fresh /\ after' = after
  BY FreshKept
<1>2. CASE Begun
  <2>1. CASE step = "closed"
    BY <1>2, <2>1, ClosedStep DEF Clean, Settled, host
  <2>2. CASE step # "closed" /\ unanswered
    <3>1. Raise \/ Abandon \/ Retry => unanswered'
      BY <2>2 DEF Raise, Abandon, Retry
    <3>2. HostStep => unanswered'
      BY <2>2, <3>1 DEF HostStep, Write, Receive, Timeout, Take, TakeNak, TakeAck, TakeUnexpected,
            TakeFailure, TakeReply, Close, Restart, StreamFaults, restFrame, RetryOrRaise
    <3>3. LineStep \/ UNCHANGED vars => unanswered'
      BY <2>2 DEF LineStep, Process, RefuseTelegram, LoseTelegram, LoseReply, PowerCycle, vars
    <3>4. unanswered'
      BY <3>2, <3>3 DEF Next
    <3> QED
      BY <3>4 DEF Clean, Settled
  <2> QED
    BY <1>2, <2>1, <2>2 DEF Clean, Settled
<1>3. CASE ~Begun
  <2>1. ~fresh /\ after /\ step \in Opening /\ step' \notin Opening
    BY <1>1, <1>3 DEF Clean, Begun
  <2>2. ~(step' = "closed" /\ ~confirmed')
    BY DEF Clean, Settled
  <2>3. "type" \in Opening /\ "config" \in Opening
    BY DEF Opening
  <2> QED
    BY <2>1, <2>2, <2>3, Opens
<1> QED
  BY <1>2, <1>3

LEMMA OrderHolds == ASSUME InOrder PROVE Holds(Own(step) \cup Left(step))
<1>1. Neutral \cup Own(step) \cup Left(step) = Neutral \cup (Own(step) \cup Left(step))
  OBVIOUS
<1>2. Ranked({}, {}, IdsOf(events), IdsOf(down), Awaited(up))
  BY DEF Ranked, Follows, Has
<1> QED
  BY <1>1, <1>2 DEF InOrder, Tidy, Holds, Carries

\* Nothing new is on its way while a step is left, or its telegram has an id in K.
LEMMA HoldsStep ==
    ASSUME TypeInv, [Next]_vars, NEW K, K \subseteq Ids, Holds(K), Write => ResponseId(step) \in K
    PROVE  Holds(K)'
<1>1. Carries(K, {}, {})
  BY DEF Holds
<1>2. Carries(K, {}, {})'
  BY <1>1, CarriesStep
<1> QED
  BY <1>2 DEF Holds

LEMMA LeftoverStep ==
    ASSUME TypeInv, Behind, Unchanged, CleanInv, Leftover, [Next]_vars
    PROVE  Leftover'
<1>1. CASE Connect
  BY <1>1 DEF Connect, Issue, Leftover
<1>2. CASE ~Connect /\ fresh' /\ step' \in {"stop", "closed"}
  <2>1. fresh
    BY <1>2, FreshKept
  <2>2. Write => step' = step /\ step \in Commands
    BY DEF Write, Commands
  <2>3. CASE step = "stop"
    <3>1. Holds(Ids \ {"BA"}) /\ ResponseId(step) \in Ids \ {"BA"}
      BY <2>1, <2>3, Replies DEF Leftover, Ids
    <3>2. Holds(Ids \ {"BA"})'
      BY <3>1, HoldsStep
    <3> QED
      BY <1>2, <3>2 DEF Leftover
  <2>4. CASE step = "closed"
    <3>1. step' = "closed" /\ ~Write
      BY <1>2, <2>4, ClosedStep DEF host, HostStep
    <3>2. Holds({"B1", "BA"}) \/ Holds({"BA", "F4"}) \/ Holds(Ids \ {"BA"})
      BY <2>1, <2>4 DEF Leftover
    <3>3. {"B1", "BA"} \subseteq Ids /\ {"BA", "F4"} \subseteq Ids /\ Ids \ {"BA"} \subseteq Ids
      BY DEF Ids
    <3>4. Holds({"B1", "BA"})' \/ Holds({"BA", "F4"})' \/ Holds(Ids \ {"BA"})'
      BY <3>1, <3>2, <3>3, HoldsStep
    <3> QED
      BY <3>1, <3>4 DEF Leftover
  <2>5. CASE step \notin {"stop", "closed"}
    <3>1. ~Write
      BY <1>2, <2>2, <2>5
    <3>2. Clean
      BY <2>1, <2>5 DEF Clean, Begun, Settled, Behind
    <3>3. Holds(Own(step) \cup Left(step))
      BY <3>2, OrderHolds DEF CleanInv
    <3>4. step \in Steps /\ Own(step) \cup Left(step) \subseteq Ids
      BY LineTypes, Tables
    <3> DEFINE K == Own(step) \cup Left(step)
    <3>5. K \subseteq K /\ {"B1", "BA"} \subseteq Ids /\ {"BA", "F4"} \subseteq Ids
      BY DEF Ids
    <3>6. \A L : K \subseteq L /\ L \subseteq Ids => Holds(L)'
      <4> TAKE L
      <4> HAVE K \subseteq L /\ L \subseteq Ids
      <4>1. Holds(L)
        <5> HIDE DEF K
        <5>1. Carries(K, {}, {})
          BY <3>3 DEF Holds, K
        <5> QED
          BY <5>1, CarriesOnly
      <4> HIDE DEF K
      <4> QED
        BY <3>1, <4>1, HoldsStep
    <3>7. CASE step \in Opening
      <4>1. step' = "closed"
        BY <1>2, <2>5, <3>7, Opens DEF Opening
      <4>2. K \subseteq {"B1", "BA"} \/ K \subseteq {"BA", "F4"}
        BY <3>7, Replies DEF Own, Left, Opening, Commands, Reads
      <4>3. Holds({"B1", "BA"})' \/ Holds({"BA", "F4"})'
        BY <3>5, <3>6, <4>2
      <4> QED
        BY <4>1, <4>3 DEF Leftover
    <3>8. CASE step \notin Opening
      <4>1. "BA" \notin K
        BY <2>5, <3>4, <3>8, Replies DEF Own, Left, Opening, Steps, Commands, Reads, Mutations
      <4>2. Holds(Ids \ {"BA"})'
        BY <3>4, <3>6, <4>1
      <4> QED
        BY <4>2 DEF Leftover
    <3> QED
      BY <3>7, <3>8
  <2> QED
    BY <2>3, <2>4, <2>5
<1> QED
  BY <1>1, <1>2 DEF Leftover

\* The next session finds what was left to it.
LEMMA InheritsConnect ==
    ASSUME TypeInv, Leftover, [Next]_vars, Connect
    PROVE  Inherits'
<1> SUFFICES ASSUME after', ~fresh' PROVE Holds({"B1", "BA"})' \/ Holds(Ids \ {"BA"})' \/ Carries({"B1", "BA", "F4"}, {"B1"}, {"BA", "F4"})'
  BY DEF Connect, Issue, Inherits
<1>1. fresh /\ step = "closed" /\ ~Write
  BY DEF Connect, Write, Reads, Mutations
<1>2. {"B1", "BA"} \subseteq Ids /\ {"BA", "F4"} \subseteq Ids /\ Ids \ {"BA"} \subseteq Ids
  BY DEF Ids
<1>3. Holds({"B1", "BA"})' \/ Holds({"BA", "F4"})' \/ Holds(Ids \ {"BA"})'
  BY <1>1, <1>2, HoldsStep DEF Leftover
<1>4. {"BA", "F4"} \subseteq {"B1", "BA", "F4"} /\ {"B1"} \cap (Neutral \cup {"BA", "F4"}) = {}
  BY DEF Neutral
<1> QED
  BY <1>3, <1>4, HoldsThen

\* The status is taken: what was left behind it is gone, or there is no type on its way.
LEMMA InheritsType ==
    ASSUME TypeInv, Inherits, [Next]_vars, TakeReply, after, ~fresh, step = "status"
    PROVE  Holds({"B1", "BA"})' \/ Carries(Ids, {"BA"}, Ids \ (Neutral \cup {"BA"}))'
<1>1. ~Write
  BY DEF Write, TakeReply
<1>2. {"B1", "BA"} \subseteq Ids /\ Ids \ {"BA"} \subseteq Ids /\ {"BA"} \cap (Neutral \cup (Ids \ {"BA"})) = {}
  BY DEF Ids, Neutral
<1>3. CASE Holds({"B1", "BA"})
  BY <1>1, <1>2, <1>3, HoldsStep
<1>4. CASE Holds(Ids \ {"BA"})
  <2>1. Holds(Ids \ {"BA"})'
    BY <1>1, <1>2, <1>4, HoldsStep
  <2> QED
    BY <1>2, <2>1, HoldsThen
<1>5. CASE Carries({"B1", "BA", "F4"}, {"B1"}, {"BA", "F4"})
  <2>1. ResponseId(step) \in {"B1"}
    BY Replies
  <2>2. Holds({"B1", "BA", "F4"} \ {"BA", "F4"})'
    BY <1>5, <2>1, CarriesTake
  <2>3. /\ {"B1", "BA", "F4"} \ {"BA", "F4"} \subseteq {"B1", "BA"}
        /\ {} \cap (Neutral \cup ({"B1", "BA", "F4"} \ {"BA", "F4"})) = {}
    OBVIOUS
  <2>4. Carries({"B1", "BA"}, {}, {})'
    BY <2>2, <2>3, HoldsThen
  <2> QED
    BY <2>4 DEF Holds
<1> QED
  BY <1>3, <1>4, <1>5 DEF Inherits

\* The type is taken: what the session before left is gone but for statuses and types.
LEMMA InheritsConfig ==
    ASSUME TypeInv, Inherits, [Next]_vars, TakeReply, after, ~fresh, step = "type"
    PROVE  Holds({"B1", "BA"})'
<1>1. ~Write
  BY DEF Write, TakeReply
<1>2. CASE Holds({"B1", "BA"})
  <2>1. {"B1", "BA"} \subseteq Ids
    BY DEF Ids
  <2> QED
    BY <1>1, <1>2, <2>1, HoldsStep
<1>3. CASE Carries(Ids, {"BA"}, Ids \ (Neutral \cup {"BA"}))
  <2> DEFINE K == Ids \ (Ids \ (Neutral \cup {"BA"}))
  <2>1. ResponseId(step) \in {"BA"}
    BY Replies
  <2>2. Holds(K)'
    BY <1>3, <2>1, CarriesTake
  <2>3. K \subseteq Neutral \cup {"BA"} /\ Neutral \cup K \subseteq Neutral \cup {"B1", "BA"}
    OBVIOUS
  <2>4. Seq(Neutral \cup K) \subseteq Seq(Neutral \cup {"B1", "BA"})
    BY <2>3, SeqGrows
  <2> HIDE DEF K
  <2> QED
    BY <2>2, <2>4 DEF Holds, Carries
<1> QED
  BY <1>2, <1>3 DEF Inherits

LEMMA InheritsStep ==
    ASSUME TypeInv, Unchanged, Leftover, Inherits, [Next]_vars
    PROVE  Inherits'
<1>1. CASE Connect
  BY <1>1, InheritsConnect
<1>2. CASE ~Connect /\ after' /\ ~fresh' /\ step' \in Opening
  <2>1. after /\ ~fresh /\ step \in Opening
    <3>1. fresh' = fresh /\ after' = after /\ step \in Opening
      BY <1>2, FreshKept, OpensOnly
    <3> QED
      BY <1>2, <3>1
  <2>2. /\ {"B1", "BA"} \subseteq Ids /\ {"B1", "BA", "F4"} \subseteq Ids /\ Ids \ {"BA"} \subseteq Ids
        /\ {"B1"} \cap Neutral = {} /\ {"BA"} \cap Neutral = {} /\ {"F4"} \cap Neutral = {}
        /\ {"BA", "F4"} \cap Neutral = {} /\ {"B1", "BA"} \cap Neutral = {}
        /\ (Ids \ (Neutral \cup {"BA"})) \cap Neutral = {}
    BY DEF Ids, Neutral
  <2>3. CASE step = "status" /\ step' = "status"
    <3>1. ResponseId(step) = "B1" /\ "B1" \in Ids \ {"BA"}
      BY <2>3, Replies DEF Ids
    <3>2. Holds({"B1", "BA"}) => Holds({"B1", "BA"})'
      BY <2>2, <3>1, HoldsStep
    <3>3. Holds(Ids \ {"BA"}) => Holds(Ids \ {"BA"})'
      BY <2>2, <3>1, HoldsStep
    <3>4. Carries({"B1", "BA", "F4"}, {"B1"}, {"BA", "F4"}) => Carries({"B1", "BA", "F4"}, {"B1"}, {"BA", "F4"})'
      BY <2>2, <3>1, CarriesStep
    <3> QED
      BY <2>1, <2>3, <3>2, <3>3, <3>4 DEF Inherits
  <2>4. CASE step = "type" /\ step' = "type"
    <3>1. ResponseId(step) = "BA" /\ "BA" \in Ids /\ "BA" \notin Ids \ (Neutral \cup {"BA"})
      BY <2>4, Replies DEF Ids
    <3>2. Holds({"B1", "BA"}) => Holds({"B1", "BA"})'
      BY <2>2, <3>1, HoldsStep
    <3>3. Carries(Ids, {"BA"}, Ids \ (Neutral \cup {"BA"})) => Carries(Ids, {"BA"}, Ids \ (Neutral \cup {"BA"}))'
      BY <2>2, <3>1, CarriesStep
    <3> QED
      BY <2>1, <2>4, <3>2, <3>3 DEF Inherits
  <2>5. CASE step = "config" /\ step' = "config"
    <3>1. ResponseId(step) = "F4"
      BY <2>5, Replies
    <3>2. Carries({"B1", "BA", "F4"}, {"F4"}, {"B1", "BA"})'
      BY <2>1, <2>2, <2>5, <3>1, CarriesStep DEF Inherits
    <3> QED
      BY <2>5, <3>2 DEF Inherits
  <2>6. CASE step' # step
    <3>1. TakeReply /\ ((step = "status" /\ step' = "type") \/ (step = "type" /\ step' = "config"))
      BY <1>2, <2>1, <2>6, Opens DEF Opening
    <3>2. CASE step = "status"
      BY <2>1, <3>1, <3>2, InheritsType DEF Inherits
    <3>3. CASE step = "type"
      <4>1. Holds({"B1", "BA"})'
        BY <2>1, <3>1, <3>3, InheritsConfig
      <4>2. {"B1", "BA"} \subseteq {"B1", "BA", "F4"} /\ {"F4"} \cap (Neutral \cup {"B1", "BA"}) = {}
        BY DEF Neutral
      <4>3. Carries({"B1", "BA", "F4"}, {"F4"}, {"B1", "BA"})'
        BY <4>1, <4>2, HoldsThen
      <4> QED
        BY <3>1, <3>3, <4>3 DEF Inherits
    <3> QED
      BY <3>1, <3>2, <3>3
  <2> QED
    BY <2>1, <2>3, <2>4, <2>5, <2>6 DEF Opening
<1> QED
  BY <1>1, <1>2 DEF Inherits, Opening

LEMMA TruthKept ==
    ASSUME TypeInv, Behind, CleanInv, Separate => Truth, [Next]_vars, Separate'
    PROVE  Truth'
<1>1. CASE Connect /\ fresh'
  <2>1. events' = <<>> /\ down' = <<>>
    BY <1>1 DEF Connect
  <2> QED
    BY <2>1 DEF Truth
<1>2. CASE ~(Connect /\ fresh')
  <2>1. Separate
    BY <1>2, FreshKept DEF Separate, Connect
  <2>2. PowerCycle => InOrder
    <3>1. PowerCycle => step \notin Opening /\ step \notin {"stop", "closed"}
      BY DEF PowerCycle, resting, Opening
    <3> QED
      BY <2>1, <3>1 DEF CleanInv, Clean, Begun, Settled, Behind, Separate
  <2> QED
    BY <2>1, <2>2, TruthStep
<1> QED
  BY <1>1, <1>2

\* With its configuration the session after has replies of its own only.
LEMMA Clears ==
    ASSUME TypeInv, Inherits, [Next]_vars, after, ~fresh, step = "config", TakeReply, step' \in {"quiesce", "connected"}
    PROVE  InOrder' /\ Effect'
<1> DEFINE K == Neutral \cup {"F4"}
<1>1. Carries({"B1", "BA", "F4"}, {"F4"}, {"B1", "BA"}) /\ ResponseId(step) \in {"F4"}
  BY Replies DEF Inherits
<1>2. Holds({"B1", "BA", "F4"} \ {"B1", "BA"})'
  BY <1>1, CarriesTake
<1>3. {"B1", "BA", "F4"} \ {"B1", "BA"} = {"F4"}
  OBVIOUS
<1>4. IdsOf(events') \in Seq(K) /\ IdsOf(down') \in Seq(K) /\ Awaited(up') \in Seq(K)
  BY <1>2, <1>3 DEF Holds, Carries
<1>5. PICK n \in Steps : Issue(n)
  BY TakeReplyIssues
<1>6. n \in {"quiesce", "connected"} /\ UNCHANGED up
  BY <1>5 DEF Issue, TakeReply
<1>7. K \subseteq Neutral \cup Left(n) /\ K \cap Own(n) = {} /\ "A0" \notin K
  <2>1. Left(n) = {"F4"} /\ Own(n) \subseteq {"A0"}
    BY <1>6, Replies DEF Left, Own, Commands, Reads, Mutations
  <2> QED
    BY <2>1 DEF Neutral
<1>8. Quiet(IdsOf(down'), IdsOf(down')) /\ Awaited(up) \in Seq(K)
  BY <1>4, <1>6 DEF Quiet
<1>9. InOrder'
  <2> HIDE DEF K
  <2> QED
    BY <1>4, <1>5, <1>6, <1>7, <1>8, OrderIssue
<1>10. ~Has(IdsOf(events'), {"A0"}) /\ ~Has(IdsOf(down'), {"A0"})
  <2> HIDE DEF K
  <2> QED
    BY <1>4, <1>7, HasMember
<1>11. Effect'
  BY <1>10 DEF Effect
<1> QED
  BY <1>9, <1>11

-----------------------------------------------------------------------------
(* What is not written without a change of rate.                           *)

LEMMA Moves ==
    ASSUME [Next]_vars, ~TakeReply
    PROVE  step' = step \/ step' \in {"status", "stop", "closed", "quiesce", "faulted"}
<1>1. CASE Write \/ Receive \/ TakeAck \/ TakeUnexpected
  BY <1>1 DEF Write, Receive, TakeAck, TakeUnexpected
<1>2. CASE Timeout \/ TakeNak \/ TakeFailure
  BY <1>2 DEF Timeout, TakeNak, TakeFailure, RetryOrRaise, Raise, Abandon, Retry, Issue
<1>3. CASE Connect \/ Close \/ Restart \/ StreamFaults
  BY <1>3 DEF Connect, Close, Restart, StreamFaults, Issue
<1>4. CASE LineStep \/ UNCHANGED vars
  BY <1>4 DEF LineStep, PowerCycle, Issue, Process, RefuseTelegram, LoseTelegram, LoseReply, host, vars
<1> QED
  BY <1>1, <1>2, <1>3, <1>4 DEF Next, HostStep, Take

LEMMA RebaudStep ==
    ASSUME TypeInv, target = 0, step # "rebaudStatus", [Next]_vars
    PROVE  step' # "rebaudStatus"
<1>1. CASE TakeReply
  <2>1. PICK n \in Steps : /\ Issue(n)
                           /\ \/ n \in Nexts(step) /\ step # "stop"
                              \/ step = "config" /\ n = "connected"
                              \/ step = "stop" /\ n = "closed"
    BY <1>1, TakeReplyIssues
  <2>2. step' = n /\ step \in Commands /\ step # "baud"
    BY <1>1, <2>1, TakeReplyIssues DEF Issue, TypeInv, Rated
  <2> QED
    BY <2>1, <2>2 DEF Nexts, Commands, Reads, Mutations
<1>2. CASE ~TakeReply
  BY <1>2, Moves
<1> QED
  BY <1>1, <1>2

\* The scanner is given its geometry by a variant only, and its configuration by a write.
LEMMA Given ==
    ASSUME TypeInv, [Next]_vars
    PROVE  /\ ~(Process /\ Head(up) = "variant") => (~geometry => ~geometry')
           /\ ~(Process /\ Head(up) = "write") => (~config => ~config')
<1>0. geometry \in BOOLEAN /\ config \in BOOLEAN
  BY DEF TypeInv, TypeOK
<1>1. CASE Process
  BY <1>0, <1>1 DEF Process, Execute
<1>2. CASE PowerCycle
  BY <1>0, <1>2, Grows
<1>3. CASE ~Process /\ ~PowerCycle
  BY <1>3, ScannerKept DEF scanner
<1> QED
  BY <1>1, <1>2, <1>3

\* A telegram whose reply is not awaited is not the next one.
LEMMA NotFirst ==
    ASSUME TypeInv, up # <<>>, NEW X, ~Has(Awaited(up), X)
    PROVE  ResponseId(Head(up)) \notin X
<1>1. Awaited(up) # <<>> /\ Awaited(up)[1] = ResponseId(Head(up)) /\ Awaited(up) \in Seq(Ids)
  BY LineTypes, AwaitedTail
<1>2. 1 \in 1..Len(Awaited(up))
  <2> HIDE DEF Awaited
  <2> QED
    BY <1>1
<1> QED
  BY <1>1, <1>2 DEF Has

LEMMA NotAwaited ==
    ASSUME TypeInv, [Next]_vars, NEW X, ~Has(Awaited(up), X), Write => ResponseId(step) \notin X
    PROVE  ~Has(Awaited(up'), X)
<1> DEFINE U == Awaited(up)
<1>1. up \in Seq(Commands) /\ U \in Seq(Ids)
  BY LineTypes
<1>2. Follows(U, {}, {})
  BY DEF Follows
<1>3. CASE Write
  <2>1. step \in Commands /\ (up' = up \/ up' = Append(up, step))
    BY <1>3 DEF Write, Commands
  <2>2. Awaited(up') = U \/ (Awaited(up') = Append(U, ResponseId(step)) /\ ResponseId(step) \in Ids)
    BY <1>1, <2>1, AwaitedAppend
  <2> HIDE DEF U
  <2>3. ResponseId(step) \in Ids => (Has(Append(U, ResponseId(step)), X) <=> Has(U, X) \/ ResponseId(step) \in X)
    BY <1>1, <1>2, HasAppend
  <2> QED
    BY <1>3, <2>2, <2>3 DEF U
<1>4. CASE Quiet(up, up')
  <2>1. Quiet(U, Awaited(up'))
    BY <1>1, <1>4, QuietMaps
  <2> HIDE DEF U
  <2>2. Has(Awaited(up'), X) => Has(U, X)
    BY <1>1, <1>2, <2>1, QuietIds
  <2> QED
    BY <2>2 DEF U
<1>5. CASE HostStep /\ ~Write
  <2>1. up' = up
    BY <1>5 DEF HostStep, Connect, Receive, Timeout, Take, TakeNak, TakeAck, TakeUnexpected,
              TakeFailure, TakeReply, Close, Restart, StreamFaults, restFrame
  <2> QED
    BY <1>4, <2>1 DEF Quiet
<1>6. CASE LineStep \/ UNCHANGED vars
  <2>1. Quiet(up, up')
    BY <1>6 DEF LineStep, Process, RefuseTelegram, LoseTelegram, LoseReply, PowerCycle, vars, Quiet
  <2> QED
    BY <1>4, <2>1
<1> QED
  BY <1>3, <1>5, <1>6 DEF Next

LEMMA EmptyLine ==
    ASSUME events' = <<>>, down' = <<>>, up' = <<>>, NEW K, NEW A, NEW B
    PROVE  Carries(K, A, B)'
<1>1. IdsOf(events') = <<>> /\ IdsOf(down') = <<>> /\ Awaited(up') = <<>>
  BY IdsAre
<1>2. <<>> \in Seq(Neutral \cup K) /\ Ranked(A, B, <<>>, <<>>, <<>>)
  BY HasEmpty DEF Ranked
<1> QED
  BY <1>1, <1>2 DEF Carries

\* A negative status stays true: no variant comes behind it.
LEMMA DenyingStep ==
    ASSUME TypeInv, Carries(Ids, {"B1"}, {"BB"}), events \in Seq(Denying), down \in Seq(Denying), [Next]_vars
    PROVE  events' \in Seq(Denying') /\ down' \in Seq(Denying')
<1>1. /\ geometry \in BOOLEAN /\ Len(events) <= QueueSize /\ Events' = Events
      /\ events \in Seq(Events) /\ down \in Seq(Events)
  BY LineTypes DEF TypeInv, TypeOK, Events, Bauds
<1>2. Event("ack") \in Denying' /\ Event("nak") \in Denying'
  BY <1>1, Neutrals DEF Denying
<1>3. CASE Process /\ Head(up) = "variant"
  <2>1. Has(Awaited(up), {"BB"})
    <3>1. up # <<>> /\ ResponseId(Head(up)) = "BB"
      BY <1>3, Replies DEF Process
    <3> QED
      BY <3>1, NotFirst
  <2>2. ~Has(IdsOf(events), {"B1"}) /\ ~Has(IdsOf(down), {"B1"})
    BY <2>1 DEF Carries, Ranked
  <2>3. IdsOf(events) \in Seq(Ids) /\ IdsOf(down) \in Seq(Ids)
    BY LineTypes
  <2>4. IdsOf(events) \in Seq(Ids \ {"B1"}) /\ IdsOf(down) \in Seq(Ids \ {"B1"})
    BY <2>2, <2>3, NotHas
  <2>5. /\ events \in Seq({e \in Events : e.r \in Ids \ {"B1"}})
        /\ down \in Seq({e \in Events : e.r \in Ids \ {"B1"}})
    BY <1>1, <2>4, OnlyIds
  <2>6. {e \in Events : e.r \in Ids \ {"B1"}} \subseteq Denying'
    BY <1>1 DEF Denying
  <2>7. events \in Seq(Denying') /\ down \in Seq(Denying')
    BY <2>5, <2>6, SeqGrows
  <2>8. Answer(Head(up)) \in Denying'
    <3>1. "variant" \in Commands
      BY DEF Commands, Mutations
    <3>2. Answer(Head(up)) \in Events /\ Answer(Head(up)).r \in {"BB", "92"}
      BY <1>3, <3>1, AnswerType, Replies DEF Reported
    <3> QED
      BY <1>1, <3>2 DEF Denying
  <2> QED
    BY <1>1, <1>2, <2>7, <2>8, RepliesKept
<1>4. CASE ~(Process /\ Head(up) = "variant")
  <2>1. ~geometry => ~geometry'
    BY <1>4, Given
  <2>2. Denying \subseteq Denying'
    BY <1>1, <2>1 DEF Denying
  <2>3. events \in Seq(Denying') /\ down \in Seq(Denying')
    BY <2>2, SeqGrows
  <2>4. Process => Answer(Head(up)) \in Denying'
    BY <1>1, <2>1, AnswersTelegram DEF Denying
  <2> QED
    BY <1>1, <1>2, <2>3, <2>4, RepliesKept
<1> QED
  BY <1>3, <1>4

LEMMA OrderCarries == ASSUME InOrder PROVE Carries(Own(step) \cup Left(step), Own(step), Barred(step))
<1>1. Neutral \cup Own(step) \cup Left(step) = Neutral \cup (Own(step) \cup Left(step))
  OBVIOUS
<1> QED
  BY <1>1 DEF InOrder, Tidy, Carries

\* Without a change of rate no status is on its way when the changes are made.
LEMMA NoStatus ==
    ASSUME TypeInv, Behind, Unchanged, CleanInv, target = 0, step # "rebaudStatus", Denied, Separate, [Next]_vars, ~Connect,
           Clean', step' \in {"variant", "write", "readback"}
    PROVE  Holds(Ids \ {"B1"})'
<1>1. Clean
  BY CleanBefore
<1>2. CASE ~TakeReply
  <2>1. step' = step
    BY <1>2, Moves
  <2>2. Holds(Ids \ {"B1"})
    BY <1>1, <2>1 DEF Denied
  <2>3. ResponseId(step) \in Ids \ {"B1"}
    BY <2>1, Replies DEF Ids
  <2> QED
    BY <2>2, <2>3, HoldsStep
<1>3. CASE TakeReply
  <2>0. PICK K, A : K = Own(step) \cup Left(step) /\ A = Own(step)
    OBVIOUS
  <2>1. PICK n \in Steps : /\ Issue(n)
                           /\ \/ n \in Nexts(step) /\ step # "stop"
                              \/ step = "config" /\ n = "connected"
                              \/ step = "stop" /\ n = "closed"
    BY <1>3, TakeReplyIssues
  <2>2. step' = n /\ step \in Commands /\ step \in Steps
    BY <1>3, <2>1, TakeReplyIssues DEF Issue, Commands, Steps
  <2>3. step \in Mutations
    BY <2>1, <2>2 DEF Nexts, Commands, Reads, Mutations
  <2>4. Barred(step) = Ids /\ K \subseteq Ids /\ ResponseId(step) \in A
    BY <2>0, <2>2, <2>3, Tables
  <2>5. Carries(K, A, Ids)
    BY <1>1, <2>0, <2>4, OrderCarries DEF CleanInv
  <2>6. Holds(K \ Ids)'
    BY <1>3, <2>4, <2>5, CarriesTake
  <2>7. K \ Ids \subseteq Ids \ {"B1"} /\ {} \cap (Neutral \cup (K \ Ids)) = {}
    BY <2>4
  <2>8. Carries(Ids \ {"B1"}, {}, {})'
    BY <2>6, <2>7, HoldsThen
  <2> QED
    BY <2>8 DEF Holds
<1> QED
  BY <1>2, <1>3

LEMMA DeniedStep ==
    ASSUME TypeInv, Behind, Unchanged, CleanInv, target = 0 => step # "rebaudStatus", Denied, [Next]_vars
    PROVE  Denied'
<1> SUFFICES ASSUME target = 0, Separate'
             PROVE  /\ events' \in Seq(Denying') /\ down' \in Seq(Denying') /\ Carries(Ids, {"B1"}, {"BB"})'
                    /\ Clean' /\ step' \in {"variant", "write", "readback"} => Holds(Ids \ {"B1"})'
  BY TargetKept DEF Denied
<1>1. CASE Connect
  <2>1. step' = "status"
    BY <1>1 DEF Connect, Issue
  <2>2. CASE fresh'
    <3>1. events' = <<>> /\ down' = <<>> /\ up' = <<>>
      BY <1>1, <2>2 DEF Connect
    <3>2. Carries(Ids, {"B1"}, {"BB"})'
      BY <3>1, EmptyLine
    <3> QED
      BY <2>1, <3>1, <3>2
  <2>3. CASE ~fresh'
    <3>1. Separate /\ ~Write
      BY <1>1, <2>3 DEF Connect, Separate, Write, Reads, Mutations
    <3>2. /\ events \in Seq(Denying) /\ down \in Seq(Denying) /\ Carries(Ids, {"B1"}, {"BB"})
          /\ {"B1"} \cap Neutral = {} /\ {"BB"} \cap Neutral = {} /\ Ids \subseteq Ids
      BY <3>1 DEF Denied, Neutral
    <3>3. Carries(Ids, {"B1"}, {"BB"})'
      BY <3>1, <3>2, CarriesStep
    <3> QED
      BY <2>1, <3>2, <3>3, DenyingStep
  <2> QED
    BY <2>2, <2>3
<1>2. CASE ~Connect
  <2>1. Separate
    <3>1. fresh' = fresh /\ after' = after
      BY <1>2, FreshKept
    <3> QED
      BY <3>1 DEF Separate
  <2>2. /\ events \in Seq(Denying) /\ down \in Seq(Denying) /\ Carries(Ids, {"B1"}, {"BB"})
        /\ {"B1"} \cap Neutral = {} /\ {"BB"} \cap Neutral = {} /\ Ids \subseteq Ids
    BY <2>1 DEF Denied, Neutral
  <2>3. Write => ResponseId(step) \in Ids
    BY Replies DEF Write, Commands
  <2>4. Write /\ ResponseId(step) = "BB" => ~Has(IdsOf(down), {"B1"}) /\ ~Has(Awaited(up), {"B1"})
    <3> SUFFICES ASSUME Write, ResponseId(step) = "BB" PROVE ~Has(IdsOf(down), {"B1"}) /\ ~Has(Awaited(up), {"B1"})
      OBVIOUS
    <3>1. step = "variant"
      BY Replies DEF Write, Commands, Reads, Mutations
    <3>2. Clean
      BY <2>1, <3>1 DEF Clean, Begun, Settled, Behind, Separate, Opening
    <3>3. Holds(Ids \ {"B1"})
      BY <2>1, <3>1, <3>2 DEF Denied
    <3> DEFINE S == Neutral \cup (Ids \ {"B1"})
    <3>4. IdsOf(down) \in Seq(S) /\ Awaited(up) \in Seq(S) /\ "B1" \notin S
      BY <3>3 DEF Holds, Carries, Neutral
    <3> HIDE DEF S
    <3> QED
      BY <3>4, HasMember
  <2>5. Carries(Ids, {"B1"}, {"BB"})'
    BY <2>2, <2>3, <2>4, CarriesStep
  <2>6. Clean' /\ step' \in {"variant", "write", "readback"} => Holds(Ids \ {"B1"})'
    BY <1>2, <2>1, NoStatus
  <2> QED
    BY <2>2, <2>5, <2>6, DenyingStep
<1> QED
  BY <1>1, <1>2

LEMMA ToldStep ==
    ASSUME TypeInv, TypeInv', Unchanged, Inherits, Denied, Told, [Next]_vars
    PROVE  Told'
<1> SUFFICES ASSUME target = 0, after', ~fresh', step' \in {"type", "config"}
             PROVE  /\ ~Has(Awaited(up'), {"BB"}) /\ (~info'.geometry => ~geometry')
                    /\ step' = "config" => events' \in Seq(Lacking') /\ down' \in Seq(Lacking')
  BY TargetKept DEF Told
<1>1. ~Connect
  BY DEF Connect, Issue
<1>2. after /\ ~fresh
  <2>1. fresh' = fresh /\ after' = after
    BY <1>1, FreshKept
  <2> QED
    BY <2>1
<1>3. step \in Opening
  BY <1>1, OpensOnly DEF Opening
<1>4. /\ Len(events) <= QueueSize /\ Events' = Events
      /\ events \in Seq(Events) /\ down \in Seq(Events)
      /\ events' \in Seq(Events) /\ down' \in Seq(Events)
  BY DEF TypeInv, TypeOK, Events, Bauds
<1>5. CASE ~TakeReply
  <2>1. step' = step
    BY <1>1, <1>3, <1>5, Opens
  <2>2. ~Has(Awaited(up), {"BB"}) /\ (~info.geometry => ~geometry) /\ info' = info
    BY <1>2, <1>5, <2>1, KnowledgeKept DEF Told
  <2>3. Process => Head(up) # "variant"
    BY <2>2, NotFirst, Replies DEF Process
  <2>4. ~info'.geometry => ~geometry'
    BY <2>2, <2>3, Given
  <2>5. ResponseId(step) \notin {"BB"}
    BY <2>1, Replies
  <2>6. ~Has(Awaited(up'), {"BB"})
    BY <2>2, <2>5, NotAwaited
  <2>7. ASSUME step' = "config" PROVE events' \in Seq(Lacking') /\ down' \in Seq(Lacking')
    <3>1. events \in Seq(Lacking) /\ down \in Seq(Lacking) /\ Carries({"B1", "BA", "F4"}, {"F4"}, {"B1", "BA"})
      BY <1>2, <2>1, <2>7 DEF Told, Inherits
    <3>2. ~Has(Awaited(up), {"F7"})
      <4> DEFINE S == Neutral \cup {"B1", "BA", "F4"}
      <4>1. Awaited(up) \in Seq(S) /\ "F7" \notin S
        BY <3>1 DEF Carries, Neutral
      <4> HIDE DEF S
      <4> QED
        BY <4>1, HasMember
    <3>3. Process => Head(up) # "write"
      BY <3>2, NotFirst, Replies DEF Process
    <3>4. ~config => ~config'
      BY <3>3, Given
    <3>5. Lacking \subseteq Lacking'
      BY <1>4, <2>1, <2>7, <3>4 DEF Lacking
    <3>6. events \in Seq(Lacking') /\ down \in Seq(Lacking')
      BY <3>1, <3>5, SeqGrows
    <3>7. Event("ack") \in Lacking' /\ Event("nak") \in Lacking'
      BY <1>4, Neutrals DEF Lacking
    <3>8. Process => Answer(Head(up)) \in Lacking'
      BY <1>4, <2>7, <3>4, AnswersTelegram DEF Lacking
    <3> QED
      BY <1>4, <3>6, <3>7, <3>8, RepliesKept
  <2> QED
    BY <2>4, <2>6, <2>7
<1>6. CASE TakeReply
  <2>1. (step = "status" /\ step' = "type") \/ (step = "type" /\ step' = "config")
    BY <1>1, <1>3, <1>6, Opens
  <2>2. events # <<>> /\ Head(events).r = ResponseId(step) /\ geometry' = geometry /\ up' = up
    BY <1>6, TakeReplyIssues DEF TakeReply, scanner
  <2>3. info' = IF Head(events).r = "B1" THEN [geometry |-> Head(events).geometry, baud |-> Head(events).baud] ELSE info
    BY <1>6 DEF TakeReply
  <2>4. CASE step = "status"
    <3>1. events \in Seq(Denying) /\ Carries(Ids, {"B1"}, {"BB"})
      BY <1>2 DEF Denied, Separate
    <3>2. Head(events) \in Denying /\ Head(events).r = "B1"
      BY <2>2, <2>4, <3>1, Replies
    <3>3. ~Has(Awaited(up'), {"BB"})
      <4>1. ResponseId(step) \in {"B1"}
        BY <2>4, Replies
      <4> QED
        BY <1>6, <3>1, <4>1, CarriesTake
    <3>4. ~info'.geometry => ~geometry'
      BY <2>2, <2>3, <3>2 DEF Denying
    <3> QED
      BY <2>1, <2>4, <3>3, <3>4
  <2>5. CASE step = "type"
    <3>1. ~Has(Awaited(up'), {"BB"}) /\ (~info'.geometry => ~geometry')
      BY <1>2, <2>2, <2>3, <2>5, Replies DEF Told
    <3> DEFINE K == Neutral \cup {"B1", "BA"}
    <3>2. IdsOf(events') \in Seq(K) /\ IdsOf(down') \in Seq(K) /\ "F4" \notin K
      BY <1>2, <1>6, <2>5, InheritsConfig DEF Holds, Carries, Neutral
    <3>3. {e \in Events : e.r \in K} \subseteq Lacking'
      BY <1>4, <2>1, <2>5, <3>2 DEF Lacking
    <3>4. events' \in Seq({e \in Events : e.r \in K}) /\ down' \in Seq({e \in Events : e.r \in K})
      <4> HIDE DEF K
      <4> QED
        BY <1>4, <3>2, OnlyIds
    <3>5. events' \in Seq(Lacking') /\ down' \in Seq(Lacking')
      BY <3>3, <3>4, SeqGrows
    <3> QED
      BY <3>1, <3>5
  <2> QED
    BY <2>1, <2>4, <2>5
<1> QED
  BY <1>5, <1>6

LEMMA ClearsLack ==
    ASSUME TypeInv, TypeInv', Told, [Next]_vars, target = 0, after, ~fresh, step = "config", TakeReply, step' \in {"quiesce", "connected"}
    PROVE  Lack'
<1>1. events \in Seq(Lacking) /\ (~info.geometry => ~geometry)
  BY DEF Told
<1>2. events # <<>> /\ Head(events).r = "F4" /\ geometry' = geometry /\ config' = config
  BY TakeReplyIssues, Replies DEF TakeReply, scanner
<1>3. Head(events) \in Lacking
  BY <1>1, <1>2
<1>4. conf' = Head(events).config /\ info' = info
  BY <1>2 DEF TakeReply
<1>5. Unwritten'
  BY <1>1, <1>2, <1>3, <1>4 DEF Unwritten, Known, Planned, Lacking
<1>6. Lacking' = Events'
  BY DEF Lacking
<1> QED
  BY <1>5, <1>6 DEF Lack, TypeInv, TypeOK

-----------------------------------------------------------------------------
(* The invariant holds.                                                    *)

\* A session that begins with nothing on its way.
LEMMA Begins ==
    ASSUME TypeInv, Connect, Clean'
    PROVE  InOrder' /\ Lack' /\ Effect'
<1>0. step' = "status" /\ phase' = "send" /\ fresh'
  BY DEF Clean, Begun, Opening, Connect, Issue
<1>1. events' = <<>> /\ down' = <<>> /\ up' = <<>> /\ step' = "status" /\ phase' = "send"
  BY <1>0 DEF Connect
<1>2. IdsOf(events') = <<>> /\ IdsOf(down') = <<>> /\ Awaited(up') = <<>>
  BY <1>1, IdsAre
<1>3. Tidy("status", "send", <<>>, <<>>, <<>>)
  <2>1. <<>> \in Seq({}) /\ {} \subseteq Neutral \cup Left("status") /\ {} \cap Own("status") = {}
    OBVIOUS
  <2> QED
    BY <2>1, Issuable
<1>4. InOrder'
  BY <1>1, <1>2, <1>3 DEF InOrder
<1>5. Lack'
  BY <1>1 DEF Lack, Unwritten, Known, Planned
<1>6. Effect'
  BY <1>1, <1>2, HasEmpty DEF Effect
<1> QED
  BY <1>4, <1>5, <1>6

LEMMA InitIInv == Init => IInv
<1> SUFFICES ASSUME Init PROVE IInv
  OBVIOUS
<1>1. TypeInv
  BY InitType
<1>2. Believed /\ Behind /\ Unchanged /\ ~fresh /\ ~after /\ step # "rebaudStatus"
  BY DEF Init, Believed, Behind, Unchanged
<1> QED
  BY <1>1, <1>2 DEF IInv, CleanInv, Clean, Begun, LineInv, Separate, Leftover, Inherits, WriteInv, Denied, Told

LEMMA CleanStep ==
    ASSUME IInv, [Next]_vars, TypeInv', Clean'
    PROVE  InOrder' /\ Effect' /\ (fresh' \/ target' = 0 => Lack')
<1>1. TypeInv /\ Believed /\ Behind /\ Unchanged /\ CleanInv /\ LineInv /\ WriteInv
  BY DEF IInv
<1>2. CASE Connect
  BY <1>1, <1>2, Begins
<1>3. CASE Clean /\ ~Connect
  <2>1. InOrder /\ Effect /\ (fresh \/ target = 0 => Lack) /\ Truth
    BY <1>1, <1>3 DEF CleanInv, LineInv, Separate, Clean, Begun
  <2>2. InOrder'
    BY <1>1, <1>3, <2>1, OrderStep
  <2>3. fresh' \/ target' = 0 => fresh \/ target = 0
    <3>1. fresh' = fresh /\ target' = target
      BY <1>3, FreshKept, TargetKept
    <3> QED
      BY <3>1
  <2>4. fresh' \/ target' = 0 => Lack'
    BY <1>1, <1>3, <2>1, <2>3, LackingStep, UnwrittenStep DEF Lack
  <2>5. Has(IdsOf(events'), {"A0"}) \/ Has(IdsOf(down'), {"A0"}) => Applied(step)'
    BY <1>1, <1>3, <2>1, <2>2, ConfirmStep
  <2>6. Effect'
    BY <1>1, <1>3, <2>1, <2>5, RestEffectStep DEF Effect
  <2> QED
    BY <2>2, <2>4, <2>6
<1>4. CASE ~Clean /\ ~Connect
  <2>1. after /\ ~fresh /\ step = "config" /\ TakeReply /\ step' \in {"quiesce", "connected"}
    BY <1>1, <1>4, CleanBefore
  <2>2. InOrder' /\ Effect'
    BY <1>1, <2>1, Clears DEF LineInv
  <2>3. fresh' \/ target' = 0 => target = 0
    <3>1. fresh' = fresh /\ target' = target
      BY <1>4, FreshKept, TargetKept
    <3> QED
      BY <2>1, <3>1
  <2>4. target = 0 => Lack'
    BY <1>1, <2>1, ClearsLack DEF WriteInv
  <2> QED
    BY <2>2, <2>3, <2>4
<1> QED
  BY <1>2, <1>3, <1>4

LEMMA NextIInv == IInv /\ [Next]_vars => IInv'
<1> SUFFICES ASSUME IInv, [Next]_vars PROVE IInv'
  OBVIOUS
<1>1. TypeInv /\ Believed /\ Behind /\ Unchanged /\ CleanInv /\ LineInv /\ WriteInv
  BY DEF IInv
<1>2. TypeInv' /\ Believed' /\ Behind' /\ Unchanged'
  BY <1>1, NextType, BelievedStep, BehindStep, UnchangedStep
<1>3. CleanInv'
  BY <1>2, CleanStep DEF CleanInv
<1>4. LineInv'
  <2>1. Separate' => Truth'
    BY <1>1, TruthKept DEF LineInv
  <2>2. Leftover' /\ Inherits'
    BY <1>1, LeftoverStep, InheritsStep DEF LineInv
  <2> QED
    BY <2>1, <2>2 DEF LineInv
<1>5. WriteInv'
  <2>1. target' = 0 => step' # "rebaudStatus"
    BY <1>1, TargetKept, RebaudStep DEF WriteInv
  <2>2. Denied' /\ Told'
    BY <1>1, <1>2, DeniedStep, ToldStep DEF WriteInv, LineInv
  <2> QED
    BY <2>1, <2>2 DEF WriteInv
<1> QED
  BY <1>2, <1>3, <1>4, <1>5 DEF IInv

\* What holds in every state of every session: of a clean one what is on its way, what of it is
\* true of the scanner, and which command an A0 confirms; of the others what they leave.
THEOREM Invariance == Spec => []IInv
<1> QED
  BY InitIInv, NextIInv, PTL DEF Spec

\* initialize verifies the stream it reports, whatever the rates, retries and losses: the scanner
\* streams what was asked for in every session that began with nothing on its way, and in the one
\* after it however much that one left.
THEOREM StreamVerified == Spec => []VerifiedStream
<1>1. IInv => VerifiedStream
  <2> SUFFICES ASSUME IInv, Separate, step = "streaming" PROVE mode = "continuous" /\ geometry /\ config /\ baud = hostBaud
    BY DEF VerifiedStream
  <2>1. Clean
    BY DEF IInv, Behind, Clean, Begun, Settled, Separate, Opening
  <2>2. Effect
    BY <2>1 DEF IInv, CleanInv
  <2> QED
    BY <2>2 DEF Effect, Applied
<1> QED
  BY <1>1, Invariance, PTL

\* The stop that _close_unlocked reports as confirmed is one, in the same sessions.
THEOREM StopConfirmed == Spec => []ConfirmedStop
<1>1. IInv => ConfirmedStop
  <2> SUFFICES ASSUME IInv, Separate, step = "closed", confirmed, ~unanswered PROVE mode = "request"
    BY DEF ConfirmedStop
  <2>1. Clean
    BY DEF Clean, Begun, Settled, Separate, Opening
  <2>2. Effect
    BY <2>1 DEF IInv, CleanInv
  <2> QED
    BY <2>2 DEF Effect, Applied
<1> QED
  BY <1>1, Invariance, PTL

\* A session that follows on a confirmed stop without an unanswered A0, of either kind of session,
\* begins with nothing on its way: what is proved of the one is true of the other.
THEOREM FreshAgain == Spec => [][Separate /\ confirmed /\ ~unanswered /\ sessions' # sessions => fresh']_vars
<1>1. IInv /\ [Next]_vars => [Separate /\ confirmed /\ ~unanswered /\ sessions' # sessions => fresh']_vars
  <2> SUFFICES ASSUME IInv, [Next]_vars, Separate, confirmed, ~unanswered, sessions' # sessions PROVE fresh'
    OBVIOUS
  <2>1. step = "closed"
    BY DEF IInv, Behind
  <2>2. Clean
    BY <2>1 DEF Clean, Begun, Settled, Separate, Opening
  <2>3. Idle
    BY <2>1, <2>2 DEF IInv, CleanInv, Effect
  <2>4. Connect => fresh'
    BY <2>3 DEF Connect, Idle
  <2> QED
    BY <2>4, FreshKept
<1> QED
  BY <1>1, Invariance, PTL DEF Spec

\* Neither a variant nor a configuration is sent to a scanner that has it, although replies are
\* lost and commands are sent again: in a session that began with nothing on its way, and without
\* a change of rate in the one after it too.
THEOREM WrittenOnce == Spec => NoNeedlessWrite
<1>1. IInv => (phase = "send" /\ (fresh \/ (target = 0 /\ Separate))
                 => (step = "write" => ~config) /\ (step = "variant" => ~geometry))
  <2> SUFFICES ASSUME IInv, fresh \/ (target = 0 /\ Separate), phase = "send", step \in {"write", "variant"}
               PROVE  (step = "write" => ~config) /\ (step = "variant" => ~geometry)
    OBVIOUS
  <2>1. Clean
    BY DEF IInv, Behind, Clean, Begun, Settled, Separate, Opening
  <2>2. Unwritten
    BY <2>1 DEF IInv, CleanInv, Lack
  <2> QED
    BY <2>2 DEF Unwritten, Planned
<1> QED
  BY <1>1, Invariance, PTL DEF NoNeedlessWrite

\* Nothing was on its way when the first session began, nor then when the one before the second did.
Early == /\ sessions = 0 => step = "closed" /\ Idle
         /\ sessions = 1 => fresh
         /\ sessions = 2 => Separate

LEMMA EarlyStep == TypeInv /\ Early /\ [Next]_vars => Early'
<1> SUFFICES ASSUME TypeInv, Early, [Next]_vars PROVE Early'
  OBVIOUS
<1>1. CASE Connect
  <2>1. sessions \in Nat /\ sessions' = sessions + 1 /\ after' = fresh
    BY <1>1 DEF Connect, TypeInv, TypeOK
  <2>2. Idle => fresh'
    BY <1>1 DEF Connect, Idle
  <2>3. (sessions' = 1 => sessions = 0) /\ (sessions' = 2 => sessions = 1) /\ sessions' # 0
    BY <2>1
  <2> QED
    BY <2>1, <2>2, <2>3 DEF Early, Separate
<1>2. CASE ~Connect
  <2>1. fresh' = fresh /\ after' = after /\ sessions' = sessions
    BY <1>2, FreshKept
  <2>2. sessions = 0 => step' = "closed" /\ Idle'
    <3> SUFFICES ASSUME sessions = 0 PROVE step' = "closed" /\ Idle'
      OBVIOUS
    <3>1. step = "closed" /\ Idle
      BY DEF Early
    <3>2. step' = step
      BY <1>2, <3>1, ClosedStep DEF host
    <3> QED
      BY <3>1, <3>2, IdleStep
  <2> QED
    BY <2>1, <2>2 DEF Early, Separate
<1> QED
  BY <1>1, <1>2

\* The first two sessions are such, whatever the first one left: what is proved of a session that
\* began with nothing on its way, and of the one after it, needs no assumption on them.
THEOREM FirstTwo == Spec => [](sessions \in {1, 2} => Separate)
<1>1. Init => Early
  BY DEF Init, Early, Idle
<1>2. Early => (sessions \in {1, 2} => Separate)
  BY DEF Early, Separate
<1>3. TypeInv /\ [Next]_vars => TypeInv'
  BY NextType
<1> QED
  BY <1>1, <1>2, <1>3, InitType, EarlyStep, PTL DEF Spec

=============================================================================
