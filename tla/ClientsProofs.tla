---------------------------- MODULE ClientsProofs ----------------------------
(***************************************************************************)
(* The safety of the subscribers' queues for any finite number of browsers *)
(* and any number of scans.                                                *)
(***************************************************************************)
EXTENDS Clients, FiniteSetTheorems, SequenceTheorems, TLAPS

\* TypeOK in two parts: the queues, and everything else.
QueueOK == queue \in [Client -> Seq(Scans)] /\ \A c \in Client : Len(queue[c]) <= 2
CountOK ==
    /\ device \in {"starting", "streaming", "faulted", "ended"} /\ latest \in 0..MaxScan
    /\ phase \in [Client -> {"away", "starting", "loop", "ended", "raised", "stopped"} \cup Watching]
    /\ held \in [Client -> 0..MaxScan] /\ sent \in [Client -> 0..MaxScan]
    /\ taken \in [Client -> 0..MaxScan] /\ dropped \in [Client -> 0..MaxScan] /\ got \in [Client -> 0..MaxScan]
    /\ clientDrops \in Nat
    /\ subscribers = {c \in Client : phase[c] # "away"}

\* The length of a queue, and its first scan.
Size(c) == Len(queue[c])
First(c) == Head(queue[c])

\* The phases of a browser and of the console.
Roles == /\ \A c \in Browsers : phase[c] \in {"away"} \cup Watching
         /\ phase[Console] \in {"away", "starting", "loop", "get", "ended", "raised", "stopped"}

\* The first conjunct of DropsCounted.
Accounted == \A c \in subscribers : latest = got[c] + Size(c) + dropped[c]

\* A queue holds the newest scans, without a gap.
Newest == \A c \in subscribers : \A i \in 1..Size(c) : queue[c][i] + Size(c) = latest + i

\* Nobody has seen, holds or lost more than was published.
NotAhead == \A c \in Client : sent[c] <= latest /\ held[c] <= latest /\ dropped[c] <= latest

\* The greeting is the first a connection is sent.
Greeting == \A c \in Browsers : phase[c] \in {"hello", "latest"} => sent[c] = 0

\* The console has printed what it was given.
Printed == phase[Console] # "away" /\ Size(Console) = 0 => sent[Console] = latest

\* The console runs after initialize, and ends when the reader has and nothing is queued.
ConsoleDevice == /\ phase[Console] \in {"loop", "get"} => device # "starting"
                 /\ phase[Console] = "ended" => device = "ended"

IInv == /\ QueueOK /\ CountOK /\ Roles /\ Accounted /\ Newest /\ NotAhead /\ Greeting
        /\ AlmostInOrder /\ Printed /\ ConsoleDevice /\ PrintsNewest

-----------------------------------------------------------------------------
(* The queues.                                                             *)

\* A queue is full when it holds two scans.
LEMMA FullIsTwo ==
    ASSUME NEW S, NEW q \in Seq(S), Len(q) <= 2
    PROVE  Len(q) \in 0..2 /\ (Full(q) <=> Len(q) = 2)
<1>1. \A n \in Nat : n <= 2 => n \in 0..2 /\ (n >= 2 <=> n = 2)
  OBVIOUS
<1>2. Len(q) \in Nat
  OBVIOUS
<1> QED
  BY <1>1, <1>2, Zenon DEF Full, Capacity

\* What putting a scan into a queue of two leaves in it.
LEMMA PutProperties ==
    ASSUME NEW S, NEW q \in Seq(S), Len(q) <= 2, NEW s \in S
    PROVE  /\ Put(q, s) \in Seq(S)
           /\ Len(q) = 2 => /\ Len(Put(q, s)) = 2
                            /\ Put(q, s)[1] = q[2] /\ Put(q, s)[2] = s
           /\ Len(q) # 2 => /\ Len(Put(q, s)) = Len(q) + 1 /\ Put(q, s)[Len(q) + 1] = s
                            /\ \A i \in 1..Len(q) : Put(q, s)[i] = q[i]
<1>1. Full(q) <=> Len(q) = 2
  BY FullIsTwo
<1>2. CASE Len(q) = 2
  <2>1. Tail(q) \in Seq(S) /\ Len(Tail(q)) = 1
    BY <1>2
  <2>2. Tail(q)[1] = q[2]
    BY <1>2
  <2>3. Put(q, s) = Append(Tail(q), s)
    BY <1>1, <1>2 DEF Put
  <2>4. /\ Put(q, s) \in Seq(S) /\ Len(Put(q, s)) = 2 /\ Put(q, s)[2] = s
    <3>1. /\ Put(q, s) \in Seq(S) /\ Len(Put(q, s)) = Len(Tail(q)) + 1
          /\ Put(q, s)[Len(Tail(q)) + 1] = s
      BY <2>1, <2>3, SMTT(30)
    <3>2. Len(Tail(q)) + 1 = 2
      BY <2>1
    <3> QED
      BY <3>1, <3>2, Zenon
  <2>5. Append(Tail(q), s)[1] = Tail(q)[1]
    <3>1. 1 \in 1..Len(Tail(q))
      BY <2>1
    <3> QED
      BY <2>1, <3>1, SMTT(30)
  <2> QED
    BY <1>2, <2>2, <2>3, <2>4, <2>5, Zenon
<1>3. CASE Len(q) # 2
  <2>1. Put(q, s) = Append(q, s)
    BY <1>1, <1>3 DEF Put
  <2> QED
    BY <1>3, <2>1, SMTT(30)
<1> QED
  BY <1>2, <1>3

\* What is left of a queue when its first scan is taken.
LEMMA TakeProperties ==
    ASSUME NEW S, NEW q \in Seq(S), q # <<>>
    PROVE  /\ Head(q) \in S /\ Head(q) = q[1] /\ Len(q) # 0
           /\ Tail(q) \in Seq(S) /\ Len(Tail(q)) = Len(q) - 1
           /\ \A i \in 1..Len(q) - 1 : Tail(q)[i] = q[i + 1]
OBVIOUS

\* The queues before a step.
LEMMA QueueFacts ==
    ASSUME QueueOK, NEW c \in Client
    PROVE  queue[c] \in Seq(Scans) /\ Size(c) \in 0..2 /\ (Full(queue[c]) <=> Size(c) = 2)
BY FullIsTwo DEF QueueOK, Size

\* The scans in a queue are scans.
LEMMA ScanFacts ==
    ASSUME QueueOK, NEW c \in Client, NEW i \in 1..Size(c)
    PROVE  queue[c][i] \in 1..MaxScan
BY QueueFacts, ElementOfSeq DEF Size, Scans

\* The queue of a subscriber after a new scan.
LEMMA PublishedQueue ==
    ASSUME QueueOK, NEW e \in Client, NEW n \in Scans, queue'[e] = Put(queue[e], n)
    PROVE  /\ queue'[e] \in Seq(Scans)
           /\ Size(e) = 2 => Size(e)' = 2 /\ queue'[e][1] = queue[e][2] /\ queue'[e][2] = n
           /\ Size(e) # 2 => /\ Size(e)' = Size(e) + 1 /\ queue'[e][Size(e) + 1] = n
                             /\ \A i \in 1..Size(e) : queue'[e][i] = queue[e][i]
<1>1. queue[e] \in Seq(Scans) /\ Len(queue[e]) <= 2
  BY DEF QueueOK
<1>2. \A q \in Seq(Scans) : Len(q) <= 2 =>
        /\ Put(q, n) \in Seq(Scans)
        /\ Len(q) = 2 => Len(Put(q, n)) = 2 /\ Put(q, n)[1] = q[2] /\ Put(q, n)[2] = n
        /\ Len(q) # 2 => /\ Len(Put(q, n)) = Len(q) + 1 /\ Put(q, n)[Len(q) + 1] = n
                         /\ \A i \in 1..Len(q) : Put(q, n)[i] = q[i]
  BY PutProperties
<1> QED
  BY <1>1, <1>2, Zenon DEF Size

\* The queue of a client after its first scan was taken.
LEMMA TakenQueue ==
    ASSUME QueueOK, NEW e \in Client, queue[e] # <<>>, queue'[e] = Tail(queue[e])
    PROVE  /\ queue'[e] \in Seq(Scans) /\ First(e) \in Scans /\ First(e) = queue[e][1]
           /\ Size(e) \in 1..2 /\ Size(e)' = Size(e) - 1
           /\ \A i \in 1..Size(e) - 1 : queue'[e][i] = queue[e][i + 1]
<1>1. queue[e] \in Seq(Scans) /\ Size(e) \in 0..2
  BY QueueFacts
<1>2. \A q \in Seq(Scans) : q # <<>> =>
        /\ Head(q) \in Scans /\ Head(q) = q[1] /\ Len(q) # 0
        /\ Tail(q) \in Seq(Scans) /\ Len(Tail(q)) = Len(q) - 1
        /\ \A i \in 1..Len(q) - 1 : Tail(q)[i] = q[i + 1]
  BY TakeProperties
<1>3. /\ queue'[e] \in Seq(Scans) /\ First(e) \in Scans /\ First(e) = queue[e][1]
      /\ Size(e) # 0 /\ Size(e)' = Size(e) - 1
      /\ \A i \in 1..Size(e) - 1 : queue'[e][i] = queue[e][i + 1]
  BY <1>1, <1>2, Zenon DEF Size, First
<1>4. \A m \in 0..2 : m # 0 => m \in 1..2
  OBVIOUS
<1> QED
  BY <1>1, <1>3, <1>4, Zenon

\* An empty queue.
LEMMA EmptyQueue ==
    ASSUME NEW e \in Client
    PROVE  /\ queue[e] = <<>> => Size(e) = 0
           /\ queue'[e] = <<>> => Size(e)' = 0 /\ queue'[e] \in Seq(Scans)
BY EmptySeq DEF Size

-----------------------------------------------------------------------------
(* The invariant.                                                          *)

\* The start of the process.
LEMMA InitIInv == Init => IInv
BY ClientsAssumption
   DEF Init, IInv, QueueOK, Size, CountOK, Roles, Accounted, Newest, NotAhead, Greeting, AlmostInOrder, Printed,
       ConsoleDevice, PrintsNewest, Client, Watching, Waiting

\* A new scan: the queues that are full drop their oldest.
LEMMA PublishIInv == ASSUME IInv, Publish PROVE IInv'
<1>1. /\ latest + 1 \in Scans /\ latest \in Nat /\ latest' = latest + 1 /\ subscribers \subseteq Client
      /\ UNCHANGED <<device, subscribers, phase, held, sent, taken, got>>
  BY ClientsAssumption DEF IInv, CountOK, Scans, Publish
<1>2. /\ \A e \in subscribers : queue'[e] = Put(queue[e], latest + 1)
      /\ \A e \in Client \ subscribers : queue'[e] = queue[e]
      /\ queue' = [e \in Client |-> queue'[e]]
  BY <1>1 DEF Publish
<1>3. \A e \in Client : /\ Size(e) \in 0..2 /\ queue[e] \in Seq(Scans)
                        /\ (Full(queue[e]) <=> Size(e) = 2)
  BY QueueFacts DEF IInv
<1>4. \A e \in subscribers :
        /\ queue'[e] \in Seq(Scans)
        /\ Size(e) = 2 => Size(e)' = 2 /\ queue'[e][1] = queue[e][2] /\ queue'[e][2] = latest + 1
        /\ Size(e) # 2 => /\ Size(e)' = Size(e) + 1 /\ queue'[e][Size(e) + 1] = latest + 1
                          /\ \A i \in 1..Size(e) : queue'[e][i] = queue[e][i]
  BY <1>1, <1>2, PublishedQueue DEF IInv
<1>5. \A e \in subscribers : /\ Size(e)' \in 1..2
                             /\ Size(e)' = Size(e) + IF Size(e) = 2 THEN 0 ELSE 1
  BY <1>1, <1>3, <1>4
<1>6. ASSUME NEW e \in Client
      PROVE  /\ dropped[e] \in Nat /\ dropped'[e] \in Nat
             /\ dropped'[e] = dropped[e] + IF e \in subscribers /\ Size(e) = 2 THEN 1 ELSE 0
  BY <1>3 DEF IInv, CountOK, Publish
<1>7. QueueOK'
  <2>1. \A e \in Client : queue'[e] \in Seq(Scans)
    BY <1>2, <1>3, <1>4
  <2>2. \A e \in Client \ subscribers : Size(e)' = Size(e)
    BY <1>2 DEF Size
  <2>3. \A e \in Client : Size(e)' <= 2
    BY <1>3, <1>5, <2>2
  <2> QED
    BY <1>2, <2>1, <2>3, Zenon DEF QueueOK, Size
<1>8. CountOK'
  <2>1. clientDrops' \in Nat
    <3>1. IsFiniteSet(Client)
      BY ClientsAssumption, FS_AddElement DEF Client
    <3>2. IsFiniteSet({c \in subscribers : Full(queue[c])})
      BY <1>1, <3>1, FS_Subset
    <3> QED
      BY <3>2, FS_CardinalityType DEF IInv, CountOK, Publish
  <2>2. \A e \in Client : dropped'[e] \in 0..MaxScan
    BY <1>1, <1>6, ClientsAssumption DEF IInv, NotAhead, Scans
  <2>3. dropped' = [e \in Client |-> dropped'[e]]
    BY DEF Publish
  <2>4. latest' \in 0..MaxScan
    BY <1>1, ClientsAssumption DEF Scans
  <2> QED
    BY <1>1, <2>1, <2>2, <2>3, <2>4 DEF IInv, CountOK
<1>9. Roles'
  BY <1>1 DEF IInv, Roles
<1>10. Accounted'
  <2> SUFFICES ASSUME NEW e \in subscribers PROVE latest' = got[e] + Size(e)' + dropped'[e]
    BY <1>1 DEF Accounted
  <2>1. latest = got[e] + Size(e) + dropped[e] /\ got[e] \in Nat
    BY <1>1 DEF IInv, Accounted, CountOK
  <2>2. dropped[e] \in Nat /\ dropped'[e] = dropped[e] + IF Size(e) = 2 THEN 1 ELSE 0
    BY <1>1, <1>6
  <2>3. Size(e) \in 0..2 /\ Size(e)' = Size(e) + IF Size(e) = 2 THEN 0 ELSE 1
    BY <1>1, <1>3, <1>5
  <2> QED
    BY <1>1, <2>1, <2>2, <2>3
<1>11. Newest'
  <2> SUFFICES ASSUME NEW e \in subscribers, NEW i \in 1..Size(e)'
               PROVE  queue'[e][i] + Size(e)' = latest + 1 + i
    BY <1>1 DEF Newest
  <2>1. \A j \in 1..Size(e) : queue[e][j] + Size(e) = latest + j /\ queue[e][j] \in Nat
    BY <1>1, ScanFacts DEF IInv, Newest
  <2>2. CASE Size(e) = 2
    <3>1. i \in {1, 2} /\ queue[e][2] + 2 = latest + 2 /\ queue[e][2] \in Nat
      <4>1. Size(e)' = 2
        BY <1>4, <2>2
      <4> QED
        BY <2>1, <2>2, <4>1
    <3>2. queue'[e][1] = queue[e][2] /\ queue'[e][2] = latest + 1 /\ Size(e)' = 2
      BY <1>4, <2>2
    <3> QED
      BY <1>1, <3>1, <3>2
  <2>3. CASE Size(e) # 2
    <3>1. /\ Size(e)' = Size(e) + 1 /\ Size(e) \in Nat
          /\ queue'[e][Size(e) + 1] = latest + 1
      BY <1>1, <1>3, <1>4, <2>3
    <3>2. CASE i = Size(e) + 1
      BY <1>1, <3>1, <3>2
    <3>3. CASE i # Size(e) + 1
      <4>1. i \in 1..Size(e)
        BY <3>1, <3>3
      <4>2. queue'[e][i] = queue[e][i]
        BY <1>4, <2>3, <4>1
      <4> QED
        BY <1>1, <2>1, <3>1, <4>1, <4>2
    <3> QED
      BY <3>2, <3>3
  <2> QED
    BY <2>2, <2>3
<1>12. NotAhead'
  BY <1>1, <1>6 DEF IInv, NotAhead, CountOK
<1>13. Greeting' /\ AlmostInOrder' /\ ConsoleDevice'
  BY <1>1 DEF IInv, Greeting, AlmostInOrder, ConsoleDevice
<1>14. Printed'
  <2>1. Console \in subscribers => Size(Console)' # 0
    BY <1>5
  <2> QED
    BY <1>1, <2>1 DEF IInv, CountOK, Printed, Client
<1>15. PrintsNewest'
  BY DEF IInv, ConsoleDevice, PrintsNewest, Publish
<1> QED
  BY <1>7, <1>8, <1>9, <1>10, <1>11, <1>12, <1>13, <1>14, <1>15 DEF IInv

\* A browser subscribes with an empty queue.
LEMMA JoinIInv ==
    ASSUME IInv, NEW c \in Browsers, Join(c)
    PROVE  IInv'
<1> USE ClientsAssumption DEF IInv, Client, Watching, Waiting, scanner, Join, Serving, Go
<1>1. queue'[c] = <<>> /\ \A e \in Client \ {c} : queue'[e] = queue[e]
  BY DEF QueueOK
<1>2. Size(c)' = 0 /\ \A e \in Client \ {c} : Size(e)' = Size(e)
  BY <1>1, EmptyQueue DEF Size
<1>3. latest - dropped[c] \in 0..MaxScan /\ latest = (latest - dropped[c]) + 0 + dropped[c]
  BY DEF CountOK, NotAhead
<1>4. QueueOK'
  BY <1>1, <1>2 DEF QueueOK
<1>5. CountOK'
  BY <1>3 DEF CountOK, Roles
<1>6. Roles'
  BY <1>1, <1>2 DEF CountOK, Roles
<1>7. Accounted'
  <2>1. got'[c] = latest - dropped[c] /\ latest' = latest /\ dropped' = dropped
    BY DEF CountOK
  <2>2. \A e \in subscribers \ {c} : got'[e] = got[e] /\ Size(e)' = Size(e)
    BY <1>2 DEF CountOK
  <2>3. latest' = got'[c] + Size(c)' + dropped'[c]
    BY <1>2, <1>3, <2>1
  <2>4. \A e \in subscribers \ {c} : latest' = got'[e] + Size(e)' + dropped'[e]
    BY <2>1, <2>2 DEF Accounted
  <2>5. subscribers' = subscribers \cup {c}
    OBVIOUS
  <2> QED
    BY <2>3, <2>4, <2>5 DEF Accounted
<1>8. Newest'
  BY <1>1, <1>2, SMTT(30) DEF CountOK, Newest, Roles
<1>9. NotAhead'
  BY <1>1, <1>2 DEF CountOK, NotAhead, Roles
<1>10. Greeting'
  BY <1>1, <1>2 DEF CountOK, Greeting, Roles
<1>11. AlmostInOrder'
  BY <1>1, <1>2 DEF CountOK, Roles, Greeting, AlmostInOrder, NotAhead
<1>12. Printed'
  BY <1>2 DEF CountOK, Roles, Printed
<1>13. ConsoleDevice'
  BY <1>1, <1>2 DEF CountOK, Roles, ConsoleDevice
<1>14. PrintsNewest'
  BY <1>1, <1>2 DEF CountOK, Roles, ConsoleDevice, PrintsNewest
<1> QED
  BY <1>4, <1>5, <1>6, <1>7, <1>8, <1>9, <1>10, <1>11, <1>12, <1>13, <1>14

\* A browser takes the oldest scan of its queue.
LEMMA GetIInv == ASSUME IInv, NEW c \in Browsers, Get(c) PROVE IInv'
<1> USE ClientsAssumption DEF Client
<1>1. /\ queue'[c] = Tail(queue[c]) /\ \A e \in Client \ {c} : queue'[e] = queue[e]
      /\ queue' \in [Client -> {queue'[e] : e \in Client}]
  BY DEF IInv, QueueOK, Get
<1>2. /\ taken' = [taken EXCEPT ![c] = First(c)] /\ got' = [got EXCEPT ![c] = @ + 1]
      /\ UNCHANGED <<scanner, subscribers, clientDrops, dropped>>
  BY DEF Get, First
<1>3. \A e \in Client : queue[e] \in Seq(Scans) /\ Size(e) \in 0..2
  BY QueueFacts DEF IInv
<1>4. /\ First(c) \in Scans /\ First(c) = queue[c][1] /\ Size(c) \in 1..2
      /\ queue'[c] \in Seq(Scans) /\ Size(c)' = Size(c) - 1
      /\ \A i \in 1..Size(c) - 1 : queue'[c][i] = queue[c][i + 1]
  BY <1>1, TakenQueue DEF IInv, Get
<1>5. c \in subscribers /\ \A e \in Client \ {c} : Size(e)' = Size(e)
  BY <1>1 DEF IInv, CountOK, Get, Size
<1>6. First(c) + Size(c) = latest + 1 /\ First(c) \in 1..MaxScan /\ latest \in 0..MaxScan
  <2>1. 1 \in 1..Size(c)
    BY <1>4
  <2>2. queue[c][1] + Size(c) = latest + 1
    BY <1>5, <2>1 DEF IInv, Newest
  <2> QED
    BY <1>4, <2>2 DEF IInv, CountOK, Scans
<1>7. QueueOK'
  <2>1. \A e \in Client : queue'[e] \in Seq(Scans)
    BY <1>1, <1>3, <1>4
  <2>2. \A e \in Client : Size(e)' <= 2
    BY <1>3, <1>4, <1>5
  <2> QED
    BY <1>1, <2>1, <2>2 DEF QueueOK, Size
<1>8. latest = got[c] + Size(c) + dropped[c] /\ got[c] \in Nat /\ dropped[c] \in Nat
  BY <1>5 DEF IInv, Accounted, CountOK
<1>9. CountOK'
  <2>1. got[c] + 1 \in 0..MaxScan
    BY <1>4, <1>6, <1>8
  <2>2. /\ held' = [held EXCEPT ![c] = First(c)] /\ UNCHANGED sent
        /\ phase' = [phase EXCEPT ![c] = "scan"] /\ phase[c] = "get"
    BY DEF Get, Go, First
  <2> QED
    BY <1>2, <1>6, <2>1, <2>2 DEF IInv, CountOK, Watching, Waiting, scanner
<1>10. Accounted'
  <2> SUFFICES ASSUME NEW e \in subscribers PROVE latest = got'[e] + Size(e)' + dropped[e]
    BY <1>2 DEF Accounted, scanner
  <2>1. CASE e = c
    <3>1. got'[c] = got[c] + 1
      BY <1>2 DEF IInv, CountOK
    <3> QED
      BY <1>4, <1>5, <1>8, <2>1, <3>1
  <2>2. CASE e # c
    BY <1>1, <1>2, <1>5, <2>2 DEF IInv, CountOK, Accounted
  <2> QED
    BY <2>1, <2>2
<1>11. Newest'
  <2> SUFFICES ASSUME NEW e \in subscribers, NEW i \in 1..Size(e)'
               PROVE  queue'[e][i] + Size(e)' = latest + i
    BY <1>2 DEF Newest, scanner
  <2>1. CASE e # c
    BY <1>1, <1>5, <2>1 DEF IInv, Newest, CountOK
  <2>2. CASE e = c
    <3>1. i \in Nat /\ i + 1 \in 1..Size(c) /\ i \in 1..Size(c) - 1
      BY <1>4, <1>5, <2>2
    <3>2. queue[c][i + 1] + Size(c) = latest + (i + 1)
      BY <2>2, <3>1 DEF IInv, Newest
    <3>3. queue[c][i + 1] \in Nat
      BY <3>1, ScanFacts DEF IInv
    <3>4. queue'[c][i] = queue[c][i + 1]
      BY <1>4, <3>1
    <3> QED
      BY <1>4, <1>5, <1>6, <2>2, <3>1, <3>2, <3>3, <3>4
  <2> QED
    BY <2>1, <2>2
<1>12. Roles'
  BY DEF IInv, Roles, CountOK, Watching, Waiting, Get, Go
<1>13. /\ held'[c] = First(c) /\ UNCHANGED sent /\ \A e \in Client \ {c} : held'[e] = held[e]
       /\ phase'[c] = "scan" /\ \A e \in Client \ {c} : phase'[e] = phase[e]
  BY DEF IInv, CountOK, Get, Go, First
<1>14. First(c) <= latest /\ First(c) + 1 >= latest
  BY <1>4, <1>6
<1>15. NotAhead'
  BY <1>2, <1>13, <1>14 DEF IInv, NotAhead, scanner
<1>16. Greeting'
  BY <1>13 DEF IInv, Greeting
<1>17. AlmostInOrder'
  <2>1. First(c) + 1 >= sent[c]
    BY <1>6, <1>14 DEF IInv, CountOK, NotAhead
  <2> QED
    BY <1>13, <2>1 DEF IInv, AlmostInOrder
<1>18. Size(Console)' = Size(Console)
  BY <1>5
<1>19. Printed' /\ ConsoleDevice' /\ PrintsNewest'
  BY <1>1, <1>2, <1>13, <1>18 DEF IInv, Printed, ConsoleDevice, PrintsNewest, scanner
<1> QED
  BY <1>7, <1>9, <1>10, <1>11, <1>12, <1>15, <1>16, <1>17, <1>19 DEF IInv

\* A browser unsubscribes.
LEMMA LeaveIInv ==
    ASSUME IInv, NEW c \in Browsers, Leave(c)
    PROVE  IInv'
<1> USE ClientsAssumption DEF IInv, Client, Watching, Waiting, scanner, Leave, Remaining, Go
<1>1. queue'[c] = <<>> /\ \A e \in Client \ {c} : queue'[e] = queue[e]
  BY DEF QueueOK
<1>2. QueueOK'
  BY <1>1 DEF QueueOK
<1>3. CountOK'
  BY <1>1 DEF CountOK, Roles, Accounted, NotAhead
<1>4. Roles'
  BY <1>1 DEF CountOK, Roles
<1>5. Accounted'
  BY <1>1 DEF CountOK, Accounted, NotAhead, Roles, Size
<1>6. Newest'
  BY <1>1 DEF CountOK, Newest, Roles, Size
<1>7. NotAhead'
  BY <1>1 DEF CountOK, NotAhead, Roles
<1>8. Greeting'
  BY <1>1 DEF CountOK, Greeting, Roles
<1>9. AlmostInOrder'
  BY <1>1 DEF CountOK, Roles, Greeting, AlmostInOrder, NotAhead
<1>10. Printed'
  BY <1>1 DEF CountOK, Roles, Printed, NotAhead, Size
<1>11. ConsoleDevice'
  BY <1>1 DEF CountOK, Roles, ConsoleDevice
<1>12. PrintsNewest'
  BY <1>1 DEF CountOK, Roles, ConsoleDevice, PrintsNewest
<1> QED
  BY <1>2, <1>3, <1>4, <1>5, <1>6, <1>7, <1>8, <1>9, <1>10, <1>11, <1>12

\* The console prints the oldest scan of its queue.
LEMMA OutputIInv == ASSUME IInv, Output, queue[Console] # <<>> PROVE IInv'
<1> USE ClientsAssumption DEF Client
<1>1. /\ queue'[Console] = Tail(queue[Console]) /\ \A e \in Client \ {Console} : queue'[e] = queue[e]
      /\ queue' \in [Client -> {queue'[e] : e \in Client}]
  BY DEF IInv, QueueOK, Output
<1>2. /\ taken' = [taken EXCEPT ![Console] = First(Console)] /\ got' = [got EXCEPT ![Console] = @ + 1]
      /\ UNCHANGED <<scanner, subscribers, clientDrops, dropped>>
  BY DEF Output, First
<1>3. \A e \in Client : queue[e] \in Seq(Scans) /\ Size(e) \in 0..2
  BY QueueFacts DEF IInv
<1>4. /\ First(Console) \in Scans /\ First(Console) = queue[Console][1] /\ Size(Console) \in 1..2
      /\ queue'[Console] \in Seq(Scans) /\ Size(Console)' = Size(Console) - 1
      /\ \A i \in 1..Size(Console) - 1 : queue'[Console][i] = queue[Console][i + 1]
  BY <1>1, TakenQueue DEF IInv, Output
<1>5. Console \in subscribers /\ \A e \in Client \ {Console} : Size(e)' = Size(e)
  BY <1>1 DEF IInv, CountOK, Output, Size
<1>6. First(Console) + Size(Console) = latest + 1 /\ First(Console) \in 1..MaxScan /\ latest \in 0..MaxScan
  <2>1. 1 \in 1..Size(Console)
    BY <1>4
  <2>2. queue[Console][1] + Size(Console) = latest + 1
    BY <1>5, <2>1 DEF IInv, Newest
  <2> QED
    BY <1>4, <2>2 DEF IInv, CountOK, Scans
<1>7. QueueOK'
  <2>1. \A e \in Client : queue'[e] \in Seq(Scans)
    BY <1>1, <1>3, <1>4
  <2>2. \A e \in Client : Size(e)' <= 2
    BY <1>3, <1>4, <1>5
  <2> QED
    BY <1>1, <2>1, <2>2 DEF QueueOK, Size
<1>8. latest = got[Console] + Size(Console) + dropped[Console] /\ got[Console] \in Nat /\ dropped[Console] \in Nat
  BY <1>5 DEF IInv, Accounted, CountOK
<1>9. CountOK'
  <2>1. got[Console] + 1 \in 0..MaxScan
    BY <1>4, <1>6, <1>8
  <2>2. /\ UNCHANGED held /\ phase' = [phase EXCEPT ![Console] = "loop"] /\ phase[Console] = "get"
        /\ sent' = [sent EXCEPT ![Console] = IF First(Console) > @ THEN First(Console) ELSE @]
    BY DEF Output, Go, Show, First
  <2> QED
    BY <1>2, <1>6, <2>1, <2>2 DEF IInv, CountOK, Watching, Waiting, scanner
<1>10. Accounted'
  <2> SUFFICES ASSUME NEW e \in subscribers PROVE latest = got'[e] + Size(e)' + dropped[e]
    BY <1>2 DEF Accounted, scanner
  <2>1. CASE e = Console
    <3>1. got'[Console] = got[Console] + 1
      BY <1>2 DEF IInv, CountOK
    <3> QED
      BY <1>4, <1>5, <1>8, <2>1, <3>1
  <2>2. CASE e # Console
    BY <1>1, <1>2, <1>5, <2>2 DEF IInv, CountOK, Accounted
  <2> QED
    BY <2>1, <2>2
<1>11. Newest'
  <2> SUFFICES ASSUME NEW e \in subscribers, NEW i \in 1..Size(e)'
               PROVE  queue'[e][i] + Size(e)' = latest + i
    BY <1>2 DEF Newest, scanner
  <2>1. CASE e # Console
    BY <1>1, <1>5, <2>1 DEF IInv, Newest, CountOK
  <2>2. CASE e = Console
    <3>1. i \in Nat /\ i + 1 \in 1..Size(Console) /\ i \in 1..Size(Console) - 1
      BY <1>4, <1>5, <2>2
    <3>2. queue[Console][i + 1] + Size(Console) = latest + (i + 1)
      BY <2>2, <3>1 DEF IInv, Newest
    <3>3. queue[Console][i + 1] \in Nat
      BY <3>1, ScanFacts DEF IInv
    <3>4. queue'[Console][i] = queue[Console][i + 1]
      BY <1>4, <3>1
    <3> QED
      BY <1>4, <1>5, <1>6, <2>2, <3>1, <3>2, <3>3, <3>4
  <2> QED
    BY <2>1, <2>2
<1>12. Roles'
  BY DEF IInv, Roles, CountOK, Output, Go
<1>13. /\ sent'[Console] = (IF First(Console) > sent[Console] THEN First(Console) ELSE sent[Console])
       /\ UNCHANGED held /\ \A e \in Client \ {Console} : sent'[e] = sent[e]
       /\ phase'[Console] = "loop" /\ \A e \in Client \ {Console} : phase'[e] = phase[e]
  BY DEF IInv, CountOK, Output, Go, Show, First
<1>14. sent[Console] \in Nat /\ sent[Console] <= latest
  BY DEF IInv, CountOK, NotAhead
<1>15. NotAhead'
  <2>1. sent'[Console] <= latest
    BY <1>4, <1>6, <1>13, <1>14
  <2> QED
    BY <1>2, <1>13, <2>1 DEF IInv, NotAhead, scanner
<1>16. Greeting' /\ AlmostInOrder'
  BY <1>13 DEF IInv, Greeting, AlmostInOrder
<1>17. Printed'
  <2>1. Size(Console)' = 0 => sent'[Console] = latest
    BY <1>4, <1>6, <1>13, <1>14
  <2> QED
    BY <1>2, <2>1 DEF Printed, scanner
<1>18. ConsoleDevice' /\ PrintsNewest'
  BY <1>2, <1>13 DEF IInv, ConsoleDevice, PrintsNewest, Output, scanner
<1> QED
  BY <1>7, <1>9, <1>10, <1>11, <1>12, <1>15, <1>16, <1>17, <1>18 DEF IInv

\* A step that leaves what was published, the queues and the counts alone.
quiet == <<latest, subscribers, queue, clientDrops, taken, got, dropped>>

\* Such a step has little to show.
LEMMA QuietIInv ==
    ASSUME IInv, UNCHANGED quiet, CountOK', Roles', NotAhead', Greeting', AlmostInOrder', Printed',
           ConsoleDevice', PrintsNewest'
    PROVE  IInv'
BY DEF IInv, QueueOK, Accounted, Newest, Size, quiet

\* The console found no scan.
LEMMA NoOutputIInv == ASSUME IInv, Output, queue[Console] = <<>> PROVE IInv'
<1> USE ClientsAssumption DEF IInv, Client, Output, Go
<1>1. UNCHANGED quiet
  BY DEF quiet, scanner
<1>2. CountOK' /\ Roles'
  BY DEF CountOK, Roles, NotAhead, Watching, Waiting, scanner
<1>3. NotAhead' /\ Greeting' /\ AlmostInOrder'
  BY DEF CountOK, Roles, NotAhead, Greeting, AlmostInOrder, Watching, Waiting, scanner
<1>4. Printed' /\ ConsoleDevice' /\ PrintsNewest'
  BY DEF CountOK, Roles, Printed, ConsoleDevice, PrintsNewest, Watching, Waiting, scanner, Size
<1> QED
  BY <1>1, <1>2, <1>3, <1>4, QuietIInv

\* The head of the console's loop.
LEMMA TurnIInv == ASSUME IInv, Turn PROVE IInv'
<1> USE ClientsAssumption DEF IInv, Client, Turn, Go, NothingLeft
<1>5. queue[Console] = <<>> => Size(Console) = 0
  BY EmptyQueue
<1>1. UNCHANGED quiet
  BY DEF quiet, scanner
<1>2. CountOK' /\ Roles'
  BY DEF CountOK, Roles, NotAhead, Watching, Waiting, scanner
<1>3. NotAhead' /\ Greeting' /\ AlmostInOrder'
  BY DEF CountOK, Roles, NotAhead, Greeting, AlmostInOrder, Watching, Waiting, scanner
<1>4. Printed' /\ ConsoleDevice' /\ PrintsNewest'
  BY <1>5 DEF CountOK, Roles, Printed, ConsoleDevice, PrintsNewest, Watching, Waiting, scanner, Size
<1> QED
  BY <1>1, <1>2, <1>3, <1>4, QuietIInv

\* The device changes its state.
LEMMA DeviceBecomesIInv == ASSUME IInv, NEW d \in {"streaming", "faulted", "ended"}, DeviceBecomes(d) PROVE IInv'
<1> USE ClientsAssumption DEF IInv, Client, DeviceBecomes, Serving
<1>1. UNCHANGED quiet
  BY DEF quiet, scanner
<1>2. CountOK' /\ Roles'
  BY DEF CountOK, Roles, NotAhead, Watching, Waiting, scanner
<1>3. NotAhead' /\ Greeting' /\ AlmostInOrder'
  BY DEF CountOK, Roles, NotAhead, Greeting, AlmostInOrder, Watching, Waiting, scanner
<1>4. Printed' /\ ConsoleDevice' /\ PrintsNewest'
  BY DEF CountOK, Roles, Printed, ConsoleDevice, PrintsNewest, Watching, Waiting, scanner, Size
<1> QED
  BY <1>1, <1>2, <1>3, <1>4, QuietIInv

\* The greeting of a browser goes on.
LEMMA GreetedIInv == ASSUME IInv, NEW c \in Browsers, Greeted(c) PROVE IInv'
<1> USE ClientsAssumption DEF IInv, Client, Greeted, Go
<1>1. UNCHANGED quiet
  BY DEF quiet, scanner
<1>2. CountOK' /\ Roles'
  BY DEF CountOK, Roles, NotAhead, Watching, Waiting, scanner
<1>3. NotAhead' /\ Greeting' /\ AlmostInOrder'
  BY DEF CountOK, Roles, NotAhead, Greeting, AlmostInOrder, Watching, Waiting, scanner
<1>4. Printed' /\ ConsoleDevice' /\ PrintsNewest'
  BY DEF CountOK, Roles, Printed, ConsoleDevice, PrintsNewest, Watching, Waiting, scanner, Size
<1> QED
  BY <1>1, <1>2, <1>3, <1>4, QuietIInv

\* A scan has been sent.
LEMMA ScanSentIInv == ASSUME IInv, NEW c \in Browsers, ScanSent(c) PROVE IInv'
<1> USE ClientsAssumption DEF IInv, Client, ScanSent, Go, Show
<1>1. UNCHANGED quiet
  BY DEF quiet, scanner
<1>2. CountOK' /\ Roles'
  BY DEF CountOK, Roles, NotAhead, Watching, Waiting, scanner
<1>3. NotAhead' /\ Greeting' /\ AlmostInOrder'
  BY DEF CountOK, Roles, NotAhead, Greeting, AlmostInOrder, Watching, Waiting, scanner
<1>4. Printed' /\ ConsoleDevice' /\ PrintsNewest'
  BY DEF CountOK, Roles, Printed, ConsoleDevice, PrintsNewest, Watching, Waiting, scanner, Size
<1> QED
  BY <1>1, <1>2, <1>3, <1>4, QuietIInv

\* A browser has waited long enough.
LEMMA TimesOutIInv == ASSUME IInv, NEW c \in Browsers, TimesOut(c) PROVE IInv'
<1> USE ClientsAssumption DEF IInv, Client, TimesOut, Go
<1>1. UNCHANGED quiet
  BY DEF quiet, scanner
<1>2. CountOK' /\ Roles'
  <2>1. CountOK'
    BY DEF CountOK, NotAhead, Watching, Waiting, scanner
  <2>2. Roles'
    BY DEF CountOK, Roles, Watching, Waiting
  <2> QED
    BY <2>1, <2>2
<1>3. NotAhead' /\ Greeting' /\ AlmostInOrder'
  BY DEF CountOK, Roles, NotAhead, Greeting, AlmostInOrder, Watching, Waiting, scanner
<1>4. Printed' /\ ConsoleDevice' /\ PrintsNewest'
  BY DEF CountOK, Roles, Printed, ConsoleDevice, PrintsNewest, Watching, Waiting, scanner, Size
<1> QED
  BY <1>1, <1>2, <1>3, <1>4, QuietIInv

\* A status has been sent.
LEMMA StatusSentIInv == ASSUME IInv, NEW c \in Browsers, StatusSent(c) PROVE IInv'
<1> USE ClientsAssumption DEF IInv, Client, StatusSent, Go
<1>1. UNCHANGED quiet
  BY DEF quiet, scanner
<1>2. CountOK' /\ Roles'
  BY DEF CountOK, Roles, NotAhead, Watching, Waiting, scanner
<1>3. NotAhead' /\ Greeting' /\ AlmostInOrder'
  BY DEF CountOK, Roles, NotAhead, Greeting, AlmostInOrder, Watching, Waiting, scanner
<1>4. Printed' /\ ConsoleDevice' /\ PrintsNewest'
  BY DEF CountOK, Roles, Printed, ConsoleDevice, PrintsNewest, Watching, Waiting, scanner, Size
<1> QED
  BY <1>1, <1>2, <1>3, <1>4, QuietIInv

\* The console begins its loop.
LEMMA InitializedIInv == ASSUME IInv, Initialized PROVE IInv'
<1> USE ClientsAssumption DEF IInv, Client, Initialized, Go
<1>1. UNCHANGED quiet
  BY DEF quiet, scanner
<1>2. CountOK' /\ Roles'
  BY DEF CountOK, Roles, NotAhead, Watching, Waiting, scanner
<1>3. NotAhead' /\ Greeting' /\ AlmostInOrder'
  BY DEF CountOK, Roles, NotAhead, Greeting, AlmostInOrder, Watching, Waiting, scanner
<1>4. Printed' /\ ConsoleDevice' /\ PrintsNewest'
  BY DEF CountOK, Roles, Printed, ConsoleDevice, PrintsNewest, Watching, Waiting, scanner, Size
<1> QED
  BY <1>1, <1>2, <1>3, <1>4, QuietIInv

\* Every step of the reader, a browser or the console keeps the invariant.
LEMMA NextIInv == IInv /\ [Next]_vars => IInv'
<1> SUFFICES ASSUME IInv, [Next]_vars PROVE IInv'
  OBVIOUS
<1>1. CASE UNCHANGED vars
  BY <1>1 DEF vars, IInv, QueueOK, CountOK, Roles, Accounted, Newest, NotAhead, Greeting,
              AlmostInOrder, Printed, ConsoleDevice, PrintsNewest, Size
<1>2. CASE Output
  BY <1>2, OutputIInv, NoOutputIInv
<1> QED
  BY <1>1, <1>2, PublishIInv, DeviceBecomesIInv, JoinIInv, GreetedIInv, ScanSentIInv, GetIInv,
     TimesOutIInv, StatusSentIInv, LeaveIInv, InitializedIInv, TurnIInv
     DEF Next, ClientStep

\* The invariant holds throughout.
THEOREM Invariance == Spec => []IInv
BY InitIInv, NextIInv, PTL DEF Spec

-----------------------------------------------------------------------------
(* What it implies.                                                        *)

\* The queues hold at most two scans and the counters stay within what was published,
\* for any number of browsers (Service.publish, api.app.stream, cli.run).
THEOREM TypeCorrect == Spec => []TypeOK
<1>1. IInv => TypeOK
  BY DEF IInv, QueueOK, CountOK, TypeOK
<1> QED
  BY <1>1, Invariance, PTL

\* A scan that is sent to a browser is older than one it has seen by at most one, however
\* the greeting, the queue, timeouts and new scans interleave (api.app.stream).
THEOREM NearlyOrdered == Spec => []AlmostInOrder
<1>1. IInv => AlmostInOrder
  BY DEF IInv
<1> QED
  BY <1>1, Invariance, PTL

\* The command line ends by itself only when it has printed the newest scan (cli.run).
THEOREM ConsoleComplete == Spec => []PrintsNewest
<1>1. IInv => PrintsNewest
  BY DEF IInv
<1> QED
  BY <1>1, Invariance, PTL

-----------------------------------------------------------------------------
(* The count of the drops.                                                 *)

\* client_drops is the number of scans that the clients have lost.
CountInv == clientDrops = Cardinality(Drops)

\* There are finitely many drops.
LEMMA FiniteDrops == IsFiniteSet(Drops)
<1>1. IsFiniteSet(Client)
  BY ClientsAssumption, FS_AddElement DEF Client
<1>2. IsFiniteSet(1..MaxScan)
  BY ClientsAssumption, FS_Interval
<1>3. IsFiniteSet(Client \X (1..MaxScan))
  BY <1>1, <1>2, FS_Product
<1> QED
  BY <1>3, FS_Subset DEF Drops

\* A new scan adds one drop for every subscriber with a full queue.
LEMMA PublishCount == ASSUME IInv, CountInv, Publish PROVE CountInv'
<1> DEFINE F == {c \in subscribers : Full(queue[c])}
<1> DEFINE New == {<<c, dropped[c] + 1>> : c \in F}
<1> DEFINE f == [c \in F |-> <<c, dropped[c] + 1>>]
<1>1. F \subseteq Client /\ \A c \in Client : c \in F <=> phase[c] # "away" /\ Full(queue[c])
  BY DEF IInv, CountOK
<1>2. \A c \in Client : /\ dropped[c] \in Nat /\ dropped[c] + 1 \in 1..MaxScan
                        /\ dropped'[c] = dropped[c] + IF c \in F THEN 1 ELSE 0
  <2>1. \A c \in Client : dropped'[c] = dropped[c] + IF c \in F THEN 1 ELSE 0
    BY <1>1 DEF Publish
  <2>2. \A c \in Client : dropped[c] \in Nat /\ dropped[c] + 1 \in 1..MaxScan
    BY ClientsAssumption DEF IInv, CountOK, NotAhead, Publish
  <2> QED
    BY <2>1, <2>2
<1>3. clientDrops' = clientDrops + Cardinality(F)
  BY DEF Publish
<1>4. IsFiniteSet(F) /\ Cardinality(F) \in Nat
  <2>1. IsFiniteSet(Client)
    BY ClientsAssumption, FS_AddElement DEF Client
  <2> QED
    BY <1>1, <2>1, FS_Subset, FS_CardinalityType
<1> HIDE DEF F
<1>5. IsFiniteSet(New) /\ Cardinality(New) = Cardinality(F)
  <2>1. f \in Bijection(F, New)
    BY DEF Bijection, Injection, Surjection, IsInjective
  <2> QED
    BY <1>4, <2>1, FS_Bijection DEF ExistsBijection
<1>6. Drops \cap New = {}
  <2> SUFFICES ASSUME NEW c \in F, <<c, dropped[c] + 1>> \in Drops PROVE FALSE
    OBVIOUS
  <2> QED
    BY <1>1, <1>2 DEF Drops
<1>7. Drops' = Drops \cup New
  <2>1. ASSUME NEW c \in Client, NEW n \in 1..MaxScan
        PROVE  n <= dropped'[c] <=> n <= dropped[c] \/ (c \in F /\ n = dropped[c] + 1)
    BY <1>2
  <2>2. ASSUME NEW c \in Client, NEW n \in 1..MaxScan
        PROVE  <<c, n>> \in Drops' <=> <<c, n>> \in Drops \cup New
    BY <1>2, <2>1 DEF Drops
  <2>3. Drops' \subseteq Client \X (1..MaxScan) /\ Drops \cup New \subseteq Client \X (1..MaxScan)
    BY <1>1, <1>2 DEF Drops
  <2> QED
    BY <2>2, <2>3
<1>8. Cardinality(Drops \cup New) = Cardinality(Drops) + Cardinality(New)
  <2>1. Cardinality(Drops) \in Nat /\ Cardinality(New) \in Nat
    BY <1>4, <1>5, FiniteDrops, FS_CardinalityType
  <2>2. Cardinality(Drops \cap New) = 0
    BY <1>6, FS_EmptySet
  <2>3. Cardinality(Drops \cup New) = Cardinality(Drops) + Cardinality(New) - Cardinality(Drops \cap New)
    BY <1>5, FiniteDrops, FS_Union
  <2> QED
    BY <2>1, <2>2, <2>3
<1> QED
  BY <1>3, <1>5, <1>7, <1>8 DEF CountInv

\* No other step drops a scan.
LEMMA NextCount == IInv /\ CountInv /\ [Next]_vars => CountInv'
<1> SUFFICES ASSUME IInv, CountInv, [Next]_vars, UNCHANGED <<clientDrops, dropped>> PROVE CountInv'
  BY PublishCount
     DEF Next, ClientStep, DeviceBecomes, Join, Greeted, ScanSent, Get, TimesOut, StatusSent, Leave,
         Initialized, Turn, Output, vars
<1> QED
  BY DEF CountInv, Drops

\* What was published since a subscriber joined was taken, is queued, or was dropped, and
\* client_drops counts every scan that some subscriber missed and nothing else, for any
\* number of browsers that come and go (Service.publish).
THEOREM DropsAreCounted == Spec => []DropsCounted
<1>1. Init => CountInv
  <2>1. Init => Drops = {}
    BY DEF Init, Drops
  <2> QED
    BY <2>1, FS_EmptySet DEF Init, CountInv
<1>2. IInv /\ CountInv => DropsCounted
  BY DEF IInv, CountInv, Accounted, Size, DropsCounted
<1> QED
  BY <1>1, <1>2, NextCount, Invariance, PTL DEF Spec

=============================================================================
