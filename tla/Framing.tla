------------------------------ MODULE Framing ------------------------------
(***************************************************************************)
(* The framer in use: Device._read_loop feeds it what each read returns    *)
(* and drops a candidate that stays incomplete.                            *)
(***************************************************************************)
EXTENDS Framer

CONSTANTS MaxTotal,   \* the longest telegram (814)
          MaxBytes,   \* bound: bytes of a stream
          MaxRead     \* bound: bytes of a read

ASSUME FramingAssumption == /\ MaxTotal \in Nat /\ HeaderLen <= MaxTotal
                            /\ MaxBytes \in Nat /\ MaxRead \in Nat
                            /\ \A h \in [1..HeaderLen -> Byte] : Total(h) <= MaxTotal

VARIABLES raw,      \* history: every byte of the stream
          buffer,   \* Framer.buffer
          offset,   \* Framer.offset
          events,   \* history: the events feed and expire returned
          expired   \* history: the offsets of the bytes expire dropped

vars == <<raw, buffer, offset, events, expired>>

\* The buffer is the end of the stream, an incomplete candidate shorter than the longest
\* telegram: noise cannot make it grow (the break of feed's loop).
TypeOK == /\ raw \in Seq(Byte) /\ offset \in 0..Len(raw)
          /\ buffer = SubSeq(raw, offset + 1, Len(raw)) /\ Len(buffer) < MaxTotal
          /\ buffer # <<>> => Head(buffer) = STX /\ Incomplete(buffer)
          /\ events \in Seq([at : 0..MaxBytes, bytes : Seq(Byte)])
          /\ expired \subseteq 0..Len(raw)

Init == raw = <<>> /\ buffer = <<>> /\ offset = 0 /\ events = <<>> /\ expired = {}

Apply(r) == buffer' = r.buffer /\ offset' = r.offset /\ events' = events \o r.events

Read(data) ==
    /\ Len(raw) + Len(data) <= MaxBytes
    /\ raw' = raw \o data /\ Apply(Feed(offset, buffer, data)) /\ UNCHANGED expired

\* No byte came for 250 ms while a candidate is incomplete.
Idle ==
    /\ buffer # <<>>
    /\ Apply(Expire(offset, buffer)) /\ expired' = expired \cup {offset} /\ UNCHANGED raw

\* Framer.reset, by connect and for another baud rate: a new stream begins.
Reset ==
    /\ raw # <<>>
    /\ raw' = <<>> /\ buffer' = <<>> /\ offset' = 0 /\ events' = <<>> /\ expired' = {}

Next == Idle \/ Reset \/ \E n \in 1..MaxRead : \E data \in [1..n -> Byte] : Read(data)

Spec == Init /\ [][Next]_vars

-----------------------------------------------------------------------------
(* Properties.                                                             *)

At(i) == SubSeq(raw, i + 1, Len(raw))
TelegramAt(i) == LET n == Announced(At(i))
                 IN /\ Len(At(i)) >= HeaderLen /\ Head(At(i)) = STX
                    /\ n \in 1..Len(At(i)) /\ Valid(SubSeq(At(i), 1, n))
Events == {events[i] : i \in DOMAIN events}
Frames == {e \in Events : Head(e.bytes) = STX}
Inside(i) == \E f \in Frames : f.at < i /\ i < f.at + Len(f.bytes)

\* However the bytes were split into reads, the events and the buffer are those of
\* one feed of all of them.
SplitIndependent ==
    expired = {} =>
        Scan[[offset |-> 0, buffer |-> raw]] = [events |-> events, offset |-> offset, buffer |-> buffer]

\* Every event stands in the stream where it says, in order and without overlap,
\* and every frame is a telegram: `embedded STX is trusted only after CRC
\* validation'.
NothingInvented ==
    /\ \A e \in Events : e.bytes = SubSeq(raw, e.at + 1, e.at + Len(e.bytes))
    /\ \A f \in Frames : TelegramAt(f.at) /\ Len(f.bytes) = Announced(At(f.at))
    /\ \A i \in 1..Len(events) - 1 : events[i].at + Len(events[i].bytes) <= events[i + 1].at

\* No telegram is lost to the noise, the broken candidate or the truncated one
\* before it: one that was passed over is reported, unless it lies inside a
\* reported one or its own bytes stopped coming.  So is every ACK and NAK.
NothingMissed ==
    \A i \in 0..offset - 1 : ~Inside(i) /\ i \notin expired
        => /\ TelegramAt(i) => \E f \in Frames : f.at = i
           /\ raw[i + 1] \in Control => \E e \in Events : e.at = i

\* The events are those of the stream, no more and no less.
ExactEvents == NothingInvented /\ NothingMissed

=============================================================================
