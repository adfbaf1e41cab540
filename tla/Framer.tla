------------------------------- MODULE Framer -------------------------------
(***************************************************************************)
(* What the incremental framer (protocol.framing.Framer) computes: the     *)
(* telegrams, ACK and NAK in a piece of a byte stream that may hold noise. *)
(* A telegram starts with STX and a header of HeaderLen bytes that gives   *)
(* its length; the values of bytes, lengths and checksums are parameters.  *)
(***************************************************************************)
EXTENDS Naturals, Sequences

CONSTANTS Byte, STX, ACK, NAK,
          HeaderLen,   \* bytes that must be there before the length is read (4)
          Total(_),    \* length of the telegram a header announces, 0 for an invalid length
          Valid(_)     \* the checksum of a complete candidate is right

ASSUME FramerAssumption == /\ {STX, ACK, NAK} \subseteq Byte /\ STX \notin {ACK, NAK}
                           /\ HeaderLen \in Nat \ {0}
                           /\ \A h \in [1..HeaderLen -> Byte] : Total(h) \in Nat

Control == {ACK, NAK}

-----------------------------------------------------------------------------
(* Framer.feed and Framer.expire, as functions of Framer.offset and        *)
(* Framer.buffer, which starts at that offset of the stream.               *)

State == [offset : Nat, buffer : Seq(Byte)]

\* Framer._discard.
Discard(s, n) == [offset |-> s.offset + n, buffer |-> SubSeq(s.buffer, n + 1, Len(s.buffer))]

\* The length that the header announces.
Announced(b) == Total(SubSeq(b, 1, HeaderLen))

FaultyIncomplete(b) == Len(b) < HeaderLen \/ (Announced(b) # 0 /\ Len(b) <= Announced(b))
Incomplete(b) == \/ Len(b) < HeaderLen
                 \/ Announced(b) # 0 /\ Len(b) < Announced(b)

\* A candidate with an invalid length or a wrong checksum is not a telegram.
IsTelegram(b) == Announced(b) # 0 /\ Valid(SubSeq(b, 1, Announced(b)))

\* The loop ends at the end of the buffer or at a candidate that may still be completed.
Waits(b) == b = <<>> \/ (Head(b) = STX /\ Incomplete(b))

\* An ACK, a NAK or a telegram is an event.
Found(b) == Head(b) \in Control \/ (Head(b) = STX /\ IsTelegram(b))
Item(s, n) == [at |-> s.offset, bytes |-> SubSeq(s.buffer, 1, n)]

\* What is not a telegram is skipped, and the scan goes on behind it.
FaultySkipped(b) == IF Announced(b) # 0 THEN Announced(b) ELSE 1
Skipped(b) == 1

\* How many bytes a turn of the loop discards.
Taken(b) == IF Head(b) # STX THEN 1 ELSE IF IsTelegram(b) THEN Announced(b) ELSE Skipped(b)

\* The loop of feed: the events found and what stays in the buffer.
Scan[s \in State] ==
    IF Waits(s.buffer)
    THEN [events |-> <<>>, offset |-> s.offset, buffer |-> s.buffer]
    ELSE LET n == Taken(s.buffer)
             rest == Scan[Discard(s, n)]
         IN [rest EXCEPT !.events = IF Found(s.buffer) THEN <<Item(s, n)>> \o @ ELSE @]

FaultyFeed(o, b, data) == Scan[[offset |-> o + Len(b), buffer |-> data]]
Feed(o, b, data) == Scan[[offset |-> o, buffer |-> b \o data]]

\* An incomplete candidate is given up: the bytes behind its first are scanned.
Expire(o, b) == Scan[Discard([offset |-> o, buffer |-> b], 1)]

=============================================================================
