------------------------------ MODULE Framing ------------------------------
(***************************************************************************)
(* The framers: they cut the byte stream of one direction into frames,     *)
(* however the network has cut it into reads.                              *)
(***************************************************************************)
EXTENDS Integers, Sequences, SequencesExt

CONSTANTS
    Bytes,      \* values of a byte
    Framers,    \* configurations of framers, see Delimiter and Prefix below
    MaxStream,  \* bound: bytes in a stream
    MaxRead     \* bound: bytes in one read

VARIABLES
    framer,   \* the configuration of the framer
    buffer,   \* Framer._buffer
    fed,      \* the bytes fed so far
    frames,   \* the frames made so far: bytes, how they ended, number
    open      \* the connection has not ended

fvars == <<framer, buffer, fed, frames, open>>

\* Raw has no parameters; a line framer is a delimiter framer for newline.
Delimiter(d, include, max) == [kind |-> "delimiter", d |-> d, include |-> include, max |-> max]
Prefix(offset, width, add, order, max) ==
    [kind |-> "length_prefix", offset |-> offset, width |-> width, add |-> add,
     order |-> order, max |-> max]
Raw == [kind |-> "raw"]
Script == [kind |-> "custom"]

Take(s, n) == SubSeq(s, 1, n)
From(s, n) == SubSeq(s, n + 1, Len(s))
OccursAt(d, s, i) == i + Len(d) - 1 <= Len(s) /\ SubSeq(s, i, i + Len(d) - 1) = d
Find(d, s) == {i \in 1 .. Len(s) : OccursAt(d, s, i)}
First(S) == CHOOSE i \in S : \A j \in S : i <= j

---------------------------------------------------------------------------
Cut(how, bytes) == [how |-> how, bytes |-> bytes]

(* Delimiter framer: a frame up to each delimiter; what is left over is    *)
(* given away as one frame when it is longer than the framer allows.       *)
RECURSIVE SplitDelimited(_, _)
SplitDelimited(f, s) ==
    LET at == Find(f.d, s) IN
    IF at = {}
    THEN IF Len(s) > f.max THEN [out |-> <<Cut("oversize", s)>>, rest |-> <<>>]
                           ELSE [out |-> <<>>, rest |-> s]
    ELSE LET end == First(at) + Len(f.d) - 1
             more == SplitDelimited(f, From(s, end))
         IN  [out |-> <<Cut("whole", Take(s, IF f.include THEN end ELSE First(at) - 1))>> \o more.out,
              rest |-> more.rest]

(* Length-prefix framer: the number after `offset` bytes, plus `add`, is   *)
(* how many bytes follow it.  An impossible number gives the whole buffer  *)
(* away as one frame.                                                      *)
Base == 256
LengthField(f, s) ==
    LET digits == SubSeq(s, f.offset + 1, f.offset + f.width) IN
    FoldLeft(LAMBDA n, b : n * Base + b, 0, IF f.order = "big" THEN digits ELSE Reverse(digits))

RECURSIVE SplitPrefixed(_, _)
\* Slip: the number is taken for the length of the payload as it stands.
SplitPrefixedNoAdd(f, s) ==
    LET total == f.offset + f.width + LengthField(f, s) IN
    IF Len(s) < f.offset + f.width \/ Len(s) < total THEN [out |-> <<>>, rest |-> s]
    ELSE LET more == SplitPrefixed(f, From(s, total)) IN
         [out |-> <<Cut("whole", Take(s, total))>> \o more.out, rest |-> more.rest]
SplitPrefixed(f, s) ==
    LET header == f.offset + f.width IN
    IF Len(s) < header THEN [out |-> <<>>, rest |-> s]
    ELSE
    LET payload == LengthField(f, s) + f.add
        total == header + payload IN
    IF payload < 0 \/ total > f.max THEN [out |-> <<Cut("desync", s)>>, rest |-> <<>>]
    ELSE IF Len(s) < total THEN [out |-> <<>>, rest |-> s]
    ELSE LET more == SplitPrefixed(f, From(s, total)) IN
         [out |-> <<Cut("whole", Take(s, total))>> \o more.out, rest |-> more.rest]

(* A script of the operator: here one whose frames end with a 1 and which  *)
(* raises on a read that has a 0 in it.  What is read then is dropped.     *)
ScriptSplit(s, data) ==
    IF 0 \in ToSet(data) THEN [out |-> <<Cut("dropped", data)>>, rest |-> s]
    ELSE SplitDelimited([d |-> <<1>>, include |-> TRUE, max |-> MaxStream], s \o data)

Split(f, s, data) ==
    CASE f.kind = "raw" -> [out |-> IF data = <<>> THEN <<>> ELSE <<Cut("whole", data)>>, rest |-> <<>>]
      [] f.kind = "delimiter" -> SplitDelimited(f, s \o data)
      [] f.kind = "length_prefix" -> SplitPrefixed(f, s \o data)
      [] f.kind = "custom" -> ScriptSplit(s, data)

\* Slip: a frame that was only begun is forgotten when the stream ends.
FlushNothing(f, s) == <<>>
(* flush: what is buffered becomes the last frame.                         *)
Flush(f, s) == IF s = <<>> THEN <<>> ELSE <<Cut("rest", s)>>

---------------------------------------------------------------------------
FramingInit ==
    /\ framer \in Framers
    /\ buffer = <<>> /\ fed = <<>> /\ frames = <<>> /\ open = TRUE

Feed(data) ==
    LET s == Split(framer, buffer, data) IN
    /\ open /\ Len(fed) + Len(data) <= MaxStream
    /\ fed' = fed \o data
    /\ frames' = frames \o s.out
    /\ buffer' = s.rest
    /\ UNCHANGED <<framer, open>>

Ended ==
    /\ open /\ open' = FALSE
    /\ frames' = frames \o Flush(framer, buffer)
    /\ buffer' = <<>>
    /\ UNCHANGED <<framer, fed>>

FramingNext == Ended \/ \E data \in UNION {[1 .. n -> Bytes] : n \in 1 .. MaxRead} : Feed(data)

---------------------------------------------------------------------------
(* Nothing that was read is lost or made twice on its way into the log and *)
(* to the other side: the frames and the buffer together are what was fed, *)
(* and once the stream has ended, the frames alone.  (A delimiter that is  *)
(* left out of the frames, and a read on which a script raises, are gone.) *)
Whole(f, frame) ==
    IF f.kind = "delimiter" /\ ~f.include /\ frame.how = "whole" THEN frame.bytes \o f.d
    ELSE frame.bytes
NoByteLost ==
    framer.kind # "custom"
    => fed = FlattenSeq([i \in DOMAIN frames |-> Whole(framer, frames[i])]) \o buffer

(* A message of the protocol, told from its own bytes alone.               *)
IsMessage(f, s) ==
    CASE f.kind = "delimiter" -> Find(f.d, s) = {Len(s) - Len(f.d) + 1}
      [] f.kind = "length_prefix" ->
           /\ Len(s) >= f.offset + f.width
           /\ Len(s) = f.offset + f.width + LengthField(f, s) + f.add /\ LengthField(f, s) + f.add >= 0
      [] OTHER -> TRUE

(* The frames do not depend on how the network cut the stream: up to the   *)
(* first frame given away because of its size, every frame is exactly one  *)
(* message, and no message waits in the buffer once it is complete.        *)
FramesAreMessages ==
    framer.kind \in {"delimiter", "length_prefix"}
    => /\ \A i \in DOMAIN frames :
            frames[i].how = "whole" => IsMessage(framer, Whole(framer, frames[i]))
       /\ \A n \in 1 .. Len(buffer) : ~IsMessage(framer, Take(buffer, n))
============================================================================
