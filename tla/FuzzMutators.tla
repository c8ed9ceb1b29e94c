---------------------------- MODULE FuzzMutators ----------------------------
(***************************************************************************)
(* The mutators of a fuzzing campaign: what each may make of a frame, as   *)
(* the set of its outcomes over every random choice.  NoMutation is the    *)
(* None of the code: the engine then takes another frame.                  *)
(***************************************************************************)
EXTENDS Protocol

CONSTANTS
    Payloads,    \* the library of KnownBadMutator
    Overflows,   \* lengths of FieldOverflowMutator
    Boundaries   \* _INT_BOUNDARIES, by width

NoMutation == [is |-> "none"]
Mutated(b) == [is |-> "bytes", v |-> b]

---------------------------------------------------------------------------
(* Raw mutators.                                                           *)
FlipAt(s, i, bit) ==
    LET p == 2 ^ bit IN [s EXCEPT ![i] = IF (@ \div p) % 2 = 1 THEN @ - p ELSE @ + p]
BitFlip(s) ==
    IF s = <<>> THEN {NoMutation} ELSE {Mutated(FlipAt(s, i, bit)) : i \in DOMAIN s, bit \in 0 .. 7}

Splice(s, pos, cut, new) == Slice(s, 0, pos) \o new \o Slice(s, pos + cut, Len(s))
ByteInsert(s, random) == {Mutated(Splice(s, pos, 0, r)) : pos \in 0 .. Len(s), r \in random}
\* Slip: the last byte may go as well.
ByteDeleteAll(s, max) ==
    IF Len(s) < 1 THEN {NoMutation}
    ELSE UNION {{Mutated(Splice(s, pos, n, <<>>)) : pos \in 0 .. Len(s) - n} :
                n \in 1 .. Min({max, Len(s)})}
ByteDelete(s, max) ==
    IF Len(s) <= 1 THEN {NoMutation}
    ELSE UNION {{Mutated(Splice(s, pos, n, <<>>)) : pos \in 0 .. Len(s) - n} :
                n \in 1 .. Min({max, Len(s) - 1})}
KnownBad(s) ==
    IF Payloads = {} THEN {NoMutation}
    ELSE {Mutated(Splice(s, pos, Len(p), p)) : pos \in 0 .. Max({0, Len(s) - 1}), p \in Payloads}

\* An external program: any output, or a bit flip when it is missing or slow.
Radamsa(s, outputs) ==
    {IF o = <<>> THEN NoMutation ELSE Mutated(o) : o \in outputs} \cup BitFlip(s)

\* Each step works on what the last one left; a step without effect is skipped.
RawMutate(kind, s) ==
    CASE kind = "flip" -> BitFlip(s)
      [] kind = "insert" -> ByteInsert(s, {<<0>>, <<255>>})
      [] kind = "delete" -> ByteDelete(s, 2)
      [] kind = "bad" -> KnownBad(s)
      [] kind = "radamsa" -> Radamsa(s, {<<>>, <<1, 2>>})
Chain(kinds, s) ==
    LET Step(S, kind) == UNION {{IF r.is = "none" THEN m ELSE r :
                                 r \in RawMutate(kind, IF m.is = "none" THEN s ELSE m.v)} : m \in S}
    IN  FoldLeft(Step, {NoMutation}, kinds)

---------------------------------------------------------------------------
(* Field mutators: a parsed message is encoded with one edit.              *)
SizeType(size) == IF size \in {1, 2, 4, 8} THEN size ELSE 4
WithEdit(proto, msg, p, value) ==
    LET e == EncodeWithEdits(proto, msg, p.name :> value) IN
    IF e.out = "ok" THEN Mutated(e.bytes) ELSE NoMutation
OrNone(S) == IF S = {} THEN {NoMutation} ELSE S
Targets(msg, types) == {p \in ToSet(msg.fields) : p.value.is \in types}

FieldBoundary(proto, msg) ==
    OrNone({WithEdit(proto, msg, p, Num(b)) :
            <<p, b>> \in UNION {{p} \X Boundaries[SizeType(p.size)] : p \in Targets(msg, {"int"})}})
FieldOverflow(proto, msg) ==
    OrNone({WithEdit(proto, msg, p, [p.value EXCEPT !.v = [i \in 1 .. n |-> 65]]) :
            p \in Targets(msg, {"str", "bytes"}), n \in Overflows})
NullByte(proto, msg) ==
    OrNone(UNION {{WithEdit(proto, msg, p, [p.value EXCEPT !.v[i] = 0]) : i \in DOMAIN p.value.v} :
                  p \in {p \in Targets(msg, {"str", "bytes"}) : Len(p.value.v) >= 2}})

(* LengthMangleMutator encodes without an edit, so that the lengths are    *)
(* right, and then overwrites one of them, most significant byte first.    *)
IsLength(name) == name \in {"len", "count"}
Mangled(n, size) ==
    Boundaries[SizeType(size)] \cup {n + d : d \in 1 .. 256}
    \cup (IF n = 0 THEN {0} ELSE {n - d : d \in 1 .. Min({n, 256})})
\* Slip: the length is edited before the message is encoded.
LengthMangleByEdit(proto, msg) ==
    OrNone({WithEdit(proto, msg, p, Num(n)) :
            <<p, n>> \in UNION {{p} \X Mangled(p.value.v, p.size) :
                                p \in {p \in Targets(msg, {"int"}) : IsLength(p.name)}}})
LengthMangle(proto, msg) ==
    LET e == EncodeWithEdits(proto, msg, <<>>)
        Over(p, n) == IF e.out # "ok" \/ n >= 256 ^ p.size THEN NoMutation
                      ELSE Mutated(Splice(e.bytes, p.off, p.size, Digits(n, p.size)))
    IN  OrNone({Over(p, n) : <<p, n>> \in UNION {{p} \X Mangled(p.value.v, p.size) :
                                 p \in {p \in Targets(msg, {"int"}) : IsLength(p.name)}}})

---------------------------------------------------------------------------
(* Whatever a chain of raw mutators makes of a frame that had a byte, it   *)
(* still has one: an empty frame would be sent as nothing at all, and the  *)
(* campaign would count it as an iteration.  And a chain gives up only     *)
(* when no step of it did anything.                                        *)
ChainsKeepAByte(x) ==
    LET S == Chain(x.kinds, x.bytes) IN
    /\ x.bytes # <<>> => \A m \in S : m.is = "bytes" => m.v # <<>>
    /\ NoMutation \in S => \A i \in DOMAIN x.kinds : NoMutation \in RawMutate(x.kinds[i], x.bytes)

(* A field mutation reaches the parser of the server: the frame it makes   *)
(* is still framed as the message it was, with the edit in one field and   *)
(* the length of that field.  A boundary value changes one number.         *)
(* Only a mangled length is meant to break that, and it breaks no more:    *)
(* the frame differs from the intact one in the bytes of a length field,   *)
(* and for every length there is a way that it does.                       *)
FieldMutantsReachTheParser(x) ==
    LET msg == DecodedOf(x)
        fields == ToSet(MessageOf(x).fields)
        edits == (FieldOverflow(x.proto, msg) \cup NullByte(x.proto, msg)) \ {NoMutation}
        lengths == {p \in ToSet(msg.fields) : IsLength(p.name)}
        Differs(m, p) == /\ Len(m.v) = Consumed(msg)
                         /\ \A i \in DOMAIN m.v : m.v[i] # x.data[i] => i - p.off \in 1 .. p.size
    IN
    SimpleMessage(x, msg) /\ (\A f \in fields : f.type # "uint" => Free(x, f) /\ f.len # NoLen)
    => /\ \A m \in edits :
              LET again == Decode(x.proto, "client_to_server", m.v, 0) IN
              /\ again.out = "ok"
              /\ \E f \in fields : \A i \in DOMAIN msg.fields :
                    again.fields[i].value # msg.fields[i].value
                       => msg.fields[i].name = f.name \/ f.len = Ref(msg.fields[i].name, 0)
       /\ \A m \in FieldBoundary(x.proto, msg) \ {NoMutation} : \E p \in Targets(msg, {"int"}) : Differs(m, p)
       /\ \A m \in LengthMangle(x.proto, msg) \ {NoMutation} : \E p \in lengths : Differs(m, p)
       /\ \A p \in lengths : \E m \in LengthMangle(x.proto, msg) :
              m.is = "bytes" /\ Slice(m.v, p.off, p.off + p.size) # p.raw
=============================================================================
