------------------------------ MODULE Protocol ------------------------------
(***************************************************************************)
(* Protocol definitions at work: a frame is matched to a message           *)
(* definition, taken apart into fields, and put together again with the    *)
(* operator's edits.                                                       *)
(***************************************************************************)
EXTENDS Integers, Sequences, SequencesExt, FiniteSetsExt

(* Lengths: none, a number, or an expression over an earlier field.  Of    *)
(* the expressions, x and x - k.                                           *)
NoLen == [kind |-> "none"]
Lit(n) == [kind |-> "lit", n |-> n]
Ref(x, k) == [kind |-> "ref", x |-> x, k |-> k]

UInt(name, width) == [name |-> name, type |-> "uint", width |-> width, len |-> NoLen]
Octets(name, len) == [name |-> name, type |-> "bytes", len |-> len]
Text(name, len, nul) == [name |-> name, type |-> "string", len |-> len, nul |-> nul]
Padding(name, len) == [name |-> name, type |-> "padding", len |-> len]
Bits(name, len) == [name |-> name, type |-> "bitfield", len |-> len]
Array(name, count, item) == [name |-> name, type |-> "array", len |-> NoLen, count |-> count, item |-> item]
Tlvs(name, len) == [name |-> name, type |-> "tlv_sequence", len |-> len]

(* Python's data[a:b].                                                     *)
Bound(i, n) == IF i < 0 THEN Max({0, n + i}) ELSE Min({i, n})
Slice(s, a, b) == SubSeq(s, Bound(a, Len(s)) + 1, Bound(b, Len(s)))

Number(bytes, order) ==
    FoldLeft(LAMBDA n, b : 256 * n + b, 0, IF order = "big" THEN bytes ELSE Reverse(bytes))
Digits(n, width) == [i \in 1 .. width |-> (n \div 256 ^ (width - i)) % 256]
Packed(n, width, order) == IF order = "big" THEN Digits(n, width) ELSE Reverse(Digits(n, width))

(* Text is decoded with errors replaced: a byte that is not ASCII becomes  *)
(* the replacement character, which is three other bytes when encoded.     *)
Replacement == 65533
Chars(bytes) == [i \in DOMAIN bytes |-> IF bytes[i] < 128 THEN bytes[i] ELSE Replacement]
Utf8(chars) == FlattenSeq([i \in DOMAIN chars |-> IF chars[i] = Replacement THEN <<239, 191, 189>>
                                                  ELSE <<chars[i]>>])

(* Values carry their Python type.                                         *)
Num(n) == [is |-> "int", v |-> n]
Raw(b) == [is |-> "bytes", v |-> b]
Str(c) == [is |-> "str", v |-> c]
None == [is |-> "none"]
Children(list) == [is |-> "list", v |-> list]

---------------------------------------------------------------------------
(* The outcome of one field: parsed, a ParseError (the message is shown    *)
(* with an error), or some other exception, which the decoder lets through.*)
Parsed(f, off, size, raw, value) ==
    [out |-> "ok", name |-> f.name, off |-> off, size |-> size, raw |-> raw, value |-> value]
Fails(out) == [out |-> out]

Defined(len, ctx) == len.kind # "ref" \/ len.x \in DOMAIN ctx
Evaluate(len, ctx) == IF len.kind = "lit" THEN len.n ELSE ctx[len.x] - len.k
\* -1 means the rest of the frame, whether it is written or computed.
Resolved(len, ctx, room) == LET n == Evaluate(len, ctx) IN IF n = -1 THEN room ELSE n

(* Everything that takes `size` bytes and reads them in its own way.       *)
Sized(f, data, off, size, Value(_)) ==
    IF off + size > Len(data) THEN Fails("error")
    ELSE LET raw == Slice(data, off, off + size) IN Parsed(f, off, size, raw, Value(raw))
WithLength(f, data, off, ctx, Value(_)) ==
    IF f.len = NoLen THEN Fails("error")
    ELSE IF ~Defined(f.len, ctx) THEN Fails("raised")
    ELSE Sized(f, data, off, Resolved(f.len, ctx, Len(data) - off), Value)

ParseUInt(f, data, off, order) ==
    LET p == Sized(f, data, off, f.width, LAMBDA raw : Num(Number(raw, order))) IN
    IF p.out = "ok" /\ Len(p.raw) < f.width THEN Fails("raised") ELSE p

\* The limit may lie beyond the frame: then data[end] raises IndexError.
ParseBytes(f, data, off, ctx) == WithLength(f, data, off, ctx, Raw)
ParsePadding(f, data, off, ctx) == WithLength(f, data, off, ctx, LAMBDA raw : None)

ParseTerminated(f, data, off, ctx) ==
    LET limit == IF f.len = NoLen THEN Len(data) ELSE off + Resolved(f.len, ctx, Len(data) - off)
        stop == Min({i \in off .. Len(data) - 1 : data[i + 1] = 0} \cup {Max({off, limit})})
        nul == stop < Len(data) /\ data[stop + 1] = 0
        size == stop - off + (IF nul THEN 1 ELSE 0)
    IN  IF ~Defined(f.len, ctx) THEN Fails("raised")
        ELSE IF stop > Len(data) THEN Fails("raised")
        ELSE Parsed(f, off, size, Slice(data, off, off + size), Str(Chars(Slice(data, off, stop))))

ParseString(f, data, off, ctx) ==
    IF f.nul THEN ParseTerminated(f, data, off, ctx)
    ELSE WithLength(f, data, off, ctx, LAMBDA raw : Str(Chars(raw)))

\* A width that is no machine integer reads the first byte only.
ParseBits(f, data, off, ctx, order) ==
    LET size == IF f.len = NoLen THEN 1 ELSE Resolved(f.len, ctx, Len(data) - off)
        raw == Slice(data, off, off + size)
        width == IF size \in {1, 2, 4, 8} THEN size ELSE 1
    IN  IF ~Defined(f.len, ctx) THEN Fails("raised")
        ELSE IF off + size > Len(data) THEN Fails("error")
        ELSE IF Len(raw) < width THEN Fails("raised")
        ELSE Parsed(f, off, size, raw, Num(Number(Slice(raw, 0, width), order)))

(* One-byte tags and lengths; a value that runs out of its block is cut.   *)
\* Slip: a value may run past the end of its block.
ClippedNever(at, n, end) == n
Clipped(at, n, end) == IF at + n > end THEN end - at ELSE n
RECURSIVE Triples(_, _, _)
Triples(data, off, end) ==
    IF off + 2 > end THEN <<>>
    ELSE LET n == Clipped(off + 2, data[off + 2], end)
             raw == Slice(data, off, off + 2 + n)
         IN  <<Parsed([name |-> "tag"], off, 2 + n, raw, Raw(Slice(raw, 2, 2 + n)))>> \o Triples(data, off + 2 + n, end)
ParseTlvs(f, data, off, ctx) ==
    LET end == Min({Len(data), IF f.len = NoLen THEN Len(data)
                               ELSE off + Resolved(f.len, ctx, Len(data) - off)})
        kids == Triples(data, off, end)
        size == FoldLeft(LAMBDA n, k : n + k.size, 0, kids)
    IN  IF ~Defined(f.len, ctx) THEN Fails("raised")
        ELSE Parsed(f, off, size, Slice(data, off, off + size), Children(kids))

(* The fields of a message, or of one element of an array, from left to    *)
(* right: what was parsed, where the next begins, the numbers read so far. *)
RECURSIVE Walk(_, _, _, _, _)

\* One element of an array, after those that were read.
Item(read, w, data) ==
    IF w.out # "ok" THEN [read EXCEPT !.out = w.out]
    ELSE [read EXCEPT !.off = w.off,
                      !.kids = Append(@, Parsed([name |-> "item"], read.off, w.off - read.off,
                                                Slice(data, read.off, w.off), Children(w.fields)))]
Items(item, data, off, ctx, order, count) ==
    FoldLeft(LAMBDA read, i : IF read.out # "ok" THEN read
                              ELSE Item(read, Walk(item, data, read.off, ctx, order), data),
             [out |-> "ok", kids |-> <<>>, off |-> off], [i \in 1 .. count |-> i])
Whole(f, data, off, all) ==
    IF all.out # "ok" THEN Fails(all.out)
    ELSE Parsed(f, off, all.off - off, Slice(data, off, all.off), Children(all.kids))
ParseArray(f, data, off, ctx, order) ==
    IF ~Defined(f.count, ctx) THEN Fails("raised")
    ELSE Whole(f, data, off, Items(f.item, data, off, ctx, order, Evaluate(f.count, ctx)))

Field(f, data, off, ctx, order) ==
    CASE f.type = "uint"     -> ParseUInt(f, data, off, order)
      [] f.type = "bytes"    -> ParseBytes(f, data, off, ctx)
      [] f.type = "string"   -> ParseString(f, data, off, ctx)
      [] f.type = "padding"  -> ParsePadding(f, data, off, ctx)
      [] f.type = "bitfield" -> ParseBits(f, data, off, ctx, order)
      [] f.type = "array"    -> ParseArray(f, data, off, ctx, order)
      [] f.type = "tlv_sequence" -> ParseTlvs(f, data, off, ctx)

\* A field that does not parse ends the message; numbers are kept for expressions.
After(w, p) ==
    IF p.out # "ok" THEN [w EXCEPT !.out = p.out]
    ELSE [w EXCEPT !.fields = Append(@, p), !.off = @ + p.size,
                   !.ctx = IF p.value.is = "int" THEN (p.name :> p.value.v) @@ @ ELSE @]
Walk(fields, data, off, ctx, order) ==
    FoldLeft(LAMBDA w, f : IF w.out # "ok" THEN w ELSE After(w, Field(f, data, w.off, w.ctx, order)),
             [out |-> "ok", fields |-> <<>>, off |-> off, ctx |-> ctx], fields)

---------------------------------------------------------------------------
(* Which definition a frame is: the first whose direction and rule fit.    *)
Always == [type |-> "always"]
Magic(at, bytes) == [type |-> "magic", at |-> at, bytes |-> bytes]
Nth(dir, index) == [type |-> "sequence", dir |-> dir, index |-> index]
Message(name, dir, rule, fields) == [name |-> name, dir |-> dir, rule |-> rule, fields |-> fields]

DirectionMatches(filter, dir) == filter \in {"both", dir}
RuleMatches(rule, dir, data, seq) ==
    CASE rule.type = "magic" -> Slice(data, rule.at, rule.at + Len(rule.bytes)) = rule.bytes
      [] rule.type = "sequence" -> DirectionMatches(rule.dir, dir) /\ seq = rule.index
      [] rule.type = "always" -> TRUE
Matching(messages, dir, data, seq) ==
    SelectSeq(messages, LAMBDA m : DirectionMatches(m.dir, dir) /\ RuleMatches(m.rule, dir, data, seq))

Shown(name, w) == [type |-> name, out |-> w.out, fields |-> w.fields]
Decode(proto, dir, data, seq) ==
    LET found == Matching(proto.messages, dir, data, seq) IN
    IF found = <<>>
    THEN Shown("<unknown>", [out |-> "error", fields |-> <<Parsed([name |-> "raw"], 0, Len(data), data, Raw(data))>>])
    ELSE Shown(Head(found).name, Walk(Head(found).fields, data, 0, <<>>, proto.order))

---------------------------------------------------------------------------
(* Encoding: the bytes of each field, or that it raises.                   *)
Encoded(b) == [out |-> "ok", bytes |-> b]
EncodeField(f, value, ctx, order) ==
    CASE f.type = "uint" /\ value.is = "int" /\ value.v \in 0 .. 256 ^ f.width - 1
             -> Encoded(Packed(value.v, f.width, order))
      [] f.type = "bytes" /\ value.is = "bytes" -> Encoded(value.v)
      [] f.type = "string" /\ value.is \in {"bytes", "str"}
             -> Encoded((IF value.is = "str" THEN Utf8(value.v) ELSE value.v)
                        \o IF f.nul THEN <<0>> ELSE <<>>)
      [] f.type = "padding" /\ f.len # NoLen /\ Defined(f.len, ctx)
             -> Encoded([i \in 1 .. Resolved(f.len, ctx, 0) |-> 0])
      [] f.type \in {"bitfield", "array", "tlv_sequence"} /\ value.is = "bytes" -> Encoded(value.v)
      [] OTHER -> Fails("raised")

Default(f) ==
    CASE f.type \in {"bytes", "tlv_sequence", "array"} -> Raw(<<>>)
      [] f.type = "string" -> Str(<<>>)
      [] f.type = "padding" -> None
      [] OTHER -> Num(0)

\* The value a field goes out with: the edit, what was parsed, a default.
Final(f, msg, edits) ==
    LET parsed == {i \in DOMAIN msg.fields : msg.fields[i].name = f.name} IN
    IF f.name \in DOMAIN edits THEN edits[f.name]
    ELSE IF parsed # {} THEN msg.fields[Max(parsed)].value ELSE Default(f)

(* A field that another names as its length, and as nothing but its        *)
(* length, goes out as the length of what that other field encodes to.     *)
\* Slip: the length that was parsed goes out with the edited field.
RecomputedParsed(f, msg, edits, msgdef, order) == Final(f, msg, edits)
Recomputed(f, msg, edits, msgdef, order) ==
    LET Alone(g) == EncodeField(g, Final(g, msg, edits), <<>>, order)
        governed == SelectSeq(msgdef.fields, LAMBDA g : g.len = Ref(f.name, 0) /\ Alone(g).out = "ok")
    IN  IF governed = <<>> THEN Final(f, msg, edits) ELSE Num(Len(Alone(Head(governed)).bytes))

\* Lengths are resolved against the size, not the value, of earlier fields.
EncodeWithEdits(proto, msg, edits) ==
    LET msgdef == CHOOSE m \in ToSet(proto.messages) : m.name = msg.type
        Step(done, f) ==
            IF done.out = "raised" THEN done
            ELSE LET e == EncodeField(f, Recomputed(f, msg, edits, msgdef, proto.order),
                                      done.sizes, proto.order)
                 IN  IF e.out = "raised" THEN [done EXCEPT !.out = "raised"]
                     ELSE [out |-> "ok", bytes |-> done.bytes \o e.bytes,
                           sizes |-> (f.name :> Len(e.bytes)) @@ done.sizes]
        RawEdit(p) == IF p.name \in DOMAIN edits THEN edits[p.name].v ELSE p.raw
    IN  IF \A m \in ToSet(proto.messages) : m.name # msg.type
        THEN Encoded(FlattenSeq([i \in DOMAIN msg.fields |-> RawEdit(msg.fields[i])]))
        ELSE FoldLeft(Step, [out |-> "ok", bytes |-> <<>>, sizes |-> <<>>], msgdef.fields)

---------------------------------------------------------------------------
(* The inputs of the properties: a definition with one message, a frame,   *)
(* and a value for one of its fields.                                      *)
MessageOf(x) == x.proto.messages[1]
DecodedOf(x) == Decode(x.proto, "client_to_server", x.data, 0)
Consumed(msg) == FoldLeft(LAMBDA n, p : n + p.size, 0, msg.fields)
FieldNamed(x, name) == CHOOSE f \in ToSet(MessageOf(x).fields) : f.name = name

(* The parts of a message and the parts of its parts lie side by side: no  *)
(* byte is shown twice or skipped, and each shows the bytes it stands at.  *)
(* (Of definitions whose lengths do not come out negative.)                *)
RECURSIVE Tile(_, _, _)
Tile(data, off, parts) ==
    IF parts = <<>> THEN TRUE
    ELSE LET p == Head(parts) IN
         /\ p.off = off /\ p.raw = Slice(data, off, off + p.size) /\ Len(p.raw) = p.size
         /\ p.value.is = "list" =>
              /\ Tile(data, off, p.value.v)
              /\ p.size = FoldLeft(LAMBDA n, k : n + k.size, 0, p.value.v)
         /\ Tile(data, off + p.size, Tail(parts))
FieldsTile(x) ==
    LET msg == DecodedOf(x) IN
    (\A i \in DOMAIN msg.fields : msg.fields[i].size >= 0) => Tile(x.data, 0, msg.fields)

(* A field whose value says all about its bytes.                           *)
Scalar(f) == f.type \in {"uint", "bytes", "string"}
Simple(f, p) ==
    /\ Scalar(f)
    /\ f.type = "string" => \A i \in DOMAIN p.raw : p.raw[i] < 128
    /\ f.type = "string" /\ f.nul => f.len = NoLen /\ p.raw # <<>> /\ Last(p.raw) = 0

(* A frame that is taken apart and put together without an edit is the     *)
(* same frame, as far as its definition goes.                              *)
SimpleMessage(x, msg) ==
    msg.out = "ok" /\ \A i \in DOMAIN msg.fields : Simple(MessageOf(x).fields[i], msg.fields[i])
UntouchedSurvives(x) ==
    LET msg == DecodedOf(x)
        e == EncodeWithEdits(x.proto, msg, <<>>) IN
    SimpleMessage(x, msg) => e.out = "ok" /\ e.bytes = Slice(x.data, 0, Consumed(msg))

(* A field that may take any value of its type: nothing depends on it, or  *)
(* one length field that goes with it, or it is the rest of the frame.     *)
UsedBy(g) == {l.x : l \in {l \in {g.len} \cup (IF g.type = "array" THEN {g.count} ELSE {}) :
                           l.kind = "ref"}}
Users(x, name) == {g \in ToSet(MessageOf(x).fields) : name \in UsedBy(g)}
Free(x, f) ==
    \/ f.type = "uint" /\ Users(x, f.name) = {}
    \/ f.type \in {"bytes", "string"} /\ f.len = Lit(-1) /\ f = Last(MessageOf(x).fields)
    \/ f.type = "string" /\ f.nul /\ f.len = NoLen
    \/ f.type \in {"bytes", "string"} /\ f.len.kind = "ref" /\ f.len.k = 0
       /\ ~(f.type = "string" /\ f.nul) /\ Users(x, f.len.x) = {f}

(* An edited field arrives as it was edited and changes no other, but that *)
(* the length that goes with it follows.  (A length goes with a field only *)
(* if the field names it, and nothing but it: see below for the others.)   *)
EditArrives(x) ==
    LET msg == DecodedOf(x)
        f == FieldNamed(x, x.field)
        e == EncodeWithEdits(x.proto, msg, x.field :> x.value)
        again == Decode(x.proto, "client_to_server", e.bytes, 0)
    IN  SimpleMessage(x, msg) /\ Free(x, f) /\ e.out = "ok"
        => /\ again.out = "ok"
           /\ \A i \in DOMAIN msg.fields :
                LET p == msg.fields[i] IN
                again.fields[i].value =
                    IF p.name = f.name THEN x.value
                    ELSE IF f.len = Ref(p.name, 0) THEN Num(Consumed(again) - Consumed(msg) + p.value.v)
                    ELSE p.value

(* Whatever depends on it, an edit changes the bytes of its field, and of  *)
(* a length of which that field is the first that it alone gives the       *)
(* length of.  A length in a longer expression, or of a second field, goes *)
(* out as it was; and an edit of such a length itself is overruled.        *)
EditTouchesOneLength(x) ==
    LET msg == DecodedOf(x)
        fields == MessageOf(x).fields
        f == FieldNamed(x, x.field)
        e == EncodeWithEdits(x.proto, msg, x.field :> x.value)
        edited == EncodeField(f, x.value, <<>>, x.proto.order).bytes
        First(name, g) == LET users == SelectSeq(fields, LAMBDA h : h.len = Ref(name, 0)) IN
                          users # <<>> /\ Head(users) = g
        Part(i) == IF \E g \in ToSet(fields) : First(fields[i].name, g)
                   THEN IF First(fields[i].name, f) THEN Packed(Len(edited), fields[i].width, x.proto.order)
                        ELSE msg.fields[i].raw
                   ELSE IF fields[i] = f THEN edited ELSE msg.fields[i].raw
    IN  SimpleMessage(x, msg) /\ e.out = "ok"
        => e.bytes = FlattenSeq([i \in DOMAIN fields |-> Part(i)])

(* What engine.py:160 says, "When a length field references an edited      *)
(* variable-length field, the encoder automatically recomputes the length  *)
(* value", does not hold of a length such as {len - 1}.                    *)
EveryLengthFollows(x) ==
    LET msg == DecodedOf(x)
        f == FieldNamed(x, x.field)
        e == EncodeWithEdits(x.proto, msg, x.field :> x.value)
        again == Decode(x.proto, "client_to_server", e.bytes, 0)
    IN  SimpleMessage(x, msg) /\ f.len.kind = "ref" /\ e.out = "ok"
        => again.out = "ok" /\ \E p \in ToSet(again.fields) : p.name = f.name /\ p.value = x.value
============================================================================
