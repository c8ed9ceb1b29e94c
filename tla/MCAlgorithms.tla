---------------------------- MODULE MCAlgorithms ----------------------------
(***************************************************************************)
(* The pure algorithms over bounded inputs.  A behaviour either feeds a    *)
(* framer, read after read, or is one case: an input of one algorithm.     *)
(***************************************************************************)
EXTENDS Framing, FiniteSets

S == INSTANCE Socks5
P == INSTANCE Protocol
F == INSTANCE FuzzMutators WITH
         Payloads <- {<<0, 0>>, <<255>>}, Overflows <- {3, 5},
         Boundaries <- [w \in {1, 2, 4, 8} |-> IF w = 1 THEN {0, 1, 127, 255} ELSE {0, 256, 65535}]
V == INSTANCE Variables
D == INSTANCE ProtocolSchema
A == INSTANCE Analysis
C == INSTANCE FrameCodec

VARIABLE case   \* the algorithm and its input; "framing" has its input in the steps
vars == <<fvars, case>>

MCFramers == {Raw, Script, Delimiter(<<1>>, TRUE, 3), Delimiter(<<1, 1>>, FALSE, 3),
              Delimiter(<<1, 2>>, TRUE, 4), Prefix(0, 1, 0, "big", 4), Prefix(1, 1, -1, "big", 4),
              Prefix(0, 2, 1, "little", 4)}
Upto(bytes, n) == UNION {[1 .. k -> bytes] : k \in 0 .. n}

---------------------------------------------------------------------------
Logins == {S!NoAuth, [user |-> <<7>>, pass |-> <<>>, on |-> TRUE], [user |-> <<7, 8>>, pass |-> <<9>>, on |-> TRUE]}
Addresses == [type : {3}, host : Upto({5}, 2), port : {0, 80, 65535}]
             \cup [type : {1}, host : {<<1, 2, 3, 4>>}, port : {255, 256}]
Handshakes == [methods : Upto({0, 2}, 2), auth : Logins,
               cred : {[user |-> <<7>>, pass |-> <<>>], [user |-> <<7, 8>>, pass |-> <<9>>]},
               addr : Addresses, early : {<<>>, <<5, 1>>}]

---------------------------------------------------------------------------
Proto(order, fields) ==
    [order |-> order, messages |-> <<P!Message("m", "both", P!Always, fields)>>]
Len1 == P!UInt("len", 1)
Definitions == {
    <<Len1, P!Octets("body", P!Ref("len", 0)), P!UInt("op", 1)>>,
    <<P!UInt("op", 1), P!UInt("len", 2), P!Text("name", P!Ref("len", 0), FALSE), P!Octets("rest", P!Lit(-1))>>,
    <<P!Text("name", P!NoLen, TRUE), Len1, P!Text("more", P!Ref("len", 0), FALSE)>>,
    <<Len1, P!Text("name", P!Ref("len", 0), TRUE), P!Octets("rest", P!Lit(-1))>>,
    <<Len1, P!Octets("body", P!Ref("len", 1)), P!Padding("pad", P!Lit(1))>>,
    <<Len1, P!Octets("body", P!Ref("len", 1)), P!UInt("op", 1)>>,
    <<Len1, P!Octets("first", P!Ref("len", 0)), P!Octets("second", P!Ref("len", 0))>>,
    <<P!UInt("count", 1), P!Array("items", P!Ref("count", 0), <<Len1, P!Octets("v", P!Ref("len", 0))>>)>>,
    <<Len1, P!Tlvs("tlvs", P!Ref("len", 0)), P!UInt("op", 1)>>,
    <<P!Bits("flags", P!NoLen), P!Octets("body", P!Ref("flags", 0)), P!Octets("unknown", P!Ref("nothing", 0))>>}
Data == Upto({0, 1, 2, 65}, 4) \cup {<<3, 65, 200, 66, 1>>, <<2, 3, 1, 0, 2, 9>>, <<0, 2, 0, 65, 66, 7>>}
Values(f) == CASE f.type = "uint" -> {P!Num(0), P!Num(5)}
               [] f.type = "bytes" -> {P!Raw(<<>>), P!Raw(<<1, 0, 9>>)}
               [] f.type = "string" -> {P!Str(<<>>), P!Str(<<66, 67, 68>>)}
               [] OTHER -> {}
Frames == [proto : {Proto(o, d) : o \in {"big", "little"}, d \in Definitions}, data : Data]
Edits == UNION {UNION {[proto : {p}, data : Data, field : {f.name}, value : Values(f)] :
                       f \in ToSet(p.messages[1].fields)} :
                p \in {Proto("big", d) : d \in Definitions}}
Chains == [kinds : UNION {[1 .. n -> {"flip", "insert", "delete", "bad", "radamsa"}] : n \in 1 .. 2},
           bytes : Upto({0, 255}, 2)]

---------------------------------------------------------------------------
Transforms == {V!Plain, V!XorEach(255), V!XorEach(6), V!Script(<<4>>), V!Script(V!Fail)}
              \cup {V!Arith(op, w, o, n) : op \in {"add", "sub", "xor"}, w \in {1, 2}, o \in {"le", "be"},
                                           n \in {0, 1, 255, 256, 511, 65537}}
Substitutions == [t : Transforms, value : Upto({0, 1, 255}, 2) \ {<<>>}]

\* Bytes that are escaped, braces, and placeholders without and with blanks.
Templates == [tokens : Upto({C!Byte(b) : b \in {0, 10, 65, 92, 120, 123, 125, 200}}
                            \cup {C!Var(<<86>>), C!Var(<<C!Blank, 86, C!Blank, C!Blank, 87>>)}, 4)]

\* Pieces of a pattern: what is typed, and how many bytes of which set it stands for.
Piece(typed, bytes, low, high) == [typed |-> typed, bytes |-> bytes, low |-> low, high |-> high]
Space == C!Sign("space")
Pieces == {Piece(<<C!HexSign(1)>>, {1}, 1, 1), Piece(<<Space, C!HexSign(1), C!Sign("+")>>, {1}, 1, 9),
           Piece(<<C!HexSign(2), Space, Space, C!Sign("*"), Space>>, {2}, 0, 9), Piece(<<C!EscapeSign(2)>>, {2}, 1, 1),
           Piece(<<C!Sign("??"), Space>>, C!AnyByte, 1, 1), Piece(<<C!Skip(1, 2)>>, C!AnyByte, 1, 2),
           Piece(<<C!Class(<<C!Byte(1), C!Dash, C!Byte(2)>>), Space, C!Sign("+")>>, {1, 2}, 1, 9),
           Piece(<<C!Class(<<C!Byte(0), C!Byte(2)>>)>>, {0, 2}, 1, 1),
           Piece(<<C!Group(<<C!Byte(0), C!Byte(1)>>), C!Sign("*")>>, {0, 1}, 0, 9)}
Patterns == [pieces : [1 .. 2 -> Pieces], data : Upto({0, 1, 2}, 3), whole : BOOLEAN]
Replacements == [typed : Upto([byte : {0, 10, 65, 92, 110, 120}, by : {"number", "itself"}], 3)]

---------------------------------------------------------------------------
\* A document has some of its keys: each optional key with a value, or not at all.
With(d, key, values) == {d} \cup {(key :> v) @@ d : v \in values}
Opt(docs, key, values) == UNION {With(d, key, values) : d \in docs}
Tags == {<<>>, 1 :> [name |-> "t", value_type |-> "odd"], 1 :> [name |-> "t", encoding |-> "ascii", display |-> "hex"],
         1 :> [display |-> "hex"]}
TlvDocs == Opt(Opt({<<>>}, "tags", Tags), "type_size", {2, 3})
Simple == Opt(Opt(Opt({[name |-> "f"]}, "type", {"uint8", "odd"}), "length", {"4", "{n}"}), "display", {"hex", "odd"})
FieldDocs == Opt(Opt(Simple, "enum", {1 :> "one"}), "encoding", {"ascii"})
             \cup Opt({[name |-> "s", type |-> "string"]}, "null_terminated", {TRUE, FALSE})
             \cup Opt({[name |-> "t", type |-> "tlv_sequence"]}, "tlv", TlvDocs)
             \cup Opt({[name |-> "a", type |-> "array"]}, "array", [count : {"2"}, item : {<<d>> : d \in Simple}])
             \cup Opt({[name |-> "b", type |-> "bitfield"]}, "bits", {0 :> "ack"})
             \cup {[type |-> "bytes"]}
MatchDocs == {[type |-> "always"], [type |-> "magic"], [type |-> "magic", value |-> <<1, 2>>],
              [type |-> "magic", offset |-> 3, value |-> <<1>>], [type |-> "sequence", index |-> 2],
              [type |-> "sequence", direction |-> "s2c"], [type |-> "sequence", direction |-> "up"]}
MessageDocs == Opt(Opt({[name |-> "m"]}, "direction", {"c2s"}), "match", MatchDocs)
Documents ==
    UNION {Opt(Opt({[name |-> "p", messages |-> <<(("fields" :> <<f>>) @@ m)>>] : f \in FieldDocs},
               "endianness", {"little", "middle"}), "version", {"2"}) : m \in MessageDocs}

---------------------------------------------------------------------------
Msg(dir, b) == [dir |-> dir, bytes |-> b]
Pages == [frames : {<<Msg("c", <<1>>), Msg("s", <<1, 2>>), Msg("c", <<2, 1, 1>>), Msg("s", <<1, 2>>)>>},
          query : [dir : {"any", "c", "s"}, sizes : {1 .. 3, {2}}, patterns : {{}, {[at |-> 0, bytes |-> <<1>>]}}],
          ranges : {<<[at |-> 0, len |-> 1]>>, <<[at |-> 1, len |-> 1], [at |-> 0, len |-> 1]>>},
          limit : 1 .. 5]
Pairs == [a : Upto({1, 2}, 4), b : Upto({1, 2}, 4)]
Triplets == [frames : [1 .. 3 -> Upto({1, 2}, 3)], max : {20}, size : {512}]
            \cup [frames : [1 .. 3 -> Upto({1, 2}, 3)], max : {2}, size : {2}]
Bodies == [1 .. 2 -> Upto({1, 9}, 2)]
Header(n, order, body) ==
    IF order = "big" THEN <<n, 0, Len(body)>> \o body ELSE <<n, Len(body), 0>> \o body
Planted ==
    LET Rec(tag, b) == <<tag, Len(b)>> \o b
        TheSum(alg, b) == LET c == A!Checksum(alg, b) IN
                          IF A!Width(alg) = 1 THEN <<c>> ELSE <<c \div 256, c % 256>>
    IN  {[length |-> [at |-> 1, width |-> 2, order |-> o],
          framed |-> [i \in 1 .. 2 |-> Header(7, o, b[i])],
          shape |-> [tag |-> 1, width |-> 1, order |-> "big", whole |-> FALSE],
          chain |-> IF o = "big" THEN 64 ELSE 65,
          records |-> [i \in 1 .. 2 |-> Rec(4, b[i]) \o Rec(5, b[3 - i])],
          sum |-> [at |-> 0, algorithm |-> alg, order |-> "big"],
          summed |-> [i \in 1 .. 2 |-> TheSum(alg, b[i]) \o b[i]],
          marker |-> <<3, 4>>, marked |-> [i \in 1 .. 2 |-> b[i] \o <<3, 4>> \o b[3 - i]],
          echo |-> [dir |-> "c", src |-> Len(b[1]), dst |-> 1, width |-> 2],
          echoed |-> <<Msg("c", b[1] \o <<3, 4>>), Msg("c", b[2]), Msg("s", <<8, 3, 4>> \o b[2])>>] :
         o \in {"big", "little"}, alg \in {"sum8", "sum16", "xor8", "fletcher16"}, b \in Bodies}

\* Three frames or four, of which the first three may make a bucket.
Timed(bs) == [i \in DOMAIN bs |-> [dir |-> IF i = 2 THEN "s" ELSE "c", bytes |-> bs[i], time |-> 2 * i]]
Captures == [frames : {Timed(<<a, b, c>>) : a, b, c \in {<<>>, <<1>>, <<1, 2>>, <<1, 128>>, <<255, 2>>}}
                      \cup {Timed(<<<<1, a>>, <<1, b>>, <<1, c>>, <<2>>>>) : a, b, c \in {0, 1, 200}},
             prefix : {0, 1}, at : {0, 1},
             encoding : {A!Encoding(1, TRUE, "big"), A!Encoding(2, FALSE, "little"), A!Encoding(2, TRUE, "big")}]
Streams == [count : 3 .. 8, from : {0, 120}, interval : {1, 7}, least : {3, 6}, mixed : BOOLEAN]
Filters == [mode : {"show", "hide"}, dir : {"any", "c"}, pattern : {<<>>, <<1>>}, enabled : BOOLEAN]
Filterings == [one : Filters, two : Filters, frame : [dir : {"c", "s"}, bytes : {<<>>, <<2, 1>>}]]

---------------------------------------------------------------------------
Case(name, x) == framer = Raw /\ case = [of |-> name, x |-> x]
Init ==
    /\ FramingInit
    /\ \/ case = [of |-> "framing", x |-> <<>>]
       \/ \E x \in Handshakes : Case("handshake", x)
       \/ \E x \in Frames : Case("frame", x)
       \/ \E x \in Edits : Case("edit", x)
       \/ \E x \in Chains : Case("chain", x)
       \/ \E x \in Substitutions : Case("variable", x)
       \/ \E x \in Templates : Case("template", x)
       \/ \E x \in Patterns : Case("pattern", x)
       \/ \E x \in Replacements : Case("replacement", x)
       \/ \E x \in Documents : Case("document", x)
       \/ \E x \in Pages : Case("pages", x)
       \/ \E x \in Pairs : Case("pair", x)
       \/ \E x \in Triplets : Case("align", x)
       \/ \E x \in Planted : Case("planted", x)
       \/ \E x \in Captures : Case("capture", x)
       \/ \E x \in Streams : Case("streams", x)
       \/ \E x \in Filterings : Case("filters", x)
Next == case.of = "framing" /\ FramingNext /\ UNCHANGED case
Spec == Init /\ [][Next]_vars

\* Each property holds of all inputs of its algorithms, with which it is stated.
(* Framing and Socks5: of a stream, cut anywhere, every byte is in one     *)
(* frame and every frame a message, and the handshake before it takes its  *)
(* own bytes and no others.                                                *)
StreamsAreWhole == /\ NoByteLost /\ FramesAreMessages
                   /\ case.of = "handshake" => S!HandshakeIsExact(case.x)
(* Protocol: the fields shown lie side by side, a frame put together       *)
(* without an edit is the same frame, and an edited value arrives with the *)
(* length that is its own, while nothing else is touched: not a length     *)
(* that is computed from more than the name of its field either.           *)
FieldsAreFaithful ==
    /\ case.of = "frame" => P!FieldsTile(case.x) /\ P!UntouchedSurvives(case.x)
    /\ case.of = "edit" => P!EditArrives(case.x) /\ P!EditTouchesOneLength(case.x)
(* FuzzMutators and Variables: mutated fields stay framed, mutated bytes   *)
(* never are none, and the counters in placeholders wrap and can be undone.*)
GeneratedDataFits ==
    /\ case.of = "frame" => F!FieldMutantsReachTheParser(case.x)
    /\ case.of = "chain" => F!ChainsKeepAByte(case.x)
    /\ case.of = "variable" => V!CountersWrap(case.x)
(* FrameCodec and ProtocolSchema: a frame shown as text and saved, but for *)
(* the blanks in its placeholders, and a definition handed out and read    *)
(* back, is the one it was; the pattern and the replacement of a rule mean *)
(* what was typed.                                                         *)
ConversionsInvert ==
    /\ case.of = "template" => C!ModesAgree(case.x)
    /\ case.of = "pattern" => C!PatternFinds(case.x)
    /\ case.of = "replacement" => C!ReplacementIsTyped(case.x)
    /\ case.of = "document" => D!DefinitionSurvives(case.x)
(* Analysis: pages cover the frames, diffs patch one frame to the other,   *)
(* alignment keeps every frame, what is planted is detected, the tools     *)
(* agree on what a capture holds, and filters show what they do not hide.  *)
AnalysisIsExact ==
    /\ case.of = "pages" => A!PagesCover(case.x)
    /\ case.of = "pair" => A!DiffsPatch(case.x)
    /\ case.of = "align" => A!AlignmentKeepsFrames(case.x)
    /\ case.of = "planted" => A!DetectorsFind(case.x)
    /\ case.of = "capture" => A!SeriesAgree(case.x)
    /\ case.of = "streams" => A!StreamsFound(case.x)
    /\ case.of = "filters" => A!FiltersComplement(case.x)
=============================================================================
