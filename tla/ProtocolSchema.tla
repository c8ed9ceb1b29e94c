--------------------------- MODULE ProtocolSchema ---------------------------
(***************************************************************************)
(* Protocol definitions as documents: load_protocol reads a document into  *)
(* a definition, protocol_to_dict writes a definition as a document.  A    *)
(* document is a function of the keys it has.                              *)
(***************************************************************************)
EXTENDS Integers, Sequences, SequencesExt, FiniteSets

Bad == [bad |-> TRUE]                          \* ValueError
IsBad(v) == "bad" \in DOMAIN v
AnyBad(s) == \E i \in DOMAIN s : IsBad(s[i])

Get(d, key, default) == IF key \in DOMAIN d THEN d[key] ELSE default
OneOf(v, allowed, default) == IF v \in allowed THEN v ELSE default
When(ok, key, v) == IF ok THEN key :> v ELSE <<>>

Types == {"uint8", "bytes", "string", "array", "tlv_sequence", "bitfield"}
Displays == {"auto", "hex"}
Directions == {"both", "client_to_server", "server_to_client"}
Long(dir) == CASE dir = "c2s" -> "client_to_server" [] dir = "s2c" -> "server_to_client" [] OTHER -> dir

---------------------------------------------------------------------------
(* Loading.                                                                *)
LoadTag(d) ==
    IF "name" \notin DOMAIN d THEN Bad
    ELSE [name |-> d.name, value_type |-> OneOf(Get(d, "value_type", "bytes"), Types, "bytes"),
          encoding |-> Get(d, "encoding", "utf8"),
          display |-> OneOf(Get(d, "display", "auto"), Displays, "auto")]
LoadTlv(d) ==
    LET tags == Get(d, "tags", <<>>)
        t == [type_size |-> Get(d, "type_size", 1), length_size |-> Get(d, "length_size", 2),
              endianness |-> Get(d, "endianness", "big"),
              tags |-> [k \in DOMAIN tags |-> LoadTag(tags[k])]]
    IN  IF {t.type_size, t.length_size} \subseteq {1, 2, 4} /\ ~AnyBad(t.tags) THEN t ELSE Bad

RECURSIVE LoadField(_)
LoadArray(d) ==
    LET item == [i \in DOMAIN Get(d, "item", <<>>) |-> LoadField(d["item"][i])] IN
    IF "count" \notin DOMAIN d \/ AnyBad(item) THEN Bad ELSE [count |-> d["count"], item |-> item]
LoadField(d) ==
    LET type == Get(d, "type", "bytes")
        f == [name |-> Get(d, "name", ""), type |-> type, length |-> Get(d, "length", "none"),
              null_terminated |-> Get(d, "null_terminated", FALSE),
              encoding |-> Get(d, "encoding", "utf8"),
              display |-> OneOf(Get(d, "display", "auto"), Displays, "auto"),
              enum |-> Get(d, "enum", <<>>),
              tlv |-> IF type = "tlv_sequence" THEN LoadTlv(Get(d, "tlv", <<>>)) ELSE <<>>,
              array |-> IF type # "array" THEN <<>>
                        ELSE IF "array" \in DOMAIN d THEN LoadArray(d["array"]) ELSE Bad,
              bits |-> IF type = "bitfield" THEN Get(d, "bits", <<>>) ELSE <<>>]
    IN  IF "name" \notin DOMAIN d \/ type \notin Types \/ IsBad(f.tlv) \/ IsBad(f.array) THEN Bad ELSE f

LoadMatch(d) ==
    LET type == Get(d, "type", "always")
        dir == Long(Get(d, "direction", "both")) IN
    CASE type = "always" -> [type |-> "always", offset |-> 0, value |-> <<>>, direction |-> "both", index |-> 0]
      [] type = "magic" /\ "value" \in DOMAIN d ->
           [type |-> "magic", offset |-> Get(d, "offset", 0), value |-> d["value"],
            direction |-> "both", index |-> 0]
      [] type = "sequence" /\ dir \in Directions ->
           [type |-> "sequence", offset |-> 0, value |-> <<>>, direction |-> dir,
            index |-> Get(d, "index", 0)]
      [] OTHER -> Bad
LoadMessage(d) ==
    LET m == [name |-> Get(d, "name", ""), description |-> Get(d, "description", ""),
              direction |-> Long(Get(d, "direction", "both")),
              match |-> LoadMatch(Get(d, "match", <<>>)),
              fields |-> [i \in DOMAIN Get(d, "fields", <<>>) |-> LoadField(d["fields"][i])]]
    IN  IF "name" \notin DOMAIN d \/ m.direction \notin Directions \/ IsBad(m.match) \/ AnyBad(m.fields)
        THEN Bad ELSE m
Load(d) ==
    LET p == [name |-> Get(d, "name", ""), version |-> Get(d, "version", "1.0"),
              endianness |-> Get(d, "endianness", "big"),
              messages |-> [i \in DOMAIN Get(d, "messages", <<>>) |-> LoadMessage(d["messages"][i])]]
    IN  IF "name" \notin DOMAIN d \/ p.endianness \notin {"big", "little"} \/ AnyBad(p.messages)
        THEN Bad ELSE p

---------------------------------------------------------------------------
(* Dumping: what has its default is left out.                              *)
DumpTag(t) ==
    ("name" :> t.name) @@ ("value_type" :> t.value_type)
    @@ When(t.encoding # "utf8", "encoding", t.encoding) @@ When(t.display # "auto", "display", t.display)
DumpTlv(t) == [t EXCEPT !.tags = [k \in DOMAIN @ |-> DumpTag(@[k])]]
RECURSIVE DumpField(_)
DumpFields(fields) == [i \in DOMAIN fields |-> DumpField(fields[i])]
DumpArray(a) == ("count" :> a.count) @@ ("item" :> DumpFields(a.item))
DumpField(f) ==
    ("name" :> f.name) @@ ("type" :> f.type)
    @@ When(f.length # "none", "length", f.length)
    @@ When(f.null_terminated, "null_terminated", TRUE)
    @@ When(f.encoding # "utf8", "encoding", f.encoding)
    @@ When(f.display # "auto", "display", f.display)
    @@ When(f.enum # <<>>, "enum", f.enum)
    @@ When(f.tlv # <<>>, "tlv", DumpTlv(f.tlv))
    @@ When(f.array # <<>>, "array", DumpArray(f.array))
    @@ When(f.type = "bitfield", "bits", f.bits)
DumpMatch(m) ==
    CASE m.type = "magic" -> ("type" :> "magic") @@ ("offset" :> m.offset) @@ ("value" :> m.value)
      [] m.type = "sequence" -> ("type" :> "sequence") @@ ("direction" :> m.direction) @@ ("index" :> m.index)
      [] m.type = "always" -> "type" :> "always"
DumpMessage(m) ==
    ("name" :> m.name) @@ ("direction" :> m.direction) @@ ("match" :> DumpMatch(m.match))
    @@ ("fields" :> DumpFields(m.fields)) @@ When(m.description # "", "description", m.description)
\* Slip: the byte order is left out, as every other default is.
DumpNoOrder(p) ==
    ("name" :> p.name) @@ ("version" :> p.version)
    @@ ("messages" :> [i \in DOMAIN p.messages |-> DumpMessage(p.messages[i])])
Dump(p) ==
    ("name" :> p.name) @@ ("version" :> p.version) @@ ("endianness" :> p.endianness)
    @@ ("messages" :> [i \in DOMAIN p.messages |-> DumpMessage(p.messages[i])])

---------------------------------------------------------------------------
(* A definition that is handed out as a document and loaded again is the   *)
(* same definition: a protocol exported for an AI client and given back    *)
(* reads every frame as before.                                            *)
DefinitionSurvives(doc) ==
    LET p == Load(doc) IN ~IsBad(p) => Load(Dump(p)) = p
=============================================================================
