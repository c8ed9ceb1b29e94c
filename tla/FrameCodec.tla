----------------------------- MODULE FrameCodec -----------------------------
(***************************************************************************)
(* The two texts of a frame in the editors: HEX, a sequence of bytes and   *)
(* placeholders, and STR, a sequence of characters (code points) in which  *)
(* other bytes are escaped and placeholders stand as they are.  And the    *)
(* texts of a rule: the pattern and the replacement.                       *)
(***************************************************************************)
EXTENDS Integers, Sequences, SequencesExt, FiniteSetsExt

Byte(b) == [byte |-> b]
Var(name) == [var |-> name]
IsByte(tok) == "byte" \in DOMAIN tok
Fail == <<[fail |-> TRUE]>>      \* ValueError

Blank == 32
Backslash == 92
Open == 123
Close == 125
LowerX == 120

Escapes == (10 :> 110) @@ (13 :> 114) @@ (9 :> 116) @@ (0 :> 48) @@ (Backslash :> Backslash)
HexDigit(n) == IF n < 10 THEN 48 + n ELSE 87 + n
DigitsOf == [c \in {HexDigit(n) : n \in 0 .. 15} |-> CHOOSE n \in 0 .. 15 : HexDigit(n) = c]
Hex(b) == <<Backslash, LowerX, HexDigit(b \div 16), HexDigit(b % 16)>>

\* Slip: two braces that are bytes are written as braces.
ByteToStrBare(b, next) ==
    IF b \in DOMAIN Escapes THEN <<Backslash, Escapes[b]>> ELSE IF b \in 32 .. 126 THEN <<b>> ELSE Hex(b)
ByteToStr(b, next) ==
    IF b \in DOMAIN Escapes THEN <<Backslash, Escapes[b]>>
    ELSE IF b \in 32 .. 126 /\ ~(b = Open /\ next = Open) THEN <<b>>
    ELSE Hex(b)

(* What follows a byte counts only within a run of bytes.                  *)
NextByte(tokens, i) ==
    IF i < Len(tokens) /\ IsByte(tokens[i + 1]) THEN tokens[i + 1].byte ELSE -1
(* The text of HEX is split at its blanks, those in a placeholder too: a   *)
(* word is a byte if it is a number, and stands as it is if it is not.     *)
Rest(s, n) == SubSeq(s, n + 1, Len(s))
RECURSIVE Split(_)
Split(s) ==
    LET n == Min({i \in DOMAIN s : s[i] = Blank} \cup {Len(s) + 1}) IN
    IF s = <<>> THEN <<>> ELSE IF n = 1 THEN Split(Tail(s)) ELSE <<SubSeq(s, 1, n - 1)>> \o Split(Rest(s, n - 1))
Word(w) ==
    IF Len(w) <= 2 /\ ToSet(w) \subseteq DOMAIN DigitsOf
    THEN Byte(FoldLeft(LAMBDA n, c : 16 * n + DigitsOf[c], 0, w)) ELSE [text |-> w]
Words(tok) ==
    IF IsByte(tok) THEN <<tok>>
    ELSE LET s == Split(<<Open, Open>> \o tok.var \o <<Close, Close>>) IN [i \in DOMAIN s |-> Word(s[i])]
HexToStr(tokens) ==
    LET words == FlattenSeq([i \in DOMAIN tokens |-> Words(tokens[i])]) IN
    FlattenSeq([i \in DOMAIN words |->
        IF IsByte(words[i]) THEN ByteToStr(words[i].byte, NextByte(words, i)) ELSE words[i].text])

(* How many characters from i on are no brace.                             *)
RECURSIVE NameLength(_, _)
NameLength(s, i) == IF i > Len(s) \/ s[i] \in {Open, Close} THEN 0 ELSE 1 + NameLength(s, i + 1)

Starts(s, t) == Len(t) <= Len(s) /\ SubSeq(s, 1, Len(t)) = t
RECURSIVE StrToHex(_)
Then(tok, s) == LET more == StrToHex(s) IN IF more = Fail THEN Fail ELSE <<tok>> \o more
Placeholder(s) ==
    LET n == NameLength(s, 3) IN
    IF n > 0 /\ Starts(Rest(s, n + 2), <<Close, Close>>)
    THEN Then(Var(SubSeq(s, 3, n + 2)), Rest(s, n + 4)) ELSE Fail
(* Of the digits int() takes, those that the other direction writes.       *)
Escape(s) ==
    CASE Len(s) = 1 -> Fail
      [] Len(s) > 1 /\ s[2] \in {LowerX, 88} ->
           IF Len(s) >= 4 /\ {s[3], s[4]} \subseteq DOMAIN DigitsOf
           THEN Then(Byte(16 * DigitsOf[s[3]] + DigitsOf[s[4]]), Rest(s, 4)) ELSE Fail
      [] OTHER ->
           IF \E b \in DOMAIN Escapes : Escapes[b] = s[2]
           THEN Then(Byte(CHOOSE b \in DOMAIN Escapes : Escapes[b] = s[2]), Rest(s, 2)) ELSE Fail
StrToHex(s) ==
    IF s = <<>> THEN <<>>
    ELSE IF Starts(s, <<Open, Open>>) THEN Placeholder(s)
    ELSE IF s[1] = Backslash THEN Escape(s)
    ELSE Then(Byte(s[1]), Rest(s, 1))

StrToBytes(s) ==
    LET tokens == StrToHex(s) IN
    IF tokens = Fail \/ \E i \in DOMAIN tokens : ~IsByte(tokens[i]) THEN Fail ELSE tokens

---------------------------------------------------------------------------
(* A pattern is typed as a sequence of signs: bytes, ??, [..], (..), \xNN, *)
(* .{n,m}, the anchors, + and *, and spaces.  [..] holds bytes and dashes. *)
Sign(is) == [is |-> is]
Dash == Sign("-")
HexSign(b) == [is |-> "hex", byte |-> b]
EscapeSign(b) == [is |-> "\\x", byte |-> b]
Class(inner) == [is |-> "[", inner |-> inner]
Group(inner) == [is |-> "(", inner |-> inner]
Skip(low, high) == [is |-> ".", low |-> low, high |-> high]
Quantified == {"hex", "??", "[", "("}          \* what + or * may follow
IsQuantifier(sign) == sign.is \in {"+", "*"}

(* A token is a sign and the quantifier after it, if that comes next.      *)
\* Slip: a quantifier is not looked for behind a space.
NextSignAdjacent(s) == 1
NextSign(s) == Min({i \in DOMAIN s : s[i].is # "space"} \cup {Len(s) + 1})
Suffix(s) == IF NextSign(s) <= Len(s) /\ IsQuantifier(s[NextSign(s)]) THEN s[NextSign(s)].is ELSE ""
RECURSIVE Tokenize(_)
Tokenize(s) ==
    IF s = <<>> THEN <<>>
    ELSE IF s[1].is = "space" THEN Tokenize(Rest(s, 1))
    ELSE IF IsQuantifier(s[1]) THEN Fail       \* PatternError
    ELSE LET after == Rest(s, 1)
             suffix == IF s[1].is \in Quantified THEN Suffix(after) ELSE ""
             more == Tokenize(IF suffix = "" THEN after ELSE Rest(after, NextSign(after)))
         IN  IF more = Fail THEN Fail ELSE <<[sign |-> s[1], suffix |-> suffix]>> \o more

(* What a token stands for: from low to high bytes of a set.               *)
AnyByte == 0 .. 255
ClassSet(inner) ==
    IF Len(inner) = 3 /\ inner[2] = Dash THEN inner[1].byte .. inner[3].byte
    ELSE {c.byte : c \in {d \in ToSet(inner) : d # Dash}}
Endless == 9          \* more bytes than a frame of the runs has
TokenToRegex(tok) ==
    LET sign == tok.sign
        Run(set) == [bytes |-> set, low |-> IF tok.suffix = "*" THEN 0 ELSE 1,
                     high |-> IF tok.suffix = "" THEN 1 ELSE Endless]
    IN  CASE sign.is \in {"hex", "\\x"} -> Run({sign.byte})
          [] sign.is = "??" -> Run(AnyByte)
          [] sign.is = "[" -> Run(ClassSet(sign.inner))
          [] sign.is = "(" -> Run({sign.inner[i].byte : i \in DOMAIN sign.inner})
          [] sign.is = "." -> [bytes |-> AnyByte, low |-> sign.low, high |-> sign.high]
          [] OTHER -> [anchor |-> sign.is]
(* The regular expressions of the library: match at i, and search.         *)
RECURSIVE MatchesAt(_, _, _)
MatchesAt(regex, data, i) ==
    IF regex = <<>> THEN TRUE
    ELSE LET r == regex[1] IN
         IF "anchor" \in DOMAIN r
         THEN i = (IF r.anchor = "^" THEN 1 ELSE Len(data) + 1) /\ MatchesAt(Rest(regex, 1), data, i)
         ELSE \E n \in r.low .. Min({r.high, Len(data) + 1 - i}) :
                 (\A j \in i .. i + n - 1 : data[j] \in r.bytes) /\ MatchesAt(Rest(regex, 1), data, i + n)
Search(s, data) ==
    LET tokens == Tokenize(s) IN
    /\ tokens # Fail
    /\ \E i \in 1 .. Len(data) + 1 : MatchesAt([k \in DOMAIN tokens |-> TokenToRegex(tokens[k])], data, i)

(* The replacement of a regular expression, typed with escapes; and what   *)
(* the library makes of the template, of which a backslash at the end or   *)
(* before a letter it does not know is an error.                           *)
RECURSIVE DecodeReplacement(_)
DecodeReplacement(s) ==
    IF s = <<>> THEN <<>>
    ELSE IF s[1] # Backslash \/ Len(s) = 1 THEN <<s[1]>> \o DecodeReplacement(Rest(s, 1))
    ELSE IF s[2] = LowerX /\ Len(s) > 3 /\ {s[3], s[4]} \subseteq DOMAIN DigitsOf
    THEN <<16 * DigitsOf[s[3]] + DigitsOf[s[4]]>> \o DecodeReplacement(Rest(s, 4))
    ELSE (IF s[2] \in {110, 114, 116} THEN <<CHOOSE b \in {10, 13, 9} : Escapes[b] = s[2]>>
          ELSE <<Backslash, s[2]>>) \o DecodeReplacement(Rest(s, 2))
RECURSIVE Expand(_)
Expand(t) ==
    IF t = <<>> THEN <<>>
    ELSE IF t[1] # Backslash THEN <<t[1]>> \o Expand(Rest(t, 1))
    ELSE IF Len(t) > 1 /\ t[2] = Backslash THEN <<Backslash>> \o Expand(Rest(t, 2))
    ELSE <<-1>>

---------------------------------------------------------------------------
(* A frame shown as STR and saved is the frame it was, but that blanks in  *)
(* its placeholders vanish.  Only a byte "{" right before a placeholder    *)
(* cannot be saved (the editor then says so), and bytes without            *)
(* placeholders always can.  (Of placeholders of which no word between     *)
(* blanks is a hexadecimal number: that becomes a byte.)                   *)
ModesAgree(x) ==
    LET back == StrToHex(HexToStr(x.tokens))
        Unblanked == [i \in DOMAIN x.tokens |->
                        IF IsByte(x.tokens[i]) THEN x.tokens[i]
                        ELSE Var(SelectSeq(x.tokens[i].var, LAMBDA c : c # Blank))]
        BraceMeetsVar == \E i \in 1 .. Len(x.tokens) - 1 :
                            x.tokens[i] = Byte(Open) /\ ~IsByte(x.tokens[i + 1])
    IN  /\ back = IF BraceMeetsVar THEN Fail ELSE Unblanked
        /\ (\A i \in DOMAIN x.tokens : IsByte(x.tokens[i])) => StrToBytes(HexToStr(x.tokens)) = x.tokens

(* What frame_codec.py:74 says, "Placeholder tokens such as ``{{SESS_ID}}``*)
(* are passed through unchanged", does not hold of one with a blank.       *)
PlaceholdersPass(x) == StrToHex(HexToStr(x.tokens)) \in {Fail, x.tokens}

(* A pattern finds what its pieces say, one after the other, however they  *)
(* are spaced.  (A piece has what is typed and the bytes it stands for.)   *)
PatternFinds(x) ==
    LET typed == FlattenSeq([i \in DOMAIN x.pieces |-> x.pieces[i].typed])
        Fits(i, from, n) == /\ n \in x.pieces[i].low .. x.pieces[i].high /\ from + n <= Len(x.data)
                            /\ \A j \in from + 1 .. from + n : x.data[j] \in x.pieces[i].bytes
        Found(from, n) == /\ Fits(1, from, n[1]) /\ Fits(2, from + n[1], n[2])
                          /\ x.whole => from = 0 /\ n[1] + n[2] = Len(x.data)
    IN  Search(IF x.whole THEN <<Sign("^")>> \o typed \o <<Sign("$")>> ELSE typed, x.data)
        <=> \E from \in 0 .. Len(x.data), n \in [1 .. 2 -> 0 .. Len(x.data)] : Found(from, n)

(* A replacement is the bytes typed, as themselves or escaped; unless a    *)
(* backslash is typed by its number, which then escapes what follows.      *)
ReplacementIsTyped(x) ==
    LET Text(t) == IF t.by = "number" THEN Hex(t.byte)
                   ELSE IF t.byte \in {9, 10, 13, Backslash} THEN <<Backslash, Escapes[t.byte]>> ELSE <<t.byte>>
        result == Expand(DecodeReplacement(FlattenSeq([i \in DOMAIN x.typed |-> Text(x.typed[i])])))
    IN  [byte |-> Backslash, by |-> "number"] \in {x.typed[i] : i \in DOMAIN x.typed}
        \/ result = [i \in DOMAIN x.typed |-> x.typed[i].byte]
=============================================================================
