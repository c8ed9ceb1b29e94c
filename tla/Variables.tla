----------------------------- MODULE Variables -----------------------------
(***************************************************************************)
(* The {{VARIABLE:transform}} placeholders of a playbook's frames.  A      *)
(* frame is a sequence of tokens: a byte, or a placeholder.  A variable    *)
(* holds bytes.                                                            *)
(***************************************************************************)
EXTENDS Integers, Sequences, SequencesExt, FiniteSetsExt

Plain == [op |-> "none"]
Arith(op, width, order, arg) == [op |-> op, width |-> width, order |-> order, arg |-> arg]
XorEach(mask) == [op |-> "xor_each", mask |-> mask]
Script(result) == [op |-> "script", result |-> result]   \* what an expression returns
Byte(b) == [byte |-> b]
Var(name, t) == [name |-> name, t |-> t]

Fail == <<-1>>   \* ValueError, or struct.error: no bytes

(* Of the integers only what is in reach of the tool: the number as its    *)
(* bytes, most significant first, added and subtracted with the carry.     *)
BigEndian(s, order) == IF order = "le" THEN Reverse(s) ELSE s
Carry(s, n) == FoldRight(LAMBDA b, c : [out |-> <<(b + c.carry) % 256>> \o c.out,
                                         carry |-> (b + c.carry) \div 256],
                         s, [out |-> <<>>, carry |-> n]).out
BitOf(n, i) == (n \div 2 ^ i) % 2
Xor(a, b) == FoldLeft(LAMBDA n, i : n + 2 ^ i * ((BitOf(a, i) + BitOf(b, i)) % 2), 0,
                      <<0, 1, 2, 3, 4, 5, 6, 7>>)
Digit(n, i) == (n \div 256 ^ i) % 256
\* xor is not masked: an argument wider than the field does not fit (struct.error).
XorWide(s, n) ==
    IF n >= 256 ^ Len(s) \/ n < 0 THEN Fail
    ELSE [i \in DOMAIN s |-> Xor(s[i], Digit(n, Len(s) - i))]

\* Slip: a carry out of the lowest byte is lost.
IntTransformNoCarry(s, t) ==
    IF Len(s) # t.width THEN Fail
    ELSE LET low == IF t.order = "le" THEN 1 ELSE Len(s) IN
         CASE t.op = "add" -> [s EXCEPT ![low] = (@ + t.arg) % 256]
           [] t.op = "sub" -> [s EXCEPT ![low] = (@ - t.arg) % 256]
           [] t.op = "xor" -> [s EXCEPT ![low] = Xor(@, t.arg % 256)]
IntTransform(s, t) ==
    LET big == BigEndian(s, t.order)
        new == CASE t.op = "add" -> Carry(big, t.arg)
                 [] t.op = "sub" -> Carry(big, -t.arg)
                 [] t.op = "xor" -> XorWide(big, t.arg)
    IN  IF Len(s) # t.width \/ new = Fail THEN Fail ELSE BigEndian(new, t.order)

Apply(s, t) ==
    CASE t.op = "none" -> s
      [] t.op \in {"add", "sub", "xor"} -> IntTransform(s, t)
      [] t.op = "xor_each" -> [i \in DOMAIN s |-> Xor(s[i], t.mask)]
      [] t.op = "script" -> t.result

ResolvePlaceholder(p, vars) ==
    IF p.name \notin DOMAIN vars THEN Fail ELSE Apply(vars[p.name], p.t)

(* The bytes of a frame; one placeholder that fails fails the frame.       *)
Resolve(tokens, vars) ==
    LET Of(tok) == IF "byte" \in DOMAIN tok THEN <<tok.byte>> ELSE ResolvePlaceholder(tok, vars)
    IN  IF \E i \in DOMAIN tokens : Of(tokens[i]) = Fail THEN Fail
        ELSE FlattenSeq([i \in DOMAIN tokens |-> Of(tokens[i])])

---------------------------------------------------------------------------
(* A counter kept in a variable can be counted up and down again at every  *)
(* width and byte order, wraps round at its width, and the bytes around it *)
(* stay as they are written.  An xor applied twice leaves the variable.    *)
AsNumber(s, order) == FoldLeft(LAMBDA n, b : 256 * n + b, 0, BigEndian(s, order))
Undo(t) == IF t.op = "add" THEN [t EXCEPT !.op = "sub"]
           ELSE IF t.op = "sub" THEN [t EXCEPT !.op = "add"] ELSE t
CountersWrap(x) ==
    LET sent == Resolve(<<Byte(9), Var("v", x.t), Byte(9)>>, [v |-> x.value])
        new == SubSeq(sent, 2, Len(sent) - 1)
        modulus == 256 ^ Len(x.value) IN
    sent # Fail =>
    /\ sent[1] = 9 /\ Last(sent) = 9 /\ x.t.op # "script" => Len(new) = Len(x.value)
    /\ x.t.op \in {"add", "sub", "xor", "xor_each"} => Resolve(<<Var("v", Undo(x.t))>>, [v |-> new]) = x.value
    /\ x.t.op = "add" => AsNumber(new, x.t.order) = (AsNumber(x.value, x.t.order) + x.t.arg) % modulus
    /\ x.t.op = "sub" => AsNumber(new, x.t.order) = (AsNumber(x.value, x.t.order) - x.t.arg) % modulus
============================================================================
