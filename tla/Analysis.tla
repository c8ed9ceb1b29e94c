------------------------------ MODULE Analysis ------------------------------
(***************************************************************************)
(* The traffic analysis an AI client asks for: pure functions of captured  *)
(* frames.  A frame is a sequence of bytes, with its direction where that  *)
(* matters.                                                                *)
(***************************************************************************)
EXTENDS Integers, Sequences, SequencesExt, FiniteSetsExt

Slice(s, a, b) == SubSeq(s, a + 1, Min({b, Len(s)}))   \* data[a:b] for 0 <= a <= b
At(s, sub, i) == i + Len(sub) <= Len(s) /\ Slice(s, i, i + Len(sub)) = sub
Within(sub, s) == \E i \in 0 .. Len(s) : At(s, sub, i)
Number(s, order) == FoldLeft(LAMBDA n, b : 256 * n + b, 0, IF order = "big" THEN s ELSE Reverse(s))
Sizes(frames) == {Len(frames[i]) : i \in DOMAIN frames}
Count(frames, P(_)) == Cardinality({i \in DOMAIN frames : P(frames[i])})

---------------------------------------------------------------------------
(* Choosing frames, and giving them out page by page.                      *)
SelectFrames(frames, q) ==
    SelectSeq(frames, LAMBDA f :
        /\ q.dir \in {"any", f.dir} /\ Len(f.bytes) \in q.sizes
        /\ \A p \in q.patterns : p.at >= 0 /\ At(f.bytes, p.bytes, p.at))

\* Slip: the next page begins behind the first item it should have.
PaginateSkips(items, limit, cursor) ==
    LET end == cursor + limit IN
    [page |-> Slice(items, cursor, end), next |-> IF end < Len(items) THEN end + 1 ELSE -1]
Paginate(items, limit, cursor) ==
    LET from == Max({cursor, 0})
        end == from + Max({0, limit}) IN
    [page |-> Slice(items, from, end), next |-> IF end < Len(items) THEN end ELSE -1]

GroupByFieldValue(frames, ranges, max) ==
    LET Whole(f) == \A r \in ToSet(ranges) : r.at + r.len <= Len(f.bytes)
        Key(f) == FlattenSeq([i \in DOMAIN ranges |->
                              Slice(f.bytes, ranges[i].at, ranges[i].at + ranges[i].len)])
        used == SelectSeq(frames, Whole)
        Group(k) == SelectSeq(used, LAMBDA f : Key(f) = k)
    IN  [skipped |-> Len(frames) - Len(used),
         counts |-> [k \in {Key(used[i]) : i \in DOMAIN used} |-> Len(Group(k))],
         groups |-> [k \in {Key(used[i]) : i \in DOMAIN used} |-> Slice(Group(k), 0, max)]]

RECURSIVE AllPages(_, _, _)
AllPages(items, limit, cursor) ==
    LET p == Paginate(items, limit, cursor) IN
    IF p.next = -1 THEN p.page ELSE p.page \o AllPages(items, limit, p.next)
(* A client that follows the cursor sees every selected frame once and in  *)
(* order; and grouped by a field, every frame is in one group or skipped.  *)
PagesCover(x) ==
    LET chosen == SelectFrames(x.frames, x.query)
        g == GroupByFieldValue(chosen, x.ranges, x.limit) IN
    /\ AllPages(chosen, x.limit, 0) = chosen
    /\ x.limit >= Len(chosen)
       => UNION {ToSet(g.groups[k]) : k \in DOMAIN g.groups}
          = {f \in ToSet(chosen) : \A r \in ToSet(x.ranges) : Len(f.bytes) >= r.at + r.len}
    /\ g.skipped + FoldLeft(LAMBDA n, k : n + g.counts[k], 0, SetToSeq(DOMAIN g.counts)) = Len(chosen)

---------------------------------------------------------------------------
(* Two frames side by side: the runs of offsets at which they differ.  Of  *)
(* the longer one, what the shorter one lacks differs.                     *)
Longest(a, b) == Max({Len(a), Len(b)})
Value(s, i) == IF i < Len(s) THEN s[i + 1] ELSE -1
Run(from, to) == [from |-> from, to |-> to]
\* Slip: a run that reaches the end of the frames is not closed.
DifferencesOpen(a, b) ==
    FoldLeft(LAMBDA r, i : IF Value(a, i) # Value(b, i)
                           THEN [r EXCEPT !.start = IF @ = -1 THEN i ELSE @]
                           ELSE IF r.start = -1 THEN r
                           ELSE [start |-> -1, out |-> Append(r.out, Run(r.start, i))],
             [start |-> -1, out |-> <<>>], [k \in 1 .. Longest(a, b) |-> k - 1]).out
Differences(a, b) ==
    LET n == Longest(a, b)
        s == FoldLeft(LAMBDA r, i : IF Value(a, i) # Value(b, i)
                                    THEN [r EXCEPT !.start = IF @ = -1 THEN i ELSE @]
                                    ELSE IF r.start = -1 THEN r
                                    ELSE [start |-> -1, out |-> Append(r.out, Run(r.start, i))],
                      [start |-> -1, out |-> <<>>], [k \in 1 .. n |-> k - 1])
    IN  IF s.start = -1 THEN s.out ELSE Append(s.out, Run(s.start, n))

CommonPrefix(a, b) == Max({n \in 0 .. Min({Len(a), Len(b)}) : Slice(a, 0, n) = Slice(b, 0, n)})
CommonSuffix(a, b) ==
    Max({n \in 0 .. Min({Len(a), Len(b)}) - CommonPrefix(a, b) :
            Slice(a, Len(a) - n, Len(a)) = Slice(b, Len(b) - n, Len(b))})
DifferingBytes(a, b) == {i \in 0 .. Longest(a, b) - 1 : Value(a, i) # Value(b, i)}
DiffBucket(frames) ==
    IF Cardinality(Sizes(frames)) # 1 THEN {}
    ELSE {i \in 0 .. Len(frames[1]) - 1 : Cardinality({frames[k][i + 1] : k \in DOMAIN frames}) > 1}

(* What is shown of two frames is enough to make one from the other: the   *)
(* first with each run replaced is the second, and so is the first with    *)
(* what lies between their common ends replaced.  The other two tools show *)
(* the same offsets.                                                       *)
DiffsPatch(x) ==
    LET runs == Differences(x.a, x.b)
        p == CommonPrefix(x.a, x.b)
        s == CommonSuffix(x.a, x.b)
        Patched == FoldRight(LAMBDA r, t : Slice(t, 0, r.from) \o Slice(x.b, r.from, r.to)
                                           \o Slice(t, r.to, Len(t)), runs, x.a)
    IN  /\ Slice(Patched, 0, Len(x.b)) = x.b
        /\ Slice(x.a, 0, p) \o Slice(x.b, p, Len(x.b) - s) \o Slice(x.a, Len(x.a) - s, Len(x.a)) = x.b
        /\ DifferingBytes(x.a, x.b) = UNION {r.from .. r.to - 1 : r \in ToSet(runs)}
        /\ Len(x.a) = Len(x.b) => DiffBucket(<<x.a, x.b>>) = DifferingBytes(x.a, x.b)

---------------------------------------------------------------------------
(* Alignment: each frame in turn is aligned with the first, and the rows   *)
(* so far are stretched where it needs room.  A column has a byte or a gap *)
(* of each row; the first row is the anchor.                               *)
Gap == -1
NeedlemanWunsch(a, b) ==
    LET Same(i, j) == IF a[i] = b[j] THEN 1 ELSE -1
        H[p \in (0 .. Len(a)) \X (0 .. Len(b))] ==
            IF p[1] = 0 \/ p[2] = 0 THEN -2 * (p[1] + p[2])
            ELSE Max({H[<<p[1] - 1, p[2] - 1>>] + Same(p[1], p[2]),
                      H[<<p[1] - 1, p[2]>>] - 2, H[<<p[1], p[2] - 1>>] - 2})
        Back[p \in (0 .. Len(a)) \X (0 .. Len(b))] ==
            LET i == p[1]
                j == p[2] IN
            IF i = 0 /\ j = 0 THEN <<>>
            ELSE IF i > 0 /\ j > 0 /\ H[p] = H[<<i - 1, j - 1>>] + Same(i, j)
            THEN Append(Back[<<i - 1, j - 1>>], <<a[i], b[j]>>)
            ELSE IF i > 0 /\ (j = 0 \/ H[p] = H[<<i - 1, j>>] - 2)
            THEN Append(Back[<<i - 1, j>>], <<a[i], Gap>>)
            ELSE Append(Back[<<i, j - 1>>], <<Gap, b[j]>>)
    IN  Back[<<Len(a), Len(b)>>]

\* Slip: the new frame gets no gap in the columns it has nothing for.
UnmatchedFlat(cols, from, to) == [k \in 1 .. to - from |-> cols[from + k]]
\* The columns that nothing of the new frame is aligned with.
Unmatched(cols, from, to) == [k \in 1 .. to - from |-> Append(cols[from + k], Gap)]
AlignAndMerge(rows, cols, seq) ==
    LET at == SelectSeq([k \in DOMAIN cols |-> k], LAMBDA k : cols[k][1] # Gap)
        pairs == NeedlemanWunsch([k \in DOMAIN at |-> cols[at[k]][1]], seq)
        Upto(st, target) == [st EXCEPT !.out = @ \o Unmatched(cols, st.prev, target), !.prev = target]
        Step(st, p) ==
            LET next == IF st.comp < Len(at) THEN at[st.comp + 1] - 1 ELSE Len(cols)
                up == Upto(st, next) IN
            IF p[1] = Gap
            THEN [up EXCEPT !.out = Append(@, Append([r \in 1 .. rows |-> Gap], p[2]))]
            ELSE [up EXCEPT !.out = Append(@, Append(cols[next + 1], p[2])),
                            !.prev = next + 1, !.comp = @ + 1]
        all == FoldLeft(Step, [out |-> <<>>, prev |-> 0, comp |-> 0], pairs)
    IN  Upto(all, Len(cols)).out

(* The first max frames, of each the first size bytes.                     *)
Trimmed(frames, max, size) == [i \in 1 .. Min({max, Len(frames)}) |-> Slice(frames[i], 0, size)]
Aligned(frames, max, size) ==
    LET used == Trimmed(frames, max, size) IN
    FoldLeft(LAMBDA cols, i : AlignAndMerge(i, cols, used[i + 1]),
             [k \in DOMAIN used[1] |-> <<used[1][k]>>], [i \in 1 .. Len(used) - 1 |-> i])

Kind(col) == IF \E r \in DOMAIN col : col[r] = Gap THEN "gap"
             ELSE IF \E r \in DOMAIN col : col[r] # col[1] THEN "differ" ELSE "same"
VariableRegions(cols) ==
    {r \in [from : 1 .. Len(cols), to : 1 .. Len(cols)] :
        /\ r.from <= r.to /\ Kind(cols[r.from]) # "same"
        /\ \A k \in r.from .. r.to : Kind(cols[k]) = Kind(cols[r.from])
        /\ r.from > 1 => Kind(cols[r.from - 1]) # Kind(cols[r.from])
        /\ r.to < Len(cols) => Kind(cols[r.to + 1]) # Kind(cols[r.to])}

(* Of the frames taken in (20 of them, 512 bytes each, unless the client   *)
(* asks otherwise), a row with its gaps taken out is its frame, every row  *)
(* has a cell in every column, no column is all gaps, and the bytes        *)
(* outside the variable regions are those all of them share.               *)
AlignmentKeepsFrames(x) ==
    LET cols == Aligned(x.frames, x.max, x.size)
        used == Trimmed(x.frames, x.max, x.size)
        Row(r) == [k \in DOMAIN cols |-> cols[k][r]]
        variable == UNION {r.from .. r.to : r \in VariableRegions(cols)} IN
    /\ \A k \in DOMAIN cols : Len(cols[k]) = Len(used) /\ ToSet(cols[k]) # {Gap}
    /\ \A r \in DOMAIN used : SelectSeq(Row(r), LAMBDA b : b # Gap) = used[r]
    /\ \A k \in DOMAIN cols : k \notin variable <=> Cardinality(ToSet(cols[k])) = 1

---------------------------------------------------------------------------
(* Detectors.  A candidate is reported with what a reader needs to use it. *)
(* These are all candidates: the tools sort them and keep the first ten or *)
(* twenty (max_results).                                                   *)
LengthFields(frames) ==
    {c \in [at : 0 .. Min(Sizes(frames)) - 1, width : {1, 2}, order : {"big", "little"}] :
        /\ c.at + c.width <= Min(Sizes(frames))
        /\ c.width = 1 => c.order = "little"
        /\ Len(frames) >= 2
        /\ Cardinality({Len(frames[i]) - Number(Slice(frames[i], c.at, c.at + c.width), c.order) :
                        i \in DOMAIN frames}) = 1}

\* The ends of the first max records of a walk, with -1 when it runs over the frame.
RECURSIVE TlvWalk(_, _, _, _)
TlvWalk(s, pos, shape, max) ==
    LET header == shape.tag + shape.width
        stored == Number(Slice(s, pos + shape.tag, pos + header), shape.order)
        n == IF shape.whole THEN stored - header ELSE stored
        end == pos + header + n IN
    IF pos >= Len(s) \/ max = 0 THEN <<>>
    ELSE IF pos + header > Len(s) \/ n < 0 \/ end > Len(s) THEN <<-1>>
    ELSE <<end>> \o TlvWalk(s, end, shape, max - 1)
TlvShapes == [tag : {1, 2}, width : {1, 2, 4}, order : {"big", "little"}, whole : BOOLEAN]
MinRecords == 2
MaxRecords == 64
Tlvs(frames) ==
    {shape \in TlvShapes :
        /\ shape.width = 1 => shape.order = "big"
        /\ 10 * Count(frames, LAMBDA f : LET w == TlvWalk(f, 0, shape, MaxRecords) IN
                                         Len(w) >= MinRecords /\ Last(w) = Len(f))
           >= 6 * Len(frames)}

Sum(s) == FoldLeft(LAMBDA n, b : n + b, 0, s)
Fletcher16(s) == LET f == FoldLeft(LAMBDA t, b : [a |-> (t.a + b) % 255, b |-> (t.b + t.a + b) % 255],
                                   [a |-> 0, b |-> 0], s) IN 256 * f.b + f.a
Bit(n, i) == (n \div 2 ^ i) % 2
Xor8(s) == FoldLeft(LAMBDA n, i : n + 2 ^ i * (FoldLeft(LAMBDA c, b : c + Bit(b, i), 0, s) % 2), 0,
                    <<0, 1, 2, 3, 4, 5, 6, 7>>)
Width(algorithm) == IF algorithm \in {"sum8", "xor8"} THEN 1 ELSE 2
Checksum(algorithm, s) ==
    CASE algorithm = "sum8" -> Sum(s) % 256
      [] algorithm = "sum16" -> Sum(s) % 65536
      [] algorithm = "xor8" -> Xor8(s)
      [] algorithm = "fletcher16" -> Fletcher16(s)
\* Slip: the checksum is taken over the whole frame, itself included.
ChecksumsOfAll(frames) ==
    {c \in [at : 0 .. Min(Sizes(frames)) - 1, algorithm : {"sum8", "sum16", "xor8", "fletcher16"},
            order : {"big", "little"}] :
        LET w == Width(c.algorithm) IN
        /\ c.at + w <= Min(Sizes(frames)) /\ Len(frames) >= 2
        /\ 10 * Count(frames, LAMBDA f : Number(Slice(f, c.at, c.at + w), c.order)
                                         = Checksum(c.algorithm, f)) >= 9 * Len(frames)}
Checksums(frames) ==
    {c \in [at : 0 .. Min(Sizes(frames)) - 1, algorithm : {"sum8", "sum16", "xor8", "fletcher16"},
            order : {"big", "little"}] :
        LET w == Width(c.algorithm) IN
        /\ c.at + w <= Min(Sizes(frames)) /\ Len(frames) >= 2
        /\ w = 1 => c.order = "big"
        /\ 10 * Count(frames, LAMBDA f :
                Number(Slice(f, c.at, c.at + w), c.order)
                = Checksum(c.algorithm, Slice(f, 0, c.at) \o Slice(f, c.at + w, Len(f))))
           >= 9 * Len(frames)}

(* N-grams that (nearly) all frames have, the longest of those that always *)
(* come together.                                                          *)
NGrams(f, min, max) == {Slice(f, i, i + n) : <<i, n>> \in {p \in (0 .. Len(f)) \X (min .. max) :
                                                             p[1] + p[2] <= Len(f)}}
ConstantSequences(frames, min, max) ==
    LET Seen(g) == Count(frames, LAMBDA f : g \in NGrams(f, min, max))
        hits == {g \in UNION {NGrams(frames[i], min, max) : i \in DOMAIN frames} :
                    Seen(g) >= Max({1, (8 * Len(frames) + 9) \div 10})}
    IN  {g \in hits : ~\E h \in hits : Len(h) > Len(g) /\ Seen(h) = Seen(g) /\ Within(g, h)}

(* Values of one side that come back from the other: how often the bytes   *)
(* at src were found at dst of a later frame, of the frames that could.    *)
(* A frame of which no answer has room for one of the widths that it has   *)
(* room for itself is the end of the search: max() of nothing.             *)
EchoRaises == [raises |-> TRUE]
EchoWidths == {2, 4, 8}
Echoes(frames, distance) ==
    LET Later(i) == {j \in i + 1 .. Min({i + distance, Len(frames)}) : frames[j].dir # frames[i].dir}
        Byte(j) == frames[j].bytes
        sources == {i \in DOMAIN frames : Later(i) # {}}
        Chances(i, n) == \E j \in Later(i) : Len(Byte(j)) >= n
        Sent(i, k) == Slice(Byte(i), k.src, k.src + k.width)
        Opportunities(k) == {i \in sources : /\ frames[i].dir = k.dir /\ Len(Byte(i)) >= k.src + k.width
                                             /\ Cardinality(ToSet(Sent(i, k))) > 1
                                             /\ Chances(i, k.dst + k.width)}
        Hits(k) == {i \in Opportunities(k) : \E j \in Later(i) : At(Byte(j), Sent(i, k), k.dst)}
        longest == Max({Len(Byte(i)) : i \in DOMAIN frames})
    IN  IF \E i \in sources, w \in EchoWidths : Len(Byte(i)) >= w /\ ~Chances(i, w) THEN EchoRaises
        ELSE {k \in [dir : {"c", "s"}, src : 0 .. longest, dst : 0 .. longest, width : EchoWidths] :
                Hits(k) # {} /\ 2 * Cardinality(Hits(k)) >= Cardinality(Opportunities(k))}

(* What is put into the frames is found: a length, records (up to 64 in a  *)
(* frame, and no longer chain), a checksum or an echoed value that every   *)
(* frame has, whatever their payloads; and of the bytes two frames always  *)
(* share, nothing less than the longest run.  The echoed value is found if *)
(* every frame has an answer that is not shorter; where one has not, the   *)
(* search may end in an exception.                                         *)
DetectorsFind(x) ==
    /\ x.length \in LengthFields(x.framed)
    /\ x.shape \in Tlvs(x.records)
    /\ x.shape \in Tlvs(<<FlattenSeq([i \in 1 .. x.chain |-> <<4, 0>>])>>) <=> x.chain \in MinRecords .. MaxRecords
    /\ x.sum \in Checksums(x.summed)
    /\ \E g \in ConstantSequences(x.marked, 1, 3) : Within(x.marker, g)
    /\ \A g, h \in ConstantSequences(x.marked, 1, 3) :
          g # h /\ Within(g, h) => Count(x.marked, LAMBDA f : Within(g, f)) > Count(x.marked, LAMBDA f : Within(h, f))
    /\ LET Answered(i) == \E j \in DOMAIN x.echoed : /\ j > i /\ x.echoed[j].dir # x.echoed[i].dir
                                                      /\ Len(x.echoed[j].bytes) >= Len(x.echoed[i].bytes)
       IN  (\A i \in DOMAIN x.echoed : x.echoed[i].dir = "c" => Answered(i)) => x.echo \in Echoes(x.echoed, 5)
---------------------------------------------------------------------------
(* Shapes and series.  Frames are sorted into buckets by their first n     *)
(* bytes and their size; a number at one place is followed from frame to   *)
(* frame.  A frame here has its direction, bytes and time.                 *)
Map(s, Op(_)) == [i \in DOMAIN s |-> Op(s[i])]
Occurrences(s) == [v \in ToSet(s) |-> Cardinality({i \in DOMAIN s : s[i] = v})]
Changes(s) == Cardinality({i \in 2 .. Len(s) : s[i] # s[i - 1]})
Shape(f, n) == [prefix |-> Slice(f.bytes, 0, n), size |-> Len(f.bytes)]
Buckets(frames, n) ==
    [k \in {Shape(frames[i], n) : i \in DOMAIN frames} |-> SelectSeq(frames, LAMBDA f : Shape(f, n) = k)]
Least == 3            \* frames a bucket needs for its offsets to be looked at
OffsetStats(bucket) ==
    [at \in 0 .. Len(bucket[1].bytes) - 1 |->
        LET col == Map(bucket, LAMBDA f : f.bytes[at + 1]) IN
        [changes |-> Changes(col), distinct |-> Cardinality(ToSet(col))]]
FrameStats(frames, n) ==
    LET b == Buckets(frames, n) IN
    [directions |-> Occurrences(Map(frames, LAMBDA f : f.dir)),
     sizes |-> Occurrences(Map(frames, LAMBDA f : Len(f.bytes))),
     prefixes |-> Occurrences(Map(SelectSeq(frames, LAMBDA f : Len(f.bytes) >= n),
                                  LAMBDA f : Slice(f.bytes, 0, n))),
     buckets |-> [k \in DOMAIN b |-> [count |-> Len(b[k]),
                                      offsets |-> IF Len(b[k]) >= Least THEN OffsetStats(b[k]) ELSE <<>>]]]
ClusterFrames(frames, n) ==
    LET b == Buckets(frames, n)
        Numbers(k) == {i \in DOMAIN frames : Shape(frames[i], n) = k} IN
    [k \in DOMAIN b |-> [count |-> Len(b[k]), first |-> Min(Numbers(k)), last |-> Max(Numbers(k)),
                         sample |-> b[k][1].bytes]]
(* The deviation of the intervals is less than a fifth of their mean.      *)
PeriodicStreams(frames, n, least) ==
    LET b == Buckets(frames, n)
        Intervals(k) == LET t == SortSeq(Map(b[k], LAMBDA f : f.time), <) IN
                        [i \in 1 .. Len(t) - 1 |-> t[i + 1] - t[i]]
        Steady(x) == LET total == Sum(x)
                         squares == Sum(Map(x, LAMBDA d : d * d)) IN
                     total > 0 /\ 25 * (Len(x) * squares - total * total) < total * total
    IN  {k \in DOMAIN b : Len(b[k]) > least /\ Steady(Intervals(k))}

Encoding(width, signed, order) == [width |-> width, signed |-> signed, order |-> order]
Encodings == {Encoding(1, FALSE, "big"), Encoding(1, TRUE, "big")}
             \cup [width : {2}, signed : BOOLEAN, order : {"little", "big"}]
DecodeValue(s, e) == LET v == Number(s, e.order) IN
                     IF e.signed /\ 2 * v >= 256 ^ e.width THEN v - 256 ^ e.width ELSE v
EncodeValue(v, e) ==                           \* <<>>: ValueError
    LET n == IF v < 0 THEN v + 256 ^ e.width ELSE v
        digits == [i \in 1 .. e.width |-> (n \div 256 ^ (e.width - i)) % 256]
        top == 256 ^ e.width \div (IF e.signed THEN 2 ELSE 1) IN
    IF v >= top \/ v < (IF e.signed THEN -top ELSE 0) THEN <<>>
    ELSE IF e.order = "big" THEN digits ELSE Reverse(digits)

Chunk(f, at, e) == Slice(f.bytes, at, at + e.width)
\* Slip: of a frame that is too short, the bytes it has are taken.
FieldTimeSeriesShort(frames, at, e) ==
    Map(SelectSeq(frames, LAMBDA f : Chunk(f, at, e) # <<>>), LAMBDA f : DecodeValue(Chunk(f, at, e), e))
FieldTimeSeries(frames, at, e) ==
    Map(SelectSeq(frames, LAMBDA f : Len(Chunk(f, at, e)) = e.width), LAMBDA f : DecodeValue(Chunk(f, at, e), e))
\* A row is one value, or none: "frame too short".
DecodeField(frames, at, e, deduplicate) ==
    FoldLeft(LAMBDA rows, v : IF deduplicate /\ rows # <<>> /\ rows[Len(rows)] = v THEN rows
                              ELSE Append(rows, v), <<>>,
             Map(frames, LAMBDA f : IF Len(Chunk(f, at, e)) < e.width THEN <<>>
                                    ELSE <<DecodeValue(Chunk(f, at, e), e)>>))
ExportCsv(frames, fields) ==
    Map(frames, LAMBDA f : [c \in DOMAIN fields |->
        LET d == fields[c] IN
        IF (\A p \in d.filter : At(f.bytes, p.bytes, p.at)) /\ Len(Chunk(f, d.at, d.encoding)) = d.encoding.width
        THEN <<DecodeValue(Chunk(f, d.at, d.encoding), d.encoding)>> ELSE <<>>])
OffsetCorrelations(frames, a, ea, b, eb) ==
    LET used == SelectSeq(frames, LAMBDA f : Len(Chunk(f, a, ea)) = ea.width /\ Len(Chunk(f, b, eb)) = eb.width)
        xs == FieldTimeSeries(used, a, ea)
        ys == FieldTimeSeries(used, b, eb) IN
    [used |-> Len(used),
     paired |-> Cardinality({i \in 2 .. Len(used) : (xs[i] # xs[i - 1]) = (ys[i] # ys[i - 1])})]

DominantSize(frames) ==
    LET sizes == Occurrences(Map(frames, LAMBDA f : Len(f.bytes)))
        most == Max({sizes[n] : n \in DOMAIN sizes}) IN
    Max({n \in DOMAIN sizes : sizes[n] = most})
NumericLayout(frames, max) ==
    LET size == DominantSize(frames)
        sample == Slice(SelectSeq(frames, LAMBDA f : Len(f.bytes) = size), 0, max)
        Values(c) == FieldTimeSeries(sample, c.at, c.encoding)
        Steps(v, Ok(_)) == Cardinality({i \in 2 .. Len(v) : Ok(v[i] - v[i - 1])})
        varied == {c \in [at : 0 .. size - 1, encoding : Encodings] :
                      c.at + c.encoding.width <= size /\ Cardinality(ToSet(Values(c))) > 1}
    IN  {[at |-> c.at, encoding |-> c.encoding, low |-> Min(ToSet(Values(c))), high |-> Max(ToSet(Values(c))),
          monotonic |-> Max({Steps(Values(c), LAMBDA d : d >= 0), Steps(Values(c), LAMBDA d : d <= 0)})] :
         c \in varied}

(* The tools agree on what a capture holds: every frame is in one bucket,  *)
(* and all tools count the same; an offset of a bucket varies exactly if   *)
(* the comparison of its frames says so; a number has one series, with its *)
(* repetitions left out or as a column; every value can be encoded again;  *)
(* and the range of a numeric candidate is that of its series.             *)
SeriesAgree(x) ==
    LET stats == FrameStats(x.frames, x.prefix).buckets
        clusters == ClusterFrames(x.frames, x.prefix)
        b == Buckets(x.frames, x.prefix)
        series == FieldTimeSeries(x.frames, x.at, x.encoding)
        rows == DecodeField(x.frames, x.at, x.encoding, FALSE)
        changes == DecodeField(x.frames, x.at, x.encoding, TRUE)
        Field(filter) == [at |-> x.at, encoding |-> x.encoding, filter |-> filter]
        csv == ExportCsv(x.frames, <<Field({}), Field({[at |-> 0, bytes |-> <<1>>]})>>)
    IN  /\ DOMAIN stats = DOMAIN clusters
        /\ Sum(Map(SetToSeq(DOMAIN clusters), LAMBDA k : clusters[k].count)) = Len(x.frames)
        /\ \A k \in DOMAIN stats :
              /\ stats[k].count = clusters[k].count /\ clusters[k].sample = x.frames[clusters[k].first].bytes
              /\ \A at \in DOMAIN stats[k].offsets :
                    /\ stats[k].offsets[at].changes >= stats[k].offsets[at].distinct - 1
                    /\ stats[k].offsets[at].distinct > 1 <=> at \in DiffBucket(Map(b[k], LAMBDA f : f.bytes))
        /\ FlattenSeq(rows) = series /\ Map(csv, LAMBDA row : row[1]) = rows
        /\ \A i \in DOMAIN csv : csv[i][2] = IF At(x.frames[i].bytes, <<1>>, 0) THEN rows[i] ELSE <<>>
        /\ ToSet(changes) = ToSet(rows) /\ Changes(changes) = Changes(rows) /\ Changes(changes) = Len(changes) - 1
        /\ \A i \in DOMAIN rows :
              rows[i] # <<>> => EncodeValue(rows[i][1], x.encoding) = Chunk(x.frames[i], x.at, x.encoding)
        /\ \A c \in NumericLayout(x.frames, Len(x.frames)) :
              /\ c.low < c.high /\ {c.low, c.high} \subseteq ToSet(FieldTimeSeries(x.frames, c.at, c.encoding))
              /\ OffsetCorrelations(x.frames, c.at, c.encoding, c.at, c.encoding).paired >= c.monotonic

(* A heartbeat is periodic and a stream that slows down is not, however    *)
(* they are mixed; the counter in the heartbeat is a candidate that never  *)
(* falls.                                                                  *)
StreamsFound(x) ==
    LET beats == [i \in 1 .. x.count |-> [dir |-> "c", bytes |-> <<9, x.from + i>>, time |-> x.interval * i]]
        slowing == [i \in 1 .. x.count |-> [dir |-> "s", bytes |-> <<8>>, time |-> i * i]]
        frames == IF x.mixed THEN FlattenSeq([i \in 1 .. x.count |-> <<slowing[i], beats[i]>>])
                  ELSE slowing \o beats IN
    /\ PeriodicStreams(frames, 1, x.least)
       = IF x.count > x.least THEN {Shape(beats[1], 1)} ELSE {}
    /\ x.count > 1 => \E c \in NumericLayout(frames, x.count) :
          c.at = 1 /\ c.encoding = Encoding(1, FALSE, "big") /\ c.monotonic = x.count - 1

(* The display filters of the Traffic tab: a frame is shown unless an      *)
(* enabled filter hides it or none of the enabled filters that show does.  *)
MatchesFrame(filter, f) == filter.dir \in {"any", f.dir} /\ Within(filter.pattern, f.bytes)
PassesFilters(filters, f) ==
    LET active == {filters[i] : i \in {j \in DOMAIN filters : filters[j].enabled}}
        Of(mode) == {g \in active : g.mode = mode} IN
    /\ \A g \in Of("hide") : ~MatchesFrame(g, f)
    /\ Of("show") # {} => \E g \in Of("show") : MatchesFrame(g, f)
Flipped(filter) == [filter EXCEPT !.mode = IF @ = "show" THEN "hide" ELSE "show"]
(* A filter shows what it would hide; hiding wins whatever the order, and  *)
(* a disabled filter is none.                                              *)
FiltersComplement(x) ==
    LET Passes(filters) == PassesFilters(filters, x.frame) IN
    /\ x.one.enabled => (Passes(<<x.one>>) # Passes(<<Flipped(x.one)>>))
    /\ ~x.one.enabled => Passes(<<x.one, x.two>>) = Passes(<<x.two>>)
    /\ x.one.enabled /\ x.one.mode = "hide"
       => Passes(<<x.two, x.one>>) = (Passes(<<x.two>>) /\ Passes(<<x.one>>))
=============================================================================
