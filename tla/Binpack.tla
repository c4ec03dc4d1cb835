-------------------------------- MODULE Binpack --------------------------------
(***************************************************************************)
(* Marshal and Unmarshal of pkg/binpack: the tags of a struct are checked, *)
(* compiled to a codec, and the codec writes and reads the bytes.          *)
(*                                                                         *)
(* A struct is a sequence of tagged fields, and its value the sequence of  *)
(* their contents, each of them a sequence, that of a number of length 1.  *)
(* A byte is the set of the bits in it that are 1.  All kinds of numbers   *)
(* of fixed width are one, and an array of bytes is a string as long as    *)
(* its field.  A struct may hold slices of structs; these hold no others.  *)
(***************************************************************************)
EXTENDS Integers, Sequences, FiniteSets, SequencesExt

CONSTANTS
    Layouts,        \* the structs: sequences of [kind, offset, size, order, len,
                    \* enc, bits, cond, repeat, elem, of]; len and cond name a field
                    \* by its index, 0 or <<>> is none, size -1 is "var"
    Elements,       \* the structs that slices are of, by the index of names
    Numbers,        \* the numbers that fields, and by their bits bytes, may hold
    MaxLen,         \* a bound on the length of slices and strings
    HalfByte,       \* the bits of a byte that one hex digit shows
    Dirt            \* a byte that was left in a buffer of the pool

BitsPerByte == 2 * HalfByte
Byte == SUBSET (0..(BitsPerByte - 1))
Field == [kind : {"number", "bits", "bytes", "string", "elements"}, offset : Nat,
          size : {-1} \cup (Nat \ {0}), order : {"be", "le"}, len : Nat, enc : {"", "hex"},
          bits : {<<>>} \cup ((0..(BitsPerByte - 1)) \X (0..(BitsPerByte - 1))),
          cond : {<<>>} \cup ((Nat \ {0}) \X Nat), repeat : BOOLEAN, elem : Nat, of : Nat]

Numeric(f) == f.kind \in {"number", "bits"}
Variable(f) == f.kind \in {"bytes", "string", "elements"} /\ f.size = -1
Hex(f) == f.kind = "string" /\ f.enc = "hex"
Structs(f) == f.repeat /\ f.elem = 0

VARIABLES
    layout,
    value,          \* the struct that is encoded
    spare,          \* how much longer the buffer is than Marshal's would be
    bytes,          \* the bytes that were made of it
    arrived,        \* how many of them Unmarshal is given
    decoded,        \* the struct that is decoded
    phase           \* "new", "refused": the tags are bad; "marshalled", or "failed"
                    \* with an error or "panicked"; "unmarshalled", "rejected" with
                    \* an error or "crashed"

bpVars == <<layout, value, spare, bytes, arrived, decoded, phase>>

(* Bit ranges and conditions may share bytes with other fields.            *)
Shares(f) == f.bits # <<>> \/ f.cond # <<>>

------------------------------------------------------------------------------

validateStructType(fields) ==
    \A i \in DOMAIN fields : LET f == fields[i] IN
          /\ ~Shares(f) => \A j \in 1..(i - 1) : fields[j].offset = f.offset => Shares(fields[j])
          /\ f.len < i
          /\ f.cond # <<>> => f.cond[1] < i
          /\ f.size = -1 \/ f.repeat => f.len # 0
          /\ ~Shares(f) /\ f.size > 0 => \A j \in DOMAIN fields :
                f.offset < fields[j].offset => f.offset + f.size <= fields[j].offset

buildFieldCodec(f) ==
    /\ f.kind = "bits" => f.size = 1
    /\ f.kind = "bytes" => f.size = -1
    /\ f.kind = "elements" => f.repeat

(* Tags fit the types of their fields: numbers have a size, bits a range,  *)
(* only slices are repeated, and lengths and conditions are of numbers.    *)
TagsFit(fields) ==
    \A i \in DOMAIN fields : LET f == fields[i] IN
       /\ Numeric(f) => f.size # -1
       /\ f.kind = "bits" => f.bits # <<>> /\ f.bits[1] <= f.bits[2]
       /\ f.repeat => f.kind = "elements"
       /\ f.repeat /\ f.size # -1 => Numeric(fields[1])
       /\ f.len \in DOMAIN fields => Numeric(fields[f.len])
       /\ f.cond # <<>> /\ f.cond[1] \in DOMAIN fields => Numeric(fields[f.cond[1]])

(* The struct of a slice is compiled, but its tags are not checked.  Its   *)
(* hex strings have an even length, or to count its bytes would panic.     *)
ASSUME PackingAssumption ==
    /\ HalfByte \in Nat \ {0} /\ Numbers \subseteq Nat /\ MaxLen \in Nat /\ Dirt \in Byte
    /\ Layouts \subseteq Seq(Field) /\ Elements \in Seq(Seq(Field))
    /\ \A fields \in Layouts :
          TagsFit(fields) /\ \A f \in ToSet(fields) : Structs(f) => f.of \in DOMAIN Elements
    /\ \A fields \in ToSet(Elements) :
          /\ TagsFit(fields)
          /\ \A f \in ToSet(fields) :
                /\ buildFieldCodec(f) /\ ~Structs(f)
                /\ f.size = -1 => f.len \in DOMAIN fields
                /\ f.cond # <<>> => f.cond[1] \in DOMAIN fields
                /\ Hex(f) => ~Variable(f) /\ f.size % 2 = 0

(* The length of a repeated field that is not "var" is taken from the      *)
(* first field of the struct, whatever its tag names.                      *)
CompileCodec(fields) ==
    [fields |-> fields,
     lenIndex |-> [i \in DOMAIN fields |-> IF Variable(fields[i]) THEN fields[i].len ELSE 1],
     size |-> Max({0} \cup {f.offset + f.size : f \in {g \in ToSet(fields) : g.size > 0}})]

------------------------------------------------------------------------------
(* The bits of a number, and the number they make, the highest bit first.  *)
Shifted(n, width) ==
    LET right[k \in 0..width] == IF k = 0 THEN n ELSE right[k - 1] \div 2 IN right
Ones(n, width) == {k \in 0..(width - 1) : Shifted(n, width)[k] % 2 = 1}
Summed(ones, width) ==
    LET sum[k \in 0..width] ==
            IF k = 0 THEN 0 ELSE 2 * sum[k - 1] + (IF width - k \in ones THEN 1 ELSE 0)
    IN  sum
Number(ones, width) == Summed(ones, width)[width]

(* The bits of the i-th of size bytes come after those of Place others.    *)
Place(f, i, size) == IF f.order = "le" THEN i - 1 ELSE size - i
PutUint(f, n, size) ==
    [i \in 1..size |-> {b \in 0..(BitsPerByte - 1) :
                          BitsPerByte * Place(f, i, size) + b \in Ones(n, BitsPerByte * size)}]
Uint(f, s) ==
    Number(UNION {{BitsPerByte * Place(f, i, Len(s)) + b : b \in s[i]} : i \in DOMAIN s},
           BitsPerByte * Len(s))

(* A bit field keeps the bits of its byte that are not its own.            *)
Mask(f) == f.bits[1]..f.bits[2]
MaskWidth(f) == f.bits[2] - f.bits[1] + 1
encodeBitField(f, byte, n) == (byte \ Mask(f)) \cup {f.bits[1] + k : k \in Ones(n, MaskWidth(f))}
decodeBitField(f, byte) == Number({b - f.bits[1] : b \in byte \cap Mask(f)}, MaskWidth(f))

(* The digit of half a byte has all bits above it; a byte that is no digit *)
(* reads as none.                                                          *)
Upper == HalfByte..(BitsPerByte - 1)
hexDigit(half) == half \cup Upper
hexCharToNibble(c) == IF Upper \subseteq c THEN c \ Upper ELSE {}
ToHex(s) ==
    [k \in 1..(2 * Len(s)) |-> LET byte == s[(k + 1) \div 2] IN
        hexDigit(IF k % 2 = 1 THEN {b - HalfByte : b \in byte \cap Upper} ELSE byte \ Upper)]
FromHex(s) ==
    [i \in 1..(Len(s) \div 2) |->
        {b + HalfByte : b \in hexCharToNibble(s[2 * i - 1])} \cup hexCharToNibble(s[2 * i])]

(* The bytes a field takes, and the room its encoder is given.  Encode     *)
(* counts the fields that are absent as well; of a slice of structs it     *)
(* encodes every one to count its bytes.                                   *)
SimpleRoom(f, x) ==
    IF f.repeat THEN f.elem * Len(x) ELSE IF Variable(f) THEN Len(x) ELSE f.size
SizeBy(Taken(_, _), codec, v) ==
    Max({codec.size} \cup
        {codec.fields[i].offset + Taken(codec.fields[i], v[i]) :
            i \in {j \in DOMAIN v : codec.fields[j].repeat \/ Variable(codec.fields[j])}})
ElementSize(fields, v) == SizeBy(SimpleRoom, CompileCodec(fields), v)
StructsRoom(f, x) == FoldLeft(LAMBDA n, v : n + ElementSize(Elements[f.of], v), 0, x)
Room(f, x) == IF Structs(f) THEN StructsRoom(f, x) ELSE SimpleRoom(f, x)
EncodeSize(codec, v) == SizeBy(Room, codec, v)

Put(buf, offset, s) ==
    [i \in DOMAIN buf |-> IF i - offset \in DOMAIN s THEN s[i - offset] ELSE buf[i]]
Slice(buf, offset, n) == SubSeq(buf, offset + 1, offset + n)

(* copy() copies what there is room for.                                   *)
Copied(s, room) == SubSeq(s, 1, IF Len(s) < room THEN Len(s) ELSE room)

encoder(f, buf, x) ==
    CASE f.kind = "number" -> PutUint(f, x[1], f.size)
      [] f.kind = "bits" -> <<encodeBitField(f, buf[f.offset + 1], x[1])>>
      [] f.kind = "elements" ->
            [k \in 1..(f.elem * Len(x)) |->
                PutUint(f, x[(k - 1) \div f.elem + 1], f.elem)[((k - 1) % f.elem) + 1]]
      [] Hex(f) -> Copied(ToHex(x), SimpleRoom(f, x))
      [] OTHER -> Copied(x, SimpleRoom(f, x))

decoder(f, data) ==
    CASE f.kind = "number" -> <<Uint(f, data)>>
      [] f.kind = "bits" -> <<decodeBitField(f, data[1])>>
      [] f.kind = "elements" ->
            [i \in 1..(Len(data) \div f.elem) |-> Uint(f, Slice(data, f.elem * (i - 1), f.elem))]
      [] Hex(f) -> FromHex(data)
      [] OTHER -> data

Present(f, v) == f.cond = <<>> \/ v[f.cond[1]] = <<f.cond[2]>>

(* The hex encoder writes digits in pairs: in an odd room it runs over.    *)
Overruns(f, x) == Hex(f) /\ SimpleRoom(f, x) % 2 = 1 /\ 2 * Len(x) > SimpleRoom(f, x)

(* A fixed field is not compared with the buffer before it is cut out.     *)
EncodeSimple(v, r, f, x) ==
    IF r.phase # "ok" \/ ~Present(f, v) THEN r
    ELSE LET end == f.offset + SimpleRoom(f, x) IN
         IF end > Len(r.buf) THEN
             [r EXCEPT !.phase = IF f.repeat \/ Variable(f) THEN "failed" ELSE "panicked"]
         ELSE IF Overruns(f, x) THEN [r EXCEPT !.phase = "panicked"]
         ELSE [r EXCEPT !.buf = Put(@, f.offset, encoder(f, @, x)),
                        !.n = IF (f.repeat \/ Variable(f)) /\ end > @ THEN end ELSE @]

EncodeBy(Step(_, _, _, _), codec, buf, v) ==
    LET r[i \in 0..Len(codec.fields)] ==
            IF i = 0 THEN [phase |-> "ok", buf |-> buf, n |-> codec.size]
            ELSE Step(v, r[i - 1], codec.fields[i], v[i])
    IN  r[Len(codec.fields)]

(* Each struct of a slice is written after the bytes that the ones before  *)
(* it wrote, into all that is left of the buffer.                          *)
EncodeStructs(buf, f, x) ==
    LET codec == CompileCodec(Elements[f.of])
        r[k \in 0..Len(x)] ==
            IF k = 0 THEN [phase |-> "ok", buf |-> buf, at |-> f.offset]
            ELSE LET q == r[k - 1] IN
                 IF q.phase # "ok" THEN q
                 ELSE IF q.at > Len(buf) THEN [q EXCEPT !.phase = "panicked"]
                 ELSE LET e == EncodeBy(EncodeSimple, codec, SubSeq(q.buf, q.at + 1, Len(buf)), x[k])
                      IN [phase |-> e.phase, buf |-> Put(q.buf, q.at, e.buf), at |-> q.at + e.n]
    IN  r[Len(x)]

EncodeField(v, r, f, x) ==
    IF r.phase # "ok" \/ ~Present(f, v) \/ ~Structs(f) THEN EncodeSimple(v, r, f, x)
    ELSE LET e == EncodeStructs(r.buf, f, x) IN
         [phase |-> e.phase, buf |-> e.buf, n |-> IF e.at > r.n THEN e.at ELSE r.n]

encodeToBuffer(codec, buf, v) == EncodeBy(EncodeField, codec, buf, v)

(* A fixed field is within what Decode began with: the size of the codec.  *)
Count(f, room) == IF f.repeat THEN f.elem * room ELSE IF Variable(f) THEN room ELSE f.size

(* Mutant: the length of the data is compared by nobody but Slice.         *)
DecodeSimpleAnyway(codec, data, r, i) ==
    LET f == codec.fields[i]
        room == Count(f, r.value[codec.lenIndex[i]][1])
    IN  IF r.phase # "ok" \/ ~Present(f, r.value) THEN r
        ELSE [r EXCEPT !.value[i] = decoder(f, Slice(data, f.offset, Min({room, Len(data) - f.offset})))]

DecodeSimple(codec, data, r, i) ==
    LET f == codec.fields[i]
        room == Count(f, r.value[codec.lenIndex[i]][1])
    IN  IF r.phase # "ok" \/ ~Present(f, r.value) THEN r
        ELSE IF f.offset + room <= Len(data)
        THEN [r EXCEPT !.value[i] = decoder(f, Slice(data, f.offset, room))]
        ELSE [r EXCEPT !.phase = "rejected"]

Zero(fields) == [i \in DOMAIN fields |-> IF Numeric(fields[i]) THEN <<0>> ELSE <<>>]

DecodeBy(Step(_, _, _, _), codec, data) ==
    LET r[i \in 0..Len(codec.fields)] ==
            IF i = 0 THEN [phase |-> "ok", value |-> Zero(codec.fields)]
            ELSE Step(codec, data, r[i - 1], i)
    IN  IF Len(data) < codec.size THEN [phase |-> "rejected", value |-> Zero(codec.fields)]
        ELSE r[Len(codec.fields)]

(* Each struct of a slice is looked for after as many bytes as those that  *)
(* were read before it would be encoded in.                                *)
DecodeStructs(data, f, count) ==
    LET r[k \in 0..count] ==
            IF k = 0 THEN [phase |-> "ok", value |-> <<>>, at |-> f.offset]
            ELSE LET q == r[k - 1] IN
                 IF q.phase # "ok" THEN q
                 ELSE IF q.at > Len(data) THEN [q EXCEPT !.phase = "crashed"]
                 ELSE LET e == DecodeBy(DecodeSimple, CompileCodec(Elements[f.of]),
                                        SubSeq(data, q.at + 1, Len(data)))
                      IN [phase |-> e.phase, value |-> Append(q.value, e.value),
                          at |-> q.at + ElementSize(Elements[f.of], e.value)]
    IN  r[count]

DecodeField(codec, data, r, i) ==
    LET f == codec.fields[i] IN
    IF r.phase # "ok" \/ ~Present(f, r.value) \/ ~Structs(f) THEN DecodeSimple(codec, data, r, i)
    ELSE LET e == DecodeStructs(data, f, r.value[codec.lenIndex[i]][1]) IN
         IF e.phase = "ok" THEN [r EXCEPT !.value[i] = e.value] ELSE [r EXCEPT !.phase = e.phase]

Decode(codec, data) == DecodeBy(DecodeField, codec, data)

------------------------------------------------------------------------------
(* What a field may hold.  A string may be shorter or longer than a field  *)
(* of fixed size.                                                          *)
Within(width) == {n \in Numbers : Shifted(n, width)[width] = 0}
Contents(f) ==
    CASE f.kind = "number" -> Within(BitsPerByte * f.size)
      [] f.kind = "bits" -> Within(MaskWidth(f))
      [] f.kind = "elements" -> Within(BitsPerByte * f.elem)
      [] OTHER -> {Ones(n, BitsPerByte) : n \in Within(BitsPerByte)}
Lengths(f) == IF Numeric(f) THEN {1} ELSE 0..MaxLen
SimpleHolds(f) == UNION {[1..n -> Contents(f)] : n \in Lengths(f)}

ValuesBy(Held(_), fields) ==
    LET upTo[i \in 0..Len(fields)] ==
            IF i = 0 THEN {<<>>} ELSE {Append(v, x) : v \in upTo[i - 1], x \in Held(fields[i])}
    IN  upTo[Len(fields)]
Holds(f) ==
    IF Structs(f) THEN UNION {[1..n -> ValuesBy(SimpleHolds, Elements[f.of])] : n \in Lengths(f)}
    ELSE SimpleHolds(f)
Values(fields) == ValuesBy(Holds, fields)

PackingTypeOK ==
    /\ layout \in Layouts
    /\ phase \in {"new", "refused", "marshalled", "failed", "panicked",
                  "unmarshalled", "rejected", "crashed"}
    /\ DOMAIN value = DOMAIN layout /\ DOMAIN decoded = DOMAIN layout
    /\ \A i \in DOMAIN layout : Numeric(layout[i]) => Len(decoded[i]) = 1
    /\ ToSet(bytes) \subseteq Byte /\ arrived \in 0..Len(bytes)

PackingInit ==
    /\ layout \in Layouts /\ phase = "new"
    /\ value = Zero(layout) /\ decoded = Zero(layout)
    /\ bytes = <<>> /\ spare = 0 /\ arrived = 0

(* Every call checks the tags first.                                       *)
Accepted == validateStructType(layout) /\ \A f \in ToSet(layout) : buildFieldCodec(f)

Refuse ==
    /\ phase = "new" /\ ~Accepted
    /\ phase' = "refused"
    /\ UNCHANGED <<layout, value, spare, bytes, arrived, decoded>>

Encoded(v, r, n) ==
    /\ value' = v
    /\ LET result == IF r.phase = "ok" /\ n > Len(r.buf) THEN "panicked" ELSE r.phase IN
       /\ phase' = IF result = "ok" THEN "marshalled" ELSE result
       /\ bytes' = IF result = "ok" THEN SubSeq(r.buf, 1, n) ELSE <<>>
    /\ UNCHANGED <<layout, arrived, decoded>>

Marshal ==
    /\ phase = "new" /\ Accepted
    /\ \E v \in Values(layout) :
          LET codec == CompileCodec(layout)
              size == EncodeSize(codec, v)
              r == encodeToBuffer(codec, [i \in 1..size |-> {}], v)
          IN Encoded(v, r, size)
    /\ UNCHANGED spare

(* A buffer of the pool has been used before, and may be too small.        *)
MarshalWithPool ==
    /\ phase = "new" /\ Accepted
    /\ spare' \in {-1, 1}
    /\ \E v \in Values(layout) :
          LET codec == CompileCodec(layout)
              r == encodeToBuffer(codec, [i \in 1..(EncodeSize(codec, v) + spare') |-> Dirt], v)
          IN Encoded(v, r, r.n)

(* What arrives may have been cut off.                                     *)
Unmarshal ==
    /\ phase = "marshalled"
    /\ arrived' \in {1, Len(bytes) - 1, Len(bytes)} \cap 0..Len(bytes)
    /\ LET r == Decode(CompileCodec(layout), SubSeq(bytes, 1, arrived')) IN
       /\ decoded' = r.value
       /\ phase' = IF r.phase = "ok" THEN "unmarshalled" ELSE r.phase
    /\ UNCHANGED <<layout, value, spare, bytes>>

PackingNext == Refuse \/ Marshal \/ MarshalWithPool \/ Unmarshal

PackingSpec == PackingInit /\ [][PackingNext]_bpVars

------------------------------------------------------------------------------
HexVariable(f) == Hex(f) /\ Variable(f)

(* The struct says of itself what its bytes will say: lengths are right,   *)
(* and a field that is absent holds nothing.                               *)
Consistent(fields, v) ==
    \A i \in DOMAIN fields : LET f == fields[i] IN
       /\ Present(f, v) /\ f.len # 0 => v[f.len] = <<Len(v[i])>>
       /\ ~Present(f, v) => v[i] = Zero(fields)[i]

(* Two fields take the same bits, and one of them is of a kind that the    *)
(* search for overlaps leaves out: it may share, or its size is not fixed. *)
Occupied(fields, v, i) ==
    LET f == fields[i] IN
    IF ~Present(f, v) THEN {}
    ELSE {f.offset + k : k \in 0..(Room(f, v[i]) - 1)} \X
         (IF f.kind = "bits" THEN Mask(f) ELSE 0..(BitsPerByte - 1))
Collide(fields, v) ==
    \E i, j \in DOMAIN fields :
        /\ i # j /\ (Shares(fields[i]) \/ fields[i].size = -1 \/ fields[i].repeat)
        /\ Occupied(fields, v, i) \cap Occupied(fields, v, j) # {}

(* The room that Encode counts before it writes is the room that writing   *)
(* takes: for every struct whose tags are accepted, encoding fails only in *)
(* a buffer that is shorter, or of a hex string whose digits end in the    *)
(* middle of a pair (reflect_codec.go:134-286, codec.go:253-259).          *)
MarshalFits ==
    phase \in {"failed", "panicked"} =>
        spare < 0 \/ \E i \in DOMAIN layout : Overruns(layout[i], value[i])

(* A struct that its bytes can stand for, and one whose own structs can be *)
(* told apart in them: of each, as many bytes are counted as are written.  *)
Unmistaken(fields, v) ==
    /\ Consistent(fields, v) /\ ~Collide(fields, v)
    /\ \A f \in ToSet(fields) : ~HexVariable(f) /\ (f.repeat => Variable(f) \/ f.len = 1)
Inner(fields, v) ==
    UNION {{<<Elements[fields[i].of], e>> : e \in ToSet(v[i])} :
             i \in {j \in DOMAIN fields : Structs(fields[j])}}
Sound(fields, v) ==
    /\ Unmistaken(fields, v)
    /\ \A s \in Inner(fields, v) : validateStructType(s[1]) /\ Unmistaken(s[1], s[2])
StridesAgree(fields, v) ==
    \A s \in Inner(fields, v) : LET n == ElementSize(s[1], s[2]) IN
       EncodeBy(EncodeSimple, CompileCodec(s[1]), [i \in 1..n |-> {}], s[2]).n = n
Faithful(fields, v) == Sound(fields, v) /\ StridesAgree(fields, v)

(* A string in a field of fixed size comes back with the size of the field,*)
(* cut off or followed by what was in the buffer; all else is the same.    *)
Characters(f) == IF Hex(f) THEN f.size \div 2 ELSE f.size
SimplyReturned(f, x, y) ==
    \/ y = x
    \/ /\ f.kind = "string" /\ f.size # -1 /\ Len(y) = Characters(f)
       /\ \A k \in DOMAIN x \cap DOMAIN y : y[k] = x[k]
Returned(f, x, y) ==
    IF ~Structs(f) THEN SimplyReturned(f, x, y)
    ELSE /\ Len(y) = Len(x)
         /\ \A k \in DOMAIN x : LET fields == Elements[f.of] IN
               \A i \in DOMAIN fields : SimplyReturned(fields[i], x[k][i], y[k][i])
AllReturned == \A i \in DOMAIN layout : Returned(layout[i], value[i], decoded[i])

(* Unmarshal(Marshal(v)) is v for every struct whose tags are accepted and *)
(* that is consistent, whatever was left in the buffer; of data that was   *)
(* cut off, it is v or an error, never something else, or a panic if not   *)
(* even the place of a slice of structs arrived.  Excepted are overlaps    *)
(* that the check of the tags does not look for, hex strings without a     *)
(* size, repeated fields with one, whose length is taken from the first    *)
(* field, and structs in slices of which more bytes are counted than       *)
(* written (reflect_codec.go:124-394, validate.go:33-191).                 *)
RoundTrip ==
    /\ PackingTypeOK /\ MarshalFits
    /\ phase \notin {"new", "refused"} /\ Faithful(layout, value) =>
          /\ phase = "unmarshalled" => AllReturned
          /\ phase \in {"rejected", "crashed"} => arrived < Len(bytes)
          /\ phase = "crashed" => \E f \in ToSet(layout) : Structs(f) /\ arrived < f.offset

(* array_test.go:247 of data that are too short, "expected error for       *)
(* insufficient data": Unmarshal answers with an error.  It panics when    *)
(* the data end before a slice of structs (reflect_codec.go:347).          *)
CutIsRefused == phase # "crashed"

(* README.md:355-356 of slices of structs: the size of each is found       *)
(* ("自动计算每个结构体元素的大小"), variable fields in them are supported.          *)
(* EncodeTo steps by the bytes it wrote, Decode by those that Encode would *)
(* count, which includes absent fields (reflect_codec.go:239-250, 347-352).*)
ElementsReturn ==
    phase = "unmarshalled" /\ arrived = Len(bytes) /\ Sound(layout, value) => AllReturned
==============================================================================
