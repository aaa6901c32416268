--------------------------- MODULE WorkerProtocol ---------------------------
(***************************************************************************)
(* WorkerProtocol.java, the codec of both pipes of the incremental worker: *)
(* WorkRequest and WorkResponse as length-prefixed protobuf messages.  It  *)
(* reads three fields of each and must carry every other one unchanged     *)
(* from Bazel to the compiler.                                             *)
(*                                                                         *)
(* A byte is a number below 256 and a string is the bytes of its UTF-8     *)
(* form.  A long is its ten digits to the base 128, the lowest first: the  *)
(* tenth is the sign bit.  A cursor is the number of bytes consumed, and   *)
(* Malformed stands for each IOException.                                  *)
(***************************************************************************)
EXTENDS Integers, Sequences, SequencesExt, FiniteSetsExt

CONSTANTS
  Malformed,
  EndOfInput,
  MaxDepth,     \* 100 in the code
  MaxMessage,   \* 64 MiB in the code
  Samples,      \* the byte strings to be checked as messages
  Lengths,      \* length prefixes of more than MaxMessage or of more than five bytes
  Texts,        \* the strings to be sent as arguments and as error messages
  RequestIds    \* the ids to be answered

Byte == 0..255
Size == 0..(2^28 - 1)                     \* what four digits hold, 256 MiB
Word == (-(2^30) - 2^30)..(2^30 + (2^30 - 1))   \* a Java int: TLC's own have 32 bits too

ASSUME LimitsAssumption == MaxDepth \in Nat /\ MaxMessage \in Size
ASSUME SamplesAssumption == \A b \in Samples : b \in Seq(Byte) /\ Len(b) \in Size
ASSUME IdsAssumption == RequestIds \subseteq Word

Digits == 1..10
Longs == {long \in [Digits -> 0..127] : long[10] <= 1}
Varints == [next : Nat, value : [Digits -> 0..127]]
ParsedField ==
  [number : Nat, wire : 0..7, scalar : Longs, next : Nat, bytes : Seq(Byte), raw : Seq(Byte)]
Frame == [bytes : Seq(Byte), rest : Seq(Byte)]

\* An IOException is no cursor, field or message.
ASSUME MalformedAssumption ==
  /\ Malformed \notin Nat \cup Varints \cup ParsedField \cup Seq(ParsedField) \cup Frame
  /\ Malformed \notin [path : Seq(Byte), digest : Seq(Byte)]
  /\ Malformed \notin [fields : Seq(ParsedField), requestId : Int, arguments : Seq(Seq(Byte)),
                      inputs : Seq([path : Seq(Byte), digest : Seq(Byte)])]

-----------------------------------------------------------------------------
(* Longs.  TLC's integers have 32 bits, as the ids have.                   *)

ShiftRight(value, n) ==
  IF n <= 4 THEN value \div 128^n ELSE IF value < 0 THEN -1 ELSE 0

(* An int widened to a long: the sign fills the digits above. *)
Long(value) ==
  [i \in Digits |-> IF i = 10 THEN (IF value < 0 THEN 1 ELSE 0)
                    ELSE ShiftRight(value, i - 1) % 128]

IsSmall(long) == \A i \in 5..10 : long[i] = 0
Low(long) == long[1] + 128 * (long[2] + 128 * (long[3] + 128 * long[4]))

(* The cast (int): bit 31 is the sign. *)
AsInt(long) ==
  LET top == long[5] % 16 IN (IF top >= 8 THEN top - 16 ELSE top) * 2^28 + Low(long)

\* A mutant: the loop compares signed and ends at once for a negative value.
StopsAtNegative(long) ==
  IF long[10] # 0 THEN 1 ELSE Max({i \in Digits : i = 1 \/ long[i] # 0})

(* Digits the loop of varint(output, value) writes: a negative long has ten. *)
Significant(long) == Max({i \in Digits : i = 1 \/ long[i] # 0})

WriteVarint(long) ==
  LET n == Significant(long) IN
    [i \in 1..n |-> IF i < n THEN long[i] + 128 ELSE long[i]]

VarintOf(bytes, at) ==
  [next |-> at + Len(bytes),
   value |-> [i \in Digits |-> IF i <= Len(bytes) THEN bytes[i] % 128 ELSE 0]]

(* The bytes up to the first without the top bit, of at most limit bytes.  *)
Varint(data, at, limit) ==
  LET ends == {n \in 1..limit : at + n <= Len(data) /\ data[at + n] < 128} IN
    IF ends = {} THEN Malformed ELSE VarintOf(SubSeq(data, at + 1, at + Min(ends)), at)

(* Cursor.varint: the tenth byte has one bit left. *)
FitsLong(read) == IF read # Malformed /\ read.value[10] > 1 THEN Malformed ELSE read
ReadVarint(data, at) == FitsLong(Varint(data, at, 10))

Skip(data, at, length) ==
  IF IsSmall(length) /\ Low(length) <= Len(data) - at THEN at + Low(length) ELSE Malformed

-----------------------------------------------------------------------------
(* Fields. *)

LegalTag(tag) ==
  /\ tag[5] < 16 /\ \A i \in 6..10 : tag[i] = 0
  /\ \E i \in 1..5 : tag[i] >= (IF i = 1 THEN 8 ELSE 1)

NumberOf(tag) == (tag[5] * 2^25) + (tag[4] * 2^18) + (tag[3] * 2^11) + (tag[2] * 16) + (tag[1] \div 8)
WireOf(tag) == tag[1] % 8

\* A mutant: a group ends with the end of any group.
AnyEndGroup(nested, number) == nested.wire = 4

EndsGroup(nested, number) == nested.wire = 4 /\ nested.number = number

(* The cursor behind the group with this number whose fields begin at      *)
(* start, where inner gives the field at each cursor.                      *)
Nested(field, number, end) ==
  IF field = Malformed THEN Malformed
  ELSE IF EndsGroup(field, number) THEN field.next
  ELSE IF field.wire = 4 THEN Malformed ELSE end[field.next]

GroupEnd(data, start, number, inner) ==
  LET end[from \in 0..Len(data)] == Nested(inner[from], number, end) IN end[start]

(* The value of a varint field or the length of one with bytes. *)
Scalar(data, at, wire) ==
  IF wire \in {0, 2} THEN ReadVarint(data, at) ELSE [next |-> at, value |-> Long(0)]

PayloadEnd(data, wire, scalar, groupEnd) ==
  IF scalar = Malformed THEN Malformed
  ELSE CASE wire \in {0, 4} -> scalar.next
         [] wire = 1 -> Skip(data, scalar.next, Long(8))
         [] wire = 2 -> Skip(data, scalar.next, scalar.value)
         [] wire = 3 -> groupEnd
         [] wire = 5 -> Skip(data, scalar.next, Long(4))
         [] OTHER -> Malformed

(* The scalar counts with wire type 0 only, the bytes with wire type 2.    *)
Field(data, start, tag, scalar, next) ==
  IF next = Malformed THEN Malformed
  ELSE [number |-> NumberOf(tag), wire |-> WireOf(tag), scalar |-> scalar.value, next |-> next,
        bytes |-> SubSeq(data, scalar.next + 1, next), raw |-> SubSeq(data, start + 1, next)]

Tagged(data, start, tag, scalar, inner) ==
  Field(data, start, tag.value, scalar,
        PayloadEnd(data, WireOf(tag.value), scalar,
                   GroupEnd(data, tag.next, NumberOf(tag.value), inner)))

ReadField(data, start, tag, inner) ==
  IF tag = Malformed THEN Malformed
  ELSE IF ~LegalTag(tag.value) THEN Malformed
  ELSE Tagged(data, start, tag, Scalar(data, tag.next, WireOf(tag.value)), inner)

(* The field at each cursor, by the number of groups it lies within. *)
FieldAt(data) ==
  LET at[depth \in 0..(MaxDepth + 1)] ==
    [start \in 0..Len(data) |->
      IF depth > MaxDepth THEN Malformed
      ELSE ReadField(data, start, ReadVarint(data, start), at[depth + 1])]
  IN at[0]

Followed(field, rest) == IF rest = Malformed THEN Malformed ELSE <<field>> \o rest
From(field, fields) ==
  IF field = Malformed THEN Malformed
  ELSE IF field.wire = 4 THEN Malformed ELSE Followed(field, fields[field.next])

Fields(data) ==
  LET fields[start \in 0..Len(data)] ==
    IF start = Len(data) THEN <<>> ELSE From(FieldAt(data)[start], fields)
  IN fields[0]

Raw(fields) == FlattenSeq([i \in DOMAIN fields |-> fields[i].raw])

\* The elements of s at the places in I, in their order.
Chosen(s, I) == FlattenSeq([i \in DOMAIN s |-> IF i \in I THEN <<s[i]>> ELSE <<>>])
Select(fields, number, wire) ==
  Chosen(fields, {i \in DOMAIN fields : fields[i].number = number /\ fields[i].wire = wire})

-----------------------------------------------------------------------------
(* Strings.  The JDK's strict decoder takes no overlong forms, surrogates  *)
(* or numbers above 10FFFF.                                                *)

IsCharacter(c) ==
  /\ \A i \in 2..Len(c) : c[i] \in 128..191
  /\ CASE Len(c) = 1 -> c[1] < 128
       [] Len(c) = 2 -> c[1] \in 194..223
       [] Len(c) = 3 -> c[1] \in 224..239 /\ (c[1] = 224 => c[2] >= 160) /\ (c[1] = 237 => c[2] < 160)
       [] Len(c) = 4 -> c[1] \in 240..244 /\ (c[1] = 240 => c[2] >= 144) /\ (c[1] = 244 => c[2] < 144)

IsText(bytes) ==
  LET text[at \in 0..Len(bytes)] ==
    at = Len(bytes) \/ \E n \in 1..Min({4, Len(bytes) - at}) :
      IsCharacter(SubSeq(bytes, at + 1, at + n)) /\ text[at + n]
  IN text[0]

\* A Java string has a UTF-8 form: getBytes writes ? for half a character.
ASSUME TextsAssumption == \A t \in Texts : t \in Seq(Byte) /\ Len(t) \in Size /\ IsText(t)

WriteString(number, text) ==
  WriteVarint(Long(number * 8 + 2)) \o WriteVarint(Long(Len(text))) \o text

-----------------------------------------------------------------------------
(* Frames: a length of at most five bytes, then the message.               *)

Delimited(bytes) == WriteVarint(Long(Len(bytes))) \o bytes

\* A mutant: what there is is taken for the message.
ShortReadTaken(stream, length) == length.next <= Len(stream)

Available(stream, length) == length.next + Low(length.value) <= Len(stream)

(* readNBytes gives what there is, up to the length. *)
Framed(stream, length) ==
  IF \/ length = Malformed
     \/ ~IsSmall(length.value)
     \/ Low(length.value) > MaxMessage
     \/ ~Available(stream, length)
  THEN Malformed
  ELSE [bytes |-> SubSeq(stream, length.next + 1,
                         Min({length.next + Low(length.value), Len(stream)})),
        rest |-> SubSeq(stream, length.next + Low(length.value) + 1, Len(stream))]

ReadFrame(stream) ==
  IF stream = <<>> THEN EndOfInput ELSE Framed(stream, Varint(stream, 0, 5))

\* Lengths that are refused whatever follows them.
ASSUME LengthsAssumption ==
  \A length \in Lengths :
    /\ length \in Seq(Byte) /\ length # <<>>
    /\ \A i \in 1..(Len(length) - 1) : length[i] >= 128
    /\ \/ Len(length) > 5
       \/ /\ length[Len(length)] < 128
          /\ LET value == VarintOf(length, 0).value IN ~IsSmall(value) \/ Low(value) > MaxMessage

-----------------------------------------------------------------------------
(* Messages.  Of a field that may be there once the last one counts.       *)

Scalars(fields, number) == <<0>> \o [i \in DOMAIN Select(fields, number, 0) |->
                                        AsInt(Select(fields, number, 0)[i].scalar)]
Bytes(fields, number) == [i \in DOMAIN Select(fields, number, 2) |-> Select(fields, number, 2)[i].bytes]
LastScalar(fields, number) == Last(Scalars(fields, number))
LastBytes(fields, number) == Last(<<<<>>>> \o Bytes(fields, number))

AllText(fields, number) == \A bytes \in Range(Bytes(fields, number)) : IsText(bytes)

InputOf(fields) ==
  IF fields = Malformed THEN Malformed
  ELSE IF ~AllText(fields, 1) THEN Malformed
  ELSE [path |-> LastBytes(fields, 1), digest |-> LastBytes(fields, 2)]

InputsOf(messages) == [i \in DOMAIN messages |-> InputOf(Fields(messages[i]))]

WithInputs(fields, inputs) ==
  IF Malformed \in Range(inputs) THEN Malformed
  ELSE [fields |-> fields, requestId |-> LastScalar(fields, 3),
        arguments |-> Bytes(fields, 1), inputs |-> inputs]

RequestFrom(fields) ==
  IF fields = Malformed THEN Malformed
  ELSE IF ~AllText(fields, 1) THEN Malformed
  ELSE WithInputs(fields, InputsOf(Bytes(fields, 2)))

RequestOf(bytes) == RequestFrom(Fields(bytes))

\* A mutant: field 1 is dropped whatever its wire type.
NoFieldOne(field) == field.number # 1

IsKept(field) == field.number # 1 \/ field.wire # 2

WithArguments(request, args) ==
  RequestOf(FlattenSeq([i \in DOMAIN args |-> WriteString(1, args[i])])
            \o Raw(Chosen(request.fields, {i \in DOMAIN request.fields : IsKept(request.fields[i])})))

ResponseFrom(fields) ==
  IF fields = Malformed THEN Malformed
  ELSE IF ~AllText(fields, 2) THEN Malformed
  ELSE [exitCode |-> LastScalar(fields, 1), requestId |-> LastScalar(fields, 3),
        output |-> LastBytes(fields, 2)]

ResponseOf(bytes) == ResponseFrom(Fields(bytes))

ErrorBytes(requestId, message) ==
  WriteVarint(Long(8)) \o WriteVarint(Long(1)) \o WriteString(2, message)
    \o WriteVarint(Long(24)) \o WriteVarint(Long(requestId))

-----------------------------------------------------------------------------
(***************************************************************************)
(* The wire format as a grammar: which byte strings are varints, fields    *)
(* and messages, without a cursor.                                         *)
(***************************************************************************)
IsVarint(b) ==
  /\ Len(b) \in 1..10 /\ b[Len(b)] < 128
  /\ \A i \in 1..(Len(b) - 1) : b[i] >= 128
  /\ Len(b) = 10 => b[10] <= 1

Digit(b, i) == IF i <= Len(b) THEN b[i] % 128 ELSE 0
UnsignedValue(b) ==   \* of a varint whose digits above the fourth are 0
  Digit(b, 1) + 128 * (Digit(b, 2) + 128 * (Digit(b, 3) + 128 * Digit(b, 4)))

(* The tag of a field with this wire type is a varint of 32 bits with a    *)
(* number above 0; a tag is told from another by all but its last 3 bits.  *)
IsTag(b, wire) ==
  /\ IsVarint(b) /\ b[1] % 8 = wire
  /\ \A i \in 6..Len(b) : b[i] % 128 = 0
  /\ Digit(b, 5) < 16
  /\ \E i \in 1..5 : Digit(b, i) >= (IF i = 1 THEN 8 ELSE 1)

SameNumber(a, b) ==
  /\ Digit(a, 1) \div 8 = Digit(b, 1) \div 8
  /\ \A i \in 2..5 : Digit(a, i) = Digit(b, i)

Piece(b, i, j) == SubSeq(b, i + 1, j)
First(b, n) == Piece(b, 0, n)
After(b, n) == Piece(b, n, Len(b))

(* A length and as many bytes. *)
IsCounted(b) ==
  \E m \in DOMAIN b :
    /\ IsVarint(First(b, m)) /\ \A i \in 5..m : b[i] % 128 = 0
    /\ UnsignedValue(First(b, m)) = Len(b) - m

IsFlat(tag, body) ==
  \/ IsTag(tag, 0) /\ IsVarint(body)
  \/ IsTag(tag, 1) /\ Len(body) = 8
  \/ IsTag(tag, 2) /\ IsCounted(body)
  \/ IsTag(tag, 5) /\ Len(body) = 4

(* From i to k there is a field with a tag up to t, in so many groups;     *)
(* legal[groups, i, j]: bytes i + 1 to j are fields within so many.        *)
IsFieldAt(b, legal, groups, i, t, k) ==
  \/ IsFlat(Piece(b, i, t), Piece(b, t, k))
  \/ /\ groups < MaxDepth /\ IsTag(Piece(b, i, t), 3)
     /\ \E e \in t..(k - 1) :
          /\ IsTag(Piece(b, e, k), 4) /\ SameNumber(Piece(b, i, t), Piece(b, e, k))
          /\ legal[<<groups + 1, t, e>>]

AreFieldsAt(b, legal, groups, i, j) ==
  i = j \/ \E t \in (i + 1)..j : \E k \in t..j :
             IsFieldAt(b, legal, groups, i, t, k) /\ legal[<<groups, k, j>>]

Places(b) == (0..MaxDepth) \X (0..Len(b)) \X (0..Len(b))
IsMessage(b) ==
  LET legal[p \in Places(b)] == AreFieldsAt(b, legal, p[1], p[2], p[3]) IN legal[<<0, 0, Len(b)>>]

(* A field is a message that cannot be cut in two. *)
IsField(b) ==
  b # <<>> /\ IsMessage(b)
  /\ \A n \in 1..(Len(b) - 1) : ~(IsMessage(First(b, n)) /\ IsMessage(After(b, n)))

(***************************************************************************)
(* The parser accepts exactly the messages of the grammar, cut as it cuts  *)
(* them, and loses no byte: raw fields one after another are the message.  *)
(***************************************************************************)
ParsedRight(message, fields) ==
  IF IsMessage(message)
  THEN /\ fields # Malformed /\ Raw(fields) = message
       /\ \A field \in Range(fields) : IsField(field.raw)
  ELSE fields = Malformed

ParserIsExact == \A message \in Samples : ParsedRight(message, Fields(message))

(***************************************************************************)
(* A frame is read back whole and the next one is untouched; a frame cut   *)
(* anywhere is an error and never a shorter message or the end of input;   *)
(* lengths that are too long are refused (read, lines 110-125).            *)
(***************************************************************************)
Apart(message, frame) ==
  IF Len(message) > MaxMessage THEN ReadFrame(frame) = Malformed
  ELSE /\ \A rest \in {<<>>, <<0>>, frame} :
            ReadFrame(frame \o rest) = [bytes |-> message, rest |-> rest]
       /\ \A n \in 1..(Len(frame) - 1) : ReadFrame(First(frame, n)) = Malformed

FramesAreApart ==
  /\ ReadFrame(<<>>) = EndOfInput
  /\ \A message \in Samples : Apart(message, Delimited(message))
  /\ \A length \in Lengths : \A message \in {<<>>, <<0, 0>>} : ReadFrame(length \o message) = Malformed

(***************************************************************************)
(* With other arguments a request keeps its id, its inputs and every other *)
(* field byte for byte and in order, field 1 of another type included      *)
(* ("preserves unknown fields when forwarding messages", line 13).         *)
(***************************************************************************)
OtherFields(fields) ==
  LET others == Chosen(fields, {i \in DOMAIN fields : ~(fields[i].number = 1 /\ fields[i].wire = 2)})
  IN [i \in DOMAIN others |-> others[i].raw]

OnlyArguments(request, args, rewritten) ==
  /\ rewritten # Malformed
  /\ rewritten.arguments = args
  /\ rewritten.requestId = request.requestId
  /\ rewritten.inputs = request.inputs
  /\ OtherFields(rewritten.fields) = OtherFields(request.fields)

RewritesArgumentsOnly ==
  \A request \in {RequestOf(message) : message \in Samples} \ {Malformed} :
    \A args \in {<<>>} \cup {<<t>> : t \in Texts} \cup {<<t, u>> : t, u \in Texts} :
      OnlyArguments(request, args, WithArguments(request, args))

(***************************************************************************)
(* An error carries its id, its text and exit code 1 to whoever reads it,  *)
(* for every 32-bit id, and an id is read from a request whether its sign  *)
(* was extended to ten bytes or cut off after five.                        *)
(***************************************************************************)
IdsSurvive ==
  \A id \in RequestIds :
    /\ \A text \in Texts :
         ResponseOf(ErrorBytes(id, text)) = [exitCode |-> 1, requestId |-> id, output |-> text]
    /\ LET wide == WriteVarint(Long(id))
           narrow == [i \in 1..5 |-> IF i < 5 THEN Long(id)[i] + 128 ELSE Long(id)[i] % 16]
       IN \A bytes \in {wide, narrow} :
            RequestOf(<<24>> \o bytes) # Malformed /\ RequestOf(<<24>> \o bytes).requestId = id
=============================================================================
