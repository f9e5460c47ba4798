---------------------------- MODULE PostingsCodec ----------------------------
(***************************************************************************)
(* How the postings list of one token is stored (postings.c:15-407,        *)
(* util.c:77-111): plain integers, or Golomb codes packed bit by bit.      *)
(*                                                                         *)
(* A stored list is the sequence of its bits.  Integers and the end of a   *)
(* run of codes are aligned to bytes.  The list is decoded, merged and     *)
(* encoded again whenever documents with the token are added, each time    *)
(* with a Golomb parameter computed from the current number of documents.  *)
(***************************************************************************)
EXTENDS Postings, SequencesExt

CONSTANTS
    ByteBits,      \* bits of a byte
    IntBytes,      \* sizeof(int)
    PositionSets,  \* the positions the token may have in a document
    MaxId          \* bound on the document numbers

ASSUME WidthAssumption ==
    ByteBits \in Nat \ {0} /\ IntBytes \in Nat \ {0} /\ MaxId \in Nat

ASSUME PositionsAssumption ==
    \A pos \in PositionSets : pos # {} /\ pos \subseteq Nat /\ IsFiniteSet(pos)

VARIABLES
    compress,   \* env->compress
    documents,  \* the number of documents in the database
    nextId,     \* the next document number
    list,       \* the postings list that has been given to the encoder
    stored      \* its bits

vars == <<compress, documents, nextId, list, stored>>

-----------------------------------------------------------------------------
(***************************************************************************)
(* The buffer.                                                             *)
(***************************************************************************)

\* 1 << k
Power[k \in Nat] == IF k = 0 THEN 1 ELSE 2 * Power[k - 1]

\* The width low bits of n, the highest one first.
Bits(n, width) == [i \in 1..width |-> (n \div Power[width - i]) % 2]

\* r = (r << 1) | z, from bit to bit.
Value(bits) ==
    LET r[i \in 0..Len(bits)] == IF i = 0 THEN 0 ELSE 2 * r[i - 1] + bits[i]
    IN  r[Len(bits)]

\* The first bit number at or after at where a byte begins.
NextByte(at) == IF at % ByteBits = 0 THEN at ELSE at + ByteBits - (at % ByteBits)

\* append_buffer(buf, NULL, 0)
Aligned(buf) == buf \o [i \in 1..(NextByte(Len(buf)) - Len(buf)) |-> 0]

IntBits == IntBytes * ByteBits

ASSUME FitAssumption ==
    /\ MaxId < Power[IntBits]
    /\ \A pos \in PositionSets : \A p \in pos : p + 1 < Power[IntBits]

WithInt(buf, n) == Aligned(buf) \o Bits(n, IntBits)

IntAt(buf, at) == Value(SubSeq(buf, at + 1, at + IntBits))

-----------------------------------------------------------------------------
(***************************************************************************)
(* Golomb codes: the quotient by m in unary, the remainder in one bit less *)
(* than Width(m) if it is smaller than Spare(m), else in Width(m) bits.    *)
(***************************************************************************)
Width(m) == CHOOSE b \in 0..m : Power[b] >= m /\ (b > 0 => Power[b - 1] < m)

Spare(m) == Power[Width(m)] - m

\* Slip: the comparison with t includes t.
RemainderIncluding(m, r) ==
    IF m = 1 THEN <<>>
    ELSE IF r <= Spare(m) THEN Bits(r, Width(m) - 1)
    ELSE Bits(r + Spare(m), Width(m))

Remainder(m, r) ==
    IF m = 1 THEN <<>>
    ELSE IF r < Spare(m) THEN Bits(r, Width(m) - 1)
    ELSE Bits(r + Spare(m), Width(m))

Code(m, n) == [i \in 1..(n \div m) |-> 1] \o <<0>> \o Remainder(m, n % m)

\* The ones that are read from bit at on, up to a zero.
Ones(buf, at) ==
    CHOOSE k \in 0..(Len(buf) - at) :
        /\ buf[at + k + 1] = 0
        /\ \A i \in 1..k : buf[at + i] = 1

\* golomb_decoding: the number that is read from bit at on, and where it ends.
NumberAt(m, buf, at) ==
    LET quotient == Ones(buf, at)
        tail == at + quotient + 1
        end == tail + Width(m) - 1
        r == Value(SubSeq(buf, tail + 1, end))
    IN  CASE m = 1 -> [value |-> quotient, at |-> tail]
          [] m > 1 /\ r < Spare(m) -> [value |-> quotient * m + r, at |-> end]
          [] OTHER -> [value |-> quotient * m + 2 * r + buf[end + 1] - Spare(m),
                       at |-> end + 1]

\* Numbers in ascending order, all greater than before, by their gaps.
Codes(m, numbers, before) ==
    FlattenSeq([i \in 1..Len(numbers) |->
        Code(m, numbers[i] - (IF i = 1 THEN before ELSE numbers[i - 1]) - 1)])

\* One round of the loops over gaps: last is pre_document_id or position.
NumberRead(m, buf, done) ==
    LET gap == NumberAt(m, buf, done.at)
        number == done.last + gap.value + 1
    IN  [numbers |-> Append(done.numbers, number), last |-> number, at |-> gap.at]

NumbersAt(m, count, buf, start, before) ==
    LET read[i \in 0..count] ==
            IF i = 0 THEN [numbers |-> <<>>, last |-> before, at |-> start]
                     ELSE NumberRead(m, buf, read[i - 1])
    IN  read[count]

-----------------------------------------------------------------------------
(***************************************************************************)
(* Lists: encode_postings and decode_postings.                             *)
(***************************************************************************)
\* The positions of a posting from the first to the last.
PositionSeq(posting) ==
    LET n == Cardinality(posting.pos)
    IN  CHOOSE q \in [1..n -> posting.pos] :
            \A i \in 1..n, j \in 1..n : i < j => q[i] < q[j]

\* How many numbers there are, the parameter of their codes, and these.
WithNumbers(buf, m, numbers, before) ==
    Aligned(WithInt(WithInt(buf, Len(numbers)), m) \o Codes(m, numbers, before))

WithPositions(buf, posting) ==
    LET numbers == PositionSeq(posting)
        m == (Last(numbers) + 1) \div Len(numbers)
    IN  WithNumbers(buf, m, numbers, -1)

EncodedGolomb(postings, count) ==
    LET m == count \div Len(postings)
        numbers == [i \in 1..Len(postings) |-> postings[i].doc]
        encoded[i \in 0..Len(postings)] ==
            IF i = 0 THEN WithNumbers(<<>>, m, numbers, 0)
                     ELSE WithPositions(encoded[i - 1], postings[i])
    IN  encoded[Len(postings)]

EncodedNone(postings) ==
    LET Ints(posting) ==
            <<posting.doc, Cardinality(posting.pos)>> \o PositionSeq(posting)
        ints == FlattenSeq([i \in 1..Len(postings) |-> Ints(postings[i])])
    IN  FlattenSeq([i \in 1..Len(ints) |-> Bits(ints[i], IntBits)])

Encoded(postings, count) ==
    IF compress = "golomb" THEN EncodedGolomb(postings, count)
                           ELSE EncodedNone(postings)

\* Slip: the byte behind the positions is passed over even if it was not begun.
PositionsReadUnaligned(buf, doc, done) ==
    LET count == IntAt(buf, done.at)
        m == IntAt(buf, done.at + IntBits)
        positions == NumbersAt(m, count, buf, done.at + 2 * IntBits, -1)
    IN  [list |-> Append(done.list, [doc |-> doc, pos |-> ToSet(positions.numbers)]),
         at |-> positions.at + ByteBits - (positions.at % ByteBits)]

\* One round of the loop over the postings, which have their numbers already.
PositionsRead(buf, doc, done) ==
    LET count == IntAt(buf, done.at)
        m == IntAt(buf, done.at + IntBits)
        positions == NumbersAt(m, count, buf, done.at + 2 * IntBits, -1)
    IN  [list |-> Append(done.list, [doc |-> doc, pos |-> ToSet(positions.numbers)]),
         at |-> NextByte(positions.at)]

DecodedGolomb(buf) ==
    LET docs == NumbersAt(IntAt(buf, IntBits), IntAt(buf, 0), buf, 2 * IntBits, 0)
        read[i \in 0..Len(docs.numbers)] ==
            IF i = 0 THEN [list |-> <<>>, at |-> NextByte(docs.at)]
                     ELSE PositionsRead(buf, docs.numbers[i], read[i - 1])
    IN  read[Len(docs.numbers)]

\* The number of a posting, how many positions it has, and these are read in the
\* round of the first of them; done.next is past what has been read.
PostingRead(buf, i, done) ==
    LET Number(j) == IntAt(buf, (j - 1) * IntBits)
        last == i + 1 + Number(i + 1)
    IN  IF i < done.next THEN done
        ELSE [list |-> Append(done.list, [doc |-> Number(i),
                                          pos |-> {Number(j) : j \in (i + 2)..last}]),
              next |-> last + 1]

DecodedNone(buf) ==
    LET n == Len(buf) \div IntBits
        read[i \in 0..n] ==
            IF i = 0 THEN [list |-> <<>>, next |-> 1] ELSE PostingRead(buf, i, read[i - 1])
    IN  read[n]

\* fetch_postings: an empty value is not decoded.
Fetched(buf) ==
    CASE buf = <<>> -> <<>>
      [] buf # <<>> /\ compress = "golomb" -> DecodedGolomb(buf).list
      [] OTHER -> DecodedNone(buf).list

-----------------------------------------------------------------------------
Init ==
    /\ compress \in {"none", "golomb"}
    /\ documents = 0
    /\ nextId = 1
    /\ list = <<>>
    /\ stored = <<>>

\* A document without the token.
AddOther ==
    /\ nextId <= MaxId
    /\ nextId' = nextId + 1
    /\ documents' = documents + 1
    /\ UNCHANGED <<compress, list, stored>>

\* A run that does not commit leaves a gap in the numbers.
LoseDocument ==
    /\ nextId <= MaxId
    /\ nextId' = nextId + 1
    /\ UNCHANGED <<compress, documents, list, stored>>

\* update_postings for a document that has the token at the positions pos.
Update(pos) ==
    LET added == <<[doc |-> nextId, pos |-> pos]>>
    IN  /\ nextId <= MaxId
        /\ nextId' = nextId + 1
        /\ documents' = documents + 1
        /\ list' = Merge(list, added)
        /\ stored' = Encoded(Merge(Fetched(stored), added), documents')
        /\ UNCHANGED compress

Next == AddOther \/ LoseDocument \/ \E pos \in PositionSets : Update(pos)

Spec == Init /\ [][Next]_vars

-----------------------------------------------------------------------------
(***************************************************************************)
(* What is stored decodes to what was encoded, bit by bit, through all     *)
(* changes of the Golomb parameter (encode_postings, decode_postings).     *)
(***************************************************************************)
StoredIsList == Fetched(stored) = list

(***************************************************************************)
(* The encoder stores whole bytes, and the decoder reads exactly these: a  *)
(* partial byte is neither lost at the end nor read as the next integer    *)
(* (BUFFER_SIZE counts bytes; postings.c:263-267, 284-288).                *)
(***************************************************************************)
WholeBytesAreRead ==
    /\ Len(stored) % ByteBits = 0
    /\ stored # <<>> /\ compress = "golomb" =>
           DecodedGolomb(stored).at = Len(stored)

=============================================================================
