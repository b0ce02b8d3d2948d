------------------------------- MODULE Dypkt -------------------------------
(***************************************************************************)
(* Packets of records (c/dypkt.h): a writer appends records, each a type   *)
(* and index marker and a payload, and hands the bytes before its position *)
(* to a reader, which may receive fewer of them (a short fread).  The      *)
(* reader is the loop of c/main.c and c/README.md: while bytes remain, ask *)
(* for the type of the next record, then call the dyp_next_ function of    *)
(* that type; or it knows the order of the records and asks for no type.   *)
(*                                                                         *)
(* Of what they read of fixed width the dyp_next_ functions test nothing.  *)
(* A call that reads bytes behind the limit is made here like any other;   *)
(* what those bytes hold is not modelled, and the reader is astray.        *)
(*                                                                         *)
(* A record is [type, index, value].  Floats and doubles are their bytes,  *)
(* strings and data are sequences of bytes.                                *)
(***************************************************************************)
EXTENDS Typdex, SequencesExt

CONSTANTS
  Records,     \* the records the writer may append
  MaxRecords,  \* bound: the most records of a packet
  Null

V == INSTANCE VarInt WITH W <- 8

VARIABLES
  wire,      \* the bytes before the writer's position
  written,   \* the records appended so far
  limit,     \* how many bytes the reader was given, Null before that
  position,  \* of the reader
  read,      \* the records the reader has got
  seen,      \* the type and index dyp_next_type gave, Null once they are dealt with
  astray     \* whether bytes behind the limit have been read

reader == <<position, read, seen, astray>>
vars == <<wire, written, limit, reader>>

(* enum dype and enum dype_fid *)
dype_bool == 1
dype_int == 2
dype_uint == 3
dype_float == 6
dype_double == 7
dype_string == 10
dype_bytes == 11
dype_f == 15
dype_f_eof == 0
dype_f_version == 1
dype_f_protocol == 7
dype_f_proto_version == 8

-----------------------------------------------------------------------------
(* How the payload of a record is coded; functions differ by their index,   *)
(* and there is none for the types the readers do not know.                 *)
Coding(type, index) ==
  CASE type = dype_bool -> "bool"
    [] type = dype_int -> "s64"
    [] type = dype_uint -> "u64"
    [] type = dype_float -> "float"
    [] type = dype_double -> "double"
    [] type = dype_string -> "cstring"
    [] type = dype_bytes -> "data"
    [] type = dype_f /\ index = dype_f_eof -> "nothing"
    [] type = dype_f /\ index \in {dype_f_version, dype_f_proto_version} -> "u64"
    [] type = dype_f /\ index = dype_f_protocol -> "cstring"
    [] OTHER -> "unknown"

(* What the parameters of the dyp_append_ functions can hold.  An int64 is   *)
(* the zig-zag of a uint64; the length of a block is a uint of 32 bits, and  *)
(* a string's terminating zero counts.                                       *)
Uint32(n) == (n \div Word) \div Word = 0
Uint(n) == n - (((n \div Word) \div Word) * Word) * Word  \* the cast
Uint64(n) == Uint32((n \div Word) \div Word)
Holds(coding, value) ==
  CASE coding = "bool" -> value \in BOOLEAN
    [] coding = "s64" -> value \in Int /\ Uint64(V!ZigZag(value))
    [] coding = "u64" -> value \in Nat /\ Uint64(value)
    [] coding = "float" -> value \in Seq(UByte) /\ Len(value) = 4
    [] coding = "double" -> value \in Seq(UByte) /\ Len(value) = 8
    [] coding = "cstring" -> value \in Seq(UByte) /\ Uint32(Len(value) + 1)
    [] coding = "data" -> value \in Seq(UByte) /\ Uint32(Len(value))
    [] coding = "nothing" -> value = <<>>
    [] OTHER -> FALSE

ASSUME RecordsAssumption ==
  /\ Null \notin Nat
  /\ \A record \in Records :
       /\ record = [type |-> record.type, index |-> record.index, value |-> record.value]
       /\ record.index \in Nat
       /\ record.value # Null
       /\ Holds(Coding(record.type, record.index), record.value)

(* A cstring is sent with its terminating zero, which its length counts. *)
CstringShort(value) == V!VarU64Bytes(Len(value)) \o value \o <<0>>
Cstring(value) == V!VarU64Bytes(Len(value) + 1) \o value \o <<0>>
Data(value) == V!VarU64Bytes(Len(value)) \o value

Payload(coding, value) ==
  CASE coding = "bool" -> <<IF value THEN 1 ELSE 0>>
    [] coding = "s64" -> V!VarS64Bytes(value)
    [] coding = "u64" -> V!VarU64Bytes(value)
    [] coding \in {"float", "double"} -> value
    [] coding = "cstring" -> Cstring(value)
    [] coding = "data" -> Data(value)
    [] coding = "nothing" -> <<>>

(* What a dyp_next_ function makes of the payload behind p, and where it    *)
(* ends.  A block that is not there gives null and only its length is       *)
(* consumed; an empty one comes back as null with size 0, here <<>>, but a  *)
(* cstring, which is never empty, as null.                                  *)
Fixed(p, n, value) == [value |-> value, end |-> p + n]
VarLengthUnchecked(p, cut) ==
  LET length == V!VarU64At(wire, p + 1)
      start == p + length.width
      end == start + length.value
  IN [value |-> SubSeq(wire, start + 1, end - cut), end |-> end]
VarLength(p, cut) ==
  LET length == V!VarU64At(wire, p + 1)
      len == Uint(length.value)
      start == p + length.width
      end == start + len
  IN IF len < cut \/ (len # 0 /\ Uint(end) > limit)
     THEN [value |-> Null, end |-> start]
     ELSE [value |-> SubSeq(wire, start + 1, end - cut), end |-> end]

PayloadAt(coding, p) ==
  CASE coding = "bool" -> Fixed(p, 1, wire[p + 1] # 0)
    [] coding = "s64" -> Fixed(p, V!VarS64At(wire, p + 1).width, V!VarS64At(wire, p + 1).value)
    [] coding = "u64" -> Fixed(p, V!VarU64At(wire, p + 1).width, V!VarU64At(wire, p + 1).value)
    [] coding = "float" -> Fixed(p, 4, SubSeq(wire, p + 1, p + 4))
    [] coding = "double" -> Fixed(p, 8, SubSeq(wire, p + 1, p + 8))
    [] coding = "cstring" -> VarLength(p, 1)
    [] coding = "data" -> VarLength(p, 0)
    [] coding = "nothing" -> Fixed(p, 0, <<>>)

-----------------------------------------------------------------------------
Init ==
  /\ wire = <<>>
  /\ written = <<>>
  /\ limit = Null
  /\ position = 0
  /\ read = <<>>
  /\ seen = Null
  /\ astray = FALSE

(* dyp_append_*: the marker, if the index fits one, then the payload.  A     *)
(* position is a uint, which bounds the packet.                              *)
AppendRecord(record) ==
  /\ limit = Null
  /\ Len(written) < MaxRecords
  /\ wire' = wire \o TypdexBytes(record.type, record.index)
                  \o Payload(Coding(record.type, record.index), record.value)
  /\ Uint32(Len(wire'))
  /\ written' = Append(written, record)
  /\ UNCHANGED <<limit, reader>>

(* dyp_get_position, dyp_release, and dyp_unpack of what arrived. *)
Unpack(size) ==
  /\ limit = Null
  /\ limit' = size
  /\ UNCHANGED <<wire, written, reader>>

Reading == limit # Null /\ ~astray

(* The loop goes on while bytes remain: dyp_next_type peeks at the marker.  *)
NextType ==
  /\ Reading
  /\ seen = Null
  /\ limit - position > 0
  /\ IF position + WidthOf(wire[position + 1]) <= limit
     THEN seen' = TypdexAt(wire, position + 1) /\ UNCHANGED astray
     ELSE astray' = TRUE /\ UNCHANGED seen
  /\ UNCHANGED <<wire, written, limit, position, read>>

(* How many bytes a marker, and a payload behind p, take: their first byte  *)
(* says it, and behind the limit that byte can be anything.                 *)
MarkerWidths == IF position < limit THEN {WidthOf(wire[position + 1])} ELSE 0 .. 4
PayloadWidths(coding, p) ==
  CASE coding = "nothing" -> {0}
    [] coding = "bool" -> {1}
    [] coding = "float" -> {4}
    [] coding = "double" -> {8}
    [] OTHER -> IF p < limit THEN {V!FormOf(wire[p + 1])} ELSE V!Forms

(* dyp_next_*: the marker is skipped, whatever it says, and the payload     *)
(* read as the function's own type.  A length so large that its end wraps a *)
(* uint passes the test of dyb_next_data_without_len.                       *)
ReadPayload(type, coding, p) ==
  LET payload == PayloadAt(coding, p)
  IN /\ position' = Uint(payload.end)
     /\ read' = Append(read, [type |-> type, index |-> TypdexAt(wire, position + 1).index,
                              value |-> payload.value])
     /\ astray' = (payload.end # Uint(payload.end))
Overread(end) ==
  /\ position' = end
  /\ astray' = TRUE
  /\ UNCHANGED read
NextRecord(type, coding) ==
  /\ \E w \in MarkerWidths : \E n \in PayloadWidths(coding, position + w) :
       IF position < limit /\ position + w + n <= limit
       THEN ReadPayload(type, coding, position + w)
       ELSE Overread(position + w + n)
  /\ seen' = Null
  /\ UNCHANGED <<wire, written, limit>>

(* The cases of the switch of c/main.c.  That of dype_bytes is still to do, *)
(* and other types and functions have none: their record is left where it   *)
(* is, and the loop goes on.                                                *)
CasesNoEof == {"bool", "s64", "u64", "float", "double", "cstring"}
Cases == {"bool", "s64", "u64", "float", "double", "cstring", "nothing"}
ReadByType ==
  /\ seen # Null
  /\ LET coding == Coding(seen.type, seen.index)
     IN IF coding \in Cases
        THEN NextRecord(seen.type, coding)
        ELSE seen' = Null /\ UNCHANGED <<wire, written, limit, position, read, astray>>

(* A reader that knows the order of the records asks for no type, and not   *)
(* for what remains.                                                        *)
ReadInOrder ==
  /\ Reading
  /\ seen = Null
  /\ Len(read) < Len(written)
  /\ LET record == written[Len(read) + 1]
     IN NextRecord(record.type, Coding(record.type, record.index))

Pack ==
  \/ \E record \in Records : record.index <= MaxIndex /\ AppendRecord(record)
  \/ \E size \in 0 .. Len(wire) : Unpack(size)

Loop == NextType \/ ReadByType
Next == Pack \/ Loop \/ ReadInOrder

(* The loop runs until it is done. *)
Spec == Init /\ [][Next]_vars /\ WF_vars(Loop)

-----------------------------------------------------------------------------
(* The wire holds bytes, and until bytes behind it were read the reader is  *)
(* inside what it was given.                                                *)
TypeOK ==
  /\ wire \in Seq(UByte)
  /\ written \in Seq(Records)
  /\ limit = Null \/ limit \in 0 .. Len(wire)
  /\ position \in Nat
  /\ ~astray => position <= (IF limit = Null THEN 0 ELSE limit)
  /\ seen = Null \/ seen \in [type : UByte, index : 0 .. MaxIndex, width : 0 .. 4]
  /\ astray \in BOOLEAN

(* Reading gives back the records in the order they were appended, type,    *)
(* index and value (c/README.md: knowing the order of the appended data one *)
(* can just call dyp_next_xxx in order to get it), until a null comes of a  *)
(* block that the packet was cut in; and only of a packet that was cut does *)
(* it give a null or bytes behind the limit.                                *)
ReadIsPrefix ==
  /\ astray => limit < Len(wire)
  /\ \A j \in 1 .. Len(read) :
       (\A i \in 1 .. j - 1 : read[i].value # Null) =>
         /\ j <= Len(written)
         /\ \/ read[j] = written[j]
            \/ limit < Len(wire) /\ read[j] = [written[j] EXCEPT !.value = Null]

(* After every record the reader stands exactly behind the bytes its writer *)
(* appended for the records read: the markers and lengths leave no slack.   *)
AtRecordBoundary ==
  ~astray /\ (\A j \in 1 .. Len(read) : read[j].value # Null) =>
    SubSeq(wire, 1, position) =
      FlattenSeq([j \in 1 .. Len(read) |->
        TypdexBytes(written[j].type, written[j].index)
          \o Payload(Coding(written[j].type, written[j].index), written[j].value)])

(* A packet that arrived whole is read to its end, if the switch of         *)
(* c/main.c has a case for each of its records.                             *)
WholePacketRead ==
  (/\ limit = Len(wire)
   /\ \A j \in 1 .. Len(written) : Coding(written[j].type, written[j].index) # "data")
     ~> (position = Len(wire) /\ read = written)

=============================================================================
