------------------------------ MODULE ScanReads ------------------------------
(***************************************************************************)
(* What a rule function reads of a scan, with the helpers of               *)
(* scripts/ruleset.yar.cpp: where the strings occur and how long the       *)
(* occurrences are, by an index that the generated code has lowered by     *)
(* one, and integers in the data, at any offset and in either byte order.  *)
(* What is not there is UNDEFINED, an ordinary word.                       *)
(***************************************************************************)
EXTENDS MachineWords, SequencesExt

CONSTANTS
  ByteSize,   \* 2^8
  Undefined,  \* UNDEFINED, a word near the largest
  Rules,      \* conditions with what a scan found, see FoundType
  NoRule      \* the value of `rule` while no rule is evaluated

(***************************************************************************)
(* What a scan has found: the occurrences of the strings $0, $1, ..., each *)
(* an offset and a length, in the order of add_match; how often the        *)
(* mutexes matched; and the data.                                          *)
(***************************************************************************)
FoundType(r) ==
  /\ r.matches \in Seq(Seq([offset : Words, length : Words]))
  /\ r.mutexes \in Seq(Words)
  /\ r.data \in Seq(0 .. ByteSize - 1)

ASSUME RulesAssumption == NoRule \notin Rules /\ \A r \in Rules : FoundType(r)
\* No buffer comes within a word of the end of the address space, and UNDEFINED
\* is more than any buffer can hold.
ASSUME SizesAssumption ==
  /\ Undefined \in Words
  /\ \A r \in Rules :
       /\ Len(r.data) + 4 <= WordSize /\ Len(r.data) < Undefined
       /\ \A k \in DOMAIN r.matches : Len(r.matches[k]) < Undefined

VARIABLE rule  \* the rule whose function runs, or NoRule
-----------------------------------------------------------------------------
Bool(b) == IF b THEN 1 ELSE 0

\* The C++ operators that compare two std::uint64_t.
Comparisons == {"==", "<", "<=", ">", ">="}
Compare(op, a, b) ==
  CASE op = "==" -> Bool(a = b)
    [] op = "<" -> Bool(a < b)
    [] op = "<=" -> Bool(a <= b)
    [] op = ">" -> Bool(a > b)
    [] op = ">=" -> Bool(a >= b)

Occurrences(r, id) == r.matches[id + 1]
Offsets(r, id) == [k \in DOMAIN Occurrences(r, id) |-> Occurrences(r, id)[k].offset]

\* Mutant: match_length looks at the offsets.
LengthsOfOffsets(r, id) == Offsets(r, id)

Lengths(r, id) == [k \in DOMAIN Occurrences(r, id) |-> Occurrences(r, id)[k].length]

\* Mutant: an occurrence that is not there is at offset 0.
EntryOrZero(entries, at) == IF at < Len(entries) THEN entries[at + 1] ELSE 0

\* match_offset and match_length: index < offsets.size() ? offsets[index] : UNDEFINED
Entry(entries, at) == IF at < Len(entries) THEN entries[at + 1] ELSE Undefined

\* Mutant: the last byte of the data is taken to be beyond it.
ReadableButLast(size, offset, width) == offset < size /\ Plus(offset, width) < size

\* read_data: !(offset >= data_size || offset + sizeof(T) > data_size)
Readable(size, offset, width) == offset < size /\ Plus(offset, width) <= size

\* endian_convert<endian, Endian::Native> on a little-endian host swaps the
\* bytes of a big-endian value.  A value has four bytes at most.
Converted(bytes, order) == IF order = "be" THEN Reverse(bytes) ELSE bytes
Loaded(bytes) ==
  LET byte(k) == IF k <= Len(bytes) THEN bytes[k] ELSE 0
  IN  byte(1) + ByteSize * (byte(2) + ByteSize * (byte(3) + ByteSize * byte(4)))

\* The unsigned type of the same width is read, whether T is signed or not.
ReadData(data, offset, width, order) ==
  IF Readable(Len(data), offset, width)
    THEN Loaded(Converted(SubSeq(data, offset + 1, offset + width), order))
    ELSE Undefined
-----------------------------------------------------------------------------
(***************************************************************************)
(* A read gives the bytes of the data at its offset, the least significant *)
(* one first or last, when all of them are there, and UNDEFINED otherwise: *)
(* also where offset + sizeof(T) wraps around to a small number, and where *)
(* offset itself is UNDEFINED (ruleset.yar.cpp:221-230).                   *)
(***************************************************************************)
ReadsExact ==
  rule # NoRule =>
    \A offset \in Words, width \in {1, 2, 4}, order \in {"le", "be"} :
      ReadData(rule.data, offset, width, order) =
        IF offset + width > Len(rule.data) THEN Undefined
        ELSE Loaded([k \in 1 .. width |->
                      rule.data[offset + (IF order = "be" THEN width + 1 - k ELSE k)]])

(***************************************************************************)
(* @s[i] and !s[i], printed with i - 1, are of the i-th occurrence in the  *)
(* order of add_match, and UNDEFINED for an i beyond the last one and for  *)
(* 0, whose i - 1 is the largest word (codegen.hpp:391 and 409,            *)
(* ruleset.yar.cpp:100-110).                                               *)
(***************************************************************************)
EntriesExact ==
  rule # NoRule =>
    \A id \in 0 .. Len(rule.matches) - 1, i \in Words :
      LET found == Occurrences(rule, id)
          there == i \in 1 .. Len(found)
      IN  /\ Entry(Offsets(rule, id), Minus(i, 1)) = IF there THEN found[i].offset ELSE Undefined
          /\ Entry(Lengths(rule, id), Minus(i, 1)) = IF there THEN found[i].length ELSE Undefined
=============================================================================
