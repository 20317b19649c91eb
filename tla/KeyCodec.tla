------------------------------ MODULE KeyCodec ------------------------------
(***************************************************************************)
(* The key and VName encodings of the keyvalue GraphStore                  *)
(* (src/go/storage/keyvalue/keyvalue.go, lines 383-521, 358-361).          *)
(*                                                                         *)
(* A Go string or []byte is a sequence of byte values (naturals).  A       *)
(* *spb.VName is a record of five byte strings, or NilVName for nil.  An   *)
(* operation that can fail returns a result record [err, val] whose err is *)
(* "none" on success and otherwise names the early return taken.           *)
(***************************************************************************)
EXTENDS Naturals, Sequences, SequencesExt

CONSTANT NilVName          \* the nil *spb.VName

\* entryKeyPrefix = "entry:", entryKeySep = '\n', vNameFieldSep = "\000"
EntryKeyPrefix == <<101, 110, 116, 114, 121, 58>>
EntryKeySep == 10
VNameFieldSep == 0

\* "entry;": the prefix with its last byte incremented (line 397)
EntryKeyPrefixEndRange == Front(EntryKeyPrefix) \o <<Last(EntryKeyPrefix) + 1>>

\* The edge kind "*" that KeyPrefix reads as "any edge kind"
AnyEdgeKind == <<42>>

Ok(v) == [err |-> "none", val |-> v]
Err(e) == [err |-> e, val |-> <<>>]
Failed(r) == r.err # "none"

HasByte(s, b) == Contains(s, b)

\* bytes.HasPrefix(s, p)
HasPrefix(s, p) == IsPrefix(p, s)

\* strings.Join(parts, string(sep)) for a non-empty sequence of parts
RECURSIVE Join(_, _)
Join(parts, sep) ==
  IF Len(parts) = 1 THEN parts[1]
  ELSE parts[1] \o <<sep>> \o Join(Tail(parts), sep)

\* strings.SplitN(s, string(sep), n) for n >= 1: at most n parts, the last
\* one the unsplit remainder.  The parts end at the first n - 1 separators.
SplitN(s, sep, n) ==
  LET sepsBefore(j) == Cardinality({i \in 1..j - 1 : s[i] = sep})
      cut(m) == CHOOSE j \in 1..Len(s) : s[j] = sep /\ sepsBefore(j) = m - 1
      cuts == Min({n - 1, sepsBefore(Len(s) + 1)})
  IN [m \in 1..cuts + 1 |->
        SubSeq(s, IF m = 1 THEN 1 ELSE cut(m - 1) + 1,
                  IF m <= cuts THEN cut(m) - 1 ELSE Len(s))]

\* Byte-wise lexicographic order of keys, the order of the backend.
RECURSIVE BytesLess(_, _)
BytesLess(a, b) ==
  CASE b = <<>>            -> FALSE
    [] a = <<>>            -> TRUE
    [] Head(a) # Head(b)   -> Head(a) < Head(b)
    [] OTHER               -> BytesLess(Tail(a), Tail(b))

\* The encoded fields with the language left out
VNameFieldsNoLanguage(v) == <<v.signature, v.corpus, v.root, v.path>>

VNameFields(v) == <<v.signature, v.corpus, v.root, v.path, v.language>>

\* encodeVName: nil encodes as the empty string; a field holding the field
\* separator is rejected.
encodeVName(v) ==
  IF v = NilVName THEN Ok(<<>>)
  ELSE IF \E i \in DOMAIN VNameFields(v) : HasByte(VNameFields(v)[i], VNameFieldSep)
       THEN Err("InvalidIdentifier")
       ELSE Ok(Join(VNameFields(v), VNameFieldSep))

\* decodeVName: the empty string decodes to nil; anything else must split
\* into exactly five fields.
decodeVName(data) ==
  IF data = <<>> THEN Ok(NilVName)
  ELSE LET parts == SplitN(data, VNameFieldSep, 5)
       IN IF Len(parts) # 5 THEN Err("MalformedIdentifier")
          ELSE Ok([signature |-> parts[1], corpus |-> parts[2], root |-> parts[3],
                   path |-> parts[4], language |-> parts[5]])

\* EncodeKey: the checks in the order of the code's early returns, then
\* "entry:" source '\n' edgeKind '\n' factName '\n' target.
EncodeKey(source, factName, edgeKind, target) ==
  LET src == encodeVName(source)
      tgt == encodeVName(target)
  IN IF source = NilVName THEN Err("MissingSource")
     ELSE IF (edgeKind = <<>>) # (target = NilVName) THEN Err("KindTargetMismatch")
     ELSE IF HasByte(edgeKind, EntryKeySep) \/ HasByte(factName, EntryKeySep)
          THEN Err("SeparatorInField")
     ELSE IF Failed(src) THEN src
     ELSE IF HasByte(src.val, EntryKeySep) THEN Err("SeparatorInField")
     ELSE IF Failed(tgt) THEN tgt
     ELSE IF HasByte(tgt.val, EntryKeySep) THEN Err("SeparatorInField")
     ELSE Ok(EntryKeyPrefix \o src.val \o <<EntryKeySep>> \o edgeKind
               \o <<EntryKeySep>> \o factName \o <<EntryKeySep>> \o tgt.val)

\* A KeyPrefix without the separator after the source
KeyPrefixNoSourceSep(source, edgeKind) ==
  LET src == encodeVName(source)
      prefix == EntryKeyPrefix \o src.val
  IN IF source = NilVName THEN Err("MissingSource")
     ELSE IF Failed(src) THEN src
     ELSE IF edgeKind = AnyEdgeKind THEN Ok(prefix)
     ELSE Ok(prefix \o <<EntryKeySep>> \o edgeKind \o <<EntryKeySep>>)

\* KeyPrefix: "entry:" source '\n', followed by edgeKind '\n' unless the
\* edge kind is "*".
KeyPrefix(source, edgeKind) ==
  LET src == encodeVName(source)
      prefix == EntryKeyPrefix \o src.val \o <<EntryKeySep>>
  IN IF source = NilVName THEN Err("MissingSource")
     ELSE IF Failed(src) THEN src
     ELSE IF edgeKind = AnyEdgeKind THEN Ok(prefix)
     ELSE Ok(prefix \o edgeKind \o <<EntryKeySep>>)

\* Entry: strip the prefix, split into four parts, decode both VNames.
Entry(key, val) ==
  LET parts == SplitN(SubSeq(key, Len(EntryKeyPrefix) + 1, Len(key)), EntryKeySep, 4)
      src == decodeVName(parts[1])
      tgt == decodeVName(parts[4])
  IN IF ~HasPrefix(key, EntryKeyPrefix) THEN Err("MalformedKey")
     ELSE IF Len(parts) # 4 THEN Err("MalformedKey")
     ELSE IF Failed(src) THEN src
     ELSE IF Failed(tgt) THEN tgt
     ELSE Ok([source |-> src.val, edgeKind |-> parts[2], factName |-> parts[3],
              target |-> tgt.val, factValue |-> val])

\* sourceKindPrefix: the key up to and including its second '\n'.  With
\* SelectInSeq's 0 for "absent", i - 1 and j - 1 are Go's IndexRune results.
sourceKindPrefix(key) ==
  LET i == SelectInSeq(key, LAMBDA b : b = EntryKeySep)
      j == SelectInSeq(SubSeq(key, i + 1, Len(key)), LAMBDA b : b = EntryKeySep)
  IN SubSeq(key, 1, (j - 1) + (i - 1) + 2)

=============================================================================
