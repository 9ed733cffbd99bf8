----------------------------- MODULE Canonical -----------------------------
(***************************************************************************)
(* The canonical byte encoding (src/canonical.cpp, include/dc/canonical.hpp) *)
(* that every journal record, snapshot, message and identity goes through: a *)
(* writer that appends fixed-width integers, length-prefixed strings and   *)
(* counted lists, and a reader that takes them off again, checking bounds   *)
(* and domains.                                                             *)
(*                                                                         *)
(* A layout is the sequence of the fields one encode_x or decode_x function *)
(* passes over, in its order.  Bytes are cells: a value written in w bytes  *)
(* is w cells that say where in which value they stand, so a reader that    *)
(* takes another width, or starts in the middle of a value, does not find   *)
(* what was written.  SHA-256 is taken to be free of collisions: a digest is *)
(* the bytes it was made of.                                                *)
(***************************************************************************)
EXTENDS Integers, Sequences, SequencesExt

CONSTANTS DigestBytes,    \* Digest256::kBytes (32)
          MaxString,      \* CanonicalLimits::max_string_bytes and max_blob_bytes
          MaxItems,       \* CanonicalLimits::max_items
          CappedItems     \* what stands for a smaller cap a decoder names, where MaxItems is small

ASSUME CanonicalConstants == /\ DigestBytes \in Nat \ {0}
                             /\ MaxString \in Nat
                             /\ MaxItems \in Nat
                             /\ CappedItems \in 0..MaxItems

(* A field: its kind, its name, the bound the reader checks (0: none; of an *)
(* enumeration the writer has its enumerators and the reader the last one), *)
(* and the layout of what it holds.                                         *)
Field(kind, name, bound, sub) == [kind |-> kind, name |-> name, bound |-> bound, sub |-> sub]
Fields(kind, names) == [i \in 1..Len(names) |-> Field(kind, names[i], 0, <<>>)]

u8(names)     == Fields("u8", names)
u16(names)    == Fields("u16", names)
u32(names)    == Fields("u32", names)
u64(names)    == Fields("u64", names)
i64(names)    == Fields("i64", names)
f64(names)    == Fields("f64", names)
boolean(names) == Fields("bool", names)
str(names)    == Fields("str", names)
blob(names)   == Fields("blob", names)
digest(names) == Fields("digest", names)
id(names)     == Fields("id", names)
gen(names)    == Fields("gen", names)
optional_id(names) == Fields("optional_id", names)
domain(tag)   == <<Field("domain", tag, 0, <<>>)>>
enum(name, last) == <<Field("enum", name, last, <<>>)>>
code(name, last) == <<Field("code", name, last, <<>>)>>
enumerator(name, type) == <<Field("enum", name, type, <<>>)>>     \* u8(static_cast<std::uint8_t>(x.name))
enumerator16(name, type) == <<Field("code", name, type, <<>>)>>
range(name, low, high) == <<Field("range", name, <<low, high>>, <<>>)>>       \* 32 bits
range16(name, low, high) == <<Field("range16", name, <<low, high>>, <<>>)>>
range64(name, low, high) == <<Field("range64", name, <<low, high>>, <<>>)>>
rec(name, sub)  == <<Field("rec", name, 0, sub)>>
list(name, sub) == <<Field("list", name, MaxItems, sub)>>
capped(name, cap, sub) == <<Field("list", name, IF cap < MaxItems THEN cap ELSE CappedItems, sub)>>
table(name, cap, sub) == <<Field("table", name, cap, sub)>>  \* a list with a 64-bit count
repeat(name, count, sub) == <<Field("repeat", name, count, sub)>>  \* as many as an earlier field says
present(name, sub) == <<Field("present", name, 0, sub)>>   \* a flag, then the value if it is there
string_list(name) == list(name, str(<<"item">>))           \* write_string_list, read_string_list
hashed(name, sub) == <<Field("hashed", name, 0, sub)>>     \* the digest of a nested record
unless(name, value, sub) == <<Field("unless", name, value, sub)>>  \* a flag, then sub if the field has another value
switch(name, cases) == <<Field("switch", name, 0, cases)>> \* the layout the field's value selects

Width(kind) ==
  CASE kind \in {"u8", "bool", "enum"} -> 1
    [] kind \in {"u16", "code", "range16"} -> 2
    [] kind \in {"u32", "range"} -> 4
    [] kind \in {"u64", "i64", "f64", "id", "optional_id", "gen", "range64"} -> 8
    [] kind \in {"digest", "hashed"} -> DigestBytes

FixedWidth == {"u8", "bool", "enum", "u16", "code", "u32", "range", "range16", "range64",
               "u64", "i64", "f64", "id", "optional_id", "gen", "digest"}

(***************************************************************************)
(* CanonicalWriter                                                          *)
(***************************************************************************)
Cells(width, type, value) == [i \in 1..width |-> <<width, i, type, value>>]

Type(kind) == CASE kind \in {"digest", "hashed"} -> "digest" [] kind = "domain" -> "tag" [] OTHER -> "int"

Sha256(bytes) == <<"sha256", bytes>>

(* What a record of this layout is written as.  A value is a function from  *)
(* field names; a list is a sequence of such functions, an absent optional  *)
(* record the empty sequence and a present one a sequence of length one.    *)
(* The writer throws length_error for a string, blob, list or record over   *)
(* its CanonicalLimits; values here are within them.                        *)
CountWidth(kind) ==
  CASE kind = "list" -> 4 [] kind = "table" -> 8 [] kind = "present" -> 1 [] kind = "repeat" -> 0

RECURSIVE Write(_, _)
WriteValue(f, v) ==
  CASE f.kind \in FixedWidth -> Cells(Width(f.kind), Type(f.kind), v)
    [] f.kind \in {"str", "blob"} -> Cells(4, "int", Len(v)) \o FlattenSeq([j \in 1..Len(v) |-> Cells(1, "int", v[j])])
    [] f.kind = "rec" -> Write(f.sub, v)
    [] f.kind = "hashed" -> Cells(DigestBytes, "digest", Sha256(Write(f.sub, v)))
    [] OTHER -> Cells(CountWidth(f.kind), "int", Len(v)) \o FlattenSeq([j \in 1..Len(v) |-> Write(f.sub, v[j])])

WriteField(f, value) ==
  CASE f.kind = "domain" -> Cells(1, "tag", f.name)
    [] f.kind = "unless" -> IF value[f.name] = f.bound THEN Cells(1, "int", 0)
                            ELSE Cells(1, "int", 1) \o Write(f.sub, value)
    [] f.kind = "switch" -> IF value[f.name] < Len(f.sub) THEN Write(f.sub[value[f.name] + 1], value) ELSE <<>>
    [] OTHER -> WriteValue(f, value[f.name])

Write(layout, value) == FlattenSeq([k \in 1..Len(layout) |-> WriteField(layout[k], value)])

(* A 64-bit handle made from the leading bytes of a digest; two records may *)
(* share one.                                                               *)
RECURSIVE Handle(_)
Handle(bytes) ==
  IF bytes = <<>> THEN 1
  ELSE LET c == Head(bytes)
       IN (IF c[3] = "int" /\ c[2] = 1 THEN c[4] ELSE 0) + Handle(Tail(bytes))

(***************************************************************************)
(* CanonicalReader                                                          *)
(***************************************************************************)
Misread == -1
NoDigest == <<>>

Took(width, type, bytes, at) ==
  LET v == bytes[at + 1][4]
  IN IF SubSeq(bytes, at + 1, at + width) = Cells(width, type, v) THEN v
     ELSE CASE type = "digest" -> <<"misread">> [] type = "tag" -> "misread" [] OTHER -> Misread

Refused(at) == [ok |-> FALSE, at |-> at, value |-> <<>>]
Accepted(at, value) == [ok |-> TRUE, at |-> at, value |-> value]

(* need(count), then the bytes, then the domain of the kind.                *)
ReadFixed(f, bytes, at) ==
  LET w == Width(f.kind)
      v == Took(w, Type(f.kind), bytes, at)
      inDomain == CASE f.kind = "bool" -> v \in {0, 1}
                    [] f.kind \in {"enum", "code"} -> v <= f.bound
                    [] f.kind \in {"range", "range16", "range64"} -> v >= f.bound[1] /\ v <= f.bound[2]
                    [] f.kind = "id" -> v # 0
                    [] OTHER -> TRUE
  IN IF at + w > Len(bytes) THEN Refused(at)
     ELSE IF inDomain THEN Accepted(at + w, v) ELSE Refused(at)

ReadText(bytes, at) ==
  LET n == Took(4, "int", bytes, at)
  IN IF at + 4 > Len(bytes) THEN Refused(at)
     ELSE IF n = Misread \/ n > MaxString \/ at + 4 + n > Len(bytes) THEN Refused(at)
     ELSE Accepted(at + 4 + n, [j \in 1..n |-> Took(1, "int", bytes, at + 3 + j)])

ReadDomain(tag, bytes, at) ==
  IF at + 1 > Len(bytes) THEN Refused(at)
  ELSE IF Took(1, "tag", bytes, at) = tag THEN Accepted(at + 1, tag) ELSE Refused(at)

(* The count of a list or the flag of an optional record.                   *)
ReadCount(f, bytes, at) ==
  LET w == CountWidth(f.kind)
      n == Took(w, "int", bytes, at)
  IN IF at + w > Len(bytes) THEN Refused(at)
     ELSE IF n = Misread \/ n > (IF f.kind = "present" THEN 1 ELSE f.bound) THEN Refused(at)
     ELSE Accepted(at + w, n)

=============================================================================
