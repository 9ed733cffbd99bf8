--------------------------- MODULE RecordExchange ---------------------------
(***************************************************************************)
(* One record of any kind is written by its encoder, carried as bytes that  *)
(* may be cut short or run on, and read by its decoder: a message between   *)
(* two processes, a journal record or the snapshot.  The record is a sample *)
(* of its kind with at most one field changed, at any depth, and then       *)
(* either canonicalized as the program does it or left as the change made   *)
(* it, under the identities of the sample.                                  *)
(***************************************************************************)
EXTENDS Wire, StateCodec

CONSTANTS Kinds,          \* the kinds of record that are exchanged
          MaxLost         \* bound on the bytes a buffer loses at its end

VARIABLES phase,          \* "idle", "encoded" or "decoded"
          kind,           \* the kind of the record
          coder,          \* its encoder, its decoder and the type of its values
          sample,         \* the sample the record is made from
          change,         \* [path, to, turned, sealed]: what distinguishes it from the sample
          record,         \* the record itself
          lost,           \* bytes lost at the end of the buffer; -1: one too many
          result          \* what the decoder returned

vars == <<phase, kind, coder, sample, change, record, lost, result>>

(* The type of a record's values: the fields of the decoder, with the        *)
(* enumerators that the encoder's enumerations declare.                     *)
RECURSIVE Typed(_, _)
Typed(encoder, decoder) ==
  LET written(f) == encoder[CHOOSE k \in 1..Len(encoder) : encoder[k].name = f.name]
      typed(f) == CASE f.kind \in {"enum", "code"} -> [f EXCEPT !.bound = written(f).bound]
                    [] f.kind \in {"rec", "list", "table", "repeat", "present"} ->
                         [f EXCEPT !.sub = Typed(written(f).sub, @)]
                    [] OTHER -> f
  IN [k \in 1..Len(decoder) |-> typed(decoder[k])]

Coder(encoder, decoder) == [encoder |-> encoder, decoder |-> decoder, type |-> Typed(encoder, decoder)]

Codecs == [
  toolchain |-> Coder(encode_toolchain, decode_toolchain),
  binary_identity |-> Coder(encode_binary_identity, decode_binary_identity),
  target |-> Coder(encode_target, decode_target),
  specialization |-> Coder(encode_specialization, decode_specialization),
  dependency_entry |-> Coder(encode_dependency_entry, decode_dependency_entry),
  dependency_set |-> Coder(encode_dependency_set, decode_dependency_set),
  policy |-> Coder(encode_policy, decode_policy),
  unit_spec |-> Coder(encode_unit_spec, decode_unit_spec),
  request |-> Coder(encode_request_record, decode_request_record),
  capabilities |-> Coder(encode_capabilities, decode_capabilities),
  worker |-> Coder(encode_worker, decode_worker),
  lease |-> Coder(encode_lease, decode_lease),
  validation_report |-> Coder(encode_validation_report, decode_validation_report),
  attempt |-> Coder(encode_attempt, decode_attempt),
  provenance |-> Coder(encode_provenance, decode_provenance),
  commit |-> Coder(encode_commit, decode_commit),
  artifact |-> Coder(encode_artifact, decode_artifact),
  cache_entry |-> Coder(encode_cache_entry, decode_cache_entry),
  negative_cache |-> Coder(encode_negative_cache, decode_negative_cache),
  intermediate |-> Coder(encode_intermediate, decode_intermediate),
  compilation |-> Coder(encode_compilation, decode_compilation),
  job |-> Coder(encode_job_record, decode_job_record),
  state |-> Coder(encode_state, decode_state),
  hello |-> Coder(encode_hello, decode_hello),
  register_worker |-> Coder(encode_register_worker, decode_register_worker),
  ready |-> Coder(encode_ready, decode_ready),
  submit |-> Coder(encode_submit, decode_submit),
  claim |-> Coder(encode_authority_claim, decode_authority_claim),
  assignment |-> Coder(encode_assignment, decode_assignment),
  report_output |-> Coder(encode_report_output, decode_report_output),
  fail_attempt |-> Coder(encode_fail_attempt, decode_fail_attempt),
  control |-> Coder(encode_control, decode_control),
  commit_message |-> Coder(encode_commit_message, decode_commit_message),
  cache_query |-> Coder(encode_cache_query, decode_cache_query),
  cache_report |-> Coder(encode_cache_report, decode_cache_report),
  validate |-> Coder(encode_validate, decode_validate),
  validate_response |-> Coder(encode_validate_response, decode_validate_response),
  response |-> Coder(encode_response, decode_response),
  submission_response |-> Coder(encode_submission_response, decode_submission_response),
  commit_response |-> Coder(encode_commit_response, decode_commit_response),
  query |-> Coder(encode_query, decode_query)]

(* The replay of the journal reads these records, and others read them as     *)
(* parts, without asking whether anything is left over.                      *)
Parts == {"toolchain", "binary_identity", "target", "specialization", "dependency_entry", "dependency_set",
          "policy", "unit_spec", "capabilities", "worker", "lease", "validation_report", "attempt",
          "provenance", "commit", "artifact", "cache_entry", "negative_cache", "intermediate", "compilation"}

(* The kinds with an identity of their own.                                 *)
Identified == {"toolchain", "target", "specialization", "dependency_entry", "dependency_set", "policy",
               "request", "capabilities"}

(***************************************************************************)
(* The records the program makes: identities and handles are computed from *)
(* the contents, a registry slot is at its highest generation.  The units   *)
(* of a request have no identity before the request is canonicalized.       *)
(***************************************************************************)
Unidentified(what, v) ==
  IF what = "request" THEN [v EXCEPT !.units = [i \in 1..Len(@) |-> [@[i] EXCEPT !.identity_digest = NoDigest]]] ELSE v
Normalized(what, v) == NormalForm(what, Unidentified(what, v))
NormalOr(v, normal) == IF normal.ok THEN normal.value ELSE v
Sealed(layout, contents) ==
  LET seal(v, f) ==
        CASE f.kind \in {"derive", "match_id"} -> (f.name :> Handle(Write(f.sub, v))) @@ v
          [] f.kind = "match" -> (f.name :> Sha256(Write(f.sub, v))) @@ v
          [] f.kind = "canonicalize" -> NormalOr(v, Normalized(f.name, v))
          [] f.kind = "match_blob" -> ("digest" :> BlobDigest(v.bytes)) @@ v
          [] f.kind = "restore" -> Checked(f, 0, v).value
          [] OTHER -> v
  IN FoldLeft(seal, contents, SelectSeq(layout, LAMBDA f : f.kind \in Checks))

(* What the program makes no record of.                                     *)
Makeable(layout, contents) ==
  \A i \in 1..Len(layout) : layout[i].kind = "canonicalize" => Normalized(layout[i].name, contents).ok

(* The units of a request: in index order, each after the first links it.    *)
Linked(units) ==
  [i \in 1..Len(units) |->
     IF i = 1 THEN [units[i] EXCEPT !.index = 0]
     ELSE [units[i] EXCEPT !.index = i - 1, !.kind = 1, !.child_units = <<[item |-> 0]>>]]
HoldsUnits(f) == f.name = "units" /\ f.kind = "list" /\ \E k \in 1..Len(f.sub) : f.sub[k].name = "child_units"

(* A record with a value of its own in every field; salt tells records of  *)
(* one layout apart.                                                        *)
RECURSIVE Sample(_, _)
Sample(layout, salt) ==
  LET plain(k) ==
        LET f == layout[k]
            n == k + salt
        IN CASE f.name = "flag_order_significant" -> 0
             [] f.kind = "bool" -> n % 2
             [] f.kind \in {"enum", "code"} ->
                  IF f.bound = {0, 1} THEN 0
                  ELSE LET i == 1 + ((n - 1) % Max(f.bound)) IN IF i \in f.bound THEN i ELSE Max(f.bound)
             [] f.kind \in {"range", "range16", "range64"} -> IF f.bound[1] = 0 THEN 1 ELSE f.bound[1]
             [] f.kind \in {"str", "blob"} -> <<n>>
             [] f.kind = "digest" -> Sha256(<<n>>)
             [] f.kind = "rec" -> Sample(f.sub, n)
             [] HoldsUnits(f) -> Linked(<<Sample(f.sub, salt), Sample(f.sub, salt + 53)>>)
             [] f.kind \in {"list", "table", "repeat", "present"} ->
                  IF f.name = "child_units" THEN <<>> ELSE <<Sample(f.sub, salt)>>
             [] OTHER -> n
      own == {k \in 1..Len(layout) : layout[k].kind \notin Checks \cup {"domain"}}
      fields == [name \in {layout[k].name : k \in own} |-> plain(CHOOSE k \in own : layout[k].name = name)]
  IN Sealed(layout, fields)

(***************************************************************************)
(* One field of a sample, in whatever record or list item it stands, set to *)
(* a value at the edge of what it may hold, or just past it.                *)
(***************************************************************************)
(* The lists whose order carries no meaning, and the names their items are   *)
(* sorted or told apart by.                                                 *)
NameOf == [sdk |-> "name", sdks |-> "name", plugins |-> "id", configuration |-> "first", variables |-> "first",
           fields |-> "name", entries |-> "name", dependencies |-> "name", sources |-> "logical_name",
           flags |-> "item", target_libraries |-> "item"]
Orderless == DOMAIN NameOf \cup {"toolchains", "targets", "input_formats", "units"}
HasNames(f) == f.kind = "list" /\ f.name \in DOMAIN NameOf /\ kind \in Identified

Variants(f) ==
  CASE f.kind = "bool" -> {"zero", "one"}
    [] f.kind \in {"enum", "code"} ->
         {"zero", "last", "beyond"} \cup (IF f.bound = 0..Max(f.bound) THEN {} ELSE {"gap"})
    [] f.kind \in {"range", "range16", "range64"} ->
         {"low", "high", "over"} \cup (IF f.bound[1] > 0 THEN {"under"} ELSE {})
    [] f.kind \in {"u8", "u16", "u32", "u64", "i64", "f64", "gen", "id", "optional_id"} -> {"zero"}
    [] f.kind = "digest" -> {"none"}
    [] f.kind \in {"str", "blob"} -> {"empty", "full"}
    [] f.kind = "rec" -> {"other"}
    [] f.kind = "list" ->
         {"empty", "two", "most"} \cup (IF HasNames(f) THEN {"spaced", "misplaced", "doubled", "twins"} ELSE {})
                                  \cup (IF HoldsUnits(f) THEN {"forward"} ELSE {})
    [] f.kind = "table" -> IF f.name = "violations" THEN {"empty", "two", "unset"} ELSE {"empty", "two"}
    [] f.kind = "present" -> {"empty"}
    [] OTHER -> {}

(* record_violation is called without a session or a worker when the attempt *)
(* it is about is not known.                                                *)
Unattributed(violation) == [violation EXCEPT !.session = 0, !.worker = 0]

InPlace(f, items) == IF HoldsUnits(f) THEN Linked(items) ELSE items
(* As many items of a list as any variant needs; the second also stands for  *)
(* another record of the same layout.                                       *)
Items(f) == InPlace(f, [i \in 1..MaxItems |-> Sample(f.sub, 53 * (i - 1))])

(* Two items, of which one has a blank before its name: in place all the     *)
(* same, out of its place, or otherwise named like the other; or two that    *)
(* differ, but not in name and kind.                                        *)
Namesakes(f, to, items) ==
  LET name == NameOf[f.name]
      named(item, text) == [item EXCEPT ![name] = text]
      like(a, b) == named(IF "kind" \in DOMAIN a THEN [b EXCEPT !.kind = a.kind] ELSE b, a[name])
  IN CASE to = "spaced" -> <<named(items[1], <<Blank>> \o items[1][name]), items[2]>>
       [] to = "misplaced" -> <<items[1], named(items[2], <<Blank>> \o items[2][name])>>
       [] to = "doubled" -> <<items[1], named(items[2], <<Blank>> \o items[1][name])>>
       [] to = "twins" -> <<items[1], like(items[1], items[2])>>

(* The first unit links the second.                                         *)
Forward(units) == <<[units[1] EXCEPT !.kind = 1, !.child_units = <<[item |-> 1]>>],
                    [units[2] EXCEPT !.kind = 0, !.child_units = <<>>]>>

SetTo(f, to, items) ==
  CASE to = "zero" -> 0
    [] to = "one" -> 1
    [] to = "last" -> Max(f.bound)
    [] to = "beyond" -> Max(f.bound) + 1
    [] to = "gap" -> Min((0..Max(f.bound)) \ f.bound)
    [] to = "low" -> f.bound[1]
    [] to = "high" -> f.bound[2]
    [] to = "under" -> f.bound[1] - 1
    [] to = "over" -> f.bound[2] + 1
    [] to \in {"none", "empty"} -> <<>>
    [] to = "full" -> [i \in 1..MaxString |-> i]
    [] to = "other" -> items[2]
    [] to = "two" -> SubSeq(items, 1, 2)
    [] to = "most" -> items
    [] to = "forward" -> Forward(items)
    [] to = "unset" -> <<Unattributed(items[1])>>
    [] OTHER -> Namesakes(f, to, items)
TurnedIf(turned, value) == IF turned THEN Reverse(value) ELSE value
Varied(f, how) == TurnedIf(how.turned, SetTo(f, how.to, Items(f)))

(* Records that are exchanged on their own, by the names of the fields that  *)
(* hold them: their fields are varied there, and where an identity binds     *)
(* them.                                                                    *)
Exchanged == {"capabilities", "request", "toolchain", "target", "specialization", "policy", "lease", "claim",
              "worker_validation", "validation", "commit", "entry", "control", "workers", "requests", "jobs",
              "compilations", "attempts", "commits", "provenances", "validations", "cache_entries",
              "intermediates", "leases", "negative_cache"}
Entered(f) == /\ f.kind \in {"rec", "list", "table", "repeat", "present"} /\ f.name # "child_units"
              /\ kind \in Identified \/ f.name \notin Exchanged

(* The fields of a layout, each by the positions that lead to it; of a list  *)
(* the first item is meant.  A count that says how many items follow is the  *)
(* number of them.                                                          *)
RECURSIVE Paths(_)
Paths(layout) ==
  LET counts == {layout[i].bound : i \in {j \in 1..Len(layout) : layout[j].kind = "repeat"}}
  IN UNION {LET f == layout[i]
            IN (IF f.name \in counts THEN {} ELSE {<<i>>})
               \cup (IF Entered(f) THEN {<<i>> \o rest : rest \in Paths(f.sub)} ELSE {}) :
            i \in 1..Len(layout)}
RECURSIVE FieldAt(_, _)
FieldAt(layout, path) ==
  IF Len(path) = 1 THEN layout[path[1]] ELSE FieldAt(layout[path[1]].sub, Tail(path))
HeldIn(f, v) == IF f.kind = "rec" THEN v[f.name] ELSE v[f.name][1]
(* The layout and the value of the record the field is in.                  *)
RECURSIVE Around(_, _, _)
Around(layout, v, path) ==
  IF Len(path) = 1 THEN [layout |-> layout, value |-> v]
  ELSE Around(layout[path[1]].sub, HeldIn(layout[path[1]], v), Tail(path))

(* The record v with the field at the path set, or set and turned round, and *)
(* every record from there outwards sealed.  What is in a request is sealed  *)
(* by canonicalizing the request.                                           *)
IsRequest(layout) == \E i \in 1..Len(layout) : layout[i].kind = "canonicalize" /\ layout[i].name = "request"
InnerChange(layout, how) == [how EXCEPT !.sealed = @ /\ ~IsRequest(layout)]
SealedIf(sealed, layout, contents) == IF sealed THEN Sealed(layout, contents) ELSE contents
Holding(f, v, held) == IF f.kind = "rec" THEN held ELSE [v[f.name] EXCEPT ![1] = held]
RECURSIVE Remade(_, _, _, _)
Remade(layout, v, path, how) ==
  LET f == layout[path[1]]
  IN SealedIf(how.sealed, layout,
       (f.name :> IF Len(path) = 1 THEN Varied(f, how)
                  ELSE Holding(f, v, Remade(f.sub, HeldIn(f, v), Tail(path), InnerChange(layout, how)))) @@ v)

Layout == coder.type
Unchanged == [path |-> <<>>, to |-> "none", turned |-> FALSE, sealed |-> TRUE]
Varying == change.path # <<>>
ChangedField == FieldAt(Layout, change.path)

Init ==
  /\ phase = "idle" /\ kind \in Kinds /\ coder = Codecs[kind] /\ sample = Sample(coder.type, 0)
  /\ change = Unchanged /\ record = <<>> /\ lost = 0 /\ result = Refused(0)

Make ==
  /\ phase = "idle"
  /\ record' = sample
  /\ phase' = "encoded"
  /\ UNCHANGED <<kind, coder, sample, change, lost, result>>

MakeVariant(path, how) ==
  /\ phase = "idle"
  /\ how.sealed \/ kind \in Identified
  /\ how.turned => /\ how.sealed /\ kind \in Identified /\ FieldAt(Layout, path).name \in Orderless
                   /\ how.to \in {"two", "spaced", "misplaced", "doubled", "twins", "forward"}
  /\ how.sealed => Makeable(Layout, Remade(Layout, sample, path, [how EXCEPT !.sealed = FALSE]))
  /\ change' = [path |-> path, to |-> how.to, turned |-> how.turned, sealed |-> how.sealed]
  /\ record' = Remade(Layout, sample, path, how)
  /\ phase' = "encoded"
  /\ UNCHANGED <<kind, coder, sample, lost, result>>

(* The end of the buffer is lost, or a byte of the next one is taken for it. *)
Damage ==
  /\ phase = "encoded" /\ lost = 0 /\ ~Varying
  /\ lost' \in -1..MaxLost \ {0}
  /\ UNCHANGED <<phase, kind, coder, sample, change, record, result>>

Carried(bytes) == IF lost < 0 THEN bytes \o Cells(1, "int", 0) ELSE SubSeq(bytes, 1, Len(bytes) - lost)
ReadBack(bytes) == IF kind \in Parts THEN ReadStart(coder.decoder, bytes) ELSE Read(coder.decoder, bytes)

Decode ==
  /\ phase = "encoded"
  /\ result' = ReadBack(Carried(Write(coder.encoder, record)))
  /\ phase' = "decoded"
  /\ UNCHANGED <<kind, coder, sample, change, record, lost>>

Next ==
  \/ Make
  \/ \E path \in Paths(Layout) : \E to \in Variants(FieldAt(Layout, path)), turned \in BOOLEAN, sealed \in BOOLEAN :
       MakeVariant(path, [to |-> to, turned |-> turned, sealed |-> sealed])
  \/ Damage
  \/ Decode

Spec == Init /\ [][Next]_vars

Done == phase = "decoded"
Whole == lost = 0

-----------------------------------------------------------------------------
(***************************************************************************)
(* What is not read back, though it is written.                             *)
(***************************************************************************)
(* What records are taken not to hold: a zero handle where the reader takes  *)
(* none, and KNOWN without a digest.  The violations of the snapshot do hold *)
(* zero handles (Unattributed); SnapshotIsReadable is about them.           *)
Ordinary ==
  Varying =>
    LET f == ChangedField
        around == Around(Layout, record, change.path)
        derived == \E j \in 1..Len(around.layout) : around.layout[j].kind \in {"derive", "match_id", "canonicalize"}
    IN /\ change.to = "zero" /\ f.kind = "id" => f.name = "id" /\ derived
       /\ change.to = "none" /\ "version_string" \in DOMAIN around.value /\ "path" \in DOMAIN around.value =>
            around.value.state # 1
       /\ change.to # "unset"

(* Names are sorted before they are trimmed.                                *)
Ascending(items, name) == \A i \in 2..Len(items) : Before(items[i - 1][name], items[i][name])
NamesInOrder ==
  CASE kind = "specialization" -> Ascending(record.fields, "name")
    [] kind = "request" -> /\ Ascending(record.specialization.fields, "name")
                           /\ Ascending(record.environment.variables, "first")
    [] OTHER -> TRUE

(* A unit that links a later one is identified before the later one is.      *)
LinksGoBack ==
  kind = "request" => \A i \in 1..Len(record.units) : \A j \in 1..Len(record.units[i].child_units) :
                        record.units[i].child_units[j].item < i - 1

(* Ranges, caps and enumerators are looked at by decoders only.              *)
WithinBounds ==
  /\ change.to \notin {"over", "under", "beyond"}
  /\ Varying /\ change.to = "most" => ChangedField.bound = MaxItems

(* A record the program makes is read back as it was written, at every edge *)
(* of what its fields may hold, unless the names of its specialization or   *)
(* its environment are not in order once they are trimmed, a unit links a   *)
(* later one, or it is beyond a bound only decoders check: then it is        *)
(* written and refused.                                                     *)
RoundTrip ==
  Done /\ Whole /\ Ordinary /\ change.sealed =>
    ((result.ok /\ result.value = record) <=> (NamesInOrder /\ LinksGoBack /\ WithinBounds))

(* A buffer cut short anywhere near its end is refused by every decoder, and *)
(* one with a byte too many by every decoder of a message, of a job or a     *)
(* request and of the snapshot; the others leave the extra byte unread.      *)
DamagedIsRefused ==
  Done /\ ~Whole => IF kind \in Parts /\ lost < 0 THEN result = Accepted(result.at, record) ELSE ~result.ok

(* A decoder takes every enumerator its enumeration declares, and no number  *)
(* beyond the last, wherever in a record it stands.  The numbers ErrorCode   *)
(* leaves out between its groups are taken though they mean nothing.         *)
EnumeratorsAreExact ==
  Done /\ Whole /\ change.sealed /\ Varying /\ ChangedField.kind \in {"enum", "code"} =>
    LET written == Around(Layout, record, change.path).value[ChangedField.name]
    IN result.ok <=> written <= Max(ChangedField.bound)

(***************************************************************************)
(* What each identity is the identity of: a record without its handles,     *)
(* generations and digests, where evidence came from and what its other     *)
(* fields make meaningless.                                                 *)
(***************************************************************************)
Each(items, contents(_)) == [i \in 1..Len(items) |-> contents(items[i])]
BinaryContents(b) == IF b.state = 1 THEN [b EXCEPT !.path = <<>>] ELSE b
ToolchainContents(t) ==
  [t EXCEPT !.id = 0, !.generation = 0, !.evidence_id = 0, !.evidence_generation = 0, !.identity_digest = NoDigest,
            !.compiler = BinaryContents(@), !.linker = BinaryContents(@), !.assembler = BinaryContents(@),
            !.runtime_library = BinaryContents(@)]
TargetContents(t) == [t EXCEPT !.id = 0, !.generation = 0, !.evidence = 0, !.identity_digest = NoDigest]
ValueOf == <<"signed_value", "unsigned_value", "floating_value", "text_value", "boolean_value">>
FieldContents(f) == <<f.name, f.kind, IF f.kind < Len(ValueOf) THEN f[ValueOf[f.kind + 1]] ELSE 0>>
SpecializationContents(s) == Each(s.fields, FieldContents)
EntryContents(e) == [e EXCEPT !.identity_digest = NoDigest]
DependencyContents(d) == Each(d.entries, EntryContents)
PolicyContents(p) == [p EXCEPT !.id = 0, !.generation = 0, !.identity_digest = NoDigest]
CapabilityContents(c) ==
  [c EXCEPT !.digest = NoDigest, !.host = <<>>,
            !.toolchains = Each(@, ToolchainContents), !.targets = Each(@, TargetContents)]

(* What all units of a request are compiled with, and one unit by itself.    *)
Shared(r) ==
  <<ToolchainContents(r.toolchain), TargetContents(r.target), SpecializationContents(r.specialization),
    PolicyContents(r.policy), DependencyContents(r.dependencies), r.environment, r.flags>>
UnitContents(u) == [u EXCEPT !.index = 0, !.identity_digest = NoDigest, !.dependencies = Each(@, EntryContents)]
RequestContents(r) == <<Shared(r), Each(r.units, UnitContents), r.authority_generation, r.validation>>

(* A unit with its children; of a later child its identity knows nothing.    *)
WholeUnit(r, i) ==
  LET child(c) == IF c.item < i - 1 THEN UnitContents(r.units[c.item + 1]) ELSE <<>>
  IN <<Shared(r), UnitContents(r.units[i]), Each(r.units[i].child_units, child)>>

Contents(v) ==
  CASE kind = "toolchain" -> ToolchainContents(v)
    [] kind = "target" -> TargetContents(v)
    [] kind = "specialization" -> SpecializationContents(v)
    [] kind = "dependency_entry" -> EntryContents(v)
    [] kind = "dependency_set" -> DependencyContents(v)
    [] kind = "policy" -> PolicyContents(v)
    [] kind = "capabilities" -> CapabilityContents(v)
    [] kind = "request" -> RequestContents(v)
Identity(v) ==
  CASE kind = "capabilities" -> v.digest [] kind = "request" -> v.request_identity [] OTHER -> v.identity_digest

(* Two records have one identity exactly if they have the same contents, and *)
(* two units exactly if they and what they are linked from are compiled     *)
(* alike: an artifact is never taken from the cache for a unit that differs. *)
(* Contents changed under an unchanged identity are refused.                *)
IdentityBindsContents ==
  /\ phase # "idle" /\ kind \in Identified /\ change.sealed =>
       (Identity(record) = Identity(sample) <=> Contents(record) = Contents(sample))
  /\ phase # "idle" /\ kind = "request" /\ change.sealed =>
       \A i \in DOMAIN record.units \cap DOMAIN sample.units :
         record.units[i].identity_digest = sample.units[i].identity_digest <=> WholeUnit(record, i) = WholeUnit(sample, i)
  /\ Done /\ Whole /\ kind \in Identified /\ ~change.sealed /\ result.ok => Contents(result.value) = Contents(sample)

(* The order in which a client lists what has no order reaches the record    *)
(* and its identities only through namesakes: SDKs, plugins, settings or     *)
(* variables that have one name and differ are kept in the order they came, *)
(* and of settings and variables the first is kept.                         *)
SortedByName == {"sdk", "sdks", "plugins", "configuration", "variables"}
HasNamesakes(f, items) ==
  /\ f.name \in SortedByName
  /\ \E i, j \in 1..Len(items) : items[i][NameOf[f.name]] = items[j][NameOf[f.name]] /\ items[i] # items[j]
OrderDoesNotLeak ==
  phase # "idle" /\ change.turned =>
    LET straight == Remade(Layout, sample, change.path, [change EXCEPT !.turned = FALSE])
    IN record = straight <=> ~HasNamesakes(ChangedField, Varied(ChangedField, change))

(* The snapshot a coordinator writes, also after it recorded a refused      *)
(* message, is one it can open again.                                       *)
SnapshotIsReadable ==
  Done /\ Whole /\ kind = "state" /\ change.sealed /\ WithinBounds /\ (Ordinary \/ change.to = "unset") => result.ok

=============================================================================
