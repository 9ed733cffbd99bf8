------------------------------ MODULE Requests ------------------------------
(***************************************************************************)
(* canonicalize (src/model.cpp): the normal form of a submission before its *)
(* identities are computed, applied by the coordinator to what it is given  *)
(* and by every decoder to what it reads.  Names and flags are trimmed,     *)
(* lists are sorted and their repetitions dropped or refused, handles and   *)
(* digests are derived again.  A text is a sequence of characters.          *)
(***************************************************************************)
EXTENDS Identities, FiniteSetsExt, TLC

Blank == 0                \* a character isspace accepts
Control == 1000           \* a control character
DefaultMode == <<20>>     \* "c++20"

trim(text) ==
  LET solid == {i \in 1..Len(text) : text[i] # Blank}
  IN IF solid = {} THEN <<>> ELSE SubSeq(text, Min(solid), Max(solid))

contains_control(text) == Control \in ToSet(text)

(* The order of std::string.                                                *)
Before(a, b) ==
  \/ IsStrictPrefix(a, b)
  \/ \E i \in 1..Min({Len(a), Len(b)}) : a[i] < b[i] /\ SubSeq(a, 1, i - 1) = SubSeq(b, 1, i - 1)

(* std::sort.  It may leave equals in any order; sequences of up to 16       *)
(* elements it sorts by insertion, which keeps the order equals came in.     *)
Insert(sorted, x, before(_, _)) ==
  LET n == Cardinality({i \in 1..Len(sorted) : ~before(x, sorted[i])})
  IN SubSeq(sorted, 1, n) \o <<x>> \o SubSeq(sorted, n + 1, Len(sorted))
Sorted(s, before(_, _)) == FoldLeft(LAMBDA sorted, x : Insert(sorted, x, before), <<>>, s)

SortedBy(s, key(_)) == Sorted(s, LAMBDA a, b : Before(key(a), key(b)))

(* std::unique: the first of each run of equals.                            *)
Unique(s, same(_, _)) ==
  FoldLeft(LAMBDA kept, x : IF kept # <<>> /\ same(Last(kept), x) THEN kept ELSE Append(kept, x), <<>>, s)

Repeats(s, key(_)) == \E i \in 2..Len(s) : key(s[i]) = key(s[i - 1])

(* compare_dependency: by kind, name, digest and size.  A digest is compared *)
(* by the first value it was made of.                                       *)
DigestOrder(d) == IF Len(d) < 2 THEN 0 ELSE d[2][1]
DependencyKey(entry) == <<entry.kind>> \o entry.name \o <<-1, DigestOrder(entry.content.digest), entry.content.size>>

BadName(text) == text = <<>> \/ contains_control(text)

IdentifiedSpecialization(spec) ==
  [spec EXCEPT !.id = Handle(Write(derive_specialization_id, spec)),
               !.identity_digest = Sha256(Write(compute_specialization_identity, spec))]
TrimmedFields(spec, fields) ==
  IF Repeats(fields, LAMBDA f : f.name) \/ \E i \in 1..Len(fields) : BadName(trim(fields[i].name)) THEN Refused(0)
  ELSE Accepted(0, IdentifiedSpecialization(
                     [spec EXCEPT !.fields = [i \in 1..Len(fields) |-> [fields[i] EXCEPT !.name = trim(@)]]]))
canonicalize_specialization(spec) == TrimmedFields(spec, SortedBy(spec.fields, LAMBDA f : f.name))

IdentifiedEntries(entries) ==
  [i \in 1..Len(entries) |->
     [entries[i] EXCEPT !.identity_digest = Sha256(Write(compute_dependency_entry_identity, entries[i]))]]
IdentifiedDependencies(set) ==
  [set EXCEPT !.id = Handle(Write(derive_dependency_set_id, set)),
              !.identity_digest = Sha256(Write(compute_dependency_set_identity, set))]
canonicalize_dependencies(set) ==
  IdentifiedDependencies(
    [set EXCEPT !.entries = IdentifiedEntries(
       Unique(SortedBy(@, DependencyKey), LAMBDA a, b : a.name = b.name /\ a.kind = b.kind /\ a.content = b.content))])

TrimmedVariables(variables) == [i \in 1..Len(variables) |-> [variables[i] EXCEPT !.first = trim(@)]]
canonicalize_environment(env) ==
  [env EXCEPT !.variables = Unique(TrimmedVariables(SortedBy(@, LAMBDA v : v.first)), LAMBDA a, b : a.first = b.first)]

IdentifiedToolchain(toolchain) ==
  [toolchain EXCEPT !.id = Handle(Write(derive_toolchain_id, toolchain)),
                    !.evidence_id = IF @ = 0 THEN Handle(Write(derive_toolchain_id, toolchain)) ELSE @,
                    !.identity_digest = Sha256(Write(compute_toolchain_identity, toolchain))]
SortedToolchain(toolchain) ==
  [toolchain EXCEPT !.sdk = SortedBy(@, LAMBDA c : c.name), !.plugins = SortedBy(@, LAMBDA p : p.id),
                    !.target_libraries = Unique(SortedBy(@, LAMBDA l : l.item), LAMBDA a, b : a = b),
                    !.configuration = Unique(SortedBy(@, LAMBDA c : c.first), LAMBDA a, b : a.first = b.first)]
canonicalize_toolchain_unsorted(toolchain) ==
  IdentifiedToolchain([SortedToolchain(toolchain) EXCEPT !.sdk = toolchain.sdk])
canonicalize_toolchain(toolchain) == IdentifiedToolchain(SortedToolchain(toolchain))

(* Toolchains and targets are sorted by digest; of a digest the handle made   *)
(* of its leading bytes is compared.                                        *)
SortedByDigest(s) == Sorted(s, LAMBDA a, b : Handle(a.identity_digest[2]) < Handle(b.identity_digest[2]))
WithDigest(target) == [target EXCEPT !.identity_digest = Sha256(Write(compute_target_identity, target))]
SortedCapabilities(caps) ==
  [caps EXCEPT !.toolchains = SortedByDigest([i \in 1..Len(@) |-> canonicalize_toolchain(@[i])]),
               !.targets = SortedByDigest([i \in 1..Len(@) |-> WithDigest(@[i])]),
               !.input_formats = Unique(Sorted(@, LAMBDA a, b : a.item < b.item), LAMBDA a, b : a = b),
               !.plugins = SortedBy(@, LAMBDA p : p.id), !.sdks = SortedBy(@, LAMBDA c : c.name)]
IdentifiedCapabilities(caps) == [caps EXCEPT !.digest = Sha256(Write(compute_capability_identity, caps))]
canonicalize_capabilities(caps) == IdentifiedCapabilities(SortedCapabilities(caps))

canonicalize_flags(flags, orderSignificant) ==
  LET cleaned == [i \in 1..Len(flags) |-> [item |-> trim(flags[i].item)]]
  IN IF orderSignificant = 1 THEN cleaned ELSE SortedBy(cleaned, LAMBDA f : f.item)
BadFlags(flags) == \E i \in 1..Len(flags) : BadName(flags[i].item)

(* A format of 0 is Unknown; formats told from the file name's extension   *)
(* are left out, so an unknown format is refused.                           *)
NormalSources(sources) ==
  SortedBy([i \in 1..Len(sources) |-> [sources[i] EXCEPT !.logical_name = trim(@),
                                                         !.language_mode = IF @ = <<>> THEN DefaultMode ELSE @]],
           LAMBDA s : s.logical_name)
NormalDependencies(entries) ==
  SortedBy(IdentifiedEntries([i \in 1..Len(entries) |-> [entries[i] EXCEPT !.name = trim(@)]]), DependencyKey)
BadUnit(unit) ==
  \/ \E i \in 1..Len(unit.sources) : \/ unit.sources[i].logical_name = <<>>
                                      \/ unit.sources[i].content.digest = NoDigest
                                      \/ unit.sources[i].format = 0
  \/ Repeats(unit.sources, LAMBDA s : s.logical_name)
  \/ unit.sources = <<>> /\ unit.kind # 1
  \/ \E i \in 1..Len(unit.dependencies) : \/ unit.dependencies[i].name = <<>>
                                           \/ unit.dependencies[i].content.digest = NoDigest
  \/ BadFlags(unit.flags)
  \/ unit.logical_name = <<>>
  \/ unit.kind = 1 /\ unit.child_units = <<>>
VettedUnit(unit) == IF BadUnit(unit) THEN Refused(0) ELSE Accepted(0, unit)
canonicalize_unit(request, unit) ==
  VettedUnit([unit EXCEPT !.sources = NormalSources(@), !.dependencies = NormalDependencies(@),
                          !.flags = canonicalize_flags(@, request.policy.flag_order_significant),
                          !.child_units = Unique(Sorted(@, LAMBDA a, b : a.item < b.item), LAMBDA a, b : a = b),
                          !.logical_name = trim(@)])

(* The identities of the units, in index order: a unit takes the digest its *)
(* children have at that moment.                                            *)
IdentifyUnits(request) ==
  FoldLeft(LAMBDA r, i : [r EXCEPT !.units[i].identity_digest = derive_unit_identity(r, r.units[i])],
           request, [i \in 1..Len(request.units) |-> i])
IdentifiedRequest(request) == [request EXCEPT !.request_identity = Sha256(Write(derive_request_identity, request))]

IdentifiedTarget(target) == [WithDigest(target) EXCEPT !.id = Handle(Write(derive_target_id, target))]
IdentifiedPolicy(policy) ==
  [policy EXCEPT !.id = Handle(Write(derive_policy_id, policy)),
                 !.identity_digest = Sha256(Write(compute_policy_identity, policy))]

(* Indices are dense, and children are other units of the request.          *)
BadUnits(units) ==
  \/ units = <<>>
  \/ \E i \in 1..Len(units) :
       \/ ~units[i].ok
       \/ units[i].value.index # i - 1
       \/ \E j \in 1..Len(units[i].value.child_units) :
            units[i].value.child_units[j].item \notin (0..(Len(units) - 1)) \ {i - 1}
Assembled(request, toolchain, specialization, flags, units) ==
  IF \/ toolchain.family = 0 \/ request.target.arch = 0 \/ ~specialization.ok
     \/ BadFlags(flags) \/ BadUnits(units)
  THEN Refused(0)
  ELSE Accepted(0, IdentifiedRequest(IdentifyUnits(
         [request EXCEPT !.toolchain = toolchain, !.target = IdentifiedTarget(@), !.specialization = specialization.value,
                         !.dependencies = canonicalize_dependencies(@), !.environment = canonicalize_environment(@),
                         !.flags = flags, !.units = [i \in 1..Len(units) |-> units[i].value],
                         !.policy = IdentifiedPolicy(@)])))
CanonicalUnits(request, units) == [i \in 1..Len(units) |-> canonicalize_unit(request, units[i])]
canonicalize_request(request) ==
  Assembled(request, canonicalize_toolchain(request.toolchain), canonicalize_specialization(request.specialization),
            canonicalize_flags(request.flags, request.policy.flag_order_significant),
            CanonicalUnits(request, Sorted(request.units, LAMBDA a, b : a.index < b.index)))

=============================================================================
