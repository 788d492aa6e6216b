---------------------------- MODULE NativeManifest ----------------------------
(***************************************************************************)
(* What the SDK demands of a native artifact before and after it loads it: *)
(* the checks of native_manifest.go and native_development.go as           *)
(* predicates on policies, signed manifests, archives and the build        *)
(* manifest that a loaded Core reports of itself.                          *)
(*                                                                         *)
(* A digest stands for what it was taken of.  Fields that the code only    *)
(* compares together are one field here (release: tag and commit; source:  *)
(* repository, tag, commit, version and lock file), the format of a        *)
(* field is the flag wellFormed, and a feature name_vN is <<name, N>>.     *)
(***************************************************************************)
EXTENDS Integers, Sequences, FiniteSets

CONSTANT Platform    \* nativePlatformFor(GOOS, GOARCH): name, target, library names

(* Representatives of the 23 symbols every artifact has, and the optional  *)
(* groups, which come whole or not at all.                                 *)
sdkRequiredSymbols == {"talon_open", "talon_close", "talon_execute", "talon_build_manifest"}
kvReadSymbols == {"talon_kv_read_v1"}
sqlContextSymbols == {"talon_sql_context_new_v1", "talon_exec_sql_context_v1"}

Elements(s) == {s[i] : i \in DOMAIN s}
Distinct(s) == \A i, j \in DOMAIN s : s[i] = s[j] => i = j

sameStringSet(s, set) == Distinct(s) /\ Elements(s) = set

supportedNativeSymbolSet(symbols) ==
  \E groups \in SUBSET {kvReadSymbols, sqlContextSymbols} :
    sameStringSet(symbols, sdkRequiredSymbols \cup UNION groups)

-----------------------------------------------------------------------------
(* A release policy: wellFormed, bundle, runtimeOnly, key, release,        *)
(* source, abi (profile, version and header) and required.                 *)

KnownCapabilities ==
  {"storage_conditional_batch_v1", "storage_conditional_point_read", "storage_conditional_snapshot_read",
   "storage_conditional_snapshot_read_v2", "revision_stream", "native_kv_read", "native_shared_core",
   "native_sql_context"}

validateNativePolicy(p) ==
  /\ p.wellFormed
  /\ Elements(p.required) \subseteq KnownCapabilities
  /\ Distinct(p.required)

(* Sensitive to the order of the required capabilities.                    *)
hashNativePolicy(p) ==
  <<"release", p.bundle, p.runtimeOnly, p.release, p.source, p.abi>> \o p.required \o <<p.key>>

ExpectedFiles(runtimeOnly) ==
  {Platform.dynamic, "talon.h", "LICENSE.core", "NOTICE"}
    \cup IF runtimeOnly THEN {} ELSE {Platform.static}

Record(files, path) == CHOOSE r \in Elements(files) : r.path = path

(* A file beside the archive has the size and the digest of its record.    *)
verifyFileRecord(content, record) == content = record

(* A manifest as it was signed: files are records of path and sha.         *)
FileSetValid(m, p) ==
  /\ \A r \in Elements(m.files) : r.wellFormed
  /\ sameStringSet([i \in DOMAIN m.files |-> m.files[i].path], ExpectedFiles(p.runtimeOnly))
  /\ Record(m.files, "talon.h").sha = m.abi.header
  /\ Record(m.files, "LICENSE.core").sha = m.materials.license
  /\ Record(m.files, "NOTICE").sha = m.materials.notice

(* A required storage_conditional_batch_v1 is refused whatever its gate.   *)
validateNativeManifest(m, p) ==
  /\ m.schema = "1.0" /\ m.channel = "enterprise-core"
  /\ m.release = p.release
  /\ m.source = p.source /\ m.clean
  /\ m.abi = p.abi /\ supportedNativeSymbolSet(m.symbols)
  /\ m.target = Platform.target /\ m.platform = Platform.name
  /\ m.kind = IF p.runtimeOnly THEN "talon-core-native-runtime" ELSE "talon-core-native-library"
  /\ FileSetValid(m, p)
  /\ m.key = p.key
  /\ m.gate \in {"gated", "available"}
  /\ "storage_conditional_batch_v1" \notin Elements(p.required)

(* Mutant: the members are only looked up, their digests not compared.     *)
MembersMatch_Undigested(members, m) ==
  sameStringSet([i \in DOMAIN members |-> members[i].path], {r.path : r \in Elements(m.files)})

(* The second pass of verifyNativeArchive, over the members of the archive *)
(* in their order.                                                         *)
MembersMatch(members, m) ==
  /\ sameStringSet([i \in DOMAIN members |-> members[i].path], {r.path : r \in Elements(m.files)})
  /\ \A i \in DOMAIN members : members[i].bytes = Record(m.files, members[i].path).sha

ArchivedLibrary(members) ==
  (CHOOSE x \in Elements(members) : x.path = Platform.dynamic).bytes

-----------------------------------------------------------------------------
(* A development policy: wellFormed (contract, pins, ABI, profile), paths, *)
(* the digests library, header and self, and required, <<name, version>>.  *)

validateLocalDevelopmentPolicy(p) ==
  /\ p.wellFormed
  /\ Distinct(p.paths)
  /\ Distinct(p.required)
  /\ \A c \in Elements(p.required) : c[2] > 0 /\ c[1] # "storage_conditional_batch"

hashLocalDevelopmentPolicy(p) ==
  <<"development", p.paths, p.library, p.header, p.self, p.required>>

-----------------------------------------------------------------------------
(* The build manifest of a Core: version, wellFormed, source, dirty,       *)
(* target, header, profile, symbols, features, capabilities and binding.   *)

HasFeature(build, name, version) == <<name, version>> \in Elements(build.features)
HasSymbols(build, symbols) == symbols \subseteq Elements(build.symbols)

findNativeCapability(build, name, version) ==
  {c \in Elements(build.capabilities) : c.name = name /\ c.version = version}

HasCapability(build, name, version) == findNativeCapability(build, name, version) # {}
Available(build, name, version) ==
  \E c \in findNativeCapability(build, name, version) : c.status = "available"

(* The lists follow one another without their lengths; limits are bound    *)
(* from version 2 on.                                                      *)
computeBuildBinding(build) ==
  <<build.version, build.source, build.dirty, build.target, build.header, build.profile>>
    \o build.symbols \o build.features
    \o [i \in DOMAIN build.capabilities |->
          LET c == build.capabilities[i]
          IN  IF build.version >= 2 THEN <<c.name, c.version, c.status, c.limits>>
                                    ELSE <<c.name, c.version, c.status>>]

validateLocalDevelopmentBuild(build, p) ==
  LET context == {c \in Elements(build.capabilities) : c.name = "native_sql_context"}
  IN  /\ build.version \in {1, 2} /\ build.wellFormed /\ build.dirty # "unknown"
      /\ build.target = Platform.target /\ build.header = p.header
      /\ build.profile = "talon-native-c" /\ supportedNativeSymbolSet(build.symbols)
      /\ context # {} <=> HasFeature(build, "native_sql_context", 1)
      /\ \A c \in context : c.version = 1
      /\ \A s \in sqlContextSymbols : context # {} <=> s \in Elements(build.symbols)
      /\ \A c \in Elements(p.required) : Available(build, c[1], c[2]) /\ HasFeature(build, c[1], c[2])

(* The identity of the build against what was verified before the load.    *)
IdentityMatches(build, v) ==
  IF v.form = "development"
  THEN build = v.policy.self /\ validateLocalDevelopmentBuild(build, v.policy)
  ELSE /\ build.version \in {1, 2} /\ build.dirty = "clean"
       /\ build.source = v.manifest.source /\ build.target = v.manifest.target
       /\ build.header = v.manifest.abi.header /\ build.profile = v.manifest.abi.profile
       /\ sameStringSet(build.symbols, Elements(v.manifest.symbols)) /\ supportedNativeSymbolSet(build.symbols)

FeaturesValid(build) ==
  /\ Distinct(build.features)
  /\ {<<"native_build_manifest", build.version>>, <<"native_error_codes", 1>>, <<"sql_tlv", 1>>,
      <<"native_conditional_transaction", 2>>, <<"conditional_transaction_command_digest", 1>>}
       \subseteq Elements(build.features)

CapabilitiesValid(build) ==
  /\ \A c \in Elements(build.capabilities) :
       /\ c.version > 0 /\ c.status \in {"available", "gated"}
       /\ c.limits # "absent" => build.version >= 2
  /\ \A i, j \in DOMAIN build.capabilities :
       LET c == build.capabilities[i]
           d == build.capabilities[j]
       IN  c.name = d.name /\ i # j => c.name = "storage_conditional_snapshot_read" /\ c.version # d.version

(* A capability, its feature and its symbols come together.                *)
ContractsMatch(build) ==
  /\ HasCapability(build, "native_kv_read", 1) <=> HasFeature(build, "native_kv_read", 1)
  /\ HasCapability(build, "native_kv_read", 1) <=> HasSymbols(build, kvReadSymbols)
  /\ HasCapability(build, "native_sql_context", 1) <=> HasFeature(build, "native_sql_context", 1)
  /\ \A s \in sqlContextSymbols : HasCapability(build, "native_sql_context", 1) <=> s \in Elements(build.symbols)
  /\ Available(build, "native_conditional_transaction_v2", 2)
  /\ \A c \in Elements(build.capabilities) : c.name = "revision_stream" =>
       /\ c.version = 2
       /\ HasFeature(build, "revision_stream", 1) /\ HasFeature(build, "revision_stream_mmr_proof", 2)
  /\ HasCapability(build, "storage_conditional_point_read", 1) <=>
       HasFeature(build, "storage_conditional_point_read", 1)
  /\ \A n \in {1, 2} : HasCapability(build, "storage_conditional_snapshot_read", n) <=>
       HasFeature(build, "storage_conditional_snapshot_read", n)

verifyCoreBuildIdentity(build, v) ==
  /\ IdentityMatches(build, v)
  /\ FeaturesValid(build)
  /\ CapabilitiesValid(build)
  /\ ContractsMatch(build)
  /\ v.form = "release" /\ v.manifest.gate = "available" => Available(build, "storage_conditional_batch", 1)
  /\ computeBuildBinding(build) = build.binding

(* The capability and version a required name stands for.                  *)
RuntimeCapability(name) ==
  CASE name = "storage_conditional_snapshot_read_v2" -> <<"storage_conditional_snapshot_read", 2>>
    [] name = "revision_stream" -> <<name, 2>>
    [] OTHER -> <<name, 1>>

RuntimeFeatures(name) ==
  IF name = "revision_stream" THEN {<<name, 1>>, <<"revision_stream_mmr_proof", 2>>}
                              ELSE {RuntimeCapability(name)}

RuntimeSymbols(name) ==
  CASE name = "native_kv_read" -> kvReadSymbols
    [] name = "native_sql_context" -> sqlContextSymbols
    [] name = "native_shared_core" -> {"talon_open", "talon_close", "talon_execute"}
    [] OTHER -> {}

verifyRequiredRuntimeCapabilities(build, required) ==
  \A name \in Elements(required) \ {"storage_conditional_batch_v1"} :
    /\ Available(build, RuntimeCapability(name)[1], RuntimeCapability(name)[2])
    /\ RuntimeFeatures(name) \subseteq Elements(build.features)
    /\ HasSymbols(build, RuntimeSymbols(name))
=============================================================================
