--------------------------- MODULE NativeAdmission ---------------------------
(***************************************************************************)
(* Loading one native library into a process: OpenWithOptions (talon.go),  *)
(* PrepareLocalDevelopment and AttestLocalDevelopmentPolicy                *)
(* (native_development_cgo.go), the file reads of verifyNativeBundle and   *)
(* verifyLocalDevelopmentArtifacts, and the loader of native_loader.c,     *)
(* run by several goroutines while a build or a deployment rewrites the    *)
(* files they read.                                                        *)
(*                                                                         *)
(* The bytes of a library are the build they belong to; Report[b] and      *)
(* Exports[b] are what its talon_build_manifest returns and its symbols.   *)
(* Every read of a file is a step.  A private copy is written once, under  *)
(* a fresh directory, and nobody rewrites it.                              *)
(***************************************************************************)
EXTENDS NativeManifest

CONSTANTS Threads, Builds, NoBuild,
          Report, Exports,    \* external: functions of Builds
          Signed,             \* external: <<key, manifest>> pairs that were signed
          Disk, Rewrites,     \* the files at first, and <<file, content>> pairs
          Calls,              \* calls a goroutine may make
          Free,
          MaxCalls,           \* bound: calls started
          MaxRewrites         \* bound: files rewritten

ASSUME BuildAssumption == NoBuild \notin Builds
ASSUME ThreadAssumption == Free \notin Threads
ASSUME BoundAssumption == MaxCalls \in Nat /\ MaxRewrites \in Nat
ASSUME CallAssumption ==
  \A c \in Calls : c.op = "prepare" => {"library", "header", "self"} \subseteq DOMAIN c.policy

VARIABLES
  disk, rewritten, calls,  \* the files; counters of the two bounds
  nativeLoadMu,            \* its holder, or Free
  loadedNative,            \* the admitted runtime: what verified it, its copy
  library, symbols,        \* native_library; the library the function pointers lead into
  pc, call, work,          \* each goroutine: step, call, what it has read so far
  copies,                  \* the private copy a call has made, NoBuild without one
  db,                      \* the handle a goroutine holds
  config                   \* what PrepareLocalDevelopment left in outputDir

fileVars == <<disk, rewritten>>
loader == <<library, symbols>>
vars == <<fileVars, calls, nativeLoadMu, loadedNative, loader, pc, call, work, copies, db, config>>

NoNative == [form |-> "none"]
NoCall == [op |-> "none"]
NoWork == [form |-> "none"]
NoDB == [form |-> "none"]
NoConfig == [files |-> 0, policy |-> NoWork]   \* outputDir does not exist

(* env.sh, the third file, is written last.                                *)
ConfigFiles == 3

Init ==
  /\ disk = Disk /\ rewritten = 0 /\ calls = 0
  /\ nativeLoadMu = Free
  /\ loadedNative = NoNative
  /\ library = NoBuild /\ symbols = NoBuild
  /\ pc = [t \in Threads |-> "idle"]
  /\ call = [t \in Threads |-> NoCall]
  /\ work = [t \in Threads |-> NoWork]
  /\ copies = [t \in Threads |-> NoBuild]
  /\ db = [t \in Threads |-> NoDB]
  /\ config = NoConfig

(* A build or a deployment replaces the content of one file, in place.     *)
Rewrite(file, content) ==
  /\ rewritten < MaxRewrites
  /\ disk' = [disk EXCEPT ![file] = content]
  /\ rewritten' = rewritten + 1
  /\ UNCHANGED <<calls, nativeLoadMu, loadedNative, loader, pc, call, work, copies, db, config>>

-----------------------------------------------------------------------------
(* Steps of a call.                                                        *)

Goto(t, label) == pc' = [pc EXCEPT ![t] = label]

(* An error return, or the last step of a call: the deferred removal of    *)
(* the private copy and the deferred unlock.                               *)
Return(t) ==
  /\ Goto(t, "idle")
  /\ call' = [call EXCEPT ![t] = NoCall]
  /\ work' = [work EXCEPT ![t] = NoWork]
  /\ copies' = [copies EXCEPT ![t] = NoBuild]
  /\ nativeLoadMu' = IF nativeLoadMu = t THEN Free ELSE nativeLoadMu

Fail(t) == Return(t) /\ UNCHANGED <<fileVars, calls, loadedNative, loader, db, config>>

(* The call goes on, remembering w.                                        *)
Proceed(t, label, w) ==
  /\ Goto(t, label)
  /\ work' = [work EXCEPT ![t] = w]
  /\ UNCHANGED <<fileVars, calls, nativeLoadMu, loadedNative, loader, call, copies, db, config>>

(* talon_sdk_unload.                                                       *)
talon_sdk_unload == library' = NoBuild /\ symbols' = NoBuild

(* Prepare refuses an existing outputDir.                                  *)
Startable == {c \in Calls : c.op = "prepare" => config = NoConfig}

(* Prepare reads its inputs before it takes the lock; the two other calls  *)
(* start with it.                                                          *)
Start(t, c) ==
  /\ pc[t] = "idle" /\ db[t] = NoDB
  /\ calls < MaxCalls
  /\ calls' = calls + 1
  /\ call' = [call EXCEPT ![t] = c]
  /\ Goto(t, IF c.op = "prepare" THEN "library" ELSE "lock")
  /\ UNCHANGED <<fileVars, nativeLoadMu, loadedNative, loader, work, copies, db, config>>

PolicyHash(c) ==
  IF c.form = "development" THEN hashLocalDevelopmentPolicy(c.policy) ELSE hashNativePolicy(c.policy)

PolicyValid(c) ==
  IF c.form = "development" THEN validateLocalDevelopmentPolicy(c.policy) ELSE validateNativePolicy(c.policy)

(* Mutant: any release, or any development build, will do.                 *)
AdmittedUnder_FormOnly(c) == loadedNative.form = c.form

(* The admitted runtime was verified under the policy of this call.        *)
AdmittedUnder(c) == loadedNative.hash = PolicyHash(c)

(* nativeLoadMu.Lock and what follows at once.  A mixed or invalid         *)
(* development policy, another policy than the admitted one and an         *)
(* admitted process are errors; the admitted policy goes straight to       *)
(* talon_sdk_open, without the lock.                                       *)
Lock(t) ==
  LET c == call[t]
  IN  /\ pc[t] = "lock" /\ nativeLoadMu = Free
      /\ IF \/ c.op = "open" /\ c.mixed
            \/ c.op # "prepare" /\ c.form = "development" /\ ~PolicyValid(c)
            \/ loadedNative # NoNative /\ (c.op = "open" => ~AdmittedUnder(c))
         THEN Fail(t)
         ELSE IF loadedNative # NoNative /\ c.op = "open"
         THEN Proceed(t, "opening", loadedNative)
         ELSE /\ nativeLoadMu' = t
              /\ Goto(t, IF c.op = "prepare" THEN "load"
                         ELSE IF c.form = "development" THEN "library" ELSE "manifest")
              /\ UNCHANGED <<fileVars, calls, loadedNative, loader, call, work, copies, db, config>>

-----------------------------------------------------------------------------
(* verifyNativeBundle: manifest, signature, archive (hashed, then read     *)
(* again member by member), materials.                                     *)

ReadManifest(t) ==
  /\ pc[t] = "manifest"
  /\ IF validateNativePolicy(call[t].policy) /\ validateNativeManifest(disk.manifest, call[t].policy)
     THEN Proceed(t, "signature", [form |-> "release", manifest |-> disk.manifest])
     ELSE Fail(t)

(* The fingerprint of the trusted key is that of policy and manifest.      *)
ReadSignature(t) ==
  /\ pc[t] = "signature"
  /\ IF disk.signature = <<call[t].policy.key, work[t].manifest>> /\ disk.signature \in Signed
     THEN Proceed(t, "archive", work[t])
     ELSE Fail(t)

HashArchive(t) ==
  /\ pc[t] = "archive"
  /\ IF disk.archive = work[t].manifest.archive THEN Proceed(t, "members", work[t]) ELSE Fail(t)

ReadMembers(t) ==
  /\ pc[t] = "members"
  /\ IF MembersMatch(disk.archive, work[t].manifest)
     THEN Proceed(t, "copy", [form |-> "release", manifest |-> work[t].manifest,
                              policy |-> call[t].policy, hash |-> PolicyHash(call[t]),
                              bytes |-> ArchivedLibrary(disk.archive)])
     ELSE Fail(t)

-----------------------------------------------------------------------------
(* verifyLocalDevelopmentArtifacts, and the reads of Prepare, which pins   *)
(* what it finds.                                                          *)

ReadLibrary(t) ==
  /\ pc[t] = "library"
  /\ IF call[t].op = "prepare" \/ disk.library = call[t].policy.library
     THEN Proceed(t, "header", [form |-> "development", bytes |-> disk.library])
     ELSE Fail(t)

ReadHeader(t) ==
  LET p == IF call[t].op = "prepare"
           THEN [call[t].policy EXCEPT !.library = work[t].bytes, !.header = disk.header]
           ELSE call[t].policy
  IN  /\ pc[t] = "header"
      /\ IF call[t].op = "prepare"
         THEN IF validateLocalDevelopmentPolicy(p)
              THEN Proceed(t, "copy", [form |-> "development", policy |-> p, bytes |-> work[t].bytes])
              ELSE Fail(t)
         ELSE IF disk.header = p.header THEN Proceed(t, "self", work[t]) ELSE Fail(t)

(* The pinned self-manifest must already satisfy the runtime checks.       *)
ReadSelfManifest(t) ==
  LET p == call[t].policy
  IN  /\ pc[t] = "self"
      /\ IF disk.self = p.self /\ verifyCoreBuildIdentity(disk.self, [form |-> "development", policy |-> p])
         THEN Proceed(t, "copy", [form |-> "development", policy |-> p, hash |-> PolicyHash(call[t]),
                                  bytes |-> work[t].bytes])
         ELSE Fail(t)

(* Mutant: the file is copied again instead of the bytes that were read.   *)
SnapshotBytes_FromPath(t) == IF work[t].form = "development" THEN disk.library ELSE work[t].bytes

SnapshotBytes(t) == work[t].bytes

(* The verified bytes go into a private copy.                              *)
WriteCopy(t) ==
  /\ copies' = [copies EXCEPT ![t] = SnapshotBytes(t)]
  /\ Goto(t, IF call[t].op = "prepare" THEN "lock" ELSE "load")
  /\ UNCHANGED <<fileVars, calls, nativeLoadMu, loadedNative, loader, call, work, db, config>>

(* The end of verifyNativeBundle: the materials, then the copy.  Writing   *)
(* it may fail, which removes the directory.                               *)
SnapshotBundle(t) ==
  /\ pc[t] = "copy" /\ work[t].form = "release"
  /\ \/ Fail(t)
     \/ verifyFileRecord(disk.materials, work[t].manifest.materials) /\ WriteCopy(t)

snapshotDevelopmentLibrary(t) ==
  /\ pc[t] = "copy" /\ work[t].form = "development"
  /\ Fail(t) \/ WriteCopy(t)

-----------------------------------------------------------------------------
(* native_loader.c.                                                        *)

LoaderSymbols == {"talon_open", "talon_close", "talon_execute", "talon_build_manifest"}

(* talon_sdk_load: at once 0 when a library is loaded, whatever the path;  *)
(* else dlopen may fail, and a missing symbol clears the pointers.         *)
Load(t) ==
  /\ pc[t] = "load"
  /\ \/ /\ library # NoBuild \/ LoaderSymbols \subseteq Exports[copies[t]]
        /\ library' = IF library = NoBuild THEN copies[t] ELSE library
        /\ symbols' = IF library = NoBuild THEN copies[t] ELSE symbols
        /\ Goto(t, "attest")
        /\ UNCHANGED <<fileVars, calls, nativeLoadMu, loadedNative, call, work, copies, db, config>>
     \/ /\ library = NoBuild
        /\ symbols' = IF LoaderSymbols \subseteq Exports[copies[t]] THEN symbols ELSE NoBuild
        /\ Return(t)
        /\ UNCHANGED <<fileVars, calls, loadedNative, library, db, config>>

(* Prepare pins the report itself before it attests it.                    *)
Verified(t) ==
  IF call[t].op = "prepare" THEN [work[t] EXCEPT !.policy.self = Report[library]] ELSE work[t]

(* attestLoadedNative, through the resolved pointers.                      *)
attestLoadedNative(v) ==
  /\ symbols # NoBuild
  /\ verifyCoreBuildIdentity(Report[symbols], v)
  /\ v.form = "release" => verifyRequiredRuntimeCapabilities(Report[symbols], v.policy.required)
  /\ Elements(IF v.form = "release" THEN v.manifest.symbols ELSE v.policy.self.symbols)
       \subseteq Exports[library]

(* Mutant: a failed attestation leaves the library where it is.            *)
AttestFailure_KeepsLibrary == UNCHANGED loader

AttestFailure == talon_sdk_unload

(* Any failure of loadAndAttestNative after the load, an unavailable       *)
(* report among them.                                                      *)
AttestFails(t) ==
  /\ pc[t] = "attest"
  /\ AttestFailure
  /\ Return(t)
  /\ UNCHANGED <<fileVars, calls, loadedNative, db, config>>

(* The end of ensureNativeLoadedOptions: the private copy stays with the   *)
(* admitted runtime.                                                       *)
Admit(t) ==
  /\ pc[t] = "attest" /\ call[t].op = "open"
  /\ attestLoadedNative(Verified(t))
  /\ loadedNative' = work[t]
  /\ Goto(t, "opening")
  /\ copies' = [copies EXCEPT ![t] = NoBuild]
  /\ nativeLoadMu' = Free
  /\ UNCHANGED <<fileVars, calls, loader, call, work, db, config>>

(* AttestLocalDevelopmentPolicy unloads what it has attested.              *)
AttestLocalDevelopmentPolicy(t) ==
  /\ pc[t] = "attest" /\ call[t].op = "attest"
  /\ attestLoadedNative(Verified(t))
  /\ talon_sdk_unload
  /\ Return(t)
  /\ UNCHANGED <<fileVars, calls, loadedNative, db, config>>

(* Prepare goes on to write its files.                                     *)
ExtractSelfManifest(t) ==
  /\ pc[t] = "attest" /\ call[t].op = "prepare"
  /\ attestLoadedNative(Verified(t))
  /\ Proceed(t, "config", Verified(t))

(* Mkdir fails if outputDir has appeared.  Each of the three files may     *)
(* fail to be written and leaves the earlier ones.                         *)
WriteConfig(t) ==
  /\ pc[t] = "config"
  /\ \/ /\ config = NoConfig
        /\ config' = [files |-> 1, policy |-> work[t].policy]
        /\ Goto(t, "writing")
        /\ UNCHANGED <<fileVars, calls, nativeLoadMu, loadedNative, loader, call, work, copies, db>>
     \/ /\ talon_sdk_unload
        /\ Return(t)
        /\ UNCHANGED <<fileVars, calls, loadedNative, db, config>>

FinishConfig(t) ==
  /\ pc[t] = "writing"
  /\ \E n \in 1 .. ConfigFiles : config' = [config EXCEPT !.files = n]
  /\ talon_sdk_unload
  /\ Return(t)
  /\ UNCHANGED <<fileVars, calls, loadedNative, db>>

-----------------------------------------------------------------------------
(* OpenWithOptions after ensureNativeLoadedOptions, without the lock:      *)
(* talon_sdk_open calls through native_open.                               *)
NativeOpen(t) ==
  /\ pc[t] = "opening"
  /\ \/ /\ symbols # NoBuild
        /\ db' = [db EXCEPT ![t] = [form |-> "open", library |-> symbols, hash |-> PolicyHash(call[t])]]
     \/ UNCHANGED db
  /\ Return(t)
  /\ UNCHANGED <<fileVars, calls, loadedNative, loader, config>>

Close(t) ==
  /\ db[t] # NoDB
  /\ db' = [db EXCEPT ![t] = NoDB]
  /\ UNCHANGED <<fileVars, calls, nativeLoadMu, loadedNative, loader, pc, call, work, copies, config>>

Step(t) ==
  \/ \E c \in Startable : Start(t, c)
  \/ Lock(t)
  \/ ReadManifest(t) \/ ReadSignature(t) \/ HashArchive(t) \/ ReadMembers(t)
  \/ ReadLibrary(t) \/ ReadHeader(t) \/ ReadSelfManifest(t)
  \/ SnapshotBundle(t) \/ snapshotDevelopmentLibrary(t) \/ Load(t) \/ AttestFails(t)
  \/ Admit(t) \/ AttestLocalDevelopmentPolicy(t) \/ ExtractSelfManifest(t)
  \/ WriteConfig(t) \/ FinishConfig(t)
  \/ NativeOpen(t) \/ Close(t)

Next ==
  \/ \E r \in {x \in Rewrites : disk[x[1]] # x[2]} : Rewrite(r[1], r[2])
  \/ \E t \in Threads : Step(t)

Spec == Init /\ [][Next]_vars

-----------------------------------------------------------------------------
(* Between admissions the loader holds a library exactly when one is       *)
(* admitted, the function pointers lead into it, and no private copy but   *)
(* the admitted one is left behind: every failure, at any step of any      *)
(* call, has undone what it did.                                           *)
LoaderMatchesAdmission ==
  nativeLoadMu = Free =>
    /\ symbols = library
    /\ IF loadedNative = NoNative THEN library = NoBuild ELSE library = loadedNative.bytes
    /\ \A t \in Threads : copies[t] # NoBuild => call[t].op = "prepare"

(* A goroutine that calls talon_sdk_open without the lock, and every open  *)
(* handle, uses the library that was admitted under the very policy its    *)
(* OpenWithOptions was given, and no Prepare or Attest has unloaded it     *)
(* meanwhile.                                                              *)
HandlesMatchTheirPolicy ==
  \A t \in Threads :
    /\ pc[t] = "opening" => /\ loadedNative = work[t] /\ library = work[t].bytes
                            /\ loadedNative.hash = PolicyHash(call[t])
    /\ db[t] # NoDB => /\ library = db[t].library /\ symbols = library
                       /\ loadedNative # NoNative /\ db[t].hash = loadedNative.hash

(* What a release policy pins: a manifest signed with its key, and the     *)
(* library recorded in it; and what the Core is required to support.       *)
PinnedByRelease(v) ==
  /\ \E s \in Signed : /\ s[1] = v.policy.key /\ s[2] = v.manifest
                       /\ s[2].release = v.policy.release /\ s[2].source = v.policy.source
                       /\ Record(s[2].files, Platform.dynamic).sha = v.bytes
  /\ Report[v.bytes].source = v.policy.source
  /\ \A name \in Elements(v.policy.required) :
       Available(Report[v.bytes], RuntimeCapability(name)[1], RuntimeCapability(name)[2])

(* The admitted library is the one its policy pins, byte for byte, and it  *)
(* has the capabilities the policy requires, although any file may have    *)
(* been rewritten between the reads that verified it.                      *)
AdmittedIsPinned ==
  loadedNative # NoNative =>
    IF loadedNative.form = "release" THEN PinnedByRelease(loadedNative)
    ELSE /\ loadedNative.bytes = loadedNative.policy.library
         /\ Report[loadedNative.bytes] = loadedNative.policy.self

(* A policy written by PrepareLocalDevelopment describes one build: its    *)
(* self-manifest is the report of the library it pins, with the header it  *)
(* pins, even if the library was rebuilt while Prepare ran.                *)
PreparedPolicyDescribesOneBuild ==
  config # NoConfig =>
    /\ config.policy.self = Report[config.policy.library]
    /\ config.policy.self.header = config.policy.header
=============================================================================
