------------------------- MODULE NativeAdmissionProofs -------------------------
(***************************************************************************)
(* Safety of NativeAdmission for any number of goroutines, builds, calls   *)
(* and rewrites, and any files, signatures and reports.                    *)
(***************************************************************************)
EXTENDS NativeAdmission, TLAPS

(* The steps of a call that run with nativeLoadMu.  Prepare reads and      *)
(* copies its inputs without it.                                           *)
VerifySteps == {"manifest", "signature", "archive", "members", "self"}
Loaded == {"attest", "config", "writing"}

InSection(p, c) ==
  \/ p \in VerifySteps \cup Loaded \cup {"load"}
  \/ p \in {"library", "header", "copy"} /\ c.op # "prepare"

HasCopy(p, c) ==
  \/ p \in Loaded \cup {"load"}
  \/ p = "lock" /\ c.op = "prepare"

(* A record in the signed manifest pins the bytes that were read.          *)
ArchivePinned(w) ==
  /\ \E s \in Signed : /\ s[1] = w.policy.key /\ s[2] = w.manifest
                       /\ s[2].release = w.policy.release /\ s[2].source = w.policy.source
                       /\ Record(s[2].files, Platform.dynamic).sha = w.bytes
  /\ w.manifest.source = w.policy.source
  /\ "storage_conditional_batch_v1" \notin Elements(w.policy.required)

(* What open and attest have verified before they load.                    *)
Evidence(w, c) ==
  /\ w.form \in {"release", "development"}
  /\ w.hash = PolicyHash(c)
  /\ w.form = "release" => ArchivePinned(w)
  /\ w.form = "development" => w.bytes = w.policy.library

(* The policy Prepare drafts before it has the report of the library.      *)
Draft(w) ==
  /\ w.form = "development"
  /\ {"policy", "bytes"} \subseteq DOMAIN w
  /\ {"library", "header", "self"} \subseteq DOMAIN w.policy
  /\ w.policy.library = w.bytes

Describes(p) ==
  /\ p.self = Report[p.library]
  /\ p.self.header = p.header

(* What a goroutine at step p of call c, which has read w and copied k,    *)
(* may rely on, whatever the others do.                                    *)
Local(p, c, w, k) ==
  /\ p # "idle" => c \in Calls
  /\ p \in VerifySteps => c.op # "prepare"
  /\ HasCopy(p, c) => k = w.bytes
  /\ k # NoBuild => HasCopy(p, c)
  /\ (p = "header" /\ c.op # "prepare") \/ p = "self" => w.bytes = c.policy.library
  /\ p \in {"signature", "archive", "members"} => validateNativeManifest(w.manifest, c.policy)
  /\ p \in {"archive", "members"} => <<c.policy.key, w.manifest>> \in Signed
  /\ p \in {"copy", "load", "attest"} /\ c.op # "prepare" => Evidence(w, c)
  /\ p \in {"copy", "lock", "load", "attest"} /\ c.op = "prepare" => Draft(w)
  /\ p = "config" => Describes(w.policy)

LocalInv == \A t \in Threads : Local(pc[t], call[t], work[t], copies[t])

(* The lock: its holder is the one call between Lock and Return, and       *)
(* nothing is admitted meanwhile.                                          *)
MutexInv ==
  /\ nativeLoadMu \in Threads \cup {Free}
  /\ \A t \in Threads : InSection(pc[t], call[t]) <=> nativeLoadMu = t
  /\ nativeLoadMu # Free => loadedNative = NoNative

(* The loader, with and without a holder of the lock.                      *)
LoaderInv ==
  /\ nativeLoadMu = Free =>
       /\ symbols = library
       /\ library = IF loadedNative = NoNative THEN NoBuild ELSE loadedNative.bytes
  /\ nativeLoadMu # Free =>
       /\ symbols = library
       /\ library = IF pc[nativeLoadMu] \in Loaded THEN work[nativeLoadMu].bytes ELSE NoBuild

(* The calls that use the admitted library without the lock, and the       *)
(* handles they open.                                                      *)
MayOpen(c, w) ==
  /\ loadedNative # NoNative /\ loadedNative = w
  /\ loadedNative.hash = PolicyHash(c)

HandleOK(d) ==
  /\ loadedNative # NoNative
  /\ d.library = library /\ d.hash = loadedNative.hash

HandleInv ==
  \A t \in Threads :
    /\ pc[t] = "opening" => MayOpen(call[t], work[t])
    /\ db[t] # NoDB => HandleOK(db[t])

ConfigInv ==
  /\ DOMAIN config = {"files", "policy"}
  /\ config # NoConfig => Describes(config.policy)
  /\ \A t \in Threads : pc[t] = "writing" => config # NoConfig

Shape ==
  /\ DOMAIN pc = Threads /\ DOMAIN call = Threads /\ DOMAIN work = Threads
  /\ DOMAIN copies = Threads /\ DOMAIN db = Threads

(* The inductive invariant.                                                *)
IInv ==
  /\ Shape /\ LocalInv /\ MutexInv /\ LoaderInv /\ HandleInv /\ ConfigInv
  /\ AdmittedIsPinned

-----------------------------------------------------------------------------
LEMMA InitInv == Init => IInv
<1> SUFFICES ASSUME Init PROVE IInv
  OBVIOUS
<1>1. Shape /\ MutexInv
  BY ThreadAssumption DEF Init, Shape, MutexInv, InSection, VerifySteps, Loaded
<1>2. LocalInv
  BY DEF Init, LocalInv, Local, HasCopy, VerifySteps, Loaded
<1>3. LoaderInv /\ HandleInv /\ AdmittedIsPinned
  BY DEF Init, LoaderInv, HandleInv, AdmittedIsPinned
<1>4. ConfigInv
  BY DEF Init, ConfigInv, NoConfig
<1> QED
  BY <1>1, <1>2, <1>3, <1>4 DEF IInv

(* A step of t leaves what the others rely on alone.                       *)
OnlyMoves(t) ==
  \A u \in Threads : u # t => /\ pc'[u] = pc[u] /\ call'[u] = call[u]
                              /\ work'[u] = work[u] /\ copies'[u] = copies[u]

LEMMA OthersLocal ==
  ASSUME LocalInv, NEW t \in Threads, OnlyMoves(t), Local(pc'[t], call'[t], work'[t], copies'[t])
  PROVE  LocalInv'
<1>1. ASSUME NEW u \in Threads PROVE Local(pc'[u], call'[u], work'[u], copies'[u])
  BY DEF LocalInv, OnlyMoves
<1> QED
  BY <1>1 DEF LocalInv

(* A goroutine that has returned relies on nothing.                        *)
LEMMA IdleLocal == Local("idle", NoCall, NoWork, NoBuild)
BY DEF Local, HasCopy, VerifySteps, Loaded

(* A step inside or outside the section that does not touch what is        *)
(* shared.                                                                 *)
LEMMA MoveStep ==
  ASSUME IInv, NEW t \in Threads, Shape', OnlyMoves(t),
         UNCHANGED <<nativeLoadMu, loadedNative, library, symbols, db, config>>,
         Local(pc'[t], call'[t], work'[t], copies'[t]),
         pc'[t] # "writing", pc'[t] = "opening" => MayOpen(call'[t], work'[t]),
         InSection(pc'[t], call'[t]) <=> InSection(pc[t], call[t]),
         pc'[t] \in Loaded <=> pc[t] \in Loaded, pc'[t] \in Loaded => work'[t].bytes = work[t].bytes
  PROVE  IInv'
<1>0. Shape /\ LocalInv /\ MutexInv /\ LoaderInv /\ HandleInv /\ ConfigInv /\ AdmittedIsPinned
  BY DEF IInv
<1>1. Shape' /\ LocalInv'
  BY <1>0, OthersLocal, Zenon
<1>2. \A u \in Threads : u # t => pc'[u] = pc[u] /\ call'[u] = call[u] /\ work'[u] = work[u]
  BY DEF OnlyMoves
<1>4. MutexInv'
  BY <1>0, <1>2 DEF MutexInv
<1>5. LoaderInv'
  <2>1. CASE nativeLoadMu = t
    BY <1>0, <2>1 DEF LoaderInv, MutexInv
  <2>2. CASE nativeLoadMu # t
    BY <1>0, <1>2, <2>2 DEF LoaderInv, MutexInv
  <2> QED
    BY <2>1, <2>2
<1>6. HandleInv'
  BY <1>0, <1>2 DEF HandleInv, MayOpen, HandleOK
<1>7. ConfigInv'
  BY <1>0, <1>2 DEF ConfigInv
<1>8. AdmittedIsPinned'
  BY <1>0 DEF AdmittedIsPinned
<1> QED
  BY <1>1, <1>4, <1>5, <1>6, <1>7, <1>8 DEF IInv

(* The end of a call, with or without the lock: a holder leaves the loader *)
(* empty.                                                                  *)
LEMMA ReturnStep ==
  ASSUME IInv, NEW t \in Threads, Return(t), UNCHANGED loadedNative,
         DOMAIN db' = Threads, \A u \in Threads : db'[u] = db[u] \/ HandleOK(db'[u]),
         nativeLoadMu = t => library' = NoBuild /\ symbols' = NoBuild,
         nativeLoadMu # t => UNCHANGED <<library, symbols>>,
         DOMAIN config' = {"files", "policy"}, config' # NoConfig => Describes(config'.policy),
         config' = NoConfig => config = NoConfig
  PROVE  IInv'
<1>0. Shape /\ LocalInv /\ MutexInv /\ LoaderInv /\ HandleInv /\ ConfigInv /\ AdmittedIsPinned
  BY DEF IInv
<1>r. /\ pc' = [pc EXCEPT ![t] = "idle"] /\ call' = [call EXCEPT ![t] = NoCall]
      /\ work' = [work EXCEPT ![t] = NoWork] /\ copies' = [copies EXCEPT ![t] = NoBuild]
      /\ nativeLoadMu' = IF nativeLoadMu = t THEN Free ELSE nativeLoadMu
  BY DEF Return, Goto
<1>s. Shape' /\ OnlyMoves(t)
  BY <1>0, <1>r DEF Shape, OnlyMoves
<1>2. \A u \in Threads : u # t => pc'[u] = pc[u] /\ call'[u] = call[u] /\ work'[u] = work[u]
  BY <1>s DEF OnlyMoves
<1>3. pc'[t] = "idle" /\ call'[t] = NoCall /\ work'[t] = NoWork /\ copies'[t] = NoBuild
  BY <1>0, <1>r DEF Shape
<1>1. Shape' /\ LocalInv'
  BY <1>0, <1>s, <1>3, OthersLocal, IdleLocal, Zenon
<1>4. MutexInv'
  <2>1. ~InSection(pc'[t], call'[t])
    BY <1>3 DEF InSection, VerifySteps, Loaded
  <2>2. \A u \in Threads : InSection(pc'[u], call'[u]) <=> nativeLoadMu' = u
    BY <1>0, <1>r, <1>2, <2>1, ThreadAssumption DEF MutexInv
  <2> QED
    BY <1>0, <1>r, <2>2 DEF MutexInv
<1>5. LoaderInv'
  <2>1. CASE nativeLoadMu = t
    <3>1. nativeLoadMu' = Free /\ loadedNative' = NoNative
      BY <1>0, <1>r, <2>1, ThreadAssumption DEF MutexInv
    <3> QED
      BY <2>1, <3>1 DEF LoaderInv
  <2>2. CASE nativeLoadMu # t
    BY <1>0, <1>r, <1>2, <2>2 DEF LoaderInv, MutexInv
  <2> QED
    BY <2>1, <2>2
<1>6. HandleInv'
  <2> SUFFICES ASSUME NEW u \in Threads
               PROVE  /\ pc'[u] = "opening" => MayOpen(call'[u], work'[u])
                      /\ db'[u] # NoDB => HandleOK(db'[u]) /\ library' = library
    BY DEF HandleInv, MayOpen, HandleOK
  <2>1. pc'[u] = "opening" => MayOpen(call'[u], work'[u])
    BY <1>0, <1>2, <1>3 DEF HandleInv
  <2>2. db'[u] # NoDB => HandleOK(db'[u])
    BY <1>0 DEF HandleInv
  <2>3. db'[u] # NoDB => nativeLoadMu # t
    BY <1>0, <2>2, ThreadAssumption DEF HandleOK, MutexInv
  <2> QED
    BY <2>1, <2>2, <2>3
<1>7. ConfigInv'
  BY <1>0, <1>2, <1>3 DEF ConfigInv
<1>8. AdmittedIsPinned'
  BY <1>0 DEF AdmittedIsPinned
<1> QED
  BY <1>1, <1>4, <1>5, <1>6, <1>7, <1>8 DEF IInv

LEMMA FailStep ==
  ASSUME IInv, NEW t \in Threads, Fail(t), pc[t] \notin Loaded
  PROVE  IInv'
<1>1. Return(t) /\ UNCHANGED <<loadedNative, library, symbols, db, config>>
  BY DEF Fail, loader
<1>4. DOMAIN db' = Threads
  BY <1>1 DEF IInv, Shape
<1>2. nativeLoadMu = t => library = NoBuild /\ symbols = NoBuild
  BY ThreadAssumption DEF IInv, LoaderInv
<1>3. DOMAIN config = {"files", "policy"} /\ (config # NoConfig => Describes(config.policy))
  BY DEF IInv, ConfigInv
<1> QED
  BY <1>1, <1>2, <1>3, <1>4, ReturnStep

(* A failure after the library was loaded.                                 *)
LEMMA UnloadStep ==
  ASSUME IInv, NEW t \in Threads, pc[t] \in Loaded, talon_sdk_unload, Return(t),
         UNCHANGED <<loadedNative, db, config>>
  PROVE  IInv'
<1>1. nativeLoadMu = t
  BY DEF IInv, MutexInv, InSection
<1>3. DOMAIN db' = Threads
  BY DEF IInv, Shape
<1>2. DOMAIN config = {"files", "policy"} /\ (config # NoConfig => Describes(config.policy))
  BY DEF IInv, ConfigInv
<1> QED
  BY <1>1, <1>2, <1>3, ReturnStep DEF talon_sdk_unload

-----------------------------------------------------------------------------
(* A step that only remembers what it has read.                            *)
LEMMA ProceedStep ==
  ASSUME IInv, NEW t \in Threads, NEW p, NEW w, Proceed(t, p, w),
         Local(p, call[t], w, copies[t]), p # "writing", p = "opening" => MayOpen(call[t], w),
         InSection(p, call[t]) <=> InSection(pc[t], call[t]),
         p \in Loaded <=> pc[t] \in Loaded, p \in Loaded => w.bytes = work[t].bytes
  PROVE  IInv'
<1>1. Shape
  BY DEF IInv
<1>2. /\ pc' = [pc EXCEPT ![t] = p] /\ work' = [work EXCEPT ![t] = w]
      /\ UNCHANGED <<nativeLoadMu, loadedNative, library, symbols, call, copies, db, config>>
  BY DEF Proceed, Goto, loader
<1>3. Shape' /\ OnlyMoves(t) /\ pc'[t] = p /\ call'[t] = call[t] /\ work'[t] = w /\ copies'[t] = copies[t]
  BY <1>1, <1>2 DEF Shape, OnlyMoves
<1> QED
  BY <1>2, <1>3, MoveStep

LEMMA StartStep ==
  ASSUME IInv, NEW t \in Threads, NEW c \in Calls, Start(t, c)
  PROVE  IInv'
<1>0. Shape /\ LocalInv
  BY DEF IInv
<1>1. /\ pc' = [pc EXCEPT ![t] = IF c.op = "prepare" THEN "library" ELSE "lock"]
      /\ call' = [call EXCEPT ![t] = c] /\ pc[t] = "idle"
      /\ UNCHANGED <<nativeLoadMu, loadedNative, library, symbols, work, copies, db, config>>
  BY DEF Start, Goto, loader
<1>2. Shape' /\ OnlyMoves(t) /\ call'[t] = c /\ work'[t] = work[t] /\ copies'[t] = copies[t]
      /\ pc'[t] = IF c.op = "prepare" THEN "library" ELSE "lock"
  BY <1>0, <1>1 DEF Shape, OnlyMoves
<1>3. copies[t] = NoBuild
  BY <1>0, <1>1 DEF LocalInv, Local, HasCopy, Loaded
<1>4. Local(pc'[t], call'[t], work'[t], copies'[t])
  BY <1>2, <1>3 DEF Local, HasCopy, Loaded, VerifySteps
<1>5. /\ ~InSection(pc'[t], call'[t]) /\ ~InSection(pc[t], call[t])
      /\ pc'[t] \notin Loaded \cup {"opening", "writing"} /\ pc[t] \notin Loaded
  BY <1>1, <1>2 DEF InSection, Loaded, VerifySteps
<1> QED
  BY <1>1, <1>2, <1>4, <1>5, MoveStep

(* The library of an archive whose members match a valid manifest is the   *)
(* one the manifest records.                                               *)
LEMMA PinnedMember ==
  ASSUME NEW m, NEW p, NEW members, validateNativeManifest(m, p), MembersMatch(members, m)
  PROVE  ArchivedLibrary(members) = Record(m.files, Platform.dynamic).sha
<1> DEFINE recorded == {m.files[i].path : i \in DOMAIN m.files}
           found == {members[i].path : i \in DOMAIN members}
<1>1. Platform.dynamic \in recorded
  BY DEF validateNativeManifest, FileSetValid, sameStringSet, Elements, ExpectedFiles
<1>2. Platform.dynamic \in {r.path : r \in Elements(m.files)}
  BY <1>1 DEF Elements
<1>3. Platform.dynamic \in found
  BY <1>2 DEF MembersMatch, sameStringSet, Elements
<1>4. \E x \in Elements(members) : x.path = Platform.dynamic
  BY <1>3 DEF Elements
<1>5. PICK x \in Elements(members) : x.path = Platform.dynamic /\ ArchivedLibrary(members) = x.bytes
  BY <1>4 DEF ArchivedLibrary
<1>6. PICK i \in DOMAIN members : x = members[i]
  BY DEF Elements
<1> QED
  BY <1>5, <1>6 DEF MembersMatch

(* The reads of verifyNativeBundle.                                        *)
LEMMA BundleStep ==
  ASSUME IInv, NEW t \in Threads,
         ReadManifest(t) \/ ReadSignature(t) \/ HashArchive(t) \/ ReadMembers(t)
  PROVE  IInv'
<1> DEFINE c == call[t]
<1>0. Shape /\ Local(pc[t], c, work[t], copies[t])
  BY DEF IInv, LocalInv
<1>1. pc[t] \in {"manifest", "signature", "archive", "members"}
  BY DEF ReadManifest, ReadSignature, HashArchive, ReadMembers
<1>2. /\ pc[t] \notin Loaded /\ c.op # "prepare" /\ c \in Calls /\ copies[t] = NoBuild
      /\ InSection(pc[t], c)
  BY <1>0, <1>1 DEF Local, HasCopy, Loaded, VerifySteps, InSection
<1>3. \A p \in {"signature", "archive", "members", "copy"} :
        InSection(p, c) /\ p \notin Loaded \cup {"opening", "writing"}
  BY <1>2 DEF InSection, VerifySteps, Loaded
<1>f. CASE Fail(t)
  BY <1>2, <1>f, FailStep
<1>4. ASSUME NEW w, validateNativeManifest(w.manifest, c.policy), Proceed(t, "signature", w)
      PROVE  IInv'
  <2>1. Local("signature", c, w, copies[t])
    BY <1>2, <1>4 DEF Local, HasCopy, Loaded, VerifySteps
  <2> QED
    BY <1>2, <1>3, <1>4, <2>1, ProceedStep
<1>5. ASSUME NEW w, NEW p \in {"archive", "members"}, validateNativeManifest(w.manifest, c.policy),
             <<c.policy.key, w.manifest>> \in Signed, Proceed(t, p, w)
      PROVE  IInv'
  <2>1. Local(p, c, w, copies[t])
    BY <1>2, <1>5 DEF Local, HasCopy, Loaded, VerifySteps
  <2> QED
    BY <1>2, <1>3, <1>5, <2>1, ProceedStep
<1>6. CASE ReadManifest(t)
  BY <1>f, <1>4, <1>6 DEF ReadManifest
<1>7. CASE ReadSignature(t)
  <2>1. validateNativeManifest(work[t].manifest, c.policy)
    BY <1>0, <1>7 DEF ReadSignature, Local
  <2> QED
    BY <1>f, <1>5, <1>7, <2>1 DEF ReadSignature
<1>8. CASE HashArchive(t)
  <2>1. validateNativeManifest(work[t].manifest, c.policy) /\ <<c.policy.key, work[t].manifest>> \in Signed
    BY <1>0, <1>8 DEF HashArchive, Local
  <2> QED
    BY <1>f, <1>5, <1>8, <2>1 DEF HashArchive
<1>9. CASE ReadMembers(t)
  <2> DEFINE m == work[t].manifest
             w == [form |-> "release", manifest |-> m, policy |-> c.policy, hash |-> PolicyHash(c),
                   bytes |-> ArchivedLibrary(disk.archive)]
  <2>1. validateNativeManifest(m, c.policy) /\ <<c.policy.key, m>> \in Signed
    BY <1>0, <1>9 DEF ReadMembers, Local
  <2>2. CASE MembersMatch(disk.archive, m) /\ Proceed(t, "copy", w)
    <3>1. ArchivedLibrary(disk.archive) = Record(m.files, Platform.dynamic).sha
      BY <2>1, <2>2, PinnedMember
    <3>2. m.release = c.policy.release /\ m.source = c.policy.source
          /\ "storage_conditional_batch_v1" \notin Elements(c.policy.required)
      BY <2>1 DEF validateNativeManifest
    <3>3. ArchivePinned(w)
      BY <2>1, <3>1, <3>2 DEF ArchivePinned
    <3>4. Evidence(w, c)
      BY <3>3 DEF Evidence
    <3> HIDE DEF w
    <3>5. Local("copy", c, w, copies[t])
      BY <1>2, <3>4 DEF Local, HasCopy, Loaded, VerifySteps
    <3> QED
      BY <1>2, <1>3, <2>2, <3>5, ProceedStep
  <2> QED
    BY <1>f, <1>9, <2>2 DEF ReadMembers
<1> QED
  BY <1>6, <1>7, <1>8, <1>9

(* The reads of verifyLocalDevelopmentArtifacts and of Prepare.            *)
LEMMA DevelopmentStep ==
  ASSUME IInv, NEW t \in Threads, ReadLibrary(t) \/ ReadHeader(t) \/ ReadSelfManifest(t)
  PROVE  IInv'
<1> DEFINE c == call[t]
<1>0. Shape /\ Local(pc[t], c, work[t], copies[t])
  BY DEF IInv, LocalInv
<1>1. pc[t] \in {"library", "header", "self"}
  BY DEF ReadLibrary, ReadHeader, ReadSelfManifest
<1>2. /\ pc[t] \notin Loaded /\ c \in Calls /\ copies[t] = NoBuild
      /\ InSection(pc[t], c) <=> c.op # "prepare"
  BY <1>0, <1>1 DEF Local, HasCopy, Loaded, VerifySteps, InSection
<1>3. \A p \in {"header", "copy"} :
        (InSection(p, c) <=> InSection(pc[t], c)) /\ p \notin Loaded \cup {"opening", "writing"}
  BY <1>2 DEF InSection, VerifySteps, Loaded
<1>f. CASE Fail(t)
  BY <1>2, <1>f, FailStep
<1>4. CASE ReadLibrary(t)
  <2> DEFINE w == [form |-> "development", bytes |-> disk.library]
  <2>1. CASE (c.op = "prepare" \/ disk.library = c.policy.library) /\ Proceed(t, "header", w)
    <3>1. c.op # "prepare" => w.bytes = c.policy.library
      BY <2>1
    <3> HIDE DEF w
    <3>2. Local("header", c, w, copies[t])
      BY <1>2, <3>1 DEF Local, HasCopy, Loaded, VerifySteps
    <3> QED
      BY <1>2, <1>3, <2>1, <3>2, ProceedStep
  <2> QED
    BY <1>f, <1>4, <2>1 DEF ReadLibrary
<1>5. CASE ReadHeader(t)
  <2>1. CASE c.op = "prepare"
    <3> DEFINE p == [c.policy EXCEPT !.library = work[t].bytes, !.header = disk.header]
               w == [form |-> "development", policy |-> p, bytes |-> work[t].bytes]
    <3>1. CASE Proceed(t, "copy", w)
      <4>1. {"library", "header", "self"} \subseteq DOMAIN c.policy
        BY <1>2, <2>1, CallAssumption
      <4>2. {"library", "header", "self"} \subseteq DOMAIN p /\ p.library = work[t].bytes
        BY <4>1
      <4> HIDE DEF p
      <4>3. Draft(w)
        BY <4>2 DEF Draft
      <4> HIDE DEF w
      <4>4. Local("copy", c, w, copies[t])
        BY <1>2, <2>1, <4>3 DEF Local, HasCopy, Loaded, VerifySteps
      <4> QED
        BY <1>2, <1>3, <3>1, <4>4, ProceedStep
    <3> QED
      BY <1>f, <1>5, <2>1, <3>1 DEF ReadHeader
  <2>2. CASE c.op # "prepare"
    <3>1. CASE Proceed(t, "self", work[t])
      <4>1. work[t].bytes = c.policy.library
        BY <1>0, <1>5, <2>2 DEF Local, ReadHeader
      <4>2. Local("self", c, work[t], copies[t])
        BY <1>2, <2>2, <4>1 DEF Local, HasCopy, Loaded, VerifySteps
      <4>3. InSection("self", c) /\ "self" \notin Loaded \cup {"opening", "writing"}
        BY DEF InSection, VerifySteps, Loaded
      <4> QED
        BY <1>2, <2>2, <3>1, <4>2, <4>3, ProceedStep
    <3> QED
      BY <1>f, <1>5, <2>2, <3>1 DEF ReadHeader
  <2> QED
    BY <2>1, <2>2
<1>6. CASE ReadSelfManifest(t)
  <2> DEFINE w == [form |-> "development", policy |-> c.policy, hash |-> PolicyHash(c), bytes |-> work[t].bytes]
  <2>1. work[t].bytes = c.policy.library /\ c.op # "prepare"
    BY <1>0, <1>6 DEF Local, ReadSelfManifest, VerifySteps
  <2>2. CASE Proceed(t, "copy", w)
    <3>1. Evidence(w, c)
      BY <2>1 DEF Evidence
    <3> HIDE DEF w
    <3>2. Local("copy", c, w, copies[t])
      BY <1>2, <2>1, <3>1 DEF Local, HasCopy, Loaded, VerifySteps
    <3> QED
      BY <1>2, <1>3, <2>2, <3>2, ProceedStep
  <2> QED
    BY <1>f, <1>6, <2>2 DEF ReadSelfManifest
<1> QED
  BY <1>4, <1>5, <1>6

(* The verified bytes, and not the file, become the private copy.          *)
LEMMA CopyStep ==
  ASSUME IInv, NEW t \in Threads, SnapshotBundle(t) \/ snapshotDevelopmentLibrary(t)
  PROVE  IInv'
<1> DEFINE c == call[t]
<1>0. Shape /\ Local(pc[t], c, work[t], copies[t])
  BY DEF IInv, LocalInv
<1>1. pc[t] = "copy" /\ (Fail(t) \/ WriteCopy(t))
  BY DEF SnapshotBundle, snapshotDevelopmentLibrary
<1>2. /\ pc[t] \notin Loaded /\ c \in Calls
      /\ InSection(pc[t], c) <=> c.op # "prepare"
      /\ c.op # "prepare" => Evidence(work[t], c)
      /\ c.op = "prepare" => Draft(work[t])
  BY <1>0, <1>1 DEF Local, Loaded, VerifySteps, InSection
<1>3. CASE WriteCopy(t)
  <2>1. /\ pc' = [pc EXCEPT ![t] = IF c.op = "prepare" THEN "lock" ELSE "load"]
        /\ copies' = [copies EXCEPT ![t] = work[t].bytes]
        /\ UNCHANGED <<nativeLoadMu, loadedNative, library, symbols, call, work, db, config>>
    BY <1>3 DEF WriteCopy, SnapshotBytes, Goto, loader
  <2>2. /\ Shape' /\ OnlyMoves(t) /\ call'[t] = c /\ work'[t] = work[t] /\ copies'[t] = work[t].bytes
        /\ pc'[t] = IF c.op = "prepare" THEN "lock" ELSE "load"
    BY <1>0, <2>1 DEF Shape, OnlyMoves
  <2>3. Local(pc'[t], c, work[t], work[t].bytes)
    BY <1>2, <2>2 DEF Local, HasCopy, Loaded, VerifySteps
  <2>4. /\ InSection(pc'[t], c) <=> c.op # "prepare"
        /\ pc'[t] \notin Loaded \cup {"opening", "writing"}
    BY <2>2 DEF InSection, VerifySteps, Loaded
  <2> QED
    BY <1>2, <2>1, <2>2, <2>3, <2>4, MoveStep
<1> QED
  BY <1>1, <1>2, <1>3, FailStep

-----------------------------------------------------------------------------
(* Taking the lock, or going straight to talon_sdk_open under the admitted *)
(* policy.                                                                 *)
LEMMA LockStep ==
  ASSUME IInv, NEW t \in Threads, Lock(t)
  PROVE  IInv'
<1> DEFINE c == call[t]
<1>0. Shape /\ LocalInv /\ MutexInv /\ LoaderInv /\ HandleInv /\ ConfigInv /\ AdmittedIsPinned
  BY DEF IInv
<1>1. pc[t] = "lock" /\ nativeLoadMu = Free /\ Local(pc[t], c, work[t], copies[t])
  BY <1>0 DEF Lock, LocalInv
<1>2. pc[t] \notin Loaded /\ c \in Calls /\ ~InSection(pc[t], c)
  BY <1>1 DEF Local, Loaded, InSection, VerifySteps
<1>3. CASE Fail(t)
  BY <1>2, <1>3, FailStep
<1>4. CASE loadedNative # NoNative /\ c.op = "open" /\ AdmittedUnder(c) /\ Proceed(t, "opening", loadedNative)
  <2>1. copies[t] = NoBuild
    BY <1>1, <1>4 DEF Local, HasCopy, Loaded
  <2>2. Local("opening", c, loadedNative, copies[t])
    BY <1>2, <2>1 DEF Local, HasCopy, Loaded, VerifySteps
  <2>3. ~InSection("opening", c) /\ "opening" \notin Loaded /\ MayOpen(c, loadedNative)
    BY <1>4 DEF InSection, VerifySteps, Loaded, MayOpen, AdmittedUnder
  <2> QED
    BY <1>2, <1>4, <2>2, <2>3, ProceedStep
<1>5. CASE /\ loadedNative = NoNative /\ nativeLoadMu' = t
           /\ pc' = [pc EXCEPT ![t] = IF c.op = "prepare" THEN "load"
                                       ELSE IF c.form = "development" THEN "library" ELSE "manifest"]
           /\ UNCHANGED <<loadedNative, library, symbols, call, work, copies, db, config>>
  <2>1. Shape' /\ OnlyMoves(t) /\ call'[t] = c /\ work'[t] = work[t] /\ copies'[t] = copies[t]
    BY <1>0, <1>5 DEF Shape, OnlyMoves
  <2>2. /\ c.op = "prepare" => pc'[t] = "load"
        /\ c.op # "prepare" => pc'[t] \in {"library", "manifest"}
    BY <1>0, <1>5 DEF Shape
  <2>3. \A u \in Threads : u # t => pc'[u] = pc[u] /\ call'[u] = call[u] /\ work'[u] = work[u]
    BY <2>1 DEF OnlyMoves
  <2>4. Local(pc'[t], c, work[t], copies[t])
    BY <1>1, <1>2, <2>2 DEF Local, HasCopy, Loaded, VerifySteps
  <2>5. InSection(pc'[t], c) /\ pc'[t] \notin Loaded \cup {"opening", "writing"}
    BY <2>2 DEF InSection, VerifySteps, Loaded
  <2>6. Shape' /\ LocalInv'
    BY <1>0, <2>1, <2>4, OthersLocal
  <2>7. MutexInv'
    <3>1. \A u \in Threads : u # t => ~InSection(pc[u], call[u])
      BY <1>0, <1>1, ThreadAssumption DEF MutexInv
    <3>2. \A u \in Threads : InSection(pc'[u], call'[u]) <=> u = t
      BY <2>1, <2>3, <2>5, <3>1
    <3> QED
      BY <1>5, <3>2 DEF MutexInv
  <2>8. LoaderInv'
    BY <1>0, <1>1, <1>5, <2>5, ThreadAssumption DEF LoaderInv
  <2>9. HandleInv' /\ ConfigInv' /\ AdmittedIsPinned'
    BY <1>0, <1>5, <2>3, <2>5 DEF HandleInv, MayOpen, HandleOK, ConfigInv, AdmittedIsPinned
  <2> QED
    BY <2>6, <2>7, <2>8, <2>9 DEF IInv
<1> QED
  BY <1>1, <1>3, <1>4, <1>5 DEF Lock, Goto, loader

(* While the lock is held no other goroutine uses the loader: nobody is    *)
(* about to open, and no handle is open.                                   *)
LEMMA HolderAlone ==
  ASSUME IInv, NEW t \in Threads, InSection(pc[t], call[t])
  PROVE  /\ nativeLoadMu = t /\ t # Free /\ loadedNative = NoNative
         /\ symbols = library
         /\ library = IF pc[t] \in Loaded THEN work[t].bytes ELSE NoBuild
         /\ \A u \in Threads : pc[u] # "opening" /\ db[u] = NoDB
         /\ \A u \in Threads : u # t => ~InSection(pc[u], call[u])
<1>1. nativeLoadMu = t /\ t # Free
  BY ThreadAssumption DEF IInv, MutexInv
<1>2. loadedNative = NoNative /\ \A u \in Threads : u # t => ~InSection(pc[u], call[u])
  BY <1>1 DEF IInv, MutexInv
<1>3. symbols = library /\ library = IF pc[t] \in Loaded THEN work[t].bytes ELSE NoBuild
  BY <1>1 DEF IInv, LoaderInv
<1>4. \A u \in Threads : pc[u] # "opening" /\ db[u] = NoDB
  BY <1>2 DEF IInv, HandleInv, MayOpen, HandleOK
<1> QED
  BY <1>1, <1>2, <1>3, <1>4

(* talon_sdk_load finds an empty loader, so it loads the private copy.     *)
LEMMA LoadStep ==
  ASSUME IInv, NEW t \in Threads, Load(t)
  PROVE  IInv'
<1> DEFINE c == call[t]
<1>0. Shape /\ LocalInv /\ MutexInv /\ ConfigInv /\ AdmittedIsPinned /\ Local(pc[t], c, work[t], copies[t])
  BY DEF IInv, LocalInv
<1>1. pc[t] = "load" /\ InSection(pc[t], c) /\ pc[t] \notin Loaded
  BY DEF Load, InSection, Loaded
<1>2. /\ nativeLoadMu = t /\ t # Free /\ loadedNative = NoNative
      /\ library = NoBuild /\ symbols = NoBuild
      /\ \A u \in Threads : pc[u] # "opening" /\ db[u] = NoDB
  BY <1>1, HolderAlone
<1>3. copies[t] = work[t].bytes
  BY <1>0, <1>1 DEF Local, HasCopy
<1>4. CASE /\ library' = copies[t] /\ symbols' = copies[t]
           /\ pc' = [pc EXCEPT ![t] = "attest"]
           /\ UNCHANGED <<nativeLoadMu, loadedNative, call, work, copies, db, config>>
  <2>1. /\ Shape' /\ OnlyMoves(t) /\ pc'[t] = "attest" /\ call'[t] = c /\ work'[t] = work[t]
        /\ copies'[t] = copies[t]
    BY <1>0, <1>4 DEF Shape, OnlyMoves
  <2>2. \A u \in Threads : u # t => pc'[u] = pc[u] /\ call'[u] = call[u] /\ work'[u] = work[u]
    BY <2>1 DEF OnlyMoves
  <2>3. Local("attest", c, work[t], copies[t])
    BY <1>0, <1>1 DEF Local, HasCopy, Loaded, VerifySteps
  <2>4. LocalInv'
    BY <1>0, <2>1, <2>3, OthersLocal
  <2>5. InSection("attest", c)
    BY DEF InSection, Loaded
  <2>6. MutexInv'
    BY <1>0, <1>1, <1>4, <2>1, <2>2, <2>5 DEF MutexInv
  <2>7. LoaderInv'
    BY <1>2, <1>3, <1>4, <2>1 DEF LoaderInv, Loaded
  <2>8. HandleInv' /\ ConfigInv' /\ AdmittedIsPinned'
    BY <1>0, <1>2, <1>4, <2>1, <2>2 DEF HandleInv, ConfigInv, AdmittedIsPinned
  <2> QED
    BY <2>1, <2>4, <2>6, <2>7, <2>8 DEF IInv
<1>5. CASE Return(t) /\ symbols' = NoBuild /\ UNCHANGED <<loadedNative, library, db, config>>
  <2>1. DOMAIN db' = Threads /\ DOMAIN config' = {"files", "policy"}
        /\ (config' # NoConfig => Describes(config'.policy))
    BY <1>0, <1>5 DEF Shape, ConfigInv
  <2> QED
    BY <1>2, <1>5, <2>1, ReturnStep
<1> QED
  BY <1>2, <1>4, <1>5 DEF Load, Goto

(* A failed attestation, and AttestLocalDevelopmentPolicy.                 *)
LEMMA AttestStep ==
  ASSUME IInv, NEW t \in Threads, AttestFails(t) \/ AttestLocalDevelopmentPolicy(t)
  PROVE  IInv'
<1>1. /\ pc[t] = "attest" /\ talon_sdk_unload /\ Return(t)
      /\ UNCHANGED <<loadedNative, db, config>>
  BY DEF AttestFails, AttestFailure, AttestLocalDevelopmentPolicy
<1> QED
  BY <1>1, UnloadStep DEF Loaded

(* Evidence and a successful attestation of the loaded bytes are what      *)
(* AdmittedIsPinned promises.                                              *)
LEMMA AttestedIsPinned ==
  ASSUME NEW w, NEW c, Evidence(w, c), symbols = w.bytes, attestLoadedNative(w)
  PROVE  IF w.form = "release" THEN PinnedByRelease(w)
         ELSE w.bytes = w.policy.library /\ Report[w.bytes] = w.policy.self
<1>1. IdentityMatches(Report[w.bytes], w)
  BY DEF attestLoadedNative, verifyCoreBuildIdentity
<1>2. CASE w.form = "release"
  <2>1. ArchivePinned(w) /\ verifyRequiredRuntimeCapabilities(Report[w.bytes], w.policy.required)
    BY <1>2 DEF Evidence, attestLoadedNative
  <2>2. Report[w.bytes].source = w.policy.source
    BY <1>1, <1>2, <2>1 DEF IdentityMatches, ArchivePinned
  <2>3. ASSUME NEW name \in Elements(w.policy.required)
        PROVE  Available(Report[w.bytes], RuntimeCapability(name)[1], RuntimeCapability(name)[2])
    BY <2>1 DEF ArchivePinned, verifyRequiredRuntimeCapabilities
  <2> QED
    BY <1>2, <2>1, <2>2, <2>3 DEF PinnedByRelease, ArchivePinned
<1>3. CASE w.form = "development"
  BY <1>1, <1>3 DEF Evidence, IdentityMatches
<1> QED
  BY <1>2, <1>3 DEF Evidence

LEMMA AdmitStep ==
  ASSUME IInv, NEW t \in Threads, Admit(t)
  PROVE  IInv'
<1> DEFINE c == call[t]
           w == work[t]
<1>0. Shape /\ LocalInv /\ MutexInv /\ ConfigInv /\ Local(pc[t], c, w, copies[t])
  BY DEF IInv, LocalInv
<1>1. /\ pc[t] = "attest" /\ c.op = "open" /\ attestLoadedNative(w)
      /\ loadedNative' = w /\ nativeLoadMu' = Free
      /\ pc' = [pc EXCEPT ![t] = "opening"] /\ copies' = [copies EXCEPT ![t] = NoBuild]
      /\ UNCHANGED <<library, symbols, call, work, db, config>>
  BY DEF Admit, Verified, Goto, loader
<1>2. InSection(pc[t], c) /\ pc[t] \in Loaded
  BY <1>1 DEF InSection, Loaded
<1>3. /\ nativeLoadMu = t /\ t # Free /\ symbols = library /\ library = w.bytes
      /\ \A u \in Threads : pc[u] # "opening" /\ db[u] = NoDB
      /\ \A u \in Threads : u # t => ~InSection(pc[u], call[u])
  BY <1>2, HolderAlone
<1>4. Evidence(w, c) /\ c \in Calls
  BY <1>0, <1>1 DEF Local
<1>5. w # NoNative
  BY <1>4 DEF Evidence, NoNative
<1>6. /\ Shape' /\ OnlyMoves(t) /\ pc'[t] = "opening" /\ call'[t] = c /\ work'[t] = w
      /\ copies'[t] = NoBuild
  BY <1>0, <1>1 DEF Shape, OnlyMoves
<1>7. \A u \in Threads : u # t => pc'[u] = pc[u] /\ call'[u] = call[u] /\ work'[u] = work[u]
  BY <1>6 DEF OnlyMoves
<1>8. LocalInv'
  <2>1. Local("opening", c, w, NoBuild)
    BY <1>4 DEF Local, HasCopy, Loaded, VerifySteps
  <2> QED
    BY <1>0, <1>6, <2>1, OthersLocal
<1>9. MutexInv'
  <2>1. ~InSection("opening", c)
    BY DEF InSection, VerifySteps, Loaded
  <2>2. \A u \in Threads : ~InSection(pc'[u], call'[u]) /\ nativeLoadMu' # u
    BY <1>1, <1>3, <1>6, <1>7, <2>1, ThreadAssumption
  <2> QED
    BY <1>1, <2>2 DEF MutexInv
<1>10. LoaderInv'
  BY <1>1, <1>3, <1>5 DEF LoaderInv
<1>11. HandleInv'
  <2>1. MayOpen(c, w)'
    BY <1>1, <1>4, <1>5, <1>6 DEF MayOpen, Evidence
  <2> QED
    BY <1>1, <1>3, <1>6, <1>7, <2>1 DEF HandleInv
<1>12. ConfigInv'
  BY <1>0, <1>1, <1>6, <1>7 DEF ConfigInv
<1>13. AdmittedIsPinned'
  <2>1. IF w.form = "release" THEN PinnedByRelease(w)
        ELSE w.bytes = w.policy.library /\ Report[w.bytes] = w.policy.self
    BY <1>1, <1>3, <1>4, AttestedIsPinned
  <2> HIDE DEF w
  <2> QED
    BY <1>1, <2>1 DEF AdmittedIsPinned
<1> QED
  BY <1>6, <1>8, <1>9, <1>10, <1>11, <1>12, <1>13 DEF IInv

-----------------------------------------------------------------------------
(* PrepareLocalDevelopment after the load: the report it pins is that of   *)
(* the bytes it pinned before, because those are what the loader holds.    *)
LEMMA ExtractStep ==
  ASSUME IInv, NEW t \in Threads, ExtractSelfManifest(t)
  PROVE  IInv'
<1> DEFINE c == call[t]
           w == work[t]
           v == [w EXCEPT !.policy.self = Report[library]]
<1>0. Local(pc[t], c, w, copies[t])
  BY DEF IInv, LocalInv
<1>1. pc[t] = "attest" /\ c.op = "prepare" /\ attestLoadedNative(v) /\ Proceed(t, "config", v)
  BY DEF ExtractSelfManifest, Verified
<1>2. /\ InSection(pc[t], c) /\ pc[t] \in Loaded /\ InSection("config", c)
      /\ "config" \in Loaded /\ "config" \notin {"opening", "writing"}
  BY <1>1 DEF InSection, Loaded
<1>3. symbols = library /\ library = w.bytes
  BY <1>2, HolderAlone
<1>4. Draft(w) /\ c \in Calls /\ copies[t] = w.bytes
  BY <1>0, <1>1 DEF Local, HasCopy, Loaded
<1>5. /\ v.form = "development" /\ v.bytes = w.bytes
      /\ v.policy.self = Report[library] /\ v.policy.library = w.policy.library
  BY <1>4 DEF Draft
<1> HIDE DEF v
<1>6. validateLocalDevelopmentBuild(Report[library], v.policy)
  BY <1>1, <1>3, <1>5 DEF attestLoadedNative, verifyCoreBuildIdentity, IdentityMatches
<1>7. Describes(v.policy)
  BY <1>3, <1>4, <1>5, <1>6 DEF Describes, Draft, validateLocalDevelopmentBuild
<1>8. Local("config", c, v, copies[t])
  BY <1>1, <1>4, <1>5, <1>7 DEF Local, HasCopy, Loaded, VerifySteps
<1> QED
  BY <1>1, <1>2, <1>5, <1>8, ProceedStep

LEMMA WriteConfigStep ==
  ASSUME IInv, NEW t \in Threads, WriteConfig(t)
  PROVE  IInv'
<1> DEFINE c == call[t]
           w == work[t]
<1>0. Shape /\ LocalInv /\ MutexInv /\ LoaderInv /\ HandleInv /\ AdmittedIsPinned
      /\ Local(pc[t], c, w, copies[t])
  BY DEF IInv, LocalInv
<1>1. pc[t] = "config" /\ pc[t] \in Loaded /\ InSection(pc[t], c)
  BY DEF WriteConfig, Loaded, InSection
<1>2. CASE talon_sdk_unload /\ Return(t) /\ UNCHANGED <<loadedNative, db, config>>
  BY <1>1, <1>2, UnloadStep
<1>3. CASE /\ config' = [files |-> 1, policy |-> w.policy] /\ pc' = [pc EXCEPT ![t] = "writing"]
           /\ UNCHANGED <<nativeLoadMu, loadedNative, library, symbols, call, work, copies, db>>
  <2>1. /\ Shape' /\ OnlyMoves(t) /\ pc'[t] = "writing" /\ call'[t] = c /\ work'[t] = w
        /\ copies'[t] = copies[t]
    BY <1>0, <1>3 DEF Shape, OnlyMoves
  <2>2. \A u \in Threads : u # t => pc'[u] = pc[u] /\ call'[u] = call[u] /\ work'[u] = work[u]
    BY <2>1 DEF OnlyMoves
  <2>3. Local("writing", c, w, copies[t])
    BY <1>0, <1>1 DEF Local, HasCopy, Loaded, VerifySteps
  <2>4. LocalInv'
    BY <1>0, <2>1, <2>3, OthersLocal
  <2>5. InSection("writing", c) /\ "writing" \in Loaded
    BY DEF InSection, Loaded
  <2>6. MutexInv'
    BY <1>0, <1>1, <1>3, <2>1, <2>2, <2>5 DEF MutexInv
  <2>7. LoaderInv'
    <3>1. nativeLoadMu = t /\ t # Free /\ symbols = library /\ library = w.bytes
      BY <1>1, HolderAlone
    <3> QED
      BY <1>3, <2>1, <2>5, <3>1 DEF LoaderInv
  <2>8. HandleInv' /\ AdmittedIsPinned'
    BY <1>0, <1>3, <2>1, <2>2 DEF HandleInv, MayOpen, HandleOK, AdmittedIsPinned
  <2>9. ConfigInv'
    <3>1. Describes(w.policy)
      BY <1>0, <1>1 DEF Local
    <3>2. config' # NoConfig /\ config'.policy = w.policy /\ DOMAIN config' = {"files", "policy"}
      BY <1>3 DEF NoConfig
    <3> QED
      BY <3>1, <3>2 DEF ConfigInv, Describes
  <2> QED
    BY <2>1, <2>4, <2>6, <2>7, <2>8, <2>9 DEF IInv
<1> QED
  BY <1>2, <1>3 DEF WriteConfig, Goto, loader

LEMMA FinishConfigStep ==
  ASSUME IInv, NEW t \in Threads, FinishConfig(t)
  PROVE  IInv'
<1>1. PICK n \in 1 .. ConfigFiles : config' = [config EXCEPT !.files = n]
  BY DEF FinishConfig
<1>2. pc[t] = "writing" /\ talon_sdk_unload /\ Return(t) /\ UNCHANGED <<loadedNative, db>>
  BY DEF FinishConfig
<1>3. config # NoConfig /\ DOMAIN config = {"files", "policy"} /\ Describes(config.policy)
  BY <1>2 DEF IInv, ConfigInv
<1>4. DOMAIN config' = {"files", "policy"} /\ config'.policy = config.policy /\ config'.files = n
  BY <1>1, <1>3
<1>5. config' # NoConfig
  BY <1>4 DEF NoConfig, ConfigFiles
<1>6. nativeLoadMu = t
  BY <1>2, HolderAlone DEF InSection, Loaded
<1>7. DOMAIN db' = Threads
  BY <1>2 DEF IInv, Shape
<1> QED
  BY <1>2, <1>3, <1>4, <1>5, <1>6, <1>7, ReturnStep DEF talon_sdk_unload

-----------------------------------------------------------------------------
LEMMA NativeOpenStep ==
  ASSUME IInv, NEW t \in Threads, NativeOpen(t)
  PROVE  IInv'
<1> DEFINE handle == [form |-> "open", library |-> symbols, hash |-> PolicyHash(call[t])]
<1>1. /\ pc[t] = "opening" /\ Return(t) /\ UNCHANGED <<loadedNative, library, symbols, config>>
      /\ db' = [db EXCEPT ![t] = handle] \/ UNCHANGED db
  BY DEF NativeOpen, loader
<1>2. Shape /\ MayOpen(call[t], work[t])
  BY <1>1 DEF IInv, HandleInv
<1>3. nativeLoadMu = Free /\ nativeLoadMu # t /\ symbols = library
  BY <1>2, ThreadAssumption DEF IInv, MutexInv, LoaderInv, MayOpen
<1>4. HandleOK(handle)
  BY <1>2, <1>3 DEF HandleOK, MayOpen
<1> HIDE DEF handle
<1>5. DOMAIN db' = Threads /\ \A u \in Threads : db'[u] = db[u] \/ HandleOK(db'[u])
  BY <1>1, <1>2, <1>4 DEF Shape
<1>6. DOMAIN config = {"files", "policy"} /\ (config # NoConfig => Describes(config.policy))
  BY DEF IInv, ConfigInv
<1> QED
  BY <1>1, <1>3, <1>5, <1>6, ReturnStep

(* Steps that only close handles, or only touch the files on disk.         *)
LEMMA QuietStep ==
  ASSUME IInv, DOMAIN db' = Threads, \A u \in Threads : db'[u] \in {db[u], NoDB},
         UNCHANGED <<nativeLoadMu, loadedNative, library, symbols, pc, call, work, copies, config>>
  PROVE  IInv'
<1>0. Shape /\ LocalInv /\ MutexInv /\ LoaderInv /\ HandleInv /\ ConfigInv /\ AdmittedIsPinned
  BY DEF IInv
<1>1. Shape' /\ LocalInv'
  BY <1>0 DEF Shape, LocalInv
<1>2. MutexInv' /\ LoaderInv'
  BY <1>0 DEF MutexInv, LoaderInv
<1>3. HandleInv'
  BY <1>0 DEF HandleInv, MayOpen, HandleOK
<1>4. ConfigInv' /\ AdmittedIsPinned'
  BY <1>0 DEF ConfigInv, AdmittedIsPinned
<1> QED
  BY <1>1, <1>2, <1>3, <1>4 DEF IInv

LEMMA NextInv ==
  ASSUME IInv, [Next]_vars
  PROVE  IInv'
<1>0. Shape
  BY DEF IInv
<1>1. CASE UNCHANGED vars
  BY <1>0, <1>1, QuietStep DEF vars, loader, Shape
<1>2. ASSUME NEW r, Rewrite(r[1], r[2]) PROVE IInv'
  BY <1>0, <1>2, QuietStep DEF Rewrite, loader, Shape
<1>3. ASSUME NEW t \in Threads, Close(t) PROVE IInv'
  <2>1. /\ db' = [db EXCEPT ![t] = NoDB]
        /\ UNCHANGED <<nativeLoadMu, loadedNative, library, symbols, pc, call, work, copies, config>>
    BY <1>3 DEF Close, loader
  <2>2. DOMAIN db' = Threads /\ \A u \in Threads : db'[u] \in {db[u], NoDB}
    BY <1>0, <2>1 DEF Shape
  <2> QED
    BY <2>1, <2>2, QuietStep
<1>4. ASSUME NEW t \in Threads, Step(t) PROVE IInv'
  BY <1>3, <1>4, StartStep, LockStep, BundleStep, DevelopmentStep, CopyStep, LoadStep, AttestStep,
     AdmitStep, ExtractStep, WriteConfigStep, FinishConfigStep, NativeOpenStep DEF Step, Startable
<1> QED
  BY <1>1, <1>2, <1>4 DEF Next

-----------------------------------------------------------------------------
(* The inductive invariant holds in every reachable state of               *)
(* OpenWithOptions, PrepareLocalDevelopment and                            *)
(* AttestLocalDevelopmentPolicy, for any number of goroutines, calls and   *)
(* rewritten files.                                                        *)
THEOREM Invariance == Spec => []IInv
BY InitInv, NextInv, PTL DEF Spec

(* Whenever nativeLoadMu is free, the loader holds a library exactly when  *)
(* one is admitted, its pointers lead into it, and no private copy is left *)
(* behind but by a Prepare that waits for the lock: every error path of    *)
(* loadAndAttestNative has cleaned up.                                     *)
THEOREM LoaderMatches == Spec => []LoaderMatchesAdmission
<1>1. ASSUME IInv PROVE LoaderMatchesAdmission
  <2> SUFFICES ASSUME nativeLoadMu = Free PROVE LoaderMatchesAdmission
    BY DEF LoaderMatchesAdmission
  <2>1. ASSUME NEW t \in Threads, copies[t] # NoBuild PROVE call[t].op = "prepare"
    <3>1. ~InSection(pc[t], call[t]) /\ HasCopy(pc[t], call[t])
      BY <1>1, <2>1, ThreadAssumption DEF IInv, MutexInv, LocalInv, Local
    <3> QED
      BY <3>1 DEF InSection, HasCopy
  <2>2. /\ symbols = library
        /\ IF loadedNative = NoNative THEN library = NoBuild ELSE library = loadedNative.bytes
    BY <1>1 DEF IInv, LoaderInv
  <2> QED
    BY <2>1, <2>2 DEF LoaderMatchesAdmission
<1> QED
  BY <1>1, Invariance, PTL

(* A goroutine that calls talon_sdk_open after ensureNativeLoadedOptions   *)
(* has released the lock, and every handle it returned, uses the library   *)
(* admitted under the policy of its own call.                              *)
THEOREM HandlesMatch == Spec => []HandlesMatchTheirPolicy
<1>1. ASSUME IInv PROVE HandlesMatchTheirPolicy
  <2>1. ASSUME NEW t \in Threads, pc[t] = "opening"
        PROVE  /\ loadedNative = work[t] /\ library = work[t].bytes
               /\ loadedNative.hash = PolicyHash(call[t])
    <3>1. MayOpen(call[t], work[t])
      BY <1>1, <2>1 DEF IInv, HandleInv
    <3>2. nativeLoadMu = Free
      BY <1>1, <3>1 DEF IInv, MutexInv, MayOpen
    <3> QED
      BY <1>1, <3>1, <3>2 DEF IInv, LoaderInv, MayOpen
  <2>2. ASSUME NEW t \in Threads, db[t] # NoDB
        PROVE  /\ library = db[t].library /\ symbols = library
               /\ loadedNative # NoNative /\ db[t].hash = loadedNative.hash
    <3>1. HandleOK(db[t])
      BY <1>1, <2>2 DEF IInv, HandleInv
    <3>2. nativeLoadMu = Free
      BY <1>1, <3>1 DEF IInv, MutexInv, HandleOK
    <3> QED
      BY <1>1, <3>1, <3>2 DEF IInv, LoaderInv, HandleOK
  <2> QED
    BY <2>1, <2>2 DEF HandlesMatchTheirPolicy
<1> QED
  BY <1>1, Invariance, PTL

(* The library ensureNativeLoadedOptions admits is, byte for byte, the one *)
(* its policy pins and reports what the policy requires, whatever was      *)
(* rewritten between the reads of verifyNativeBundle or                    *)
(* verifyLocalDevelopmentArtifacts.                                        *)
THEOREM Pinned == Spec => []AdmittedIsPinned
<1>1. IInv => AdmittedIsPinned
  BY DEF IInv
<1> QED
  BY <1>1, Invariance, PTL

(* The policy PrepareLocalDevelopment writes describes one build: library, *)
(* self-manifest and header belong together, even if the library is        *)
(* rebuilt while it runs.                                                  *)
THEOREM Prepared == Spec => []PreparedPolicyDescribesOneBuild
<1>1. IInv => PreparedPolicyDescribesOneBuild
  BY DEF IInv, ConfigInv, Describes, PreparedPolicyDescribesOneBuild
<1> QED
  BY <1>1, Invariance, PTL
=============================================================================
