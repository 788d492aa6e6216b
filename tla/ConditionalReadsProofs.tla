------------------------ MODULE ConditionalReadsProofs ------------------------
(***************************************************************************)
(* Safety of ConditionalReads for any finite set of keys, any values, any  *)
(* page limits and any number of revisions, leases and KV calls.           *)
(***************************************************************************)
EXTENDS ConditionalReads, FiniteSetTheorems, SequenceTheorems, TLAPS

States == [Keys -> Values \cup {Absent}]

Bindings == [id: RequestIDs, namespace: Namespaces, prefix: Prefixes, limit: 1 .. MaxLimit, required: Int]

(* The log only grows and a lease names a revision in it.                  *)
ServerInv ==
  /\ log \in Seq(States) /\ Len(log) >= 1
  /\ leases \in Seq([binding: Bindings, revision: Nat])
  /\ \A g \in DOMAIN leases : leases[g].revision \in 0 .. Revision

SealedRequest(q) ==
  /\ newConditionalPrefixScanRequest(q)
  /\ q \in [id: RequestIDs, namespace: Namespaces, prefix: Prefixes, limit: 1 .. MaxLimit,
            cursor: {NoCursor} \cup (Nat \X Nat), required: Int]

(* What the reader has collected comes from lease g.                       *)
Collected(g) ==
  LET all == Entries(leases[g])
  IN  /\ leases[g].binding = Binding(scan.request)
      /\ scan.request.required # NoRevision => leases[g].revision >= scan.request.required
      /\ Len(scan.entries) <= Len(all)
      /\ scan.entries = SubSeq(all, 1, Len(scan.entries))

(* The cursor of an open scan names the lease and how much of it was read. *)
ScanInv ==
  \/ scan = NoScan
  \/ /\ scan.phase = "open" /\ SealedRequest(scan.request)
     /\ scan.request.cursor = NoCursor /\ scan.entries = <<>>
  \/ /\ scan.phase = "open" /\ SealedRequest(scan.request)
     /\ \E g \in DOMAIN leases :
          /\ scan.request.cursor = <<g, Len(scan.entries)>> /\ scan.entries # <<>>
          /\ Collected(g)
  \/ /\ scan.phase = "done" /\ SealedRequest(scan.request)
     /\ \E g \in DOMAIN leases : Collected(g) /\ scan.entries = Entries(leases[g])

(* The inductive invariant.                                                *)
IInv == ServerInv /\ ReadsShowOneRevision /\ ScanInv /\ KvEffectsAreReported

-----------------------------------------------------------------------------
(* Server KV.                                                              *)

(* Only a command that mutates changes the cell, and the errors of such a  *)
(* command admit that it may have.                                         *)
LEMMA KvStep ==
  ASSUME KvEffectsAreReported, NEW op, NEW result,
         Mutates(op) => result \in {"ok", "ResultIndeterminate"}, KvProcess(op, result)
  PROVE  KvEffectsAreReported'
<1>1. ~Mutates(op) => kv' = kv
  BY DEF KvProcess, KvEffect, Mutates
<1>2. QED
  BY <1>1 DEF KvEffectsAreReported, KvProcess

LEMMA KvSteps ==
  ASSUME KvEffectsAreReported,
         \/ UNCHANGED changes
         \/ \E op : KvCall(op)
         \/ \E op : KvLate(op)
  PROVE  KvEffectsAreReported'
<1>1. CASE UNCHANGED changes
  BY <1>1 DEF KvEffectsAreReported
<1>2. ASSUME NEW op, KvCall(op) PROVE KvEffectsAreReported'
  <2>1. CASE \E result \in {"ok", remoteResponseError(op), FieldMissing(op)} : KvProcess(op, result)
    BY <2>1, KvStep DEF remoteResponseError, FieldMissing
  <2>2. QED
    BY <1>1, <1>2, <2>1 DEF KvCall
<1>3. ASSUME NEW op, KvLate(op) PROVE KvEffectsAreReported'
  BY <1>3, KvStep DEF KvLate, remoteTransportError
<1>4. QED
  BY <1>1, <1>2, <1>3

-----------------------------------------------------------------------------
(* The Server.                                                             *)

(* Entries of a lease are a sequence.                                      *)
LEMMA EntriesAreSeq ==
  ASSUME NEW lease
  PROVE  \E S : Entries(lease) \in Seq(S)
<1> DEFINE state == StateAt(lease.revision)
<1> DEFINE present == {k \in Keys : HasPrefix(k, lease.binding.prefix) /\ state[k] # Absent}
<1> DEFINE n == Cardinality(present)
<1> DEFINE all == Entries(lease)
<1>1. n \in Nat
  BY KeysAssumption, FS_Subset, FS_CardinalityType
<1>2. DOMAIN SortedKeys(state, lease.binding.prefix) = 1 .. n
  BY DEF SortedKeys
<1>3. all = [i \in 1 .. n |-> all[i]]
  BY <1>2 DEF Entries
<1> HIDE DEF all, n
<1>4. all \in Seq({all[i] : i \in 1 .. n})
  BY <1>1, <1>3, IsASeq
<1>5. QED
  BY <1>4 DEF all

(* Revisions of the log stay as they are while it grows.                   *)
LEMMA LogGrows ==
  ASSUME ServerInv, NEW state \in States, log' = Append(log, state)
  PROVE  /\ log' \in Seq(States) /\ Revision' = Revision + 1 /\ Revision \in Nat
         /\ \A r \in 0 .. Revision : StateAt(r)' = StateAt(r)
BY AppendProperties DEF ServerInv, Revision, StateAt

LEMMA CommitStep ==
  ASSUME IInv, NEW written \in SUBSET Keys, NEW v \in Values, Commit(written, v)
  PROVE  IInv'
<1> DEFINE state == [k \in Keys |-> IF k \in written THEN v ELSE StateAt(Revision)[k]]
<1>0. ServerInv /\ ReadsShowOneRevision /\ ScanInv /\ KvEffectsAreReported
  BY DEF IInv
<1>1. state \in States
  <2>1. StateAt(Revision) \in States
    BY <1>0, ElementOfSeq DEF ServerInv, StateAt, Revision
  <2>2. QED
    BY <2>1 DEF States
<1>2. log' = Append(log, state) /\ UNCHANGED <<leases, read, scan, changes>>
  BY DEF Commit, kvVars
<1> HIDE DEF state
<1>3. /\ log' \in Seq(States) /\ Revision' = Revision + 1 /\ Revision \in Nat
      /\ \A r \in 0 .. Revision : StateAt(r)' = StateAt(r)
  BY <1>0, <1>1, <1>2, LogGrows
<1>4. ServerInv'
  <2>1. Len(log') >= 1
    BY <1>3 DEF Revision
  <2>2. QED
    BY <1>0, <1>2, <1>3, <2>1 DEF ServerInv
<1>5. ReadsShowOneRevision'
  <2> SUFFICES ASSUME read # NoRead
               PROVE  \E r \in 0 .. Revision' :
                        /\ read.required # NoRevision => r >= read.required
                        /\ \A i \in DOMAIN read.keys : read.values[i] = StateAt(r)'[read.keys[i]]
    BY <1>2 DEF ReadsShowOneRevision
  <2>1. PICK r \in 0 .. Revision :
          /\ read.required # NoRevision => r >= read.required
          /\ \A i \in DOMAIN read.keys : read.values[i] = StateAt(r)[read.keys[i]]
    BY <1>0 DEF ReadsShowOneRevision
  <2>2. r \in 0 .. Revision' /\ StateAt(r)' = StateAt(r)
    BY <1>3
  <2>3. QED
    BY <2>1, <2>2
<1>6. ASSUME NEW g \in DOMAIN leases PROVE Entries(leases[g])' = Entries(leases[g])
  <2>1. StateAt(leases[g].revision)' = StateAt(leases[g].revision)
    BY <1>0, <1>2, <1>3 DEF ServerInv
  <2>2. QED
    BY <1>2, <2>1 DEF Entries, SortedKeys
<1>7. ScanInv'
  BY <1>0, <1>2, <1>6 DEF ScanInv, Collected
<1>8. QED
  BY <1>0, <1>2, <1>4, <1>5, <1>7, KvSteps DEF IInv

(* A new lease leaves the others, and what they hold, alone.               *)
LEMMA LeaseStep ==
  ASSUME IInv, NEW r \in 0 .. Revision, Lease(r)
  PROVE  IInv'
<1> DEFINE new == [binding |-> Binding(scan.request), revision |-> r]
<1>0. ServerInv /\ ReadsShowOneRevision /\ ScanInv /\ KvEffectsAreReported
  BY DEF IInv
<1>1. leases' = Append(leases, new) /\ UNCHANGED <<log, read, scan, changes>> /\ scan.phase = "open"
  BY DEF Lease, kvVars
<1>2. SealedRequest(scan.request)
  BY <1>0, <1>1 DEF ScanInv, NoScan
<1>3. Revision \in Nat /\ Revision' = Revision
  BY <1>0, <1>1 DEF ServerInv, Revision
<1>4. new \in [binding: Bindings, revision: Nat]
  BY <1>2, <1>3 DEF SealedRequest, newConditionalPrefixScanRequest, Binding, Bindings
<1> HIDE DEF new
<1>5. leases' \in Seq([binding: Bindings, revision: Nat]) /\ Len(leases') = Len(leases) + 1
  BY <1>0, <1>1, <1>4, AppendProperties DEF ServerInv
<1>6. \A g \in DOMAIN leases : g \in DOMAIN leases' /\ leases'[g] = leases[g]
  BY <1>0, <1>1, <1>4, AppendProperties DEF ServerInv
<1>7. \A g \in DOMAIN leases' : g \in DOMAIN leases \/ leases'[g] = new
  BY <1>0, <1>1, <1>4, <1>5, AppendProperties DEF ServerInv
<1>8. ServerInv'
  <2>1. \A g \in DOMAIN leases' : leases'[g].revision \in 0 .. Revision
    BY <1>0, <1>6, <1>7 DEF ServerInv, new
  <2>2. QED
    BY <1>0, <1>1, <1>3, <1>5, <2>1 DEF ServerInv
<1>9. ASSUME NEW g \in DOMAIN leases PROVE Entries(leases[g])' = Entries(leases[g])
  <2>1. leases'[g] = leases[g] /\ log' = log
    BY <1>1, <1>6
  <2>2. QED
    BY <2>1 DEF Entries, SortedKeys, StateAt
<1>10. ScanInv'
  BY <1>0, <1>1, <1>6, <1>9 DEF ScanInv, Collected
<1>11. ReadsShowOneRevision'
  BY <1>0, <1>1 DEF ReadsShowOneRevision, Revision, StateAt
<1>12. QED
  BY <1>0, <1>1, <1>8, <1>10, <1>11, KvSteps DEF IInv

(* Steps that leave the log and the leases alone.                          *)
LEMMA ServerKept ==
  ASSUME IInv, UNCHANGED <<log, leases>>
  PROVE  /\ ServerInv'
         /\ UNCHANGED read => ReadsShowOneRevision'
         /\ UNCHANGED scan => ScanInv'
<1>1. ServerInv'
  BY DEF IInv, ServerInv, Revision
<1>2. ASSUME UNCHANGED read PROVE ReadsShowOneRevision'
  BY <1>2 DEF IInv, ReadsShowOneRevision, Revision, StateAt
<1>3. \A g \in DOMAIN leases : Entries(leases[g])' = Entries(leases[g])
  BY DEF Entries, SortedKeys, StateAt
<1>4. ASSUME UNCHANGED scan PROVE ScanInv'
  BY <1>3, <1>4 DEF IInv, ScanInv, Collected
<1>5. QED
  BY <1>1, <1>2, <1>4

-----------------------------------------------------------------------------
(* Point and snapshot reads.                                               *)

(* A missing value and an empty one have different digests.                *)
LEMMA DigestBindsValue ==
  ASSUME NEW a, NEW b, DigestValue(a) = DigestValue(b)
  PROVE  a = b
<1>1. <<0>> # <<1, a>> /\ <<0>> # <<1, b>>
  OBVIOUS
<1>2. <<1, a>> = <<1, b>> => a = b
  OBVIOUS
<1>3. QED
  BY <1>1, <1>2 DEF DigestValue

LEMMA GenuineRead ==
  ASSUME NEW q, NEW r
  PROVE  LET w == ReadAnswer(q, r)
         IN  /\ w.observed = r /\ w.keys = q.keys
             /\ w.values = [i \in DOMAIN q.keys |-> StateAt(r)[q.keys[i]]]
             /\ w.sha = IF q.kind = "point" THEN conditionalPointReadResponseSHA(w)
                                            ELSE conditionalSnapshotReadResponseSHA(w)
BY DEF ReadAnswer, conditionalPointReadResponseSHA, conditionalSnapshotReadResponseSHA

(* Damage does not reach the digest.                                       *)
LEMMA DamageKeepsDigest ==
  ASSUME NEW q, NEW r, NEW w \in DamagedRead(ReadAnswer(q, r))
  PROVE  w.sha = ReadAnswer(q, r).sha
<1> DEFINE z == ReadAnswer(q, r)
<1>1. /\ "sha" \in DOMAIN z /\ z = [x \in DOMAIN z |-> z[x]]
      /\ {"values", "observed", "required", "keys"} \subseteq DOMAIN z
  BY DEF ReadAnswer
<1> HIDE DEF z
<1>2. \/ \E i \in DOMAIN z.values, v \in Values : w = [z EXCEPT !.values[i] = v]
      \/ \E n \in 0 .. Revision : w = [z EXCEPT !.observed = n]
      \/ \E n \in {NoRevision} \cup 1 .. Revision : w = [z EXCEPT !.required = n]
      \/ \E i \in DOMAIN z.keys, k \in Keys : w = [z EXCEPT !.keys[i] = k]
  BY DEF DamagedRead, z
<1>3. w.sha = z.sha
  BY <1>1, <1>2
<1>4. QED
  BY <1>3 DEF z

(* An answer whose digest is that of a genuine one shows the same values   *)
(* of the same revision.                                                   *)
LEMMA PointDigestBinds ==
  ASSUME NEW w, NEW z, conditionalPointReadResponseSHA(w) = conditionalPointReadResponseSHA(z)
  PROVE  /\ w.observed = z.observed /\ DOMAIN w.values = DOMAIN z.values
         /\ \A i \in DOMAIN z.values : w.values[i] = z.values[i]
<1> DEFINE dw == [i \in DOMAIN w.values |-> DigestValue(w.values[i])]
<1> DEFINE dz == [i \in DOMAIN z.values |-> DigestValue(z.values[i])]
<1>1. w.observed = z.observed /\ dw = dz
  BY DEF conditionalPointReadResponseSHA
<1>2. DOMAIN dw = DOMAIN w.values /\ DOMAIN dz = DOMAIN z.values
  OBVIOUS
<1>3. \A i \in DOMAIN z.values : DigestValue(w.values[i]) = DigestValue(z.values[i])
  BY <1>1, <1>2
<1>4. QED
  BY <1>1, <1>2, <1>3, DigestBindsValue

LEMMA SnapshotDigestBinds ==
  ASSUME NEW w, NEW z, conditionalSnapshotReadResponseSHA(w) = conditionalSnapshotReadResponseSHA(z)
  PROVE  /\ w.observed = z.observed
         /\ \A i \in DOMAIN z.keys : w.values[i] = z.values[i]
<1> DEFINE dw == [i \in DOMAIN w.keys |-> <<w.indexes[i], w.keys[i], DigestValue(w.values[i])>>]
<1> DEFINE dz == [i \in DOMAIN z.keys |-> <<z.indexes[i], z.keys[i], DigestValue(z.values[i])>>]
<1>1. w.observed = z.observed /\ dw = dz
  BY DEF conditionalSnapshotReadResponseSHA
<1>2. DOMAIN dw = DOMAIN w.keys /\ DOMAIN dz = DOMAIN z.keys
  OBVIOUS
<1>3. \A i \in DOMAIN z.keys : DigestValue(w.values[i]) = DigestValue(z.values[i])
  <2> SUFFICES ASSUME NEW i \in DOMAIN z.keys PROVE DigestValue(w.values[i]) = DigestValue(z.values[i])
    OBVIOUS
  <2>1. i \in DOMAIN w.keys /\ dw[i] = dz[i]
    BY <1>1, <1>2
  <2>2. QED
    BY <2>1
<1>4. QED
  BY <1>1, <1>3, DigestBindsValue

LEMMA ReadStepKeeps ==
  ASSUME IInv, ReadStep
  PROVE  IInv'
<1>1. PICK q \in ReadRequests, r \in 0 .. Revision :
        \E w \in {ReadAnswer(q, r)} \cup DamagedRead(ReadAnswer(q, r))
               \cup {ReadAnswer([q EXCEPT !.required = n], r) : n \in {NoRevision} \cup 1 .. Revision} :
          ConditionalGet(q, w) \/ ConditionalSnapshotGet(q, w)
  BY DEF ReadStep
<1>2. PICK w \in {ReadAnswer(q, r)} \cup DamagedRead(ReadAnswer(q, r))
               \cup {ReadAnswer([q EXCEPT !.required = n], r) : n \in {NoRevision} \cup 1 .. Revision} :
        ConditionalGet(q, w) \/ ConditionalSnapshotGet(q, w)
  BY <1>1
<1>3. Accept(q, w) /\ q.kind \in {"point", "snapshot"}
  BY <1>2 DEF ConditionalGet, ConditionalSnapshotGet
<1>4. PICK p : /\ p.keys = q.keys /\ p.kind = q.kind /\ w.sha = ReadAnswer(p, r).sha
  <2>1. CASE w = ReadAnswer(q, r) \/ w \in DamagedRead(ReadAnswer(q, r))
    BY <2>1, DamageKeepsDigest
  <2>2. ASSUME NEW n, w = ReadAnswer([q EXCEPT !.required = n], r)
        PROVE  \E p : /\ p.keys = q.keys /\ p.kind = q.kind /\ w.sha = ReadAnswer(p, r).sha
    <3>1. [q EXCEPT !.required = n].keys = q.keys /\ [q EXCEPT !.required = n].kind = q.kind
      BY DEF ReadRequests
    <3>2. QED
      BY <2>2, <3>1
  <2>3. QED
    BY <1>2, <2>1, <2>2
<1> DEFINE z == ReadAnswer(p, r)
<1>5. /\ z.observed = r /\ z.keys = q.keys
      /\ z.values = [i \in DOMAIN q.keys |-> StateAt(r)[q.keys[i]]]
      /\ z.sha = IF q.kind = "point" THEN conditionalPointReadResponseSHA(z)
                                     ELSE conditionalSnapshotReadResponseSHA(z)
  BY <1>4, GenuineRead
<1>6. w.sha = z.sha
  BY <1>4
<1> HIDE DEF z
<1>7. DOMAIN z.values = DOMAIN q.keys /\ \A i \in DOMAIN q.keys : z.values[i] = StateAt(r)[q.keys[i]]
  BY <1>5
<1>8. RevisionReached(r, q.required) /\ \A i \in DOMAIN q.keys : w.values[i] = StateAt(r)[q.keys[i]]
  <2>1. CASE ConditionalGet(q, w)
    <3>1. q.kind = "point" /\ conditionalPointReadResponseSHA(w) = w.sha /\ RevisionReached(w.observed, q.required)
      BY <2>1 DEF ConditionalGet, decodeConditionalPointReadResult
    <3>2. conditionalPointReadResponseSHA(w) = conditionalPointReadResponseSHA(z)
      BY <1>5, <1>6, <3>1
    <3>3. QED
      BY <1>5, <1>7, <3>1, <3>2, PointDigestBinds
  <2>2. CASE ConditionalSnapshotGet(q, w)
    <3>1. /\ q.kind = "snapshot" /\ conditionalSnapshotReadResponseSHA(w) = w.sha
          /\ RevisionReached(w.observed, q.required)
      BY <2>2 DEF ConditionalSnapshotGet, decodeConditionalSnapshotReadResult
    <3>2. conditionalSnapshotReadResponseSHA(w) = conditionalSnapshotReadResponseSHA(z)
      BY <1>5, <1>6, <3>1
    <3>3. QED
      BY <1>5, <1>7, <3>1, <3>2, SnapshotDigestBinds
  <2>3. QED
    BY <1>2, <2>1, <2>2
<1>9. /\ UNCHANGED <<log, leases, scan, changes>>
      /\ read' = [kind |-> q.kind, keys |-> q.keys, required |-> q.required, values |-> w.values]
  BY <1>3 DEF Accept, serverVars, kvVars
<1>10. ServerInv' /\ ScanInv'
  BY <1>9, ServerKept
<1>11. ReadsShowOneRevision'
  <2>1. Revision' = Revision /\ StateAt(r)' = StateAt(r)
    BY <1>9 DEF Revision, StateAt
  <2>2. read'.keys = q.keys /\ read'.required = q.required /\ read'.values = w.values
    BY <1>9
  <2>3. \E n \in 0 .. Revision' :
          /\ read'.required # NoRevision => n >= read'.required
          /\ \A i \in DOMAIN read'.keys : read'.values[i] = StateAt(n)'[read'.keys[i]]
    BY <1>8, <2>1, <2>2 DEF RevisionReached
  <2>4. QED
    BY <2>3 DEF ReadsShowOneRevision
<1>12. QED
  BY <1>9, <1>10, <1>11, KvSteps DEF IInv

-----------------------------------------------------------------------------
(* Scans.                                                                  *)

PageEnd(g, position) ==
  LET n == Len(Entries(leases[g]))
  IN  IF position + leases[g].binding.limit < n THEN position + leases[g].binding.limit ELSE n

LEMMA GenuinePage ==
  ASSUME NEW g, NEW position
  PROVE  LET w == Page(g, position)
             b == leases[g].binding
             all == Entries(leases[g])
         IN  /\ w.id = b.id /\ w.namespace = b.namespace /\ w.prefix = b.prefix
             /\ w.limit = b.limit /\ w.required = b.required
             /\ w.cursor = (IF position = 0 THEN NoCursor ELSE <<g, position>>)
             /\ w.observed = leases[g].revision
             /\ w.entries = SubSeq(all, position + 1, PageEnd(g, position))
             /\ w.next = (IF PageEnd(g, position) < Len(all) THEN <<g, PageEnd(g, position)>> ELSE NoCursor)
             /\ w.sha = conditionalPrefixScanResponseSHA(w)
BY DEF Page, PageEnd, conditionalPrefixScanResponseSHA

(* A page whose digest is that of a genuine one is that page, as far as    *)
(* the reader looks at it.                                                 *)
LEMMA DamagedPageRefused ==
  ASSUME NEW g, NEW position, NEW w \in {Page(g, position)} \cup DamagedPage(Page(g, position)),
         conditionalPrefixScanResponseSHA(w) = w.sha
  PROVE  LET p == Page(g, position)
         IN  /\ w.id = p.id /\ w.namespace = p.namespace /\ w.prefix = p.prefix
             /\ w.limit = p.limit /\ w.required = p.required /\ w.cursor = p.cursor
             /\ w.observed = p.observed /\ w.entries = p.entries /\ w.next = p.next
<1> DEFINE p == Page(g, position)
<1>1. p.sha = conditionalPrefixScanResponseSHA(p)
  BY GenuinePage
<1>2. w.sha = p.sha
  <2>0. PICK base, h : /\ p = [base EXCEPT !.sha = h]
                       /\ DOMAIN base = {"id", "namespace", "prefix", "limit", "cursor", "required", "observed",
                                         "snapshot", "position", "entries", "next", "sha"}
    <3> DEFINE b == leases[g].binding
    <3> DEFINE all == Entries(leases[g])
    <3> DEFINE end == IF position + b.limit < Len(all) THEN position + b.limit ELSE Len(all)
    <3> DEFINE cursor == IF position = 0 THEN NoCursor ELSE <<g, position>>
    <3> DEFINE next == IF end < Len(all) THEN <<g, end>> ELSE NoCursor
    <3> DEFINE entries == SubSeq(all, position + 1, end)
    <3> DEFINE base == [id |-> b.id, namespace |-> b.namespace, prefix |-> b.prefix, limit |-> b.limit,
                        cursor |-> cursor, required |-> b.required, observed |-> leases[g].revision,
                        snapshot |-> g, position |-> position, entries |-> entries, next |-> next,
                        sha |-> <<>>]
    <3>1. p = [base EXCEPT !.sha = conditionalPrefixScanResponseSHA(base)]
      BY DEF Page
    <3> HIDE DEF b, cursor, next, entries
    <3>2. DOMAIN base = {"id", "namespace", "prefix", "limit", "cursor", "required", "observed",
                         "snapshot", "position", "entries", "next", "sha"}
      OBVIOUS
    <3> HIDE DEF base
    <3>3. QED
      BY <3>1, <3>2
  <2>1. /\ "sha" \in DOMAIN p /\ p = [x \in DOMAIN p |-> p[x]]
        /\ {"next", "position", "observed", "entries"} \subseteq DOMAIN p
    BY <2>0
  <2> HIDE DEF p
  <2>2. \/ w = p
        \/ \E c : w = [p EXCEPT !.next = c]
        \/ \E n : w = [p EXCEPT !.position = n]
        \/ \E n : w = [p EXCEPT !.observed = n]
        \/ \E e : w = [p EXCEPT !.entries = e]
    BY DEF DamagedPage, p
  <2>3. QED
    BY <2>1, <2>2
<1> HIDE DEF p
<1>3. conditionalPrefixScanResponseSHA(w) = conditionalPrefixScanResponseSHA(p)
  BY <1>1, <1>2
<1>4. QED
  BY <1>3 DEF conditionalPrefixScanResponseSHA, p

(* The reader's next page continues where it stands, in the same lease.    *)
LEMMA PageContinues ==
  ASSUME IInv, NEW g \in DOMAIN leases, NEW position \in Nat, scan.phase = "open",
         NEW w, decodeConditionalPrefixScanResult(w, scan.request),
         w \in {Page(g, position)} \cup DamagedPage(Page(g, position))
  PROVE  LET all == Entries(leases[g])
             end == PageEnd(g, position)
         IN  /\ leases[g].binding = Binding(scan.request)
             /\ scan.request.required # NoRevision => leases[g].revision >= scan.request.required
             /\ scan.entries \o w.entries = SubSeq(all, 1, end)
             /\ end \in 0 .. Len(all)
             /\ \/ end = Len(all) /\ w.next = NoCursor
                \/ end > 0 /\ end < Len(all) /\ w.next = <<g, end>>
<1> DEFINE p == Page(g, position)
<1> DEFINE q == scan.request
<1> DEFINE b == leases[g].binding
<1> DEFINE all == Entries(leases[g])
<1> DEFINE end == PageEnd(g, position)
<1>0. ServerInv /\ ScanInv /\ SealedRequest(q)
  BY DEF IInv, ScanInv, NoScan
<1>1. verifyConditionalPrefixScanWire(w, q)
  BY DEF decodeConditionalPrefixScanResult
<1>2. ScanIdentity(w, q) /\ RevisionReached(w.observed, q.required) /\ conditionalPrefixScanResponseSHA(w) = w.sha
  BY <1>1 DEF verifyConditionalPrefixScanWire
<1>3. /\ w.id = b.id /\ w.namespace = b.namespace /\ w.prefix = b.prefix
      /\ w.limit = b.limit /\ w.required = b.required /\ w.observed = leases[g].revision
      /\ w.cursor = (IF position = 0 THEN NoCursor ELSE <<g, position>>)
      /\ w.entries = SubSeq(all, position + 1, end)
      /\ w.next = (IF end < Len(all) THEN <<g, end>> ELSE NoCursor)
  BY <1>2, GenuinePage, DamagedPageRefused
<1>4. b \in Bindings
  <2> DEFINE T == [binding: Bindings, revision: Nat]
  <2>1. leases \in Seq(T)
    BY <1>0 DEF ServerInv
  <2> HIDE DEF T
  <2>2. leases[g] \in T
    BY <2>1
  <2>3. QED
    BY <2>2 DEF T
<1>5. b = Binding(q) /\ b.limit \in Nat /\ b.limit > 0
  BY <1>2, <1>3, <1>4, LimitsAssumption DEF Bindings, Binding, ScanIdentity
<1>6. PICK S : all \in Seq(S)
  BY EntriesAreSeq
<1> DEFINE n == Len(all)
<1>7. n \in Nat
  BY <1>6, LenProperties
<1>8. end = (IF position + b.limit < n THEN position + b.limit ELSE n)
  BY DEF PageEnd
<1> HIDE DEF p, b, all, end
<1>9. end \in 0 .. n /\ (end < n => end > 0)
  BY <1>5, <1>7, <1>8
<1>10. q.required # NoRevision => leases[g].revision >= q.required
  BY <1>2, <1>3 DEF RevisionReached
<1>11. scan.entries \o w.entries = SubSeq(all, 1, end)
  <2>1. CASE position = 0
    <3>1. q.cursor = NoCursor
      BY <1>2, <1>3, <2>1 DEF ScanIdentity
    <3>2. scan.entries = <<>>
      BY <1>0, <3>1 DEF ScanInv, NoScan, NoCursor
    <3>3. SubSeq(all, 1, end) \in Seq(S)
      BY <1>6, <1>7, <1>9, SubSeqProperties
    <3>4. QED
      BY <1>3, <2>1, <3>2, <3>3, ConcatEmptySeq
  <2>2. CASE position # 0
    <3>1. q.cursor = <<g, position>>
      BY <1>2, <1>3, <2>2 DEF ScanIdentity
    <3>2. PICK h \in DOMAIN leases : q.cursor = <<h, Len(scan.entries)>> /\ Collected(h)
      BY <1>0, <3>1 DEF ScanInv, NoScan, NoCursor
    <3>3. h = g /\ Len(scan.entries) = position
      BY <3>1, <3>2
    <3>4. position <= n /\ scan.entries = SubSeq(all, 1, position)
      BY <3>2, <3>3 DEF Collected, all
    <3>5. position <= end
      BY <1>5, <1>7, <1>8, <3>4
    <3>6. SubSeq(all, 1, position) \o SubSeq(all, position + 1, end) = SubSeq(all, 1, end)
      BY <1>6, <1>7, <1>9, <3>5, ConcatAdjacentSubSeq
    <3>7. QED
      BY <1>3, <3>4, <3>6
  <2>3. QED
    BY <2>1, <2>2
<1>12. \/ end = n /\ w.next = NoCursor
       \/ end > 0 /\ end < n /\ w.next = <<g, end>>
  BY <1>3, <1>7, <1>9
<1>13. QED
  BY <1>5, <1>9, <1>10, <1>11, <1>12 DEF b, all, end

LEMMA PageStep ==
  ASSUME IInv, NEW g \in DOMAIN leases, NEW position \in Nat, scan.phase = "open",
         NEW w \in {Page(g, position)} \cup DamagedPage(Page(g, position)), ConditionalPrefixScan(w)
  PROVE  IInv'
<1> DEFINE q == scan.request
<1> DEFINE all == Entries(leases[g])
<1> DEFINE end == PageEnd(g, position)
<1> DEFINE next == Continuation(w, q)
<1>0. SealedRequest(q)
  BY DEF IInv, ScanInv, NoScan
<1>1. /\ decodeConditionalPrefixScanResult(w, q) /\ UNCHANGED <<log, leases, read, changes>>
      /\ scan' = [phase |-> IF next = {} THEN "done" ELSE "open",
                  request |-> IF next = {} THEN q ELSE CHOOSE x \in next : TRUE,
                  entries |-> scan.entries \o w.entries]
  BY DEF ConditionalPrefixScan, serverVars, kvVars
<1>2. /\ leases[g].binding = Binding(q)
      /\ q.required # NoRevision => leases[g].revision >= q.required
      /\ scan.entries \o w.entries = SubSeq(all, 1, end)
      /\ end \in 0 .. Len(all)
      /\ \/ end = Len(all) /\ w.next = NoCursor
         \/ end > 0 /\ end < Len(all) /\ w.next = <<g, end>>
  BY <1>1, PageContinues
<1>3. ScanIdentity(w, q)
  BY <1>1 DEF decodeConditionalPrefixScanResult, verifyConditionalPrefixScanWire
<1>4. next = IF w.next = NoCursor THEN {} ELSE {Continue(q, w.next)}
  BY <1>3 DEF Continuation
<1> HIDE DEF q, all, end, next
<1>5. PICK S : all \in Seq(S)
  BY EntriesAreSeq DEF all
<1>6. /\ scan'.entries = SubSeq(all, 1, end) /\ Len(scan'.entries) = end /\ end \in Nat
      /\ scan'.entries = SubSeq(all, 1, Len(scan'.entries)) /\ Len(scan'.entries) <= Len(all)
  <2>1. scan'.entries = SubSeq(all, 1, end)
    BY <1>1, <1>2
  <2>2. Len(all) \in Nat
    BY <1>5, LenProperties
  <2>3. Len(SubSeq(all, 1, end)) = end
    BY <1>2, <1>5, <2>2, SubSeqProperties
  <2>4. QED
    BY <1>2, <2>1, <2>2, <2>3
<1>7. all' = all /\ leases' = leases
  BY <1>1 DEF all, Entries, SortedKeys, StateAt
<1>8. Binding(scan'.request) = Binding(q) /\ SealedRequest(scan'.request) /\ scan'.request.required = q.required
  <2>1. CASE w.next = NoCursor
    BY <1>0, <1>1, <1>4, <2>1
  <2>2. CASE w.next # NoCursor
    <3>1. scan'.request = Continue(q, w.next)
      BY <1>1, <1>4, <2>2
    <3>2. w.next \in Nat \X Nat
      <4>1. g \in Nat
        <5>1. leases \in Seq([binding: Bindings, revision: Nat])
          BY DEF IInv, ServerInv
        <5>2. DOMAIN leases = 1 .. Len(leases) /\ Len(leases) \in Nat
          BY <5>1, LenProperties
        <5>3. QED
          BY <5>2
      <4>2. w.next = <<g, end>>
        BY <1>2, <2>2
      <4>3. QED
        BY <1>6, <4>1, <4>2
    <3>3. /\ scan'.request.id = q.id /\ scan'.request.namespace = q.namespace
          /\ scan'.request.prefix = q.prefix /\ scan'.request.limit = q.limit
          /\ scan'.request.required = q.required /\ scan'.request.cursor = w.next
          /\ scan'.request \in [id: RequestIDs, namespace: Namespaces, prefix: Prefixes, limit: 1 .. MaxLimit,
                                cursor: {NoCursor} \cup (Nat \X Nat), required: Int]
      BY <1>0, <3>1, <3>2 DEF Continue, SealedRequest
    <3>4. QED
      BY <1>0, <3>3 DEF Binding, SealedRequest, newConditionalPrefixScanRequest
  <2>3. QED
    BY <2>1, <2>2
<1>9. Collected(g)'
  BY <1>2, <1>6, <1>7, <1>8 DEF Collected, all
<1>10. ScanInv'
  <2>1. CASE end = Len(all) /\ w.next = NoCursor
    <3>1. scan'.phase = "done" /\ scan'.entries = all
      BY <1>1, <1>4, <1>5, <1>6, <2>1, SubSeqFull
    <3>2. QED
      BY <1>7, <1>8, <1>9, <3>1 DEF ScanInv, all
  <2>2. CASE end > 0 /\ end < Len(all) /\ w.next = <<g, end>>
    <3>1. w.next # NoCursor
      BY <2>2 DEF NoCursor
    <3>2. scan'.phase = "open" /\ scan'.request = Continue(q, w.next)
      BY <1>1, <1>4, <3>1
    <3>3. scan'.request.cursor = <<g, Len(scan'.entries)>>
      BY <1>0, <1>6, <2>2, <3>2 DEF Continue, SealedRequest
    <3>4. scan'.entries # <<>>
      <4>1. Len(<<>>) = 0 /\ Len(scan'.entries) = end /\ end # 0
        BY <1>6, <2>2
      <4>2. QED
        BY <4>1
    <3>5. QED
      BY <1>7, <1>8, <1>9, <3>2, <3>3, <3>4 DEF ScanInv
  <2>3. QED
    BY <1>2, <2>1, <2>2
<1>11. QED
  BY <1>1, <1>10, ServerKept, KvSteps DEF IInv

LEMMA ScanSteps ==
  ASSUME IInv, ScanStep
  PROVE  IInv'
<1>1. CASE \E r \in 0 .. Revision : Lease(r)
  BY <1>1, LeaseStep
<1>2. CASE scan.phase = "open" /\ \E p \in Pages : \E w \in {p} \cup DamagedPage(p) : ConditionalPrefixScan(w)
  <2>1. PICK g \in DOMAIN leases, position \in 0 .. Cardinality(Keys) - 1 :
          \E w \in {Page(g, position)} \cup DamagedPage(Page(g, position)) : ConditionalPrefixScan(w)
    BY <1>2 DEF Pages
  <2>2. position \in Nat
    BY KeysAssumption, FS_CardinalityType
  <2>3. QED
    BY <1>2, <2>1, <2>2, PageStep
<1>3. CASE \E q \in ScanRequests : NewConditionalPrefixScan(q)
  <2>1. PICK q \in ScanRequests : NewConditionalPrefixScan(q)
    BY <1>3
  <2>2. /\ newConditionalPrefixScanRequest(q) /\ UNCHANGED <<log, leases, read, changes>>
        /\ scan' = [phase |-> "open", request |-> q, entries |-> <<>>]
    BY <2>1 DEF NewConditionalPrefixScan, serverVars, kvVars
  <2>3. q.cursor = NoCursor /\ SealedRequest(q)
    <3>1. Revision \in Int
      BY DEF IInv, ServerInv, Revision
    <3>2. QED
      BY <2>2, <3>1 DEF ScanRequests, NoRevision, SealedRequest, newConditionalPrefixScanRequest
  <2>4. ScanInv'
    BY <2>2, <2>3 DEF ScanInv
  <2>5. QED
    BY <2>2, <2>4, ServerKept, KvSteps DEF IInv
<1>4. CASE CursorUnavailable
  <2>1. UNCHANGED <<log, leases, read, changes>> /\ scan' = NoScan
    BY <1>4 DEF CursorUnavailable, serverVars, kvVars
  <2>2. ScanInv'
    BY <2>1 DEF ScanInv, NoScan
  <2>3. QED
    BY <2>1, <2>2, ServerKept, KvSteps DEF IInv
<1>5. QED
  BY <1>1, <1>2, <1>3, <1>4 DEF ScanStep

-----------------------------------------------------------------------------
LEMMA Initially == Init => IInv
<1> SUFFICES ASSUME Init PROVE IInv
  OBVIOUS
<1>1. ServerInv
  <2>1. [k \in Keys |-> Absent] \in States
    BY DEF States
  <2>2. log \in Seq(States) /\ Len(log) = 1
    BY <2>1 DEF Init
  <2>3. QED
    BY <2>2 DEF Init, ServerInv
<1>2. ReadsShowOneRevision /\ KvEffectsAreReported /\ ScanInv
  BY DEF Init, ReadsShowOneRevision, KvEffectsAreReported, ScanInv
<1>3. QED
  BY <1>1, <1>2 DEF IInv

LEMMA Steps == IInv /\ [Next]_vars => IInv'
<1> SUFFICES ASSUME IInv, [Next]_vars PROVE IInv'
  OBVIOUS
<1>1. CASE \E written \in SUBSET Keys \ {{}}, v \in Values : Commit(written, v)
  BY <1>1, CommitStep
<1>2. CASE ReadStep
  BY <1>2, ReadStepKeeps
<1>3. CASE ScanStep
  BY <1>3, ScanSteps
<1>4. ASSUME UNCHANGED <<log, leases, read, scan>>,
             UNCHANGED changes \/ (\E op : KvCall(op)) \/ (\E op : KvLate(op))
      PROVE  IInv'
  BY <1>4, ServerKept, KvSteps DEF IInv
<1>5. CASE \E op \in {"set", "setnx", "del", "get", "exists"} : KvCall(op)
  BY <1>4, <1>5 DEF KvCall, serverVars
<1>6. CASE \E op \in late : KvLate(op)
  BY <1>4, <1>6 DEF KvLate, serverVars
<1>7. CASE (\E g \in live : LeaseEnds(g)) \/ (\E v \in Values : KvOther(v)) \/ UNCHANGED vars
  BY <1>4, <1>7 DEF LeaseEnds, KvOther, vars, serverVars, kvVars
<1>8. CASE Consume
  <2>1. UNCHANGED <<log, leases, changes>> /\ read' = NoRead /\ scan' = NoScan
    BY <1>8 DEF Consume, serverVars, kvVars
  <2>2. ScanInv' /\ ReadsShowOneRevision'
    BY <2>1 DEF ScanInv, ReadsShowOneRevision, NoScan, NoRead
  <2>3. QED
    BY <2>1, <2>2, ServerKept, KvSteps DEF IInv
<1>9. QED
  BY <1>8, <1>7, <1>6, <1>5, <1>3, <1>2, <1>1 DEF Next

-----------------------------------------------------------------------------
(* The log, the leases, the scan and the changes of the KV cell stay as    *)
(* the invariant says.                                                     *)
THEOREM Invariance == Spec => []IInv
BY Initially, Steps, PTL DEF Spec

(* An accepted point or snapshot read shows one revision, not before the   *)
(* required one: the response digest covers the revision and every value.  *)
THEOREM ReadsOneRevision == Spec => []ReadsShowOneRevision
<1>1. IInv => ReadsShowOneRevision
  BY DEF IInv
<1>2. QED
  BY <1>1, Invariance, PTL

(* The pages that decodeConditionalPrefixScanResult accepts and            *)
(* Continuation strings together are a prefix of one leased snapshot, and  *)
(* the whole of it when the scan ends.                                     *)
THEOREM ScanOneSnapshot == Spec => []ScanIsOneSnapshot
<1>1. IInv => ScanIsOneSnapshot
  BY DEF IInv, ScanInv, Collected, ScanIsOneSnapshot, NoScan
<1>2. QED
  BY <1>1, Invariance, PTL

(* remoteTransportError and remoteResponseError never call the failure of  *)
(* a KV command definite when the command took effect.                     *)
THEOREM KvEffectsReported == Spec => []KvEffectsAreReported
<1>1. IInv => KvEffectsAreReported
  BY DEF IInv
<1>2. QED
  BY <1>1, Invariance, PTL
============================================================================
