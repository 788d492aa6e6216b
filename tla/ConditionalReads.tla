--------------------------- MODULE ConditionalReads ---------------------------
(***************************************************************************)
(* A reader of a conditional namespace that other clients keep writing:    *)
(* ConditionalGet, ConditionalSnapshotGet and ConditionalPrefixScan with   *)
(* their sealed requests and decoders (conditional_point_read.go,          *)
(* conditional_snapshot_read.go, conditional_prefix_scan.go, client.go),   *)
(* and the Server KV helpers of client.go.                                 *)
(*                                                                         *)
(* External: the Server.  Revision r of its log is one state of the keys;  *)
(* a node answers from some revision it has applied, which may lie behind  *)
(* the bound of the request.  A first scan request leases a snapshot; its  *)
(* cursors name that lease.  Leases end, answers are lost, an answer may   *)
(* belong to another request, or differ from a genuine one in one place.   *)
(* A refused answer is an error that changes nothing, so that the reader   *)
(* may call again.  Byte bounds of requests and values are left out.       *)
(***************************************************************************)
EXTENDS Integers, Sequences, FiniteSets

CONSTANTS Keys,          \* keys, numbers in byte order
          HasPrefix(_, _),\* bytes.HasPrefix
          Namespaces, Prefixes, RequestIDs, Limits,
          MaxKeysV1, MaxKeysV2, MaxLimit, \* 128, 1024 and 256 in the code
          Absent, Empty, \* the value of a missing key (null on the wire), the empty value
          Values,        \* values, these two among them
          MaxRevision,   \* bound: revisions written
          MaxLeases,     \* bound: snapshots leased
          MaxKvCalls     \* bound: KV calls

ASSUME KeysAssumption == Keys \subseteq Nat /\ IsFiniteSet(Keys)
ASSUME LimitsAssumption == MaxKeysV1 \in Nat /\ MaxKeysV2 \in Nat /\ MaxLimit \in Nat

NoRevision == -1        \* a nil requiredRevision
NoCursor == <<>>

VARIABLES log,     \* Server: log[r + 1] is the state of revision r
          leases,  \* Server: snapshot leases, [binding, revision]
          live,    \* Server: leases that have not ended
          read,    \* the last accepted point or snapshot read
          scan,    \* the reader's scan: phase, request and collected entries
          reader,  \* the calls this client makes: "read", "scan" or "kv"; fixed
          kv, kvCalls, late, changes \* Server KV: cell, calls made, commands on their
                                     \* way, how each change of the cell was reported

serverVars == <<log, leases, live>>
kvVars == <<kv, kvCalls, late, changes>>
vars == <<reader, serverVars, read, scan, kvVars>>

Revision == Len(log) - 1
StateAt(r) == log[r + 1]

-----------------------------------------------------------------------------
(* Sealed requests.                                                        *)

validRevision(required) == required # 0

NewConditionalPointReadRequest(q) ==
  q.namespace \in Namespaces /\ Len(q.keys) = 1 /\ validRevision(q.required)

conditionalSnapshotReadMaxKeys(version) ==
  CASE version = 1 -> MaxKeysV1 [] version = 2 -> MaxKeysV2 [] OTHER -> 0

newConditionalSnapshotReadRequest(q) ==
  /\ q.namespace \in Namespaces
  /\ Len(q.keys) \in 1 .. conditionalSnapshotReadMaxKeys(q.version)
  /\ \A i, j \in DOMAIN q.keys : q.keys[i] = q.keys[j] => i = j
  /\ validRevision(q.required)

newConditionalPrefixScanRequest(q) ==
  /\ q.id \in RequestIDs /\ q.namespace \in Namespaces /\ q.prefix \in Prefixes
  /\ q.limit \in 1 .. MaxLimit
  /\ validRevision(q.required)

(* Mutant: the next page asks for a fresh scan.                            *)
Continue_FreshScan(q, cursor) == [q EXCEPT !.cursor = NoCursor]

(* Everything but the cursor stays bound.                                  *)
Continue(q, cursor) == [q EXCEPT !.cursor = cursor]

-----------------------------------------------------------------------------
(* Digests stand for the fields they cover, domain and order included.     *)

(* Mutant: a missing value is hashed like an empty one.                    *)
DigestValue_NullIsEmpty(v) == IF v = Absent THEN <<1, Empty>> ELSE <<1, v>>

(* A flag byte, then the bytes if there are any.                           *)
DigestValue(v) == IF v = Absent THEN <<0>> ELSE <<1, v>>

conditionalPointReadResponseSHA(w) ==
  <<"POINT", w.version, w.namespace, w.keys, w.required, w.observed, w.snapshot,
    [i \in DOMAIN w.values |-> DigestValue(w.values[i])]>>

conditionalSnapshotReadResponseSHA(w) ==
  <<"SNAPSHOT", w.version, w.namespace, w.required, w.observed, w.snapshot,
    [i \in DOMAIN w.keys |-> <<w.indexes[i], w.keys[i], DigestValue(w.values[i])>>]>>

conditionalPrefixScanResponseSHA(w) ==
  <<"SCAN", w.id, w.namespace, w.prefix, w.limit, w.cursor, w.required, w.observed, w.snapshot,
    w.position, w.entries, w.next>>

-----------------------------------------------------------------------------
(* Decoders.                                                               *)

(* Mutant: the lower bound is left to the Server.                          *)
RevisionReached_Trusted(observed, required) == TRUE

RevisionReached(observed, required) == required # NoRevision => observed >= required

decodeConditionalPointReadResult(w, q) ==
  /\ NewConditionalPointReadRequest(q)
  /\ w.version = 1 /\ w.namespace = q.namespace /\ w.keys = q.keys /\ w.required = q.required
  /\ RevisionReached(w.observed, q.required)
  /\ conditionalPointReadResponseSHA(w) = w.sha

decodeConditionalSnapshotReadResult(w, q) ==
  /\ newConditionalSnapshotReadRequest(q)
  /\ w.version = q.version /\ w.namespace = q.namespace /\ w.required = q.required
  /\ Len(w.keys) = Len(q.keys)
  /\ RevisionReached(w.observed, q.required)
  /\ \A i \in DOMAIN w.keys : w.indexes[i] = i - 1 /\ w.keys[i] = q.keys[i]
  /\ conditionalSnapshotReadResponseSHA(w) = w.sha

(* Mutant: the cursor the page answers is not compared.                    *)
ScanIdentity_AnyCursor(w, q) ==
  /\ w.id = q.id /\ w.namespace = q.namespace /\ w.prefix = q.prefix
  /\ w.limit = q.limit /\ w.required = q.required

ScanIdentity(w, q) ==
  /\ w.id = q.id /\ w.namespace = q.namespace /\ w.prefix = q.prefix
  /\ w.limit = q.limit /\ w.required = q.required /\ w.cursor = q.cursor

PageShape(w, q) ==
  /\ Len(w.entries) <= q.limit
  /\ IF q.cursor = NoCursor THEN w.position = 0 ELSE w.position # 0 /\ w.entries # <<>>
  /\ w.next # NoCursor => Len(w.entries) = q.limit /\ w.next # q.cursor

EntryShape(w, q) ==
  \A i \in DOMAIN w.entries :
    /\ w.entries[i].index = w.position + i - 1
    /\ HasPrefix(w.entries[i].key, q.prefix)
    /\ i > 1 => w.entries[i - 1].key < w.entries[i].key
    /\ w.entries[i].value # Absent

verifyConditionalPrefixScanWire(w, q) ==
  /\ ScanIdentity(w, q)
  /\ RevisionReached(w.observed, q.required)
  /\ PageShape(w, q)
  /\ EntryShape(w, q)
  /\ conditionalPrefixScanResponseSHA(w) = w.sha

decodeConditionalPrefixScanResult(w, q) ==
  newConditionalPrefixScanRequest(q) /\ verifyConditionalPrefixScanWire(w, q)

(* Continuation compares the result with the request it is given, so that  *)
(* pages of two scans are not mixed.                                       *)
Continuation(w, q) ==
  IF ~ScanIdentity(w, q) THEN {}
  ELSE IF w.next = NoCursor THEN {}
  ELSE {Continue(q, w.next)}

-----------------------------------------------------------------------------
(* External: what the Server answers.                                      *)

ReadAnswer(q, r) ==
  LET w == [version |-> q.version, namespace |-> q.namespace, keys |-> q.keys, required |-> q.required,
            observed |-> r, snapshot |-> r, indexes |-> [i \in DOMAIN q.keys |-> i - 1],
            values |-> [i \in DOMAIN q.keys |-> StateAt(r)[q.keys[i]]], sha |-> <<>>]
  IN  [w EXCEPT !.sha = IF q.kind = "point" THEN conditionalPointReadResponseSHA(w)
                                            ELSE conditionalSnapshotReadResponseSHA(w)]

(* One field is not what the Server hashed.                                *)
DamagedRead(w) ==
  {[w EXCEPT !.values[i] = v] : i \in DOMAIN w.values, v \in Values}
    \cup {[w EXCEPT !.observed = r] : r \in 0 .. Revision}
    \cup {[w EXCEPT !.required = r] : r \in {NoRevision} \cup 1 .. Revision}
    \cup {[w EXCEPT !.keys[i] = k] : i \in DOMAIN w.keys, k \in Keys}

(* The keys of a snapshot under a prefix, in order.                        *)
SortedKeys(state, prefix) ==
  LET present == {k \in Keys : HasPrefix(k, prefix) /\ state[k] # Absent}
  IN  [i \in 1 .. Cardinality(present) |->
         CHOOSE k \in present : Cardinality({j \in present : j <= k}) = i]

Entries(lease) ==
  LET state == StateAt(lease.revision)
      keys == SortedKeys(state, lease.binding.prefix)
  IN  [i \in DOMAIN keys |-> [index |-> i - 1, key |-> keys[i], value |-> state[keys[i]]]]

(* The page of lease g that starts at a position.                          *)
Page(g, position) ==
  LET b == leases[g].binding
      all == Entries(leases[g])
      end == IF position + b.limit < Len(all) THEN position + b.limit ELSE Len(all)
      w == [id |-> b.id, namespace |-> b.namespace, prefix |-> b.prefix, limit |-> b.limit,
            cursor |-> IF position = 0 THEN NoCursor ELSE <<g, position>>,
            required |-> b.required, observed |-> leases[g].revision, snapshot |-> g,
            position |-> position, entries |-> SubSeq(all, position + 1, end),
            next |-> IF end < Len(all) THEN <<g, end>> ELSE NoCursor, sha |-> <<>>]
  IN  [w EXCEPT !.sha = conditionalPrefixScanResponseSHA(w)]

(* Answers that are or were under way, for any page of any scan.           *)
Pages ==
  {Page(g, position) : g \in DOMAIN leases, position \in 0 .. Cardinality(Keys) - 1}

DamagedPage(w) ==
  {[w EXCEPT !.next = c] : c \in {NoCursor} \cup {p.cursor : p \in Pages}}
    \cup {[w EXCEPT !.position = n] : n \in 0 .. Cardinality(Keys)}
    \cup {[w EXCEPT !.observed = r] : r \in 0 .. Revision}
    \cup {[w EXCEPT !.entries = SubSeq(@, 1, n)] : n \in 0 .. Len(w.entries)}

-----------------------------------------------------------------------------
NoRead == [kind |-> "none"]
NoScan == [phase |-> "idle", entries |-> <<>>]

Init ==
  /\ log = <<[k \in Keys |-> Absent]>>
  /\ leases = <<>> /\ live = {}
  /\ read = NoRead
  /\ scan = NoScan
  /\ reader \in {"read", "scan", "kv"}
  /\ kv = Absent /\ kvCalls = 0 /\ late = {} /\ changes = {}

(* Another client commits a transaction that writes v to some keys.        *)
Commit(written, v) ==
  /\ reader # "kv" /\ Revision < MaxRevision
  /\ \A k \in written : StateAt(Revision)[k] # v
  /\ log' = Append(log, [k \in Keys |-> IF k \in written THEN v ELSE StateAt(Revision)[k]])
  /\ UNCHANGED <<reader, leases, live, read, scan, kvVars>>

(* A read and an answer that its decoder accepts.                          *)
Accept(q, w) ==
  /\ reader = "read" /\ read = NoRead
  /\ read' = [kind |-> q.kind, keys |-> q.keys, required |-> q.required, values |-> w.values]
  /\ UNCHANGED <<reader, serverVars, scan, kvVars>>

ConditionalGet(q, w) ==
  /\ q.kind = "point"
  /\ decodeConditionalPointReadResult(w, q)
  /\ Accept(q, w)

ConditionalSnapshotGet(q, w) ==
  /\ q.kind = "snapshot"
  /\ decodeConditionalSnapshotReadResult(w, q)
  /\ Accept(q, w)

NewConditionalPrefixScan(q) ==
  /\ reader = "scan" /\ scan = NoScan
  /\ newConditionalPrefixScanRequest(q)
  /\ scan' = [phase |-> "open", request |-> q, entries |-> <<>>]
  /\ UNCHANGED <<reader, serverVars, read, kvVars>>

Binding(q) == [id |-> q.id, namespace |-> q.namespace, prefix |-> q.prefix,
               limit |-> q.limit, required |-> q.required]

(* The first request of a scan reaches a node, which leases a snapshot     *)
(* unless it still holds one for the request.                              *)
Lease(r) ==
  /\ scan.phase = "open" /\ scan.request.cursor = NoCursor
  /\ Len(leases) < MaxLeases
  /\ \A g \in live : leases[g].binding # Binding(scan.request)
  /\ leases' = Append(leases, [binding |-> Binding(scan.request), revision |-> r])
  /\ live' = live \cup {Len(leases) + 1}
  /\ UNCHANGED <<reader, log, read, scan, kvVars>>

(* A lease times out, or the node restarts.                                *)
LeaseEnds(g) ==
  /\ live' = live \ {g}
  /\ UNCHANGED <<reader, log, leases, read, scan, kvVars>>

(* ConditionalPrefixScan: a page is accepted and Continuation gives the    *)
(* next request.                                                           *)
ConditionalPrefixScan(w) ==
  /\ decodeConditionalPrefixScanResult(w, scan.request)
  /\ LET next == Continuation(w, scan.request)
     IN  scan' = [phase |-> IF next = {} THEN "done" ELSE "open",
                  request |-> IF next = {} THEN scan.request ELSE CHOOSE q \in next : TRUE,
                  entries |-> scan.entries \o w.entries]
  /\ UNCHANGED <<reader, serverVars, read, kvVars>>

(* cursor_unavailable: the caller gives the scan up.                       *)
CursorUnavailable ==
  /\ scan.phase = "open" /\ scan.request.cursor # NoCursor
  /\ scan.request.cursor[1] \notin live
  /\ scan' = NoScan
  /\ UNCHANGED <<reader, serverVars, read, kvVars>>

-----------------------------------------------------------------------------
(* Server KV: set, setnx and del change the cell, get and exists read it.  *)

Mutates(op) == op \in {"set", "setnx", "del"}

remoteTransportError(op) == IF Mutates(op) THEN "ResultIndeterminate" ELSE "NativeUnavailable"

remoteResponseError(op) == IF Mutates(op) THEN "ResultIndeterminate" ELSE "ProtocolViolation"

(* Mutant: an answer without its field is a protocol violation only.       *)
FieldMissing_ReadLike(op) == "ProtocolViolation"

(* A well-formed envelope whose data lacks set, deleted, exists or value;  *)
(* set has no data to look at.                                             *)
FieldMissing(op) == IF op = "set" THEN "ok" ELSE remoteResponseError(op)

KvEffect(op) ==
  CASE op = "set" -> Empty
    [] op = "setnx" -> IF kv = Absent THEN Empty ELSE kv
    [] op = "del" -> Absent
    [] OTHER -> kv

(* The Server processes a command; changes keeps how it was reported.      *)
KvProcess(op, result) ==
  /\ kv' = KvEffect(op)
  /\ changes' = IF kv' # kv THEN changes \cup {[op |-> op, result |-> result]} ELSE changes

(* One call: refused before it is sent, processed and answered (or the     *)
(* answer damaged), or given up, when it may arrive late.                  *)
KvCall(op) ==
  /\ reader = "kv" /\ kvCalls < MaxKvCalls
  /\ kvCalls' = kvCalls + 1
  /\ \/ UNCHANGED <<kv, late, changes>>
     \/ /\ \E result \in {"ok", remoteResponseError(op), FieldMissing(op)} : KvProcess(op, result)
        /\ UNCHANGED late
     \/ /\ late' = late \cup {op}
        /\ UNCHANGED <<kv, changes>>
  /\ UNCHANGED <<reader, serverVars, read, scan>>

KvLate(op) ==
  /\ KvProcess(op, remoteTransportError(op))
  /\ late' = late \ {op}
  /\ UNCHANGED <<reader, serverVars, read, scan, kvCalls>>

(* Other clients write the cell too.                                       *)
KvOther(v) ==
  /\ reader = "kv" /\ kv # v
  /\ kv' = v
  /\ UNCHANGED <<reader, serverVars, read, scan, kvCalls, late, changes>>

-----------------------------------------------------------------------------
(* The reader has used a result and goes on.                               *)
Consume ==
  /\ read # NoRead \/ scan.phase = "done"
  /\ read' = NoRead /\ scan' = NoScan
  /\ UNCHANGED <<reader, serverVars, kvVars>>

-----------------------------------------------------------------------------
ReadRequests ==
  {q \in [kind: {"point", "snapshot"}, version: 1 .. 2, namespace: Namespaces,
          keys: {<<k>> : k \in Keys} \cup (Keys \X Keys), required: {NoRevision} \cup 0 .. Revision] :
     IF q.kind = "point" THEN q.version = 1 /\ NewConditionalPointReadRequest(q)
                         ELSE newConditionalSnapshotReadRequest(q)}

ScanRequests ==
  [id: RequestIDs, namespace: Namespaces, prefix: Prefixes, limit: Limits, cursor: {NoCursor},
   required: {NoRevision} \cup 0 .. Revision]

(* The answer of a node at some revision to this read, or to one with      *)
(* another bound; or one with a field that is not what the node hashed.    *)
ReadStep ==
  reader = "read" /\ read = NoRead /\
  \E q \in ReadRequests, r \in 0 .. Revision :
    LET genuine == ReadAnswer(q, r)
    IN  \E w \in {genuine} \cup DamagedRead(genuine)
               \cup {ReadAnswer([q EXCEPT !.required = n], r) : n \in {NoRevision} \cup 1 .. Revision} :
          ConditionalGet(q, w) \/ ConditionalSnapshotGet(q, w)

ScanStep ==
  \/ \E q \in ScanRequests : NewConditionalPrefixScan(q)
  \/ \E r \in 0 .. Revision : Lease(r)
  \/ scan.phase = "open" /\ \E p \in Pages : \E w \in {p} \cup DamagedPage(p) : ConditionalPrefixScan(w)
  \/ CursorUnavailable

Next ==
  \/ \E written \in SUBSET Keys \ {{}}, v \in Values : Commit(written, v)
  \/ ReadStep
  \/ ScanStep
  \/ \E g \in live : LeaseEnds(g)
  \/ \E op \in {"set", "setnx", "del", "get", "exists"} : KvCall(op)
  \/ \E op \in late : KvLate(op)
  \/ \E v \in Values : KvOther(v)
  \/ Consume

Spec == Init /\ [][Next]_vars

-----------------------------------------------------------------------------
(* A read that was accepted shows one revision of the namespace, all of    *)
(* its keys at the same one and not before the required revision: with the *)
(* revision of a receipt as the bound, the write of that receipt is seen,  *)
(* whichever node answered.                                                *)
ReadsShowOneRevision ==
  read # NoRead =>
    \E r \in 0 .. Revision :
      /\ read.required # NoRevision => r >= read.required
      /\ \A i \in DOMAIN read.keys : read.values[i] = StateAt(r)[read.keys[i]]

(* What a scan has collected are the first keys of one snapshot, no older  *)
(* than the bound, although the namespace changed, leases ended and first  *)
(* pages were retried meanwhile; a finished scan has them all.             *)
ScanIsOneSnapshot ==
  scan.phase = "done" \/ (scan.phase = "open" /\ scan.entries # <<>>) =>
    \E g \in DOMAIN leases :
      LET all == Entries(leases[g])
      IN  /\ leases[g].binding = Binding(scan.request)
          /\ scan.request.required # NoRevision => leases[g].revision >= scan.request.required
          /\ Len(scan.entries) <= Len(all)
          /\ scan.entries = SubSeq(all, 1, Len(scan.entries))
          /\ scan.phase = "done" => scan.entries = all

(* Whatever changed the Server KV cell for this client, at once or after   *)
(* the client gave up, was returned to it as success or as                 *)
(* ResultIndeterminate: no effect hides behind a definite error.           *)
KvEffectsAreReported ==
  \A change \in changes : change.result \in {"ok", "ResultIndeterminate"}
=============================================================================
