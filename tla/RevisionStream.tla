---------------------------- MODULE RevisionStream ----------------------------
(***************************************************************************)
(* Writers that append to one revision stream through sealed requests      *)
(* (NewRevisionStreamAppendRequest, RevisionStreamAppend), each extending  *)
(* whatever head it last learned, current or not.                          *)
(*                                                                         *)
(* External: the Core that executes the command of a request against its   *)
(* internal keyspace, all or nothing.  It may be restored from an older    *)
(* copy of that keyspace and then grow differently.                        *)
(***************************************************************************)
EXTENDS RevisionStreamMMR, FiniteSets

CONSTANTS Stream,       \* the stream ID
          Times,        \* occurred_at values of events
          Payloads,     \* payloads of events
          MaxRevision   \* bound: appends stop at this revision

ASSUME BoundAssumption == MaxRevision \in 1 .. MaxUint
ASSUME TimesAssumption == Times \subseteq Int

VARIABLES store,  \* the internal keyspace: key -> value
          lost    \* history: the keyspace as it was before a restore

streamVars == <<store, lost>>

Value(s, key) == IF key \in DOMAIN s THEN s[key] ELSE <<>>
HeadValue(head) == IF head = NoHead THEN <<>> ELSE <<"head", head>>
HeadOf(s) == IF HeadKey(Stream) \in DOMAIN s THEN s[HeadKey(Stream)][2] ELSE NoHead
EventAt(s, revision) == s[EventKey(Stream, revision)][2]
NodeRoot(s, height, startRevision) == s[revisionStreamMerkleKey(Stream, height, startRevision)][2]

-----------------------------------------------------------------------------
(* External: what Core derives from its keyspace for a prefix of it.       *)

(* Heights of the prefix's peaks, highest first.                           *)
PeakSeq(n) ==
  LET Above(h) == {g \in PeakHeights(n) : g >= h}
  IN  [i \in 1 .. Cardinality(PeakHeights(n)) |-> CHOOSE h \in PeakHeights(n) : Cardinality(Above(h)) = i]

HeadAt(s, n) ==
  LET heights == PeakSeq(n)
      event == EventAt(s, n)
  IN  [revision |-> n, lastOccurredAt |-> event.occurredAt, root |-> event.root,
       proof |-> [leafCount |-> n, root |-> event.proofRoot, lastContent |-> event.content,
                  peaks |-> [i \in DOMAIN heights |->
                               [height |-> heights[i], startRevision |-> PeakStart(n, heights[i]),
                                root |-> NodeRoot(s, heights[i], PeakStart(n, heights[i]))]]]]

InclusionAt(s, n, revision) ==
  LET heights == PeakSeq(n)
      index == CHOOSE i \in DOMAIN heights :
                 revision - PeakStart(n, heights[i]) \in 0 .. 2 ^ heights[i] - 1
      start == PeakStart(n, heights[index])
      Block(h) == (revision - start) \div 2 ^ h
      Even(h) == Block(h) % 2 = 0
  IN  [revision |-> revision, peakIndex |-> index,
       leaf |-> calculateRevisionStreamMerkleLeaf(Stream, revision, EventAt(s, revision).content),
       siblings |-> [i \in 1 .. heights[index] |->
                       [height |-> i - 1, side |-> IF Even(i - 1) THEN "right" ELSE "left",
                        root |-> NodeRoot(s, i - 1, start + (Block(i - 1) + (IF Even(i - 1) THEN 1 ELSE -1))
                                                              * 2 ^ (i - 1))]]]

(* The complete blocks of 2^h leaves among the first n.                    *)
Blocks(n) == {b \in (0 .. Width - 1) \X (1 .. n) :
                (b[2] - 1) % 2 ^ b[1] = 0 /\ b[2] + 2 ^ b[1] - 1 <= n}

(* The keys of a stream that has n revisions.                              *)
Keyspace(s, n) ==
  {HeadKey(Stream) : r \in 1 .. n}
    \cup {EventKey(Stream, r) : r \in 1 .. n}
    \cup {TimeKey(Stream, EventAt(s, r).occurredAt, r) : r \in 1 .. n}
    \cup {revisionStreamMerkleKey(Stream, b[1], b[2]) : b \in Blocks(n)}

OlderCopy(s, n) ==
  [key \in Keyspace(s, n) |-> IF key = HeadKey(Stream) THEN HeadValue(HeadAt(s, n)) ELSE s[key]]

(* The heads that receipts and query pages have shown to callers.          *)
IssuedHeads ==
  {NoHead} \cup {HeadAt(store, n) : n \in 1 .. HeadOf(store).revision}
           \cup {HeadAt(lost, n) : n \in 1 .. HeadOf(lost).revision}

-----------------------------------------------------------------------------
StreamInit ==
  /\ store = << >>
  /\ lost = << >>

(* Core applies the command when all of its conditions hold.               *)
Applies(built, s) ==
  /\ Value(s, HeadKey(Stream)) = HeadValue(built.expected)
  /\ built.absent \cap DOMAIN s = {}

Written(puts, s) ==
  [key \in DOMAIN puts \cup DOMAIN s |-> IF key \in DOMAIN puts THEN puts[key] ELSE s[key]]

(* One append: the request is built and sealed over the head the writer    *)
(* holds, and executed.  A conflict changes nothing.                       *)
RevisionStreamAppend(expectedHead, occurredAt, payload) ==
  LET built == buildRevisionStreamAppend(Stream, expectedHead, occurredAt, payload)
  IN  /\ expectedHead.revision < MaxRevision
      /\ built.ok
      /\ store' = IF Applies(built, store) THEN Written(built.puts, store) ELSE store
      /\ UNCHANGED lost

(* Core comes back with an older copy of its data (once).                  *)
Restore(n) ==
  /\ lost = << >>
  /\ lost' = store
  /\ store' = OlderCopy(store, n)

StreamNext ==
  \/ \E head \in IssuedHeads, occurredAt \in Times, payload \in Payloads :
       RevisionStreamAppend(head, occurredAt, payload)
  \/ \E n \in 0 .. HeadOf(store).revision - 1 : Restore(n)

StreamSpec == StreamInit /\ [][StreamNext]_streamVars

-----------------------------------------------------------------------------
(* The Merkle trees over the complete blocks, by their definition: a leaf  *)
(* per event, and above it the hash of two neighbours of the same height.  *)
MerkleTrees(s) ==
  LET n == HeadOf(s).revision
      tree[h \in 0 .. Width - 1] ==
        [start \in 1 .. n |->
           IF h = 0 THEN calculateRevisionStreamMerkleLeaf(Stream, start, EventAt(s, start).content)
           ELSE IF start + 2 ^ (h - 1) > n THEN <<>>
           ELSE calculateRevisionStreamMerkleNode(Stream, h, start, tree[h - 1][start],
                                                  tree[h - 1][start + 2 ^ (h - 1)])]
  IN  tree

TreeRoot(s, block) == MerkleTrees(s)[block[1]][block[2]]

(* Whatever heads the racing writers extend, the keyspace holds exactly    *)
(* the events of revisions 1 to n, chained by their roots and ordered in   *)
(* time, one time key each, the Merkle tree of every complete block and    *)
(* the head of the last event: the merge loop (lines 662-675) never skips, *)
(* repeats or misplaces a node.                                            *)
StoreIsCanonical ==
  LET n == HeadOf(store).revision
      Event(r) == EventAt(store, r)
  IN  /\ DOMAIN store = Keyspace(store, n)
      /\ \A r \in 1 .. n : Event(r).previousRoot = IF r = 1 THEN ZeroRoot ELSE Event(r - 1).root
      /\ \A r \in 2 .. n : Event(r - 1).occurredAt <= Event(r).occurredAt
      /\ \A b \in Blocks(n) : NodeRoot(store, b[1], b[2]) = TreeRoot(store, b)
      /\ n > 0 => HeadOf(store) = HeadAt(store, n)

(* The SDK can extend every head it issued, up to the last revision a      *)
(* uint64 holds, and an append that finds the head it expects meets none   *)
(* of its other keys: they are fresh, and a conflict means that another    *)
(* writer moved the head (lines 247-402).                                  *)
HeadsCanBeExtended ==
  \A head \in IssuedHeads, occurredAt \in Times, payload \in Payloads :
    LET built == buildRevisionStreamAppend(Stream, head, occurredAt, payload)
    IN  /\ built.ok <=> /\ head.revision # MaxUint
                        /\ head = NoHead \/ occurredAt >= head.lastOccurredAt
        /\ head = HeadOf(store) /\ built.ok => Applies(built, store)

(* Proofs that differ from a genuine one in a single place.                *)
DamagedInclusions(proof, s) ==
  {[proof EXCEPT !.siblings[i].root = NodeRoot(s, b[1], b[2])] :
     i \in DOMAIN proof.siblings, b \in Blocks(HeadOf(s).revision)}
  \cup {[proof EXCEPT !.siblings[i].side = IF @ = "left" THEN "right" ELSE "left"] : i \in DOMAIN proof.siblings}
  \cup {[proof EXCEPT !.siblings = SubSeq(@, 1, i)] : i \in 0 .. Len(proof.siblings)}
  \cup {[proof EXCEPT !.peakIndex = i] : i \in 0 .. Width}
  \cup {[proof EXCEPT !.revision = r] : r \in 1 .. HeadOf(s).revision}

(* An inclusion proof is accepted for the content a revision really has,   *)
(* in the form Core derives it, and for nothing else (lines 1561-1608).    *)
InclusionExact ==
  LET n == HeadOf(store).revision
  IN  \A r \in 1 .. n :
        LET genuine == InclusionAt(store, n, r)
        IN  \A c \in 1 .. n, proof \in {genuine} \cup DamagedInclusions(genuine, store) :
              LET content == EventAt(store, c).content
                  leaf == calculateRevisionStreamMerkleLeaf(Stream, r, content)
              IN  verifyRevisionStreamInclusion(Stream, HeadOf(store), r, content, [proof EXCEPT !.leaf = leaf])
                    <=> c = r /\ proof = genuine
=============================================================================
