--------------------------- MODULE RevisionStreamMMR ---------------------------
(***************************************************************************)
(* The authenticated structure of a revision stream: digests, Merkle       *)
(* mountain range, heads and inclusion proofs of revision_stream.go.       *)
(*                                                                         *)
(* SHA-256 over a domain string and fixed-width fields is injective: a     *)
(* digest is the tuple it hashes.  Versions and the hexadecimal spelling   *)
(* are left out: a digest or a version that is off contract fails to       *)
(* decode.  The nil head has revision 0, which no valid head has.          *)
(***************************************************************************)
EXTENDS Integers, Sequences

CONSTANT Width   \* bits of a revision: 64 in the code

ASSUME WidthAssumption == Width \in Nat \ {0}

MaxUint == 2 ^ Width - 1
NoHead == [revision |-> 0]
ZeroRoot == <<>>

revisionStreamHash(domain, stream, values) == <<domain, stream, values>>
PayloadSHA(payload) == <<"payload", payload>>

calculateRevisionStreamContent(stream, previousRoot, revision, occurredAt, payloadSHA) ==
  revisionStreamHash("content", stream, <<previousRoot, revision, occurredAt, payloadSHA>>)

calculateRevisionStreamMerkleLeaf(stream, revision, content) ==
  revisionStreamHash("leaf", stream, <<revision, content>>)

calculateRevisionStreamMerkleNode(stream, height, startRevision, left, right) ==
  revisionStreamHash("node", stream, <<height, startRevision, left, right>>)

calculateRevisionStreamMerkleRoot(stream, leafCount, peaks) ==
  revisionStreamHash("root", stream, <<leafCount, peaks>>)

calculateRevisionStreamHeadRoot(stream, revision, occurredAt, content, proofRoot) ==
  revisionStreamHash("head", stream, <<revision, occurredAt, content, proofRoot>>)

-----------------------------------------------------------------------------
(* Peaks.  One peak per binary digit 1 of the leaf count, highest first;   *)
(* it starts after the leaves of the higher digits.                        *)

PeakHeights(leafCount) == {h \in 0 .. Width - 1 : (leafCount \div 2 ^ h) % 2 = 1}
PeakStart(leafCount, h) == 1 + (leafCount \div 2 ^ (h + 1)) * 2 ^ (h + 1)

CanonicalLayout(leafCount, peaks) ==
  /\ {peaks[i].height : i \in DOMAIN peaks} = PeakHeights(leafCount)
  /\ \A i, j \in DOMAIN peaks : i < j => peaks[i].height > peaks[j].height
  /\ \A i \in DOMAIN peaks : peaks[i].startRevision = PeakStart(leafCount, peaks[i].height)

validateRevisionStreamPeaks(stream, leafCount, peaks, expectedRoot) ==
  /\ CanonicalLayout(leafCount, peaks)
  /\ calculateRevisionStreamMerkleRoot(stream, leafCount, peaks) = expectedRoot

(* The peaks the new leaf swallows: as long as the last peak is as high as *)
(* the node that was just created.                                         *)
Merges(previous) ==
  CHOOSE k \in 0 .. Len(previous) :
    /\ \A j \in 0 .. k - 1 : previous[Len(previous) - j].height = j
    /\ k < Len(previous) => previous[Len(previous) - k].height # k

(* Mutant: the merged node keeps the start of its right child.             *)
CreatedNodes_RightStart(stream, previous, revision, leaf) ==
  LET node[k \in 0 .. Merges(previous)] ==
        IF k = 0 THEN [height |-> 0, startRevision |-> revision, root |-> leaf]
        ELSE LET left == previous[Len(previous) - k + 1]
             IN  [height |-> k, startRevision |-> node[k - 1].startRevision,
                  root |-> calculateRevisionStreamMerkleNode(
                             stream, k, node[k - 1].startRevision, left.root, node[k - 1].root)]
  IN  node

(* Mutant: a parent is hashed over its children in the wrong order.        *)
CreatedNodes_Swapped(stream, previous, revision, leaf) ==
  LET node[k \in 0 .. Merges(previous)] ==
        IF k = 0 THEN [height |-> 0, startRevision |-> revision, root |-> leaf]
        ELSE LET left == previous[Len(previous) - k + 1]
             IN  [height |-> k, startRevision |-> left.startRevision,
                  root |-> calculateRevisionStreamMerkleNode(
                             stream, k, left.startRevision, node[k - 1].root, left.root)]
  IN  node

(* created: the leaf, then one node per merge.                             *)
CreatedNodes(stream, previous, revision, leaf) ==
  LET node[k \in 0 .. Merges(previous)] ==
        IF k = 0 THEN [height |-> 0, startRevision |-> revision, root |-> leaf]
        ELSE LET left == previous[Len(previous) - k + 1]
             IN  [height |-> k, startRevision |-> left.startRevision,
                  root |-> calculateRevisionStreamMerkleNode(
                             stream, k, left.startRevision, left.root, node[k - 1].root)]
  IN  node

(* ok is FALSE where the code returns an error.                            *)
appendRevisionStreamMerkleLeaf(stream, previous, revision, leaf) ==
  LET created == CreatedNodes(stream, previous, revision, leaf)
      merges == Merges(previous)
      peaks == Append(SubSeq(previous, 1, Len(previous) - merges), created[merges])
  IN  [ok      |-> /\ IF revision = 1 THEN previous = <<>> ELSE CanonicalLayout(revision - 1, previous)
                   /\ \A k \in 0 .. merges - 1 :
                        /\ previous[Len(previous) - k].startRevision + 2 ^ k = created[k].startRevision
                        /\ k # Width - 1
                   /\ CanonicalLayout(revision, peaks),
       peaks   |-> peaks,
       created |-> created]

validateRevisionStreamHead(stream, head) ==
  /\ head.revision # 0
  /\ head.proof.leafCount = head.revision
  /\ validateRevisionStreamPeaks(stream, head.proof.leafCount, head.proof.peaks, head.proof.root)
  /\ head.root = calculateRevisionStreamHeadRoot(stream, head.revision, head.lastOccurredAt,
                                                 head.proof.lastContent, head.proof.root)

-----------------------------------------------------------------------------
(* The keys of the internal keyspace.                                      *)
HeadKey(stream) == <<"HRS1", stream>>
EventKey(stream, revision) == <<"ERS1", stream, revision>>
TimeKey(stream, occurredAt, revision) == <<"TRS1", stream, occurredAt, revision>>
revisionStreamMerkleKey(stream, height, startRevision) == <<"MRS1", stream, height, startRevision>>

(* An append request names the head it extends, NoHead for the first one.  *)
(* built.conditions are the comparisons of the command (all with           *)
(* CompareEqual, "absent" for a nil value), built.mutations its puts.      *)
buildRevisionStreamAppend(stream, expectedHead, occurredAt, payload) ==
  LET genesis == expectedHead = NoHead
      revision == expectedHead.revision + 1
      previousRoot == IF genesis THEN ZeroRoot ELSE expectedHead.root
      payloadSHA == PayloadSHA(payload)
      content == calculateRevisionStreamContent(stream, previousRoot, revision, occurredAt, payloadSHA)
      tree == appendRevisionStreamMerkleLeaf(stream, IF genesis THEN <<>> ELSE expectedHead.proof.peaks, revision,
                                             calculateRevisionStreamMerkleLeaf(stream, revision, content))
      proofRoot == calculateRevisionStreamMerkleRoot(stream, revision, tree.peaks)
      root == calculateRevisionStreamHeadRoot(stream, revision, occurredAt, content, proofRoot)
      head == [revision |-> revision, lastOccurredAt |-> occurredAt, root |-> root,
               proof |-> [leafCount |-> revision, root |-> proofRoot, lastContent |-> content, peaks |-> tree.peaks]]
      event == [revision |-> revision, occurredAt |-> occurredAt, previousRoot |-> previousRoot,
                payloadSHA |-> payloadSHA, content |-> content, proofRoot |-> proofRoot, root |-> root,
                payload |-> payload]
      nodeKey(k) == revisionStreamMerkleKey(stream, tree.created[k].height, tree.created[k].startRevision)
      newKeys == {EventKey(stream, revision), TimeKey(stream, occurredAt, revision)}
                   \cup {nodeKey(k) : k \in DOMAIN tree.created}
  IN  [ok        |-> /\ ~genesis => /\ validateRevisionStreamHead(stream, expectedHead)
                                    /\ expectedHead.revision # MaxUint
                                    /\ occurredAt >= expectedHead.lastOccurredAt
                     /\ tree.ok,
       head      |-> head,
       expected  |-> expectedHead,
       absent    |-> newKeys,
       puts      |-> [key \in newKeys \cup {HeadKey(stream)} |->
                        CASE key = HeadKey(stream) -> <<"head", head>>
                          [] key = EventKey(stream, revision) -> <<"event", event>>
                          [] key = TimeKey(stream, occurredAt, revision) -> <<"digest", root>>
                          [] OTHER -> LET k == CHOOSE k \in DOMAIN tree.created : nodeKey(k) = key
                                      IN  <<"digest", tree.created[k].root>>]]

-----------------------------------------------------------------------------
(* Inclusion proofs: [revision, peakIndex, leaf, siblings], a sibling is   *)
(* [height, side, root].                                                   *)

(* Mutant: the position in the peak is counted from one.                   *)
IsRight_OffByOne(local, h) == ((local + 1) \div 2 ^ h) % 2 = 1

(* The block of height h that holds leaf local is a right child.           *)
IsRight(local, h) == (local \div 2 ^ h) % 2 = 1

(* The roots from the leaf up to its peak: current after every sibling.    *)
ClimbedRoots(stream, peak, revision, content, inclusion) ==
  LET local == revision - peak.startRevision
      ParentStart(h) == peak.startRevision + (local \div 2 ^ h) * 2 ^ h - (IF IsRight(local, h) THEN 2 ^ h ELSE 0)
      current[h \in 0 .. Len(inclusion.siblings)] ==
        IF h = 0 THEN calculateRevisionStreamMerkleLeaf(stream, revision, content)
        ELSE LET sibling == inclusion.siblings[h].root
             IN  IF IsRight(local, h - 1)
                 THEN calculateRevisionStreamMerkleNode(stream, h, ParentStart(h - 1), sibling, current[h - 1])
                 ELSE calculateRevisionStreamMerkleNode(stream, h, ParentStart(h - 1), current[h - 1], sibling)
  IN  current

verifyRevisionStreamInclusion(stream, pinned, revision, content, inclusion) ==
  /\ inclusion.revision = revision
  /\ inclusion.peakIndex \in DOMAIN pinned.proof.peaks
  /\ LET peak == pinned.proof.peaks[inclusion.peakIndex]
         local == revision - peak.startRevision
         steps == Len(inclusion.siblings)
         current == ClimbedRoots(stream, peak, revision, content, inclusion)
     IN  /\ local \in 0 .. 2 ^ peak.height - 1
         /\ steps = peak.height
         /\ inclusion.leaf = current[0]
         /\ \A i \in 1 .. steps :
              /\ inclusion.siblings[i].height = i - 1
              /\ inclusion.siblings[i].side = IF IsRight(local, i - 1) THEN "left" ELSE "right"
         /\ current[steps] = peak.root

(* What an entry and a proof point share: revision, time, digests.         *)
ItemDigests(stream, item) ==
  /\ item.content = calculateRevisionStreamContent(stream, item.previousRoot, item.revision, item.occurredAt,
                                                   item.payloadSHA)
  /\ item.root = calculateRevisionStreamHeadRoot(stream, item.revision, item.occurredAt, item.content,
                                                 item.proofRoot)

verifyRevisionStreamProofPoint(stream, pinned, point) ==
  /\ ItemDigests(stream, point)
  /\ verifyRevisionStreamInclusion(stream, pinned, point.revision, point.content, point.inclusion)

verifyRevisionStreamEntryInclusion(stream, pinned, entry, inclusion) ==
  /\ entry.payloadSHA = PayloadSHA(entry.payload)
  /\ ItemDigests(stream, entry)
  /\ verifyRevisionStreamInclusion(stream, pinned, entry.revision, entry.content, inclusion)
=============================================================================
