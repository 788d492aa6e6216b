-------------------------- MODULE RevisionStreamQuery --------------------------
(***************************************************************************)
(* A reader that fetches the events of a time window page by page from a   *)
(* stream that grows, and may be restored, between its calls:              *)
(* NewRevisionStreamQueryRequest, NewPinnedRevisionStreamQueryRequest,     *)
(* RevisionStreamQuery and NextRequest of revision_stream.go.              *)
(*                                                                         *)
(* The answers a call may get are those of Core to this request, to any    *)
(* other request, from any earlier state of the stream or from the branch  *)
(* that a restore abandoned, and answers that differ from the right one in *)
(* one place.  Nil is 0 for revisions and cursors and NoRange, NoPoint,    *)
(* NoHead for the rest; the decoders refuse a revision 0 everywhere.       *)
(***************************************************************************)
EXTENDS RevisionStream

CONSTANTS Windows,   \* pairs <<from, until>> of occurred_at bounds
          Limits     \* page limits callers ask for

ASSUME LimitAssumption == Limits \subseteq Nat \ {0}
ASSUME WindowsAssumption == Windows \subseteq Int \X Int

VARIABLES phase,     \* "idle", "open" or "done"
          request,   \* the next request; once done, the heads of the last page
          entries    \* the entries of the pages accepted so far

readerVars == <<phase, request, entries>>
vars == <<streamVars, readerVars>>

NoRange == [first |-> 0, last |-> 0]
NoPoint == [revision |-> 0]
NoRequest == [from |-> 0, until |-> 0, limit |-> 0, pinned |-> NoHead, after |-> 0,
              window |-> NoRange, previousRoot |-> ZeroRoot, minimumLive |-> NoHead]

newRevisionStreamQueryRequest(q) ==
  /\ q.from < q.until
  /\ q.limit # 0
  /\ q.pinned # NoHead => validateRevisionStreamHead(Stream, q.pinned)
  /\ q.after # 0 =>
       /\ q.pinned # NoHead /\ q.after < q.pinned.revision
       /\ q.window # NoRange /\ q.previousRoot # ZeroRoot /\ q.minimumLive # NoHead

-----------------------------------------------------------------------------
(* verifyRevisionStreamQueryPage, by what it establishes.                  *)

InTime(q, item) == q.from <= item.occurredAt /\ item.occurredAt < q.until

(* Mutant: an event at the lower bound itself counts as outside.           *)
LowerBracket_Inclusive(q, p) ==
  IF p.window.first = 1 THEN p.predecessor = NoPoint
  ELSE p.predecessor.revision = p.window.first - 1 /\ p.predecessor.occurredAt <= q.from

LowerBracket(q, p) ==
  IF p.window.first = 1 THEN p.predecessor = NoPoint
  ELSE p.predecessor.revision = p.window.first - 1 /\ p.predecessor.occurredAt < q.from

UpperBracket(q, p) ==
  IF p.window.last = p.pinned.revision THEN p.successor = NoPoint
  ELSE p.successor.revision = p.window.last + 1 /\ p.successor.occurredAt >= q.until

(* Its ends lie in the time range, their neighbours do not.                *)
WindowBracketed(q, p) ==
  /\ p.first.revision = p.window.first /\ p.last.revision = p.window.last
  /\ InTime(q, p.first) /\ InTime(q, p.last)
  /\ LowerBracket(q, p)
  /\ UpperBracket(q, p)

(* Mutant: a window behind the last event is not recognised.               *)
NoRoomForAnEvent_NotAtTheEnd(p) ==
  \/ /\ p.predecessor # NoPoint /\ p.successor # NoPoint
     /\ p.predecessor.revision + 1 = p.successor.revision
  \/ p.predecessor = NoPoint /\ p.successor.revision = 1

(* Two neighbours, or an end of the stream.                                *)
NoRoomForAnEvent(p) ==
  \/ /\ p.predecessor # NoPoint /\ p.successor # NoPoint
     /\ p.predecessor.revision # MaxUint
     /\ p.predecessor.revision + 1 = p.successor.revision
  \/ p.predecessor = NoPoint /\ p.successor.revision = 1
  \/ p.predecessor # NoPoint /\ p.predecessor.revision = p.pinned.revision /\ p.successor = NoPoint

EmptyWindowBracketed(q, p) ==
  /\ p.first = NoPoint /\ p.last = NoPoint
  /\ p.predecessor # NoPoint => p.predecessor.occurredAt < q.from
  /\ p.successor # NoPoint => p.successor.occurredAt >= q.until
  /\ NoRoomForAnEvent(p)

PageFollowsCursor(q, p) ==
  /\ q.after # 0 => p.window # NoRange /\ p.window.first <= q.after /\ q.after <= p.window.last
                    /\ q.after < p.pinned.revision
  /\ IF p.entries = <<>>
     THEN p.page = NoRange /\ (p.window # NoRange => q.after # 0 /\ q.after = p.window.last)
     ELSE /\ p.page = [first |-> p.entries[1].revision, last |-> p.entries[Len(p.entries)].revision]
          /\ p.page.first = IF q.after # 0 THEN q.after + 1 ELSE p.window.first
  /\ Len(p.entries) <= q.limit

EntriesChained(q, p) ==
  \A i \in DOMAIN p.entries :
    LET entry == p.entries[i]
    IN  /\ i > 1 => /\ p.entries[i - 1].revision # MaxUint
                    /\ p.entries[i - 1].revision + 1 = entry.revision
                    /\ entry.previousRoot = p.entries[i - 1].root
        /\ InTime(q, entry)
        /\ p.window # NoRange /\ p.window.first <= entry.revision /\ entry.revision <= p.window.last
        /\ verifyRevisionStreamEntryInclusion(Stream, p.pinned, entry, p.entryProofs[i])

(* The root of the last entry is vouched for by what follows it.           *)
TailAuthenticated(p) ==
  p.entries # <<>> =>
    LET tail == p.entries[Len(p.entries)]
    IN  IF tail.revision = p.pinned.revision
        THEN p.pageSuccessor = NoPoint /\ tail.root = p.pinned.root
        ELSE p.pageSuccessor.revision = tail.revision + 1 /\ p.pageSuccessor.previousRoot = tail.root

verifyRevisionStreamQueryPage(q, p) ==
  /\ p.proofRoot = p.pinned.proof.root
  /\ Len(p.entryProofs) = Len(p.entries)
  /\ LET points == <<p.predecessor, p.first, p.last, p.successor, p.pageSuccessor>>
     IN  \A i \in DOMAIN points :
           points[i] # NoPoint => verifyRevisionStreamProofPoint(Stream, p.pinned, points[i])
  /\ IF p.window # NoRange THEN WindowBracketed(q, p) ELSE EmptyWindowBracketed(q, p)
  /\ PageFollowsCursor(q, p)
  /\ EntriesChained(q, p)
  /\ TailAuthenticated(p)
  /\ p.hasMore <=> p.page # NoRange /\ p.window # NoRange /\ p.page.last < p.window.last
  /\ p.next = IF p.hasMore THEN p.page.last ELSE 0

-----------------------------------------------------------------------------
decodeRevisionStreamRange(range) == range = NoRange \/ (range.first # 0 /\ range.first <= range.last)

(* A live head does not go back behind a head seen before it.              *)
Follows(live, head) ==
  /\ live.revision >= head.revision
  /\ live.lastOccurredAt >= head.lastOccurredAt
  /\ live.revision = head.revision => live = head

(* Mutant: the live head of the previous page is forgotten.                *)
LiveHeadChecked_NoMinimum(q, p) ==
  /\ Follows(p.live, p.pinned)
  /\ q.pinned = NoHead => p.live = p.pinned

LiveHeadChecked(q, p) ==
  /\ Follows(p.live, p.pinned)
  /\ q.pinned = NoHead => p.live = p.pinned
  /\ q.minimumLive # NoHead => Follows(p.live, q.minimumLive)

PageInWindow(q, p) ==
  /\ (p.entries = <<>>) <=> (p.page = NoRange)
  /\ p.window = NoRange => p.page = NoRange
  /\ p.page # NoRange =>
       /\ p.window.first <= p.page.first /\ p.page.last <= p.window.last
       /\ p.page = [first |-> p.entries[1].revision, last |-> p.entries[Len(p.entries)].revision]
       /\ q.after = 0 => p.page.first = p.window.first
  /\ IF p.hasMore
     THEN p.page # NoRange /\ p.next = p.page.last /\ p.page.last < p.window.last
     ELSE p.next = 0 /\ (p.page # NoRange => p.page.last = p.window.last)

decodeRevisionStreamQueryPage(q, p) ==
  /\ p.pinned # NoHead /\ validateRevisionStreamHead(Stream, p.pinned)
  /\ p.live # NoHead /\ validateRevisionStreamHead(Stream, p.live)
  /\ q.pinned # NoHead => p.pinned = q.pinned
  /\ LiveHeadChecked(q, p)
  /\ decodeRevisionStreamRange(p.window) /\ decodeRevisionStreamRange(p.page)
  /\ q.window # NoRange => p.window = q.window
  /\ p.window # NoRange => p.window.last <= p.pinned.revision
  /\ \A i \in DOMAIN p.entries : p.entries[i].revision \in 1 .. p.pinned.revision
  /\ PageInWindow(q, p)
  /\ verifyRevisionStreamQueryPage(q, p)
  /\ q.after # 0 /\ p.entries # <<>> => p.entries[1].previousRoot = q.previousRoot

-----------------------------------------------------------------------------
(* External: Core's answers.                                               *)

PointAt(s, n, r) ==
  IF r \notin 1 .. n THEN NoPoint
  ELSE LET e == EventAt(s, r)
       IN  [revision |-> r, occurredAt |-> e.occurredAt, payloadSHA |-> e.payloadSHA,
            previousRoot |-> e.previousRoot, content |-> e.content, proofRoot |-> e.proofRoot,
            root |-> e.root, inclusion |-> InclusionAt(s, n, r)]

Revisions(s, n, from, until) ==
  {r \in 1 .. n : from <= EventAt(s, r).occurredAt /\ EventAt(s, r).occurredAt < until}

(* The page of revisions first..last (none if first > last) of a window.   *)
PageOf(s, n, live, window, before, first, last) ==
  LET empty == first > last
  IN  [pinned |-> HeadAt(s, n), live |-> HeadAt(s, live), window |-> window,
       page |-> IF empty THEN NoRange ELSE [first |-> first, last |-> last],
       hasMore |-> ~empty /\ last < window.last,
       next |-> IF ~empty /\ last < window.last THEN last ELSE 0,
       entries |-> [i \in 1 .. last - first + 1 |-> EventAt(s, first + i - 1)],
       entryProofs |-> [i \in 1 .. last - first + 1 |-> InclusionAt(s, n, first + i - 1)],
       proofRoot |-> HeadAt(s, n).proof.root,
       predecessor |-> PointAt(s, n, before),
       first |-> PointAt(s, n, window.first), last |-> PointAt(s, n, window.last),
       successor |-> PointAt(s, n, IF window = NoRange THEN before + 1 ELSE window.last + 1),
       pageSuccessor |-> IF empty THEN NoPoint ELSE PointAt(s, n, last + 1)]

(* Core's answer for the first n revisions of s while s has live.          *)
CorePage(s, n, live, from, until, after, limit) ==
  LET inside == Revisions(s, n, from, until)
      before == Cardinality({r \in 1 .. n : EventAt(s, r).occurredAt < from})
      size == Cardinality(inside)
      first == IF after = 0 THEN before + 1 ELSE after + 1
      end == before + size
  IN  PageOf(s, n, live, IF size = 0 THEN NoRange ELSE [first |-> before + 1, last |-> end], before,
             first, IF first + limit - 1 < end THEN first + limit - 1 ELSE end)

(* Core knows the pinned head and everything that was seen of the stream.  *)
Knows(s, head) == head = NoHead \/ head \in {HeadAt(s, n) : n \in 1 .. HeadOf(s).revision}

RightAnswer(s, q) ==
  CorePage(s, IF q.pinned = NoHead THEN HeadOf(s).revision ELSE q.pinned.revision, HeadOf(s).revision,
           q.from, q.until, q.after, q.limit)

(* A point or an entry that claims another time, all digests recomputed.   *)
Retimed(item, t) ==
  LET content == calculateRevisionStreamContent(Stream, item.previousRoot, item.revision, t, item.payloadSHA)
  IN  [item EXCEPT !.occurredAt = t, !.content = content,
                   !.root = calculateRevisionStreamHeadRoot(Stream, item.revision, t, content, item.proofRoot)]

RetimedPoint(point, t) ==
  LET moved == Retimed(point, t)
  IN  [moved EXCEPT !.inclusion.leaf = calculateRevisionStreamMerkleLeaf(Stream, moved.revision, moved.content)]

(* An entry whose proof root is not the stream's.                          *)
Uprooted(item) ==
  [item EXCEPT !.proofRoot = ZeroRoot,
               !.root = calculateRevisionStreamHeadRoot(Stream, item.revision, item.occurredAt, item.content, ZeroRoot)]

Damaged(s, p) ==
  LET n == p.pinned.revision
      ranges == {NoRange} \cup {[first |-> r[1], last |-> r[2]] : r \in (1 .. n) \X (1 .. n)}
      genuine == {PointAt(s, n, r) : r \in 1 .. n}
      points == {NoPoint} \cup genuine \cup {RetimedPoint(x, t) : x \in genuine, t \in Times}
  IN  {[p EXCEPT !.window = r] : r \in ranges}
        \cup {[p EXCEPT !.page = r] : r \in ranges}
        \cup {[p EXCEPT !.next = r] : r \in 0 .. n}
        \cup {[p EXCEPT !.hasMore = ~@]}
        \cup {[p EXCEPT !.predecessor = x] : x \in points}
        \cup {[p EXCEPT !.first = x] : x \in points}
        \cup {[p EXCEPT !.last = x] : x \in points}
        \cup {[p EXCEPT !.successor = x] : x \in points}
        \cup {[p EXCEPT !.pageSuccessor = x] : x \in points}
        \cup {[p EXCEPT !.pinned = h] : h \in IssuedHeads}
        \cup {[p EXCEPT !.live = h] : h \in IssuedHeads}
        \cup {[p EXCEPT !.entries[i].payload = "other"] : i \in DOMAIN p.entries}
        \cup {[p EXCEPT !.entries[i] = Uprooted(@)] : i \in DOMAIN p.entries}
        \cup {[p EXCEPT !.entries[i] = Retimed(@, t)] : i \in DOMAIN p.entries, t \in Times}
        \cup {[p EXCEPT !.entries = SubSeq(@, 1, Len(@) - 1)]}
        \cup {PageOf(s, n, p.live.revision, p.window, p.predecessor.revision, first, last) :
                first \in 1 .. n, last \in 0 .. n}

-----------------------------------------------------------------------------
ReaderInit == phase = "idle" /\ request = NoRequest /\ entries = <<>>

Init == StreamInit /\ ReaderInit

(* NewRevisionStreamQueryRequest, or the pinned form over any known head.  *)
NewQuery(window, pinned, limit) ==
  LET q == [NoRequest EXCEPT !.from = window[1], !.until = window[2], !.pinned = pinned, !.limit = limit]
  IN  /\ phase = "idle"
      /\ newRevisionStreamQueryRequest(q)
      /\ phase' = "open" /\ request' = q
      /\ UNCHANGED <<streamVars, entries>>

(* The continuation of an accepted page, and the request made from it.     *)
NextRequest(q, p, limit) ==
  [q EXCEPT !.pinned = p.pinned, !.after = p.next, !.window = p.window,
            !.previousRoot = p.entries[Len(p.entries)].root, !.minimumLive = p.live, !.limit = limit]

(* RevisionStreamQuery: one call and, if there is more, the next request.  *)
(* A refused page is an error; the caller keeps its request, so that the   *)
(* call is a stuttering step.                                              *)
RevisionStreamQuery(p) ==
  /\ newRevisionStreamQueryRequest(request)
  /\ decodeRevisionStreamQueryPage(request, p)
  /\ entries' = entries \o p.entries
  /\ \/ /\ p.hasMore
        /\ \E limit \in Limits : request' = NextRequest(request, p, limit)
        /\ UNCHANGED phase
     \/ /\ ~p.hasMore
        /\ request' = [request EXCEPT !.pinned = p.pinned, !.minimumLive = p.live]
        /\ phase' = "done"
  /\ UNCHANGED streamVars

(* The answer to any request about any prefix, of either branch.           *)
MisdirectedAnswer ==
  /\ phase = "open"
  /\ \E s \in {store, lost} :
       \E n \in 1 .. HeadOf(s).revision, window \in Windows, limit \in Limits :
         \E live \in n .. HeadOf(s).revision, after \in 0 .. n - 1 :
           RevisionStreamQuery(CorePage(s, n, live, window[1], window[2], after, limit))

(* The right answer, or one that differs from it in one place.             *)
DamagedAnswer ==
  /\ phase = "open"
  /\ \E s \in {store, lost} :
       /\ HeadOf(s) # NoHead /\ Knows(s, request.pinned)
       /\ \E p \in Damaged(s, RightAnswer(s, request)) : RevisionStreamQuery(p)

Next ==
  \/ StreamNext /\ UNCHANGED readerVars
  \/ \E window \in Windows, pinned \in IssuedHeads, limit \in Limits : NewQuery(window, pinned, limit)
  \/ MisdirectedAnswer
  \/ DamagedAnswer

Spec == Init /\ [][Next]_vars

-----------------------------------------------------------------------------
Sources == {s \in {store, lost} : request.pinned # NoHead /\ Knows(s, request.pinned)}

(* What the reader holds is the pinned stream's own events of the time     *)
(* window, from its first one on, without a gap, a repetition or a change; *)
(* when the query ends nothing of the window is missing (lines 1406-1508:  *)
(* brackets, cursor, hash chain and inclusion proofs together).            *)
PagesAreTheWindow ==
  phase # "idle" /\ request.pinned # NoHead =>
    \A s \in Sources :
      LET inside == Revisions(s, request.pinned.revision, request.from, request.until)
          skipped == Cardinality({r \in 1 .. request.pinned.revision : EventAt(s, r).occurredAt < request.from})
      IN  /\ Len(entries) <= Cardinality(inside)
          /\ \A i \in DOMAIN entries : entries[i] = EventAt(s, skipped + i)
          /\ phase = "done" => Len(entries) = Cardinality(inside)

(* The right answer of a Core that still knows what the reader was shown   *)
(* is accepted, whatever was appended since: the checks of the decoder     *)
(* refuse no page of a growing stream (lines 1254-1349).                   *)
RightAnswerAccepted ==
  phase = "open" =>
    \A s \in {store, lost} :
      HeadOf(s) # NoHead /\ Knows(s, request.pinned) /\ Knows(s, request.minimumLive)
        => decodeRevisionStreamQueryPage(request, RightAnswer(s, request))

(* An accepted page is progress: it ends the query or moves the cursor     *)
(* forward inside an unchanged pinned window, and the live heads shown to  *)
(* the caller never go back, even over a restore (lines 1074-1078, 1279).  *)
QueryAdvances ==
  [][phase = "open" /\ readerVars' # readerVars =>
       /\ request.minimumLive # NoHead => Follows(request'.minimumLive, request.minimumLive)
       /\ request.pinned # NoHead => request'.pinned = request.pinned
       /\ phase' = "open" => /\ request'.after > request.after
                             /\ request'.after < request'.window.last
                             /\ request.after # 0 => request'.window = request.window]_vars
=============================================================================
