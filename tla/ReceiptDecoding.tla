---------------------------- MODULE ReceiptDecoding ----------------------------
(***************************************************************************)
(* One answer to a sealed conditional request or revision stream append,   *)
(* executed or looked up, as the SDK decodes it.  It is Core's, for any    *)
(* content of the store, or differs from Core's in a whole observation, in *)
(* outcome and conflict, or in an outer field, with its hash recomputed: a *)
(* faulty or divergent Core seals false evidence as carefully as true.     *)
(***************************************************************************)
EXTENDS RevisionStreamReceipt

CONSTANTS Requests,      \* sealed conditional requests
          Appends,       \* sealed appends
          Stores,        \* contents of a namespace
          AppendStores,  \* contents of a namespace and of the internal keyspace
          Revisions,     \* revisions Core assigns
          StreamValues,  \* what a false observation of an internal key may claim
          Positions      \* where a false conflict may be placed

IsAppend(r) == "stream" \in DOMAIN r

(* What sealing has checked of a request and of an append.                 *)
RequestItems(request) ==
  /\ request.namespace \in Namespaces
  /\ request.conditions \in Seq(Condition)
  /\ request.mutations \in Seq(Mutation)

AppendType(append) ==
  /\ append.namespace \in Namespaces \ {InternalKeyspace}
  /\ append.conditions \in Seq(Condition)
  /\ append.mutations \in Seq(Mutation)
  /\ append.nodes \in Seq(Int)
  /\ DOMAIN append.nodes \subseteq DOMAIN NodeKeys
  /\ {append.expectedHead, append.head, append.event, append.root} \subseteq Int

ASSUME RequestsAssumption == \A request \in Requests : ~IsAppend(request) /\ RequestItems(request)
ASSUME AppendsAssumption == \A append \in Appends : IsAppend(append) /\ AppendType(append)
ASSUME StoresAssumption ==
  /\ Stores \subseteq [Keys -> Values]
  /\ \A cells \in AppendStores : /\ \A k \in Keys : cells[k] \in Values
                                 /\ \A k \in InternalKeys : cells[k] \in Int
ASSUME ClaimsAssumption ==
  Revisions \subseteq Nat \ {0} /\ StreamValues \subseteq Int /\ Positions \subseteq Nat

VARIABLES sent,     \* the sealed request, conditional or append
          answer,   \* the result being decoded
          genuine   \* nothing of it was altered

vars == <<sent, answer, genuine>>

-----------------------------------------------------------------------------
(* What Core sends with a receipt, executed now or before, alone or with   *)
(* the quorum's evidence.                                                  *)
StreamReceiptOf(r, receipt) ==
  IF IsAppend(r) /\ receipt.outcome = "applied"
  THEN [form |-> "stream", stream |-> r.stream, head |-> r.head, payload |-> r.payload]
  ELSE NoStreamReceipt

ResultOf(r, receipt, duplicate, quorum) ==
  [result    |-> IF duplicate THEN "duplicate" ELSE receipt.outcome,
   original  |-> receipt.outcome,
   applied   |-> receipt.outcome = "applied",
   duplicate |-> duplicate,
   revision  |-> receipt.revision,
   receipt   |-> receipt,
   streamReceipt |-> StreamReceiptOf(r, receipt),
   quorum    |-> IF quorum
                 THEN [form |-> "quorum", requestID |-> receipt.requestID,
                       commandSHA |-> receipt.commandSHA, index |-> receipt.revision,
                       stage |-> "applied", durability |-> "quorum_fsync", resultSHA |-> receipt]
                 ELSE NoQuorum]

(* The lookup that finds the same receipt.                                 *)
LookupOf(w) ==
  [requestID |-> sent.id, result |-> IF w.receipt = NoReceipt THEN "indeterminate" ELSE "found",
   revision |-> w.revision, receipt |-> w.receipt, streamReceipt |-> w.streamReceipt, quorum |-> w.quorum]

Init ==
  /\ genuine = TRUE
  /\ \/ /\ sent \in {r \in Requests : WellFormed(r)}
        /\ \E cells \in Stores, revision \in Revisions, dup, q \in BOOLEAN :
             answer = ResultOf(sent, CoreReceipt(sent, cells, revision), dup, q)
     \/ /\ sent \in Appends
        /\ \E cells \in AppendStores, revision \in Revisions, dup, q \in BOOLEAN :
             answer = ResultOf(sent, CoreAppendReceipt(sent, cells, revision), dup, q)

(* What a false observation of a key may claim.                            *)
I64Pairs == {<<NoI64, NoI64>>, <<NoI64, 0>>} \cup (Int64 \X Int64)
ClaimedValues(o) == IF IsAppend(sent) /\ o.keyspace = InternalKeyspace THEN StreamValues ELSE Values
ClaimedI64(o) ==
  IF IsAppend(sent) /\ o.keyspace = InternalKeyspace THEN {<<NoI64, NoI64>>, <<0, 0>>} ELSE I64Pairs

Reseal(receipt) == ResultOf(sent, receipt, answer.duplicate, FALSE)

Altered == genuine /\ genuine' = FALSE /\ UNCHANGED sent

(* One condition reports other values or another verdict.                  *)
AlterCondition ==
  /\ Altered /\ answer.quorum = NoQuorum /\ ~answer.duplicate
  /\ \E i \in DOMAIN answer.receipt.conditions, t \in {"true", "false"} :
       \E v, w \in ClaimedValues(answer.receipt.conditions[i]) :
         answer' = Reseal([answer.receipt EXCEPT !.conditions[i].before = v, !.conditions[i].after = w,
                                               !.conditions[i].matched = t])

(* One mutation reports other values.                                      *)
AlterMutation ==
  /\ Altered /\ answer.quorum = NoQuorum /\ ~answer.duplicate
  /\ \E i \in DOMAIN answer.receipt.mutations :
       \E v, w \in ClaimedValues(answer.receipt.mutations[i]), n \in ClaimedI64(answer.receipt.mutations[i]) :
         answer' = Reseal([answer.receipt EXCEPT !.mutations[i].before = v, !.mutations[i].after = w,
                                               !.mutations[i].beforeI64 = n[1], !.mutations[i].afterI64 = n[2]])

(* Another outcome or another conflict over the same observations.         *)
AlterOutcome ==
  /\ Altered /\ answer.quorum = NoQuorum /\ ~answer.duplicate
  /\ \E o \in {"applied", "conflict"},
        c \in {NoConflict} \cup [kind: CounterConflicts \cup {"condition_failed"}, index: Positions] :
       answer' = Reseal([answer.receipt EXCEPT !.outcome = o, !.conflict = c])

(* Outer fields that disagree with the receipt they wrap.                  *)
AlterOuter ==
  /\ Altered
  /\ \/ \E r \in {"applied", "conflict", "duplicate"}, o \in {"applied", "conflict"}, t, d \in BOOLEAN :
          answer' = [answer EXCEPT !.result = r, !.original = o, !.applied = t, !.duplicate = d]
     \/ answer' = [answer EXCEPT !.revision = @ + 1]
     \/ \E id \in RequestIDs : answer' = [answer EXCEPT !.receipt.requestID = id]
     \/ answer.quorum # NoQuorum /\ \E s \in {"accepted", "committed"}, u \in {"local_fsync", "quorum_fsync"} :
          answer' = [answer EXCEPT !.quorum.stage = s, !.quorum.durability = u]
     \/ answer.quorum # NoQuorum /\ answer' = [answer EXCEPT !.receipt.outcome = "applied"]

(* A stream receipt that is missing, misplaced or of another append.       *)
AlterStreamReceipt ==
  /\ Altered /\ IsAppend(sent)
  /\ \/ answer' = [answer EXCEPT !.streamReceipt = NoStreamReceipt]
     \/ \E h \in StreamValues :
          answer' = [answer EXCEPT !.streamReceipt =
                       [form |-> "stream", stream |-> sent.stream, head |-> h, payload |-> sent.payload]]

(* A lookup that reports a quorum log entry instead of a receipt.          *)
ReportUndecided ==
  /\ Altered /\ IsAppend(sent) /\ answer.quorum # NoQuorum
  /\ \E s \in {"accepted", "committed", "applied"}, u \in {"local_fsync", "quorum_fsync"},
        h \in {NoReceipt, answer.receipt}, t \in {NoStreamReceipt, answer.streamReceipt} :
       answer' = [answer EXCEPT !.receipt = NoReceipt, !.revision = 0, !.streamReceipt = t,
                              !.quorum.stage = s, !.quorum.durability = u, !.quorum.resultSHA = h]

Next == AlterCondition \/ AlterMutation \/ AlterOutcome \/ AlterOuter \/ AlterStreamReceipt \/ ReportUndecided

Spec == Init /\ [][Next]_vars

-----------------------------------------------------------------------------
Accepted ==
  IF IsAppend(sent) THEN decodeRevisionStreamAppendResult(answer, sent)
                    ELSE decodeConditionalTransactionResult(answer, sent)

Found ==
  IF IsAppend(sent) THEN decodeRevisionStreamAppendReceiptLookup(LookupOf(answer), sent)
                    ELSE decodeConditionalReceiptLookup(LookupOf(answer), sent)

(* README 374-379: whatever Core durably decided is accepted, an absent    *)
(* counter, a full-range increment and every kind of conflict included:    *)
(* the SDK's checks reject no true receipt, so an applied transaction or   *)
(* append is never reported as indeterminate for want of evidence, and the *)
(* lookup that recovers it accepts what the execution accepts.             *)
GenuineAccepted == genuine => Accepted /\ Found

(* README 376-379: an accepted receipt proves its outcome.  Its evidence,  *)
(* read with exact integers and the meaning of each operator, leads to the *)
(* outcome and to the values it claims (conditional.go 721-784, 1045-1161) *)
(* and the outer fields repeat it.                                         *)
AcceptedIsJustified ==
  ~IsAppend(sent) /\ Accepted =>
    /\ Justified(answer.receipt, sent)
    /\ answer.applied = (answer.receipt.outcome = "applied")
    /\ answer.quorum # NoQuorum => answer.quorum.stage = "applied" /\ answer.quorum.resultSHA = answer.receipt

(* "A found receipt is checked against the complete append transaction,    *)
(* including internal stream writes" (revision_stream.go 167-169): the     *)
(* answer to an append, executed or looked up, is accepted only if its     *)
(* evidence shows that the side items and the stream's keys were changed   *)
(* together, from the head the caller expected to the head it sealed, or   *)
(* not at all, and the stream receipt says the same (774-968).  A lookup   *)
(* without a receipt decides nothing.                                      *)
AcceptedAppendIsJustified ==
  IsAppend(sent) /\ (Accepted \/ Found) =>
    IF answer.receipt = NoReceipt
    THEN answer.streamReceipt = NoStreamReceipt /\ answer.quorum.resultSHA = NoReceipt
    ELSE
    /\ AppendJustified(answer.receipt, sent)
    /\ (answer.receipt.outcome = "applied") <=> (answer.streamReceipt # NoStreamReceipt)
    /\ answer.streamReceipt # NoStreamReceipt => answer.streamReceipt.head = sent.head
=============================================================================
