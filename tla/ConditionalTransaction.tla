------------------------ MODULE ConditionalTransaction ------------------------
(***************************************************************************)
(* Callers that execute sealed conditional requests and recover their      *)
(* receipts, over the HTTP Server client or the embedded handle:           *)
(* client.go (storage, do, ExecuteConditionalTransaction,                  *)
(* ConditionalTransactionReceiptFor) and conditional.go of the root        *)
(* package.  The caller repeats executions and lookups of the same sealed  *)
(* request until it holds an outcome, as README 344-383 prescribes.        *)
(*                                                                         *)
(* External: the Core behind the transport.  It binds a request ID to one  *)
(* command, executes it at most once and keeps the receipt.  In a quorum   *)
(* deployment it first accepts the command into a log; an accepted entry   *)
(* may be lost by a failover, a committed one is applied.                  *)
(***************************************************************************)
EXTENDS ConditionalCore

CONSTANTS Callers,       \* goroutines holding a sealed request
          RequestOf,     \* RequestOf[c]: that request, from NewConditionalTransactionRequest
          InitialStores, \* stores a behavior may start from
          Transport,     \* "server" (HTTP) or "embedded" (DB handle)
          Deployments,   \* subset of {"single", "quorum"}
          MaxExecutes    \* bound: executions one caller attempts

ASSUME RequestAssumption ==
  /\ Transport \in {"server", "embedded"}
  /\ Deployments \subseteq {"single", "quorum"}
  /\ InitialStores \subseteq [Namespaces -> [Keys -> Values]]
  /\ MaxExecutes \in Nat
  /\ \A c \in Callers :
       /\ RequestOf[c].id \in RequestIDs /\ RequestOf[c].namespace \in Namespaces
       /\ RequestOf[c].conditions \in Seq(Condition) /\ RequestOf[c].mutations \in Seq(Mutation)
       /\ WellFormed(RequestOf[c])

VARIABLES
  pc,        \* pc[c]: "idle", "executing" or "looking"
  reply,     \* reply[c]: the answer that reached c's pending call
  codes,     \* codes[c]: how each execution of c returned
  known,     \* known[c]: the outcome c holds, "unknown" before
  flight,    \* executions sent and not yet seen by Core, <<caller, attempt>>
  deployment,\* Core: replicates before it applies, or not; fixed
  cells,     \* Core: the stored values of each namespace
  durable,   \* Core: the receipt bound to a request ID
  entry,     \* Core: the log entry of a request ID that is not applied yet
  revision,  \* Core: the last log index
  effects    \* history: attempts that Core took into its log or executed

core == <<deployment, cells, durable, entry, revision, effects>>
calls == <<pc, reply, codes, known>>
vars == <<calls, flight, core>>

NoReply == [form |-> "none"]
Garbage == [form |-> "garbage"]   \* non-200, wrong type, cut off or off contract
NativeError(code) == [form |-> "error", code |-> code]
NoEntry == [form |-> "none"]

ID(c) == RequestOf[c].id
Command(c) == conditionalCommandSHA(RequestOf[c])
Attempt(c) == Len(codes[c]) + 1

Init ==
  /\ pc = [c \in Callers |-> "idle"]
  /\ reply = [c \in Callers |-> NoReply]
  /\ codes = [c \in Callers |-> <<>>]
  /\ known = [c \in Callers |-> "unknown"]
  /\ flight = {}
  /\ deployment \in Deployments
  /\ cells \in InitialStores
  /\ durable = [id \in RequestIDs |-> NoReceipt]
  /\ entry = [id \in RequestIDs |-> NoEntry]
  /\ revision = 0
  /\ effects = {}

-----------------------------------------------------------------------------
(* Error classification of client.go and of the embedded path.             *)

(* Mutant: a lost acknowledgement of a write looks like a failed read.     *)
remoteTransportError_Unavailable(possiblyApplied) == "NativeUnavailable"

remoteTransportError(possiblyApplied) ==
  IF possiblyApplied THEN "ResultIndeterminate" ELSE "NativeUnavailable"

remoteResponseError(possiblyApplied) ==
  IF possiblyApplied THEN "ResultIndeterminate" ELSE "ProtocolViolation"

(* The error of an execution whose answer is unusable.  The embedded       *)
(* ExecuteConditionalTransaction returns the error of DB.execute or of the *)
(* decoder as it is.                                                       *)
UnusableAnswer ==
  IF Transport = "server" THEN remoteResponseError(TRUE) ELSE "ProtocolViolation"

newNativeError(code) ==
  CASE code = "uncertain" -> "ResultIndeterminate"
    [] code = "conflict" -> "NativeConflict"
    [] code = "not_found" -> "NativeNotFound"
    [] code = "not_leader" -> "NativeNotLeader"
    [] OTHER -> "NativeUnclassified"

-----------------------------------------------------------------------------
(* The caller.                                                             *)

Unresolved(c) == pc[c] = "idle" /\ known[c] = "unknown"

(* do: the context had ended before anything was sent.                     *)
NotSent(c) ==
  /\ Unresolved(c) /\ Transport = "server" /\ Attempt(c) <= MaxExecutes
  /\ codes' = [codes EXCEPT ![c] = Append(@, "NativeUnavailable")]
  /\ UNCHANGED <<pc, reply, known, flight, core>>

(* ExecuteConditionalTransaction up to the point where it waits.           *)
Execute(c) ==
  /\ Unresolved(c) /\ Attempt(c) <= MaxExecutes
  /\ pc' = [pc EXCEPT ![c] = "executing"]
  /\ flight' = flight \cup {<<c, Attempt(c)>>}
  /\ UNCHANGED <<reply, codes, known, core>>

(* ConditionalTransactionReceiptFor up to the point where it waits.        *)
Lookup(c) ==
  /\ Unresolved(c)
  /\ pc' = [pc EXCEPT ![c] = "looking"]
  /\ UNCHANGED <<reply, codes, known, flight, core>>

(* An execution returns with a code; a lookup's code is not kept.          *)
Return(c, code, outcome) ==
  /\ pc' = [pc EXCEPT ![c] = "idle"]
  /\ reply' = [reply EXCEPT ![c] = NoReply]
  /\ codes' = IF pc[c] = "executing" THEN [codes EXCEPT ![c] = Append(@, code)] ELSE codes
  /\ known' = [known EXCEPT ![c] = outcome]

(* httpClient.Do fails: the context ended, the connection broke, or the    *)
(* request was never delivered.  What was sent may still arrive.           *)
TransportError(c) ==
  /\ Transport = "server"
  /\ pc[c] \in {"executing", "looking"}
  /\ Return(c, remoteTransportError(pc[c] = "executing"), "unknown")
  /\ UNCHANGED <<flight, core>>

(* The rest of ExecuteConditionalTransaction: decode or classify.          *)
ExecuteReturn(c) ==
  /\ pc[c] = "executing"
  /\ reply[c] # NoReply
  /\ IF reply[c].form = "result" /\ decodeConditionalTransactionResult(reply[c].wire, RequestOf[c])
     THEN Return(c, "ok", reply[c].wire.receipt.outcome)
     ELSE Return(c, IF reply[c].form = "error" THEN newNativeError(reply[c].code)
                    ELSE UnusableAnswer, "unknown")
  /\ UNCHANGED <<flight, core>>

(* The rest of ConditionalTransactionReceiptFor.  An indeterminate lookup, *)
(* an error and a rejected answer all leave the outcome unknown.           *)
LookupReturn(c) ==
  /\ pc[c] = "looking"
  /\ reply[c] # NoReply
  /\ IF /\ reply[c].form = "lookup"
        /\ decodeConditionalReceiptLookup(reply[c].wire, RequestOf[c])
        /\ reply[c].wire.result = "found"
     THEN Return(c, "ok", reply[c].wire.receipt.outcome)
     ELSE Return(c, "unresolved", "unknown")
  /\ UNCHANGED <<flight, core>>

(* An answer is damaged on its way: do and the decoders see garbage.       *)
DamageReply(c) ==
  /\ reply[c].form \in {"result", "lookup", "error"}
  /\ reply' = [reply EXCEPT ![c] = Garbage]
  /\ UNCHANGED <<pc, codes, known, flight, core>>

-----------------------------------------------------------------------------
(* External: Core.                                                         *)

Waiting(c, n) == pc[c] = "executing" /\ Attempt(c) = n /\ reply[c] = NoReply

(* Core answers attempt n of c; nobody listens if c has given up on it.    *)
Answer(c, n, body) ==
  /\ reply' = IF Waiting(c, n) THEN [reply EXCEPT ![c] = body] ELSE reply
  /\ UNCHANGED <<pc, codes, known>>

QuorumReceipt(id, command, index, stage, receipt) ==
  IF deployment = "quorum"
  THEN [form |-> "quorum", requestID |-> id, commandSHA |-> command, index |-> index, stage |-> stage,
        durability |-> IF stage = "accepted" THEN "local_fsync" ELSE "quorum_fsync",
        resultSHA |-> receipt]
  ELSE NoQuorum

ResultReply(receipt, duplicate) ==
  [form |-> "result",
   wire |-> [result    |-> IF duplicate THEN "duplicate" ELSE receipt.outcome,
             original  |-> receipt.outcome,
             applied   |-> receipt.outcome = "applied",
             duplicate |-> duplicate,
             revision  |-> receipt.revision,
             receipt   |-> receipt,
             quorum    |-> QuorumReceipt(receipt.requestID, receipt.commandSHA, receipt.revision,
                                         "applied", receipt)]]

(* The request ID is taken: by this command, or by another one.            *)
CoreKnown(c, n) ==
  /\ <<c, n>> \in flight
  /\ \/ /\ durable[ID(c)] # NoReceipt
        /\ Answer(c, n, IF durable[ID(c)].commandSHA = Command(c)
                        THEN ResultReply(durable[ID(c)], TRUE) ELSE NativeError("conflict"))
     \/ /\ durable[ID(c)] = NoReceipt /\ entry[ID(c)] # NoEntry
        /\ Answer(c, n, NativeError(IF Command(entry[ID(c)].caller) = Command(c)
                                    THEN "uncertain" ELSE "conflict"))
  /\ flight' = flight \ {<<c, n>>}
  /\ UNCHANGED core

(* Core refuses before it logs anything (a follower, for example).         *)
CoreRefuse(c, n) ==
  /\ <<c, n>> \in flight
  /\ Answer(c, n, NativeError("not_leader"))
  /\ flight' = flight \ {<<c, n>>}
  /\ UNCHANGED core

Fresh(c, n) ==
  /\ <<c, n>> \in flight
  /\ durable[ID(c)] = NoReceipt /\ entry[ID(c)] = NoEntry
  /\ flight' = flight \ {<<c, n>>}
  /\ effects' = effects \cup {<<c, n>>}

(* The request of attempt n of c runs as the given revision.               *)
Run(c, n, index) ==
  LET space == RequestOf[c].namespace
      receipt == CoreReceipt(RequestOf[c], cells[space], index)
  IN  /\ durable' = [durable EXCEPT ![ID(c)] = receipt]
      /\ cells' = [cells EXCEPT ![space] = CellsAfter(RequestOf[c], @)]
      /\ Answer(c, n, ResultReply(receipt, FALSE))

CoreExecute(c, n) ==
  /\ deployment = "single" /\ Fresh(c, n)
  /\ Run(c, n, revision + 1)
  /\ revision' = revision + 1
  /\ UNCHANGED <<deployment, entry>>

CoreAccept(c, n) ==
  /\ deployment = "quorum" /\ Fresh(c, n)
  /\ entry' = [entry EXCEPT ![ID(c)] = [form |-> "entry", caller |-> c, attempt |-> n,
                                        index |-> revision + 1, stage |-> "accepted"]]
  /\ revision' = revision + 1
  /\ UNCHANGED <<calls, deployment, cells, durable>>

CoreCommit(id) ==
  /\ entry[id] # NoEntry /\ entry[id].stage = "accepted"
  /\ entry' = [entry EXCEPT ![id].stage = "committed"]
  /\ UNCHANGED <<calls, flight, deployment, cells, durable, revision, effects>>

(* A failover loses an entry that was only accepted.                       *)
CoreDrop(id) ==
  /\ entry[id] # NoEntry /\ entry[id].stage = "accepted"
  /\ entry' = [entry EXCEPT ![id] = NoEntry]
  /\ UNCHANGED <<calls, flight, deployment, cells, durable, revision, effects>>

(* Core stops waiting for its quorum and says so.                          *)
CoreUncertain(id) ==
  /\ entry[id] # NoEntry
  /\ Waiting(entry[id].caller, entry[id].attempt)
  /\ Answer(entry[id].caller, entry[id].attempt, NativeError("uncertain"))
  /\ UNCHANGED <<flight, core>>

(* Committed entries are applied in log order.                             *)
CoreApply(id) ==
  /\ entry[id] # NoEntry /\ entry[id].stage = "committed"
  /\ \A other \in RequestIDs :
       entry[other] # NoEntry /\ entry[other].stage = "committed" => entry[id].index <= entry[other].index
  /\ Run(entry[id].caller, entry[id].attempt, entry[id].index)
  /\ entry' = [entry EXCEPT ![id] = NoEntry]
  /\ UNCHANGED <<flight, deployment, revision, effects>>

(* A receipt lookup names the request ID only.                             *)
LookupReply(id) ==
  IF durable[id] # NoReceipt
  THEN [form |-> "lookup",
        wire |-> [result |-> "found", requestID |-> id, revision |-> durable[id].revision,
                  receipt |-> durable[id],
                  quorum |-> QuorumReceipt(id, durable[id].commandSHA, durable[id].revision,
                                           "applied", durable[id])]]
  ELSE IF entry[id] # NoEntry
  THEN [form |-> "lookup",
        wire |-> [result |-> "indeterminate", requestID |-> id, revision |-> 0, receipt |-> NoReceipt,
                  quorum |-> QuorumReceipt(id, Command(entry[id].caller), entry[id].index,
                                           entry[id].stage, NoReceipt)]]
  ELSE NativeError("not_found")

CoreLookup(c) ==
  /\ pc[c] = "looking" /\ reply[c] = NoReply
  /\ reply' = [reply EXCEPT ![c] = LookupReply(ID(c))]
  /\ UNCHANGED <<pc, codes, known, flight, core>>

-----------------------------------------------------------------------------
Next ==
  \/ \E c \in Callers :
       \/ NotSent(c) \/ Execute(c) \/ Lookup(c) \/ TransportError(c)
       \/ ExecuteReturn(c) \/ LookupReturn(c) \/ DamageReply(c) \/ CoreLookup(c)
  \/ \E c \in Callers, n \in 1 .. MaxExecutes :
       CoreKnown(c, n) \/ CoreRefuse(c, n) \/ CoreExecute(c, n) \/ CoreAccept(c, n)
  \/ \E id \in RequestIDs : CoreCommit(id) \/ CoreDrop(id) \/ CoreUncertain(id) \/ CoreApply(id)

Spec == Init /\ [][Next]_vars

-----------------------------------------------------------------------------
(* README 322-326: what a caller holds as the outcome of its request is    *)
(* the outcome Core keeps for that very command, through lost and damaged  *)
(* answers, late deliveries, failovers, repeated executions and request    *)
(* IDs that another payload has taken (conditional.go 632-715).            *)
BeliefIsDurable ==
  \A c \in Callers :
    known[c] # "unknown" =>
      /\ durable[ID(c)] # NoReceipt
      /\ durable[ID(c)].commandSHA = Command(c)
      /\ durable[ID(c)].outcome = known[c]

(* README 325-326: "a possibly-applied acknowledgement is                  *)
(* CodeResultIndeterminate".  An execution that failed with any other code *)
(* reached no log and never will: its request is not in flight either.     *)
DefiniteErrorsHaveNoEffect ==
  \A c \in Callers : \A n \in 1 .. Len(codes[c]) :
    codes[c][n] \notin {"ok", "ResultIndeterminate"}
      => <<c, n>> \notin effects \cup flight

(* The API's promise: a request ID is bound once, to one command and one   *)
(* outcome, and callers learn only the outcome of their own command.       *)
Promise ==
  INSTANCE DurableOutcome
    WITH IDs <- RequestIDs,
         IDOf <- [c \in Callers |-> ID(c)],
         CommandOf <- [c \in Callers |-> Command(c)],
         bound <- [id \in RequestIDs |->
                     IF durable[id] = NoReceipt THEN <<>>
                     ELSE <<durable[id].commandSHA, durable[id].outcome>>],
         learned <- [c \in Callers |-> known[c]]

(* Every step of the protocol is a step of DurableOutcome or a stutter.    *)
ImplementsDurableOutcome == Promise!Spec
=============================================================================
