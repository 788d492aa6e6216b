--------------------- MODULE ConditionalTransactionProofs ---------------------
(***************************************************************************)
(* The protocol of ConditionalTransaction for any callers, requests,       *)
(* stores, request IDs and numbers of attempts: a caller believes only     *)
(* what Core keeps for its command, a definite error has no effect, and    *)
(* the protocol implements DurableOutcome.                                 *)
(***************************************************************************)
EXTENDS ConditionalTransaction, ConditionalReceiptProofs

Codes == {"ok", "ResultIndeterminate", "NativeUnavailable", "ProtocolViolation", "NativeConflict",
          "NativeNotFound", "NativeNotLeader", "NativeUnclassified", "unresolved"}

(* The codes after which an execution may have had an effect.              *)
Uncertain == {"ok", "ResultIndeterminate"}

Types ==
  /\ pc \in [Callers -> {"idle", "executing", "looking"}]
  /\ DOMAIN reply = Callers
  /\ codes \in [Callers -> Seq(Codes)]
  /\ known \in [Callers -> {"unknown", "applied", "conflict"}]
  /\ flight \subseteq Callers \X Nat
  /\ cells \in [Namespaces -> [Keys -> Values]]
  /\ DOMAIN durable = RequestIDs /\ DOMAIN entry = RequestIDs
  /\ revision \in Nat
  /\ effects \subseteq Callers \X Nat

(* A receipt that Core wrote for a request with this ID.                   *)
Genuine(id, receipt) ==
  \E c \in Callers, store \in [Keys -> Values], index \in Nat \ {0} :
    ID(c) = id /\ receipt = CoreReceipt(RequestOf[c], store, index)

Entry == [form: {"entry"}, caller: Callers, attempt: Nat, index: Nat \ {0},
          stage: {"accepted", "committed"}]

(* Core: receipts are genuine, and an ID with an entry has none yet.       *)
CoreInv ==
  \A id \in RequestIDs :
    /\ durable[id] # NoReceipt => Genuine(id, durable[id])
    /\ entry[id] # NoEntry =>
         entry[id] \in Entry /\ ID(entry[id].caller) = id /\ durable[id] = NoReceipt

(* An answer on its way to c, or delivered and not yet read, carries what  *)
(* Core keeps for the ID of c; it is for the command of c if c executes.   *)
Carries(c) ==
  /\ durable[ID(c)] # NoReceipt
  /\ reply[c].wire.receipt = durable[ID(c)]

CallInv(c) ==
  /\ pc[c] = "idle" => reply[c] = NoReply
  /\ pc[c] # "idle" => known[c] = "unknown"
  /\ pc[c] = "executing" => reply[c].form \in {"none", "garbage", "error", "result"}
  /\ pc[c] = "looking" => reply[c].form \in {"none", "garbage", "error", "lookup"}
  /\ reply[c].form = "none" => reply[c] = NoReply
  /\ reply[c].form = "result" => Carries(c)
  /\ (reply[c].form = "lookup" /\ reply[c].wire.result = "found") => Carries(c)
  /\ known[c] # "unknown" =>
       /\ durable[ID(c)] # NoReceipt
       /\ durable[ID(c)].commandSHA = Command(c)
       /\ durable[ID(c)].outcome = known[c]

IInv == Types /\ CoreInv /\ \A c \in Callers : CallInv(c)

(* Attempts of c: none beyond the pending one exists, a pending one that   *)
(* was answered with a definite error is gone without effect, and so are   *)
(* the ones that returned such an error.                                   *)
Gone(c, n) == <<c, n>> \notin effects \cup flight

AttemptInv(c) ==
  /\ \A n \in Nat : (n > Attempt(c) \/ (n = Attempt(c) /\ pc[c] # "executing")) => Gone(c, n)
  /\ (pc[c] = "executing" /\ reply[c].form = "error" /\ newNativeError(reply[c].code) \notin Uncertain)
       => Gone(c, Attempt(c))
  /\ \A n \in 1 .. Len(codes[c]) : codes[c][n] \notin Uncertain => Gone(c, n)

(* What Core took is no longer in flight.                                  *)
EffectInv == flight \cap effects = {} /\ \A c \in Callers : AttemptInv(c)

-----------------------------------------------------------------------------
LEMMA RequestTyped ==
  ASSUME NEW c \in Callers
  PROVE  /\ RequestType(RequestOf[c])
         /\ ID(c) \in RequestIDs /\ RequestOf[c].namespace \in Namespaces
BY RequestAssumption DEF RequestType, ID

(* What a receipt of Core is, as far as the protocol looks at it.          *)
LEMMA GenuineShape ==
  ASSUME NEW id, NEW r, Genuine(id, r)
  PROVE  r # NoReceipt /\ r.outcome \in {"applied", "conflict"}
<1>1. PICK c \in Callers, store \in [Keys -> Values], index \in Nat \ {0} :
        ID(c) = id /\ r = CoreReceipt(RequestOf[c], store, index)
  BY DEF Genuine
<1>2. r.form = "receipt" /\ r.outcome \in {"applied", "conflict"}
  BY <1>1 DEF CoreReceipt
<1>3. NoReceipt.form = "none"
  BY DEF NoReceipt
<1> QED
  BY <1>2, <1>3

(* The reply and the caller's variables when Core answers: only a caller   *)
(* that waits is reached.                                                  *)
LEMMA Answered ==
  ASSUME Types, NEW c \in Callers, NEW n, NEW body, Answer(c, n, body)
  PROVE  /\ UNCHANGED <<pc, codes, known>>
         /\ DOMAIN reply' = Callers
         /\ \A d \in Callers : d # c => reply'[d] = reply[d]
         /\ \/ reply'[c] = reply[c]
            \/ /\ pc[c] = "executing" /\ n = Attempt(c) /\ reply[c] = NoReply
               /\ reply'[c] = body
BY DEF Types, Answer, Waiting

-----------------------------------------------------------------------------
(* The inductive invariant, one step per action.                           *)

LEMMA CoreKept ==
  ASSUME CoreInv, UNCHANGED <<durable, entry>>
  PROVE  CoreInv'
BY DEF CoreInv

(* A call of c that ends with this code and this outcome.                  *)
LEMMA Returned ==
  ASSUME Types, NEW c \in Callers, NEW code \in Codes, NEW outcome \in {"unknown", "applied", "conflict"},
         Return(c, code, outcome), UNCHANGED <<flight, cells, durable, entry, revision, effects>>
  PROVE  /\ Types'
         /\ pc'[c] = "idle" /\ reply'[c] = NoReply /\ known'[c] = outcome
         /\ \A d \in Callers \ {c} : pc'[d] = pc[d] /\ reply'[d] = reply[d] /\ known'[d] = known[d]
         /\ pc[c] = "executing" => codes' = [codes EXCEPT ![c] = Append(@, code)]
         /\ pc[c] # "executing" => codes' = codes
BY DEF Types, Return

(* What a caller learns is what an accepted answer carries.                *)
LEMMA AcceptedAnswer ==
  ASSUME NEW c \in Callers, NEW wire, ReceiptAnswers(wire, RequestOf[c])
  PROVE  wire.receipt.commandSHA = Command(c) /\ wire.receipt.outcome \in {"applied", "conflict"}
BY DEF ReceiptAnswers, decodeConditionalReceipt, Command

(* A step of caller c leaves the other callers, and Core, alone.           *)
LEMMA CallerPreserves ==
  ASSUME IInv, NEW c \in Callers,
         \/ NotSent(c) \/ Execute(c) \/ Lookup(c) \/ TransportError(c)
         \/ ExecuteReturn(c) \/ LookupReturn(c) \/ DamageReply(c) \/ CoreLookup(c)
  PROVE  IInv'
<1>1. UNCHANGED <<cells, durable, entry, revision, effects, deployment>>
  BY DEF NotSent, Execute, Lookup, TransportError, ExecuteReturn, LookupReturn, DamageReply,
         CoreLookup, core
<1>2. CoreInv'
  BY <1>1, CoreKept DEF IInv
<1>3. Types /\ CallInv(c) /\ Attempt(c) \in Nat
  BY DEF Attempt, IInv, Types
<1>4. /\ Types' /\ CallInv(c)'
      /\ \A d \in Callers \ {c} : pc'[d] = pc[d] /\ reply'[d] = reply[d] /\ known'[d] = known[d]
  <2>1. CASE NotSent(c)
    BY <1>1, <1>3, <2>1 DEF NotSent, Unresolved, Types, CallInv, Carries, Codes
  <2>2. CASE Execute(c)
    BY <1>1, <1>3, <2>2 DEF Execute, Unresolved, Types, CallInv, Carries, NoReply
  <2>3. CASE Lookup(c)
    BY <1>1, <1>3, <2>3 DEF Lookup, Unresolved, Types, CallInv, Carries, NoReply
  <2>4. CASE TransportError(c)
    <3>1. remoteTransportError(pc[c] = "executing") \in Codes
      BY DEF remoteTransportError, Codes
    <3>2. Return(c, remoteTransportError(pc[c] = "executing"), "unknown") /\ UNCHANGED flight
      BY <2>4 DEF TransportError
    <3> QED
      BY <1>1, <1>3, <3>1, <3>2, Returned DEF CallInv, NoReply
  <2>5. CASE ExecuteReturn(c)
    <3> DEFINE accepted == reply[c].form = "result"
                              /\ decodeConditionalTransactionResult(reply[c].wire, RequestOf[c])
               code == IF reply[c].form = "error" THEN newNativeError(reply[c].code) ELSE UnusableAnswer
    <3>1. code \in Codes /\ "ok" \in Codes
      BY DEF newNativeError, UnusableAnswer, remoteResponseError, Codes
    <3>2. CASE accepted
      <4>1. ReceiptAnswers(reply[c].wire, RequestOf[c])
        BY <3>2 DEF decodeConditionalTransactionResult
      <4>2. Return(c, "ok", reply[c].wire.receipt.outcome) /\ UNCHANGED flight
        BY <2>5, <3>2 DEF ExecuteReturn
      <4>3. /\ durable[ID(c)] # NoReceipt /\ durable[ID(c)].commandSHA = Command(c)
            /\ durable[ID(c)].outcome = reply[c].wire.receipt.outcome
            /\ reply[c].wire.receipt.outcome \in {"applied", "conflict"}
        BY <1>3, <3>2, <4>1, AcceptedAnswer DEF CallInv, Carries
      <4> QED
        BY <1>1, <1>3, <3>1, <4>2, <4>3, Returned DEF CallInv, NoReply
    <3>3. CASE ~accepted
      <4>1. Return(c, code, "unknown") /\ UNCHANGED flight
        BY <2>5, <3>3 DEF ExecuteReturn
      <4> HIDE DEF code
      <4> QED
        BY <1>1, <1>3, <3>1, <4>1, Returned DEF CallInv, NoReply
    <3> QED
      BY <3>2, <3>3
  <2>6. CASE LookupReturn(c)
    <3> DEFINE accepted == /\ reply[c].form = "lookup"
                           /\ decodeConditionalReceiptLookup(reply[c].wire, RequestOf[c])
                           /\ reply[c].wire.result = "found"
    <3>1. "ok" \in Codes /\ "unresolved" \in Codes
      BY DEF Codes
    <3>2. CASE accepted
      <4>1. ReceiptAnswers(reply[c].wire, RequestOf[c])
        BY <3>2 DEF decodeConditionalReceiptLookup
      <4>2. Return(c, "ok", reply[c].wire.receipt.outcome) /\ UNCHANGED flight
        BY <2>6, <3>2 DEF LookupReturn
      <4>3. /\ durable[ID(c)] # NoReceipt /\ durable[ID(c)].commandSHA = Command(c)
            /\ durable[ID(c)].outcome = reply[c].wire.receipt.outcome
            /\ reply[c].wire.receipt.outcome \in {"applied", "conflict"}
        BY <1>3, <3>2, <4>1, AcceptedAnswer DEF CallInv, Carries
      <4> QED
        BY <1>1, <1>3, <3>1, <4>2, <4>3, Returned DEF CallInv, NoReply
    <3>3. CASE ~accepted
      <4>1. Return(c, "unresolved", "unknown") /\ UNCHANGED flight
        BY <2>6, <3>3 DEF LookupReturn
      <4> QED
        BY <1>1, <1>3, <3>1, <4>1, Returned DEF CallInv, NoReply
    <3> QED
      BY <3>2, <3>3
  <2>7. CASE DamageReply(c)
    <3>1. /\ reply[c].form \in {"result", "lookup", "error"}
          /\ reply' = [reply EXCEPT ![c] = Garbage] /\ UNCHANGED <<pc, codes, known, flight>>
      BY <2>7 DEF DamageReply
    <3>2. reply'[c].form = "garbage" /\ NoReply.form = "none"
      BY <1>3, <3>1 DEF Types, Garbage, NoReply
    <3>3. pc[c] # "idle"
      BY <1>3, <3>1, <3>2 DEF CallInv
    <3>4. CallInv(c)'
      BY <1>1, <1>3, <3>1, <3>2, <3>3 DEF CallInv, Types
    <3> QED
      BY <1>1, <1>3, <3>1, <3>4 DEF Types
  <2>8. CASE CoreLookup(c)
    <3>1. /\ pc[c] = "looking" /\ reply' = [reply EXCEPT ![c] = LookupReply(ID(c))]
          /\ UNCHANGED <<pc, codes, known, flight>>
      BY <2>8 DEF CoreLookup
    <3>2. reply'[c] = LookupReply(ID(c))
      BY <1>3, <3>1 DEF Types
    <3>3. /\ reply'[c].form \in {"lookup", "error"}
          /\ reply'[c].form = "lookup" /\ reply'[c].wire.result = "found" =>
               durable[ID(c)] # NoReceipt /\ reply'[c].wire.receipt = durable[ID(c)]
      BY <3>2 DEF LookupReply, NativeError
    <3>4. CallInv(c)'
      BY <1>1, <1>3, <3>1, <3>3 DEF CallInv, Carries
    <3> QED
      BY <1>1, <1>3, <3>1, <3>4 DEF Types
  <2> QED
    BY <2>1, <2>2, <2>3, <2>4, <2>5, <2>6, <2>7, <2>8
<1>5. \A d \in Callers : CallInv(d)'
  BY <1>1, <1>4 DEF IInv, CallInv, Carries
<1> QED
  BY <1>2, <1>4, <1>5 DEF IInv

(* Core answers; receipts it kept before it still keeps.                   *)
LEMMA AnswerPreserves ==
  ASSUME IInv, NEW c \in Callers, NEW n, NEW body, Answer(c, n, body),
         \A id \in RequestIDs : durable[id] # NoReceipt => durable'[id] = durable[id],
         body.form \in {"error", "result"},
         body.form = "result" => durable'[ID(c)] # NoReceipt /\ body.wire.receipt = durable'[ID(c)]
  PROVE  \A d \in Callers : CallInv(d)'
<1> SUFFICES ASSUME NEW d \in Callers PROVE CallInv(d)'
  OBVIOUS
<1>1. /\ UNCHANGED <<pc, known>>
      /\ d # c => reply'[d] = reply[d]
      /\ \/ reply'[c] = reply[c]
         \/ pc[c] = "executing" /\ reply'[c] = body
  BY Answered DEF IInv
<1>2. CallInv(d) /\ CallInv(c) /\ ID(d) \in RequestIDs
  BY RequestTyped DEF IInv
<1>3. CASE reply'[d] = reply[d]
  <2>1. durable[ID(d)] # NoReceipt => durable'[ID(d)] = durable[ID(d)]
    BY <1>2
  <2> QED
    BY <1>1, <1>2, <1>3, <2>1 DEF CallInv, Carries
<1>4. CASE d = c /\ pc[c] = "executing" /\ reply'[c] = body
  BY <1>1, <1>2, <1>4 DEF CallInv, Carries
<1> QED
  BY <1>1, <1>3, <1>4

(* A refusal, or an answer from what Core already keeps.                   *)
LEMMA KnownPreserves ==
  ASSUME IInv, NEW c \in Callers, NEW n, CoreKnown(c, n) \/ CoreRefuse(c, n)
  PROVE  IInv'
<1>1. UNCHANGED <<cells, durable, entry, revision, effects>> /\ flight' \subseteq flight
  BY DEF CoreKnown, CoreRefuse, core
<1>2. PICK body : /\ Answer(c, n, body) /\ body.form \in {"error", "result"}
                  /\ body.form = "result" => durable[ID(c)] # NoReceipt /\ body.wire.receipt = durable[ID(c)]
  BY DEF CoreKnown, CoreRefuse, NativeError, ResultReply
<1>3. \A d \in Callers : CallInv(d)'
  BY <1>1, <1>2, AnswerPreserves
<1>4. CoreInv'
  BY <1>1, CoreKept DEF IInv
<1>5. Types'
  BY <1>1, <1>2, Answered DEF IInv, Types
<1> QED
  BY <1>3, <1>4, <1>5 DEF IInv

(* The request runs: its ID was free, and a genuine receipt is kept.       *)
LEMMA RunPreserves ==
  ASSUME IInv, NEW c \in Callers, NEW n, NEW index \in Nat \ {0}, Run(c, n, index),
         durable[ID(c)] = NoReceipt,
         \A id \in RequestIDs \ {ID(c)} : entry'[id] = entry[id],
         entry'[ID(c)] = NoEntry, DOMAIN entry' = RequestIDs,
         flight' \subseteq flight, effects' \subseteq Callers \X Nat, revision' \in Nat
  PROVE  IInv' /\ durable'[ID(c)].commandSHA = Command(c)
<1> DEFINE space == RequestOf[c].namespace
           receipt == CoreReceipt(RequestOf[c], cells[space], index)
<1>1. /\ durable' = [durable EXCEPT ![ID(c)] = receipt]
      /\ cells' = [cells EXCEPT ![space] = CellsAfter(RequestOf[c], @)]
      /\ Answer(c, n, ResultReply(receipt, FALSE))
  BY DEF Run
<1>2. Types /\ CoreInv /\ RequestType(RequestOf[c]) /\ ID(c) \in RequestIDs /\ space \in Namespaces
  BY RequestTyped DEF IInv
<1>3. cells[space] \in [Keys -> Values] /\ CellsAfter(RequestOf[c], cells[space]) \in [Keys -> Values]
  BY <1>2, CellsAfterMutations DEF Types
<1>4. Genuine(ID(c), receipt) /\ receipt.commandSHA = Command(c)
  BY <1>3 DEF Genuine, CoreReceipt, Command
<1>5. receipt # NoReceipt
  BY <1>4, GenuineShape
<1>6. ResultReply(receipt, FALSE).form = "result" /\ ResultReply(receipt, FALSE).wire.receipt = receipt
  BY DEF ResultReply
<1> HIDE DEF receipt
<1>7. /\ durable'[ID(c)] = receipt /\ DOMAIN durable' = RequestIDs
      /\ \A id \in RequestIDs \ {ID(c)} : durable'[id] = durable[id]
  BY <1>1, <1>2 DEF Types
<1>8. \A d \in Callers : CallInv(d)'
  BY <1>1, <1>2, <1>5, <1>6, <1>7, AnswerPreserves
<1>9. CoreInv'
  BY <1>2, <1>4, <1>7 DEF CoreInv
<1>10. Types'
  <2>1. cells' \in [Namespaces -> [Keys -> Values]]
    BY <1>1, <1>2, <1>3 DEF Types
  <2> QED
    BY <1>1, <1>2, <1>7, <2>1, Answered DEF Types
<1> QED
  BY <1>4, <1>7, <1>8, <1>9, <1>10 DEF IInv

LEMMA ExecutePreserves ==
  ASSUME IInv, NEW c \in Callers, NEW n, CoreExecute(c, n)
  PROVE  IInv'
<1>1. /\ Run(c, n, revision + 1) /\ revision' = revision + 1 /\ UNCHANGED entry
      /\ <<c, n>> \in flight /\ durable[ID(c)] = NoReceipt /\ entry[ID(c)] = NoEntry
      /\ flight' = flight \ {<<c, n>>} /\ effects' = effects \cup {<<c, n>>}
  BY DEF CoreExecute, Fresh
<1>2. revision \in Nat /\ flight \subseteq Callers \X Nat /\ effects \subseteq Callers \X Nat
      /\ DOMAIN entry = RequestIDs
  BY DEF IInv, Types
<1>3. revision + 1 \in Nat \ {0} /\ effects' \subseteq Callers \X Nat
  BY <1>1, <1>2
<1> QED
  BY <1>1, <1>2, <1>3, RunPreserves

LEMMA AcceptPreserves ==
  ASSUME IInv, NEW c \in Callers, NEW n \in Nat, CoreAccept(c, n)
  PROVE  IInv'
<1>1. /\ entry' = [entry EXCEPT ![ID(c)] = [form |-> "entry", caller |-> c, attempt |-> n,
                                             index |-> revision + 1, stage |-> "accepted"]]
      /\ revision' = revision + 1 /\ UNCHANGED <<pc, reply, codes, known, cells, durable>>
      /\ <<c, n>> \in flight /\ durable[ID(c)] = NoReceipt
      /\ flight' = flight \ {<<c, n>>} /\ effects' = effects \cup {<<c, n>>}
  BY DEF CoreAccept, Fresh, calls
<1>2. Types /\ CoreInv /\ ID(c) \in RequestIDs
  BY RequestTyped DEF IInv
<1>3. Types'
  BY <1>1, <1>2 DEF Types
<1>4. CoreInv'
  <2>1. revision + 1 \in Nat \ {0}
    BY <1>2 DEF Types
  <2>2. entry'[ID(c)] \in Entry /\ entry'[ID(c)].caller = c
        /\ \A id \in RequestIDs \ {ID(c)} : entry'[id] = entry[id]
    BY <1>1, <1>2, <2>1 DEF Types, Entry
  <2> QED
    BY <1>1, <1>2, <2>2 DEF CoreInv
<1>5. \A d \in Callers : CallInv(d)'
  BY <1>1 DEF IInv, CallInv, Carries
<1> QED
  BY <1>3, <1>4, <1>5 DEF IInv

(* The log of a quorum moves on; nothing is applied.                       *)
LEMMA LogPreserves ==
  ASSUME IInv, NEW id \in RequestIDs, CoreCommit(id) \/ CoreDrop(id)
  PROVE  IInv'
<1>1. /\ UNCHANGED <<pc, reply, codes, known, flight, cells, durable, revision, effects>>
      /\ entry[id] # NoEntry
      /\ \/ entry' = [entry EXCEPT ![id].stage = "committed"]
         \/ entry' = [entry EXCEPT ![id] = NoEntry]
  BY DEF CoreCommit, CoreDrop, calls
<1>2. Types /\ CoreInv /\ entry[id] \in Entry
  BY <1>1 DEF IInv, CoreInv
<1>3. /\ DOMAIN entry' = RequestIDs
      /\ \A other \in RequestIDs \ {id} : entry'[other] = entry[other]
      /\ \/ entry'[id] = NoEntry
         \/ entry'[id] \in Entry /\ entry'[id].caller = entry[id].caller
  <2>1. [entry[id] EXCEPT !.stage = "committed"] \in Entry
        /\ [entry[id] EXCEPT !.stage = "committed"].caller = entry[id].caller
    BY <1>2 DEF Entry
  <2>2. \/ entry' = [entry EXCEPT ![id] = [entry[id] EXCEPT !.stage = "committed"]]
        \/ entry' = [entry EXCEPT ![id] = NoEntry]
    BY <1>1
  <2> QED
    BY <1>2, <2>1, <2>2 DEF Types
<1>4. Types'
  BY <1>1, <1>2, <1>3 DEF Types
<1>5. CoreInv'
  BY <1>1, <1>2, <1>3 DEF CoreInv
<1>6. \A d \in Callers : CallInv(d)'
  BY <1>1 DEF IInv, CallInv, Carries
<1> QED
  BY <1>4, <1>5, <1>6 DEF IInv

LEMMA UncertainPreserves ==
  ASSUME IInv, NEW id \in RequestIDs, CoreUncertain(id)
  PROVE  IInv'
<1> DEFINE c == entry[id].caller
           n == entry[id].attempt
<1>1. /\ UNCHANGED <<flight, cells, durable, entry, revision, effects>>
      /\ Answer(c, n, NativeError("uncertain")) /\ entry[id] # NoEntry
  BY DEF CoreUncertain, core
<1>2. c \in Callers
  BY <1>1 DEF IInv, CoreInv, Entry
<1>3. NativeError("uncertain").form = "error"
  BY DEF NativeError
<1> HIDE DEF c, n
<1>4. \A d \in Callers : CallInv(d)'
  BY <1>1, <1>2, <1>3, AnswerPreserves
<1>5. CoreInv'
  BY <1>1, CoreKept DEF IInv
<1>6. Types'
  BY <1>1, <1>2, Answered DEF IInv, Types
<1> QED
  BY <1>4, <1>5, <1>6 DEF IInv

LEMMA ApplyPreserves ==
  ASSUME IInv, NEW id \in RequestIDs, CoreApply(id)
  PROVE  IInv'
<1> DEFINE c == entry[id].caller
           n == entry[id].attempt
           index == entry[id].index
<1>1. /\ Run(c, n, index) /\ entry[id] # NoEntry /\ entry' = [entry EXCEPT ![id] = NoEntry]
      /\ UNCHANGED <<flight, revision, effects>>
  BY DEF CoreApply
<1>2. c \in Callers /\ ID(c) = id /\ index \in Nat \ {0} /\ durable[id] = NoReceipt
  BY <1>1 DEF IInv, CoreInv, Entry
<1> HIDE DEF c, n, index
<1>3. /\ entry'[id] = NoEntry /\ DOMAIN entry' = RequestIDs
      /\ \A other \in RequestIDs \ {id} : entry'[other] = entry[other]
      /\ flight' \subseteq flight /\ effects' \subseteq Callers \X Nat /\ revision' \in Nat
  BY <1>1 DEF IInv, Types
<1> QED
  BY <1>1, <1>2, <1>3, RunPreserves

-----------------------------------------------------------------------------
LEMMA InitInv == Init => IInv
<1> SUFFICES ASSUME Init PROVE IInv
  OBVIOUS
<1>1. Types
  <2>1. cells \in [Namespaces -> [Keys -> Values]]
    BY RequestAssumption DEF Init
  <2>2. \A c \in Callers : codes[c] \in Seq(Codes)
    BY DEF Init
  <2> QED
    BY <2>1, <2>2 DEF Init, Types
<1>2. CoreInv
  BY DEF Init, CoreInv
<1>3. \A c \in Callers : CallInv(c)
  BY DEF Init, CallInv, NoReply
<1> QED
  BY <1>1, <1>2, <1>3 DEF IInv

LEMMA InvStep == IInv /\ [Next]_vars => IInv'
<1> SUFFICES ASSUME IInv, [Next]_vars PROVE IInv'
  OBVIOUS
<1>1. CASE \E c \in Callers :
             \/ NotSent(c) \/ Execute(c) \/ Lookup(c) \/ TransportError(c)
             \/ ExecuteReturn(c) \/ LookupReturn(c) \/ DamageReply(c) \/ CoreLookup(c)
  BY <1>1, CallerPreserves
<1>2. CASE \E c \in Callers, n \in 1 .. MaxExecutes :
             CoreKnown(c, n) \/ CoreRefuse(c, n) \/ CoreExecute(c, n) \/ CoreAccept(c, n)
  <2>1. \A n \in 1 .. MaxExecutes : n \in Nat
    BY RequestAssumption
  <2> QED
    BY <1>2, <2>1, KnownPreserves, ExecutePreserves, AcceptPreserves
<1>3. CASE \E id \in RequestIDs : CoreCommit(id) \/ CoreDrop(id) \/ CoreUncertain(id) \/ CoreApply(id)
  BY <1>3, LogPreserves, UncertainPreserves, ApplyPreserves
<1>4. CASE UNCHANGED vars
  <2>1. UNCHANGED <<pc, reply, codes, known, flight, cells, durable, entry, revision, effects>>
    BY <1>4 DEF vars, calls, core
  <2>2. Types' /\ CoreInv'
    BY <2>1, CoreKept DEF IInv, Types
  <2>3. \A d \in Callers : CallInv(d)'
    BY <2>1 DEF IInv, CallInv, Carries
  <2> QED
    BY <2>2, <2>3 DEF IInv
<1> QED
  BY <1>1, <1>2, <1>3, <1>4 DEF Next

(* The inductive invariant holds in every reachable state.                 *)
THEOREM Invariance == Spec => []IInv
<1>1. Init => IInv
  BY InitInv
<1>2. IInv /\ [Next]_vars => IInv'
  BY InvStep
<1> QED
  BY <1>1, <1>2, PTL DEF Spec

(* README 322-326: what a caller holds as its outcome is what Core keeps   *)
(* for that very command, whatever was lost, damaged, delayed, repeated or *)
(* taken by another payload on the way.                                    *)
THEOREM BeliefDurable == Spec => []BeliefIsDurable
<1>1. IInv => BeliefIsDurable
  BY DEF IInv, CallInv, BeliefIsDurable
<1> QED
  BY <1>1, Invariance, PTL

-----------------------------------------------------------------------------
(* Definite errors.                                                        *)

LEMMA AttemptType ==
  ASSUME Types, NEW c \in Callers
  PROVE  /\ Len(codes[c]) \in Nat /\ Attempt(c) \in Nat \ {0} /\ Attempt(c) = Len(codes[c]) + 1
         /\ codes[c] \in Seq(Codes)
BY DEF Types, Attempt

(* A call of c returns: its attempt is now counted.                        *)
LEMMA AttemptReturned ==
  ASSUME Types, NEW c \in Callers, AttemptInv(c), NEW code \in Codes, UNCHANGED <<flight, effects>>,
         codes' = [codes EXCEPT ![c] = Append(@, code)], pc'[c] = "idle", pc[c] \in {"idle", "executing"},
         code \notin Uncertain => Gone(c, Attempt(c))
  PROVE  AttemptInv(c)'
<1>1. Len(codes[c]) \in Nat /\ Attempt(c) = Len(codes[c]) + 1 /\ codes[c] \in Seq(Codes)
  BY AttemptType
<1>2. codes'[c] = Append(codes[c], code)
  BY DEF Types
<1>3. /\ Len(codes'[c]) = Len(codes[c]) + 1 /\ codes'[c][Len(codes[c]) + 1] = code
      /\ \A n \in 1 .. Len(codes[c]) : codes'[c][n] = codes[c][n]
  BY <1>1, <1>2
<1>4. Attempt(c)' = Attempt(c) + 1
  BY <1>1, <1>3 DEF Attempt
<1>5. \A n : Gone(c, n)' <=> Gone(c, n)
  BY DEF Gone
<1>6. \A n \in Nat : n > Attempt(c) => Gone(c, n)
  BY DEF AttemptInv
<1>7. \A n \in Nat : (n > Attempt(c)' \/ n = Attempt(c)') => Gone(c, n)'
  BY <1>1, <1>4, <1>5, <1>6
<1>8. ASSUME NEW n \in 1 .. Len(codes'[c]), codes'[c][n] \notin Uncertain
      PROVE  Gone(c, n)'
  <2>1. CASE n = Len(codes[c]) + 1
    BY <1>1, <1>3, <1>5, <1>8, <2>1
  <2>2. CASE n \in 1 .. Len(codes[c])
    BY <1>3, <1>5, <1>8, <2>2 DEF AttemptInv
  <2> QED
    BY <1>1, <1>3, <2>1, <2>2
<1> QED
  BY <1>7, <1>8 DEF AttemptInv

(* Nothing of c changes, and no attempt of c came back.                    *)
LEMMA AttemptKept ==
  ASSUME NEW c \in Callers, AttemptInv(c), pc'[c] = pc[c], reply'[c] = reply[c], codes'[c] = codes[c],
         \A n : Gone(c, n) => Gone(c, n)'
  PROVE  AttemptInv(c)'
BY DEF AttemptInv, Attempt

LEMMA CallerEffects ==
  ASSUME Transport = "server", IInv, EffectInv, NEW c \in Callers,
         \/ NotSent(c) \/ Execute(c) \/ Lookup(c) \/ TransportError(c)
         \/ ExecuteReturn(c) \/ LookupReturn(c) \/ DamageReply(c) \/ CoreLookup(c)
  PROVE  EffectInv'
<1>1. UNCHANGED effects
  BY DEF NotSent, Execute, Lookup, TransportError, ExecuteReturn, LookupReturn, DamageReply,
         CoreLookup, core
<1>2. Types /\ CallInv(c) /\ AttemptInv(c) /\ flight \cap effects = {}
  BY DEF IInv, EffectInv
<1>3. Attempt(c) \in Nat \ {0} /\ codes[c] \in Seq(Codes) /\ Attempt(c) = Len(codes[c]) + 1
  BY <1>2, AttemptType
<1>4. ASSUME UNCHANGED <<flight, codes>>, AttemptInv(c)',
             \A d \in Callers \ {c} : pc'[d] = pc[d] /\ reply'[d] = reply[d]
      PROVE  EffectInv'
  BY <1>1, <1>4, AttemptKept DEF EffectInv, Gone
<1>5. ASSUME UNCHANGED flight, AttemptInv(c)',
             \A d \in Callers \ {c} : pc'[d] = pc[d] /\ reply'[d] = reply[d] /\ codes'[d] = codes[d]
      PROVE  EffectInv'
  BY <1>1, <1>5, AttemptKept DEF EffectInv, Gone
<1>6. CASE NotSent(c)
  <2>1. /\ codes' = [codes EXCEPT ![c] = Append(@, "NativeUnavailable")]
        /\ pc[c] = "idle" /\ UNCHANGED <<pc, reply, flight>>
    BY <1>6 DEF NotSent, Unresolved
  <2>2. "NativeUnavailable" \in Codes /\ Gone(c, Attempt(c))
    BY <1>2, <1>3, <2>1 DEF Codes, AttemptInv
  <2>3. AttemptInv(c)'
    BY <1>1, <1>2, <2>1, <2>2, AttemptReturned
  <2> QED
    BY <1>2, <1>5, <2>1, <2>3 DEF Types
<1>7. CASE Execute(c)
  <2>1. /\ pc[c] = "idle" /\ reply[c] = NoReply /\ pc' = [pc EXCEPT ![c] = "executing"]
        /\ flight' = flight \cup {<<c, Attempt(c)>>} /\ UNCHANGED <<reply, codes>>
    BY <1>2, <1>7 DEF Execute, Unresolved, CallInv
  <2>2. Gone(c, Attempt(c))
    BY <1>2, <1>3, <2>1 DEF AttemptInv
  <2>3. flight' \cap effects' = {}
    BY <1>1, <1>2, <2>1, <2>2 DEF Gone
  <2>4. AttemptInv(c)'
    <3>1. \A n \in Nat : n > Attempt(c) => Gone(c, n)'
      BY <1>1, <1>2, <1>3, <2>1 DEF AttemptInv, Gone
    <3>2. \A n \in 1 .. Len(codes[c]) : codes[c][n] \notin Uncertain => Gone(c, n)'
      <4> SUFFICES ASSUME NEW n \in 1 .. Len(codes[c]), codes[c][n] \notin Uncertain PROVE Gone(c, n)'
        OBVIOUS
      <4>1. Gone(c, n) /\ n # Attempt(c)
        BY <1>2, <1>3 DEF AttemptInv
      <4> QED
        BY <1>1, <2>1, <4>1 DEF Gone
    <3>3. pc'[c] = "executing" /\ reply'[c].form # "error"
      BY <1>2, <2>1 DEF Types, NoReply
    <3> QED
      BY <2>1, <3>1, <3>2, <3>3 DEF AttemptInv, Attempt
  <2>5. ASSUME NEW d \in Callers \ {c} PROVE AttemptInv(d)'
    <3>1. AttemptInv(d) /\ pc'[d] = pc[d] /\ \A n : Gone(d, n) => Gone(d, n)'
      BY <1>1, <1>2, <2>1 DEF EffectInv, Gone, Types
    <3> QED
      BY <2>1, <3>1, AttemptKept
  <2> QED
    BY <2>3, <2>4, <2>5 DEF EffectInv
<1>8. CASE Lookup(c)
  <2>1. pc[c] = "idle" /\ pc' = [pc EXCEPT ![c] = "looking"] /\ UNCHANGED <<reply, codes, flight>>
    BY <1>8 DEF Lookup, Unresolved
  <2>2. pc'[c] = "looking" /\ \A d \in Callers \ {c} : pc'[d] = pc[d]
    BY <1>2, <2>1 DEF Types
  <2>3. AttemptInv(c)'
    BY <1>1, <1>2, <2>1, <2>2 DEF AttemptInv, Attempt, Gone
  <2> QED
    BY <1>4, <2>1, <2>2, <2>3
<1>9. ASSUME NEW code \in Codes, NEW outcome \in {"unknown", "applied", "conflict"}, Return(c, code, outcome),
             UNCHANGED <<flight, core>>, pc[c] \in {"executing", "looking"},
             pc[c] = "executing" /\ code \notin Uncertain => Gone(c, Attempt(c))
      PROVE  EffectInv'
  <2>1. /\ pc'[c] = "idle" /\ reply'[c] = NoReply
        /\ \A d \in Callers \ {c} : pc'[d] = pc[d] /\ reply'[d] = reply[d]
        /\ pc[c] = "executing" => codes' = [codes EXCEPT ![c] = Append(@, code)]
        /\ pc[c] # "executing" => codes' = codes
    BY <1>2, <1>9, Returned DEF core
  <2>2. CASE pc[c] = "executing"
    <3>1. AttemptInv(c)'
      BY <1>1, <1>2, <1>9, <2>1, <2>2, AttemptReturned
    <3> QED
      BY <1>2, <1>5, <1>9, <2>1, <2>2, <3>1 DEF Types
  <2>3. CASE pc[c] = "looking"
    <3>1. AttemptInv(c)'
      BY <1>1, <1>2, <1>9, <2>1, <2>3 DEF AttemptInv, Attempt, Gone
    <3> QED
      BY <1>4, <1>9, <2>1, <2>3, <3>1
  <2> QED
    BY <1>9, <2>2, <2>3
<1>10. CASE TransportError(c)
  <2>1. /\ pc[c] \in {"executing", "looking"} /\ UNCHANGED <<flight, core>>
        /\ Return(c, remoteTransportError(pc[c] = "executing"), "unknown")
    BY <1>10 DEF TransportError
  <2>2. /\ remoteTransportError(pc[c] = "executing") \in Codes
        /\ pc[c] = "executing" => remoteTransportError(pc[c] = "executing") \in Uncertain
    BY DEF remoteTransportError, Codes, Uncertain
  <2> QED
    BY <1>9, <2>1, <2>2
<1>11. CASE ExecuteReturn(c)
  <2> DEFINE accepted == reply[c].form = "result"
                            /\ decodeConditionalTransactionResult(reply[c].wire, RequestOf[c])
             code == IF reply[c].form = "error" THEN newNativeError(reply[c].code) ELSE UnusableAnswer
  <2>1. pc[c] = "executing" /\ UNCHANGED <<flight, core>>
    BY <1>11 DEF ExecuteReturn
  <2>2. CASE accepted
    <3>1. ReceiptAnswers(reply[c].wire, RequestOf[c])
      BY <2>2 DEF decodeConditionalTransactionResult
    <3>2. Return(c, "ok", reply[c].wire.receipt.outcome)
      BY <1>11, <2>2 DEF ExecuteReturn
    <3>3. "ok" \in Codes /\ "ok" \in Uncertain /\ reply[c].wire.receipt.outcome \in {"applied", "conflict"}
      BY <3>1, AcceptedAnswer DEF Codes, Uncertain
    <3> QED
      BY <1>9, <2>1, <3>2, <3>3
  <2>3. CASE ~accepted
    <3>1. Return(c, code, "unknown")
      BY <1>11, <2>3 DEF ExecuteReturn
    <3>2. code \in Codes
      BY DEF newNativeError, UnusableAnswer, remoteResponseError, Codes
    <3>3. code \notin Uncertain => Gone(c, Attempt(c))
      BY <1>2, <2>1 DEF UnusableAnswer, remoteResponseError, Uncertain, AttemptInv
    <3> HIDE DEF code
    <3> QED
      BY <1>9, <2>1, <3>1, <3>2, <3>3
  <2> QED
    BY <2>2, <2>3
<1>12. CASE LookupReturn(c)
  <2> DEFINE accepted == /\ reply[c].form = "lookup"
                         /\ decodeConditionalReceiptLookup(reply[c].wire, RequestOf[c])
                         /\ reply[c].wire.result = "found"
  <2>1. pc[c] = "looking" /\ UNCHANGED <<flight, core>>
    BY <1>12 DEF LookupReturn
  <2>2. CASE accepted
    <3>1. ReceiptAnswers(reply[c].wire, RequestOf[c])
      BY <2>2 DEF decodeConditionalReceiptLookup
    <3>2. Return(c, "ok", reply[c].wire.receipt.outcome)
      BY <1>12, <2>2 DEF LookupReturn
    <3>3. "ok" \in Codes /\ reply[c].wire.receipt.outcome \in {"applied", "conflict"}
      BY <3>1, AcceptedAnswer DEF Codes
    <3> QED
      BY <1>9, <2>1, <3>2, <3>3
  <2>3. CASE ~accepted
    <3>1. Return(c, "unresolved", "unknown") /\ "unresolved" \in Codes
      BY <1>12, <2>3 DEF LookupReturn, Codes
    <3> QED
      BY <1>9, <2>1, <3>1
  <2> QED
    BY <2>2, <2>3
<1>13. CASE DamageReply(c)
  <2>1. reply' = [reply EXCEPT ![c] = Garbage] /\ UNCHANGED <<pc, codes, flight>>
    BY <1>13 DEF DamageReply
  <2>2. reply'[c].form # "error" /\ \A d \in Callers \ {c} : reply'[d] = reply[d]
    BY <1>2, <2>1 DEF Types, Garbage
  <2>3. AttemptInv(c)'
    BY <1>1, <1>2, <2>1, <2>2 DEF AttemptInv, Attempt, Gone
  <2> QED
    BY <1>4, <2>1, <2>2, <2>3
<1>14. CASE CoreLookup(c)
  <2>1. /\ pc[c] = "looking" /\ reply' = [reply EXCEPT ![c] = LookupReply(ID(c))]
        /\ UNCHANGED <<pc, codes, flight>>
    BY <1>14 DEF CoreLookup
  <2>2. \A d \in Callers \ {c} : reply'[d] = reply[d]
    BY <1>2, <2>1 DEF Types
  <2>3. AttemptInv(c)'
    BY <1>1, <1>2, <2>1 DEF AttemptInv, Attempt, Gone
  <2> QED
    BY <1>4, <2>1, <2>2, <2>3
<1> QED
  BY <1>6, <1>7, <1>8, <1>10, <1>11, <1>12, <1>13, <1>14

(* Core takes attempts out of flight, into effects or not; it answers with *)
(* a definite error only an attempt that is gone.                          *)
LEMMA CoreEffects ==
  ASSUME IInv, EffectInv, NEW c \in Callers, NEW n \in Nat, NEW body, Answer(c, n, body),
         effects' \cup flight' \subseteq effects \cup flight, flight' \cap effects' = {},
         body.form = "error" /\ newNativeError(body.code) \notin Uncertain => Gone(c, n)'
  PROVE  EffectInv'
<1>1. /\ UNCHANGED <<pc, codes>>
      /\ \A d \in Callers : d # c => reply'[d] = reply[d]
      /\ reply'[c] = reply[c] \/ (n = Attempt(c) /\ reply'[c] = body)
  BY Answered DEF IInv
<1>2. \A d, m : Gone(d, m) => Gone(d, m)'
  BY DEF Gone
<1>3. \A d \in Callers : AttemptInv(d)
  BY DEF EffectInv
<1>4. ASSUME NEW d \in Callers, reply'[d] = reply[d] PROVE AttemptInv(d)'
  BY <1>1, <1>2, <1>3, <1>4, AttemptKept
<1>5. CASE n = Attempt(c) /\ reply'[c] = body
  <2>1. AttemptInv(c)'
    BY <1>1, <1>2, <1>3, <1>5 DEF AttemptInv, Attempt
  <2> QED
    BY <1>1, <1>4, <2>1 DEF EffectInv
<1> QED
  BY <1>1, <1>4, <1>5 DEF EffectInv

LEMMA EffectStep ==
  ASSUME Transport = "server", IInv, EffectInv, [Next]_vars
  PROVE  EffectInv'
<1>0. flight \cap effects = {} /\ \A c \in Callers : AttemptInv(c)
  BY DEF EffectInv
<1>1. CASE \E c \in Callers :
             \/ NotSent(c) \/ Execute(c) \/ Lookup(c) \/ TransportError(c)
             \/ ExecuteReturn(c) \/ LookupReturn(c) \/ DamageReply(c) \/ CoreLookup(c)
  BY <1>1, CallerEffects
<1>2. ASSUME NEW c \in Callers, NEW n \in Nat, CoreKnown(c, n) \/ CoreRefuse(c, n)
      PROVE  EffectInv'
  <2>1. flight' = flight \ {<<c, n>>} /\ <<c, n>> \in flight /\ UNCHANGED effects
    BY <1>2 DEF CoreKnown, CoreRefuse, core
  <2>2. PICK body : Answer(c, n, body)
    BY <1>2 DEF CoreKnown, CoreRefuse
  <2>3. Gone(c, n)' /\ effects' \cup flight' \subseteq effects \cup flight /\ flight' \cap effects' = {}
    BY <1>0, <2>1 DEF Gone
  <2> QED
    BY <2>2, <2>3, CoreEffects
<1>3. ASSUME NEW c \in Callers, NEW n \in Nat, CoreExecute(c, n)
      PROVE  EffectInv'
  <2>1. <<c, n>> \in flight /\ flight' = flight \ {<<c, n>>} /\ effects' = effects \cup {<<c, n>>}
    BY <1>3 DEF CoreExecute, Fresh
  <2>2. PICK body : Answer(c, n, body) /\ body.form = "result"
    BY <1>3 DEF CoreExecute, Run, ResultReply
  <2>3. effects' \cup flight' \subseteq effects \cup flight /\ flight' \cap effects' = {}
    BY <1>0, <2>1
  <2> QED
    BY <2>2, <2>3, CoreEffects
<1>4. ASSUME NEW c \in Callers, NEW n \in Nat, CoreAccept(c, n)
      PROVE  EffectInv'
  <2>1. /\ <<c, n>> \in flight /\ flight' = flight \ {<<c, n>>} /\ effects' = effects \cup {<<c, n>>}
        /\ UNCHANGED <<pc, reply, codes>>
    BY <1>4 DEF CoreAccept, Fresh, calls
  <2>2. \A d, m : Gone(d, m) => Gone(d, m)'
    BY <2>1 DEF Gone
  <2>3. \A d \in Callers : AttemptInv(d)'
    BY <1>0, <2>1, <2>2, AttemptKept
  <2> QED
    BY <1>0, <2>1, <2>3 DEF EffectInv
<1>5. ASSUME NEW id \in RequestIDs, CoreUncertain(id) \/ CoreApply(id)
      PROVE  EffectInv'
  <2> DEFINE c == entry[id].caller
             n == entry[id].attempt
  <2>1. UNCHANGED <<flight, effects>> /\ entry[id] # NoEntry
    BY <1>5 DEF CoreUncertain, CoreApply, core
  <2>2. c \in Callers /\ n \in Nat
    BY <2>1 DEF IInv, CoreInv, Entry
  <2>3. PICK body : /\ Answer(c, n, body)
                    /\ body.form = "error" => newNativeError(body.code) \in Uncertain
    <3>1. CASE CoreUncertain(id)
      <4>1. /\ Answer(c, n, NativeError("uncertain"))
            /\ newNativeError(NativeError("uncertain").code) \in Uncertain
        BY <3>1 DEF CoreUncertain, NativeError, newNativeError, Uncertain
      <4> QED
        BY <4>1
    <3>2. CASE CoreApply(id)
      <4> DEFINE body == ResultReply(CoreReceipt(RequestOf[c], cells[RequestOf[c].namespace],
                                                 entry[id].index), FALSE)
      <4>1. Answer(c, n, body)
        BY <3>2 DEF CoreApply, Run
      <4>2. body.form # "error"
        BY DEF ResultReply
      <4> QED
        BY <4>1, <4>2
    <3> QED
      BY <1>5, <3>1, <3>2
  <2> HIDE DEF c, n
  <2>4. flight' \cap effects' = {}
    BY <1>0, <2>1
  <2> QED
    BY <2>1, <2>2, <2>3, <2>4, CoreEffects
<1>6. ASSUME UNCHANGED <<pc, reply, codes, flight, effects>>
      PROVE  EffectInv'
  BY <1>6 DEF EffectInv, AttemptInv, Attempt, Gone
<1>7. CASE \E id \in RequestIDs : CoreCommit(id) \/ CoreDrop(id)
  BY <1>6, <1>7 DEF CoreCommit, CoreDrop, calls
<1>8. CASE UNCHANGED vars
  BY <1>6, <1>8 DEF vars, calls, core
<1>9. \A n \in 1 .. MaxExecutes : n \in Nat
  BY RequestAssumption
<1> QED
  BY <1>1, <1>2, <1>3, <1>4, <1>5, <1>7, <1>8, <1>9 DEF Next

(* README 325-326: over the Server client, an execution that failed with a *)
(* code other than ResultIndeterminate reached no log and never will.  The *)
(* embedded handle does not promise this, see the run cond_embedded.       *)
THEOREM DefiniteErrorsSafe ==
  ASSUME Transport = "server"
  PROVE  Spec => []DefiniteErrorsHaveNoEffect
<1>1. Init => EffectInv
  <2> SUFFICES ASSUME Init PROVE EffectInv
    OBVIOUS
  <2>1. ASSUME NEW c \in Callers
        PROVE  codes[c] = <<>> /\ reply[c].form = "none" /\ \A n : Gone(c, n)
    BY DEF Init, NoReply, Gone
  <2>2. \A c \in Callers : AttemptInv(c)
    BY <2>1 DEF AttemptInv
  <2> QED
    BY <2>2 DEF EffectInv, Init
<1>2. IInv /\ EffectInv /\ [Next]_vars => EffectInv'
  BY EffectStep
<1>3. EffectInv => DefiniteErrorsHaveNoEffect
  BY DEF EffectInv, AttemptInv, Gone, Uncertain, DefiniteErrorsHaveNoEffect
<1> QED
  BY <1>1, <1>2, <1>3, Invariance, PTL DEF Spec

-----------------------------------------------------------------------------
(* Refinement.                                                             *)

(* The visible effect of a step: ID(c) is bound, c learns, or nothing.     *)
Binds(c) ==
  /\ durable[ID(c)] = NoReceipt /\ durable'[ID(c)] # NoReceipt
  /\ durable'[ID(c)].commandSHA = Command(c)
  /\ durable'[ID(c)].outcome \in {"applied", "conflict"}
  /\ \A id \in RequestIDs \ {ID(c)} : durable'[id] = durable[id]
  /\ UNCHANGED known

Learns(c) ==
  /\ known[c] = "unknown" /\ durable[ID(c)] # NoReceipt
  /\ durable[ID(c)].commandSHA = Command(c)
  /\ durable[ID(c)].outcome \in {"applied", "conflict"}
  /\ known' = [known EXCEPT ![c] = durable[ID(c)].outcome]
  /\ UNCHANGED durable

LEMMA RunBinds ==
  ASSUME IInv, NEW c \in Callers, NEW n, NEW index \in Nat \ {0}, Run(c, n, index), durable[ID(c)] = NoReceipt
  PROVE  Binds(c)
<1> DEFINE space == RequestOf[c].namespace
           receipt == CoreReceipt(RequestOf[c], cells[space], index)
<1>1. durable' = [durable EXCEPT ![ID(c)] = receipt] /\ UNCHANGED known
  BY DEF Run, Answer
<1>2. Types /\ ID(c) \in RequestIDs /\ cells[space] \in [Keys -> Values]
  BY RequestTyped DEF IInv, Types
<1>3. Genuine(ID(c), receipt) /\ receipt.commandSHA = Command(c)
  BY <1>2 DEF Genuine, CoreReceipt, Command
<1>4. receipt # NoReceipt /\ receipt.outcome \in {"applied", "conflict"}
  BY <1>3, GenuineShape
<1> HIDE DEF receipt
<1> QED
  BY <1>1, <1>2, <1>3, <1>4 DEF Binds, Types

LEMMA ReturnLearns ==
  ASSUME IInv, NEW c \in Callers, ExecuteReturn(c) \/ LookupReturn(c) \/ TransportError(c)
  PROVE  UNCHANGED durable /\ (Learns(c) \/ UNCHANGED known)
<1>1. Types /\ CallInv(c)
  BY DEF IInv
<1>2. UNCHANGED durable /\ pc[c] # "idle"
  BY DEF ExecuteReturn, LookupReturn, TransportError, core
<1>3. known[c] = "unknown"
  BY <1>1, <1>2 DEF CallInv
<1>4. ASSUME known' = [known EXCEPT ![c] = "unknown"] PROVE UNCHANGED known
  BY <1>1, <1>3, <1>4 DEF Types
<1>5. ASSUME ReceiptAnswers(reply[c].wire, RequestOf[c]), Carries(c),
             known' = [known EXCEPT ![c] = reply[c].wire.receipt.outcome]
      PROVE  Learns(c)
  BY <1>2, <1>3, <1>5, AcceptedAnswer DEF Carries, Learns
<1>6. CASE TransportError(c)
  BY <1>2, <1>4, <1>6 DEF TransportError, Return
<1>7. CASE ExecuteReturn(c)
  <2>1. CASE reply[c].form = "result" /\ decodeConditionalTransactionResult(reply[c].wire, RequestOf[c])
    <3>1. ReceiptAnswers(reply[c].wire, RequestOf[c]) /\ Carries(c)
      BY <1>1, <2>1 DEF CallInv, decodeConditionalTransactionResult
    <3>2. known' = [known EXCEPT ![c] = reply[c].wire.receipt.outcome]
      BY <1>7, <2>1 DEF ExecuteReturn, Return
    <3> QED
      BY <1>2, <1>5, <3>1, <3>2
  <2>2. CASE ~(reply[c].form = "result" /\ decodeConditionalTransactionResult(reply[c].wire, RequestOf[c]))
    BY <1>2, <1>4, <1>7, <2>2 DEF ExecuteReturn, Return
  <2> QED
    BY <2>1, <2>2
<1>8. CASE LookupReturn(c)
  <2> DEFINE accepted == /\ reply[c].form = "lookup"
                         /\ decodeConditionalReceiptLookup(reply[c].wire, RequestOf[c])
                         /\ reply[c].wire.result = "found"
  <2>1. CASE accepted
    <3>1. ReceiptAnswers(reply[c].wire, RequestOf[c]) /\ Carries(c)
      BY <1>1, <2>1 DEF CallInv, decodeConditionalReceiptLookup
    <3>2. known' = [known EXCEPT ![c] = reply[c].wire.receipt.outcome]
      BY <1>8, <2>1 DEF LookupReturn, Return
    <3> QED
      BY <1>2, <1>5, <3>1, <3>2
  <2>2. CASE ~accepted
    BY <1>2, <1>4, <1>8, <2>2 DEF LookupReturn, Return
  <2> QED
    BY <2>1, <2>2
<1> QED
  BY <1>6, <1>7, <1>8

LEMMA VisibleStep ==
  ASSUME IInv, [Next]_vars
  PROVE  (\E c \in Callers : Binds(c) \/ Learns(c)) \/ UNCHANGED <<durable, known>>
<1>1. CASE \E c \in Callers : NotSent(c) \/ Execute(c) \/ Lookup(c) \/ DamageReply(c) \/ CoreLookup(c)
  BY <1>1 DEF NotSent, Execute, Lookup, DamageReply, CoreLookup, core
<1>2. CASE \E c \in Callers : ExecuteReturn(c) \/ LookupReturn(c) \/ TransportError(c)
  BY <1>2, ReturnLearns
<1>3. CASE \E c \in Callers, n \in 1 .. MaxExecutes : CoreKnown(c, n) \/ CoreRefuse(c, n) \/ CoreAccept(c, n)
  BY <1>3 DEF CoreKnown, CoreRefuse, CoreAccept, Answer, core, calls
<1>4. ASSUME NEW c \in Callers, NEW n, CoreExecute(c, n) PROVE Binds(c)
  <2>1. Run(c, n, revision + 1) /\ durable[ID(c)] = NoReceipt /\ revision + 1 \in Nat \ {0}
    BY <1>4 DEF CoreExecute, Fresh, IInv, Types
  <2> QED
    BY <2>1, RunBinds
<1>5. CASE \E id \in RequestIDs : CoreCommit(id) \/ CoreDrop(id) \/ CoreUncertain(id)
  BY <1>5 DEF CoreCommit, CoreDrop, CoreUncertain, Answer, core, calls
<1>6. ASSUME NEW id \in RequestIDs, CoreApply(id) PROVE \E c \in Callers : Binds(c)
  <2>1. Run(entry[id].caller, entry[id].attempt, entry[id].index) /\ entry[id] # NoEntry
    BY <1>6 DEF CoreApply
  <2>2. /\ entry[id].caller \in Callers /\ entry[id].index \in Nat \ {0}
        /\ durable[ID(entry[id].caller)] = NoReceipt
    BY <2>1 DEF IInv, CoreInv, Entry
  <2> QED
    BY <2>1, <2>2, RunBinds
<1>7. CASE UNCHANGED vars
  BY <1>7 DEF vars, calls, core
<1> QED
  BY <1>1, <1>2, <1>3, <1>4, <1>5, <1>6, <1>7 DEF Next

(* Under the refinement mapping, binding is Bind and learning is Learn.    *)
LEMMA StepRefines ==
  ASSUME IInv, [Next]_vars
  PROVE  [Promise!Next]_(Promise!vars)
<1>1. ASSUME NEW c \in Callers, Binds(c) PROVE Promise!Bind(c)
  <2>1. ID(c) \in RequestIDs
    BY RequestTyped
  <2> QED
    BY <1>1, <2>1 DEF Promise!Bind, Binds
<1>2. ASSUME NEW c \in Callers, Learns(c) PROVE Promise!Learn(c)
  <2>1. ID(c) \in RequestIDs /\ Types
    BY RequestTyped DEF IInv
  <2> QED
    BY <1>2, <2>1 DEF Promise!Learn, Learns, Types
<1>3. ASSUME UNCHANGED <<durable, known>> PROVE UNCHANGED Promise!vars
  BY <1>3 DEF Promise!vars
<1> QED
  BY <1>1, <1>2, <1>3, VisibleStep DEF Promise!Next

(* The API's promise: the protocol implements DurableOutcome, that is, a   *)
(* request ID is bound once, to one command and one outcome, and callers   *)
(* learn only the outcome of their own command.                            *)
THEOREM Refinement == Spec => ImplementsDurableOutcome
<1>1. Init => Promise!Init
  BY RequestTyped DEF Init, Promise!Init
<1>2. IInv /\ [Next]_vars => [Promise!Next]_(Promise!vars)
  BY StepRefines
<1> QED
  BY <1>1, <1>2, Invariance, PTL DEF Spec, ImplementsDurableOutcome, Promise!Spec
=============================================================================
