--------------------------- MODULE VerifierClient ---------------------------
(***************************************************************************)
(* verifyOnChain and verifyBatchOnChain of the SDK (sdk/src/verify.ts),    *)
(* run by several sessions at once against the Verifier contract.          *)
(*                                                                         *)
(* A session is one promise.  Each await of the code ends a step, so       *)
(* ledgers close, administrators act, and other sessions run between the   *)
(* simulation of a call and its application.  The RPC server and the       *)
(* network between session and contract are external: `seq`, `pool`,       *)
(* `running` and `applied` are modelled as the client relies on them.      *)
(***************************************************************************)
EXTENDS Verifier, SdkErrors

CONSTANTS Session,    \* concurrent calls of the SDK
          Request,    \* the options they may be called with
          Stamp,      \* time bounds a built transaction can carry
          None,       \* an absent transaction, window, basis or value
          PollLimit   \* polls the confirmation deadline leaves room for

\* op: which function is called, and the contract's function behind it; items:
\* the proofs to send, one for verify_proof; bundle: the bundle the proof came
\* from or that was given beside it is absent, or made for this network or for
\* another one.
RequestType == [op: {"verify_proof", "verify_batch"}, caller: CallerArg,
                items: Seq(Item), bundle: {"none", "here", "elsewhere"}]

\* A signed transaction.  window: the window of the counter in its footprint, or
\* None; charged: how many calls its simulation charged.
TransactionType == [op: {"verify_proof", "verify_batch"}, caller: CallerArg,
                    items: Seq(Item), seq: Nat, charged: Nat, stamp: Stamp,
                    window: Nat \cup {None}]

ASSUME ClientAssumption ==
  /\ PollLimit \in Nat \ {0}
  /\ None \notin TransactionType
  /\ \A req \in Request :
       /\ req \in RequestType
       /\ Len(req.items) <= MaxBatch
       /\ req.op = "verify_proof" => Len(req.items) = 1
       /\ req.op = "verify_batch" => req.bundle = "none"

VARIABLES opts,     \* the options of each session
          call,     \* where each session is in its function
          seq,      \* sequence number of each account
          pool,     \* transactions the network accepted and has not applied
          running,  \* the verify_batch transaction being applied, or None
          applied   \* transactions in closed ledgers, with their outcome

clientVars == <<opts, call, seq, pool, running, applied>>
chainVars == <<seq, pool, running, applied>>
allVars == <<vars, clientVars>>

\* verified: the flags the promise resolved to, one for verifyOnChain; sent:
\* history, the network took this session's transaction; basis: history, what
\* the simulation saw.
NewCall == [phase |-> "idle", seq |-> 0, tx |-> None, polls |-> 0, outcome |-> "none",
            verified |-> <<>>, sent |-> FALSE, basis |-> None]

-----------------------------------------------------------------------------
(* Steps of a session.                                                     *)

At(s, phase) == call[s].phase = phase

Proceed(s, phase) == call' = [call EXCEPT ![s].phase = phase]

Reject(s, code) == call' = [call EXCEPT ![s] = [@ EXCEPT !.phase = "done", !.outcome = code]]

\* Does the SDK refuse the request by itself?  formatProof and validateCalldata
\* see lengths, not curves.
Malformed(req) == req.items = <<>> \/ \E i \in DOMAIN req.items : req.items[i].points = "badLength"

\* Formatting and validation, before anything is sent.
Start(s) ==
  /\ At(s, "idle")
  /\ \/ Malformed(opts[s]) /\ Reject(s, "INVALID_PROOF_FORMAT")
     \/ ~Malformed(opts[s]) /\ Proceed(s, "network")
  /\ UNCHANGED <<vars, opts, chainVars>>

\* getNetwork, then the network check of a bundle.
GetNetwork(s) ==
  /\ At(s, "network")
  /\ \/ opts[s].bundle = "elsewhere" /\ Reject(s, "NETWORK_MISMATCH")
     \/ opts[s].bundle # "elsewhere" /\ Proceed(s, "account")
  /\ UNCHANGED <<vars, opts, chainVars>>

\* getAccount: the sequence number the transaction will carry.
GetAccount(s) ==
  /\ At(s, "account")
  /\ call' = [call EXCEPT ![s] = [@ EXCEPT !.phase = "prepare",
                                           !.seq = seq[opts[s].caller] + 1]]
  /\ UNCHANGED <<vars, opts, chainVars>>

\* The simulation went well: its footprint, where only the counter can differ
\* later, and the number of calls it charged become part of the transaction.
Prepared(s, charged) ==
  LET c == opts[s].caller
  IN  \E stamp \in Stamp :
        call' = [call EXCEPT ![s] =
          [@ EXCEPT !.phase = "send", !.basis = Basis(c, opts[s].items),
                    !.tx = [op |-> opts[s].op, caller |-> c, items |-> opts[s].items,
                            seq |-> call[s].seq, charged |-> charged, stamp |-> stamp,
                            window |-> IF Allowed(c) THEN CurrentWindow ELSE None]]]

\* Mutant: the simulation's outcome is not looked at.
PrepareBlindly(s) ==
  /\ At(s, "prepare") /\ opts[s].op = "verify_proof"
  /\ Idle
  /\ Prepared(s, 1)
  /\ UNCHANGED <<vars, opts, chainVars>>

\* Building, prepareTransaction and signing: the simulation runs verify_proof on
\* the latest ledger.
Prepare(s) ==
  LET c == opts[s].caller
      v == Verdict(c, opts[s].items[1], counts[c][CurrentWindow])
  IN  /\ At(s, "prepare") /\ opts[s].op = "verify_proof"
      /\ Idle
      /\ \/ v \in {"True", "False"} /\ Prepared(s, 1)
         \/ /\ v \notin {"True", "False"}
            /\ \E code \in ErrorCodes(v) : Reject(s, code)
      /\ UNCHANGED <<vars, opts, chainVars>>

\* verify_batch on the current state: does it panic, and how much does it charge?
RunBatch(c, items) ==
  LET run[i \in 0..Len(items)] ==
        IF i = 0 THEN [entry |-> counts[c][CurrentWindow], trapped |-> FALSE, charged |-> 0]
        ELSE LET before == run[i - 1]
                 v == Verdict(c, items[i], before.entry)
             IN  IF WithinBudget(v)
                 THEN [entry |-> Charge(before.entry), charged |-> before.charged + 1,
                       trapped |-> before.trapped \/ v = "Trap"]
                 ELSE before
  IN  run[Len(items)]

\* Mutant: the simulation of a batch is not looked at.
PrepareBatchBlindly(s) ==
  /\ At(s, "prepare") /\ opts[s].op = "verify_batch"
  /\ Idle
  /\ Prepared(s, RunBatch(opts[s].caller, opts[s].items).charged)
  /\ UNCHANGED <<vars, opts, chainVars>>

\* The same for verify_batch, whose simulation fails only by a panic.
PrepareBatch(s) ==
  LET run == RunBatch(opts[s].caller, opts[s].items)
  IN  /\ At(s, "prepare") /\ opts[s].op = "verify_batch"
      /\ Idle
      /\ \/ ~run.trapped /\ Prepared(s, run.charged)
         \/ run.trapped /\ \E code \in ThrownCode : Reject(s, code)
      /\ UNCHANGED <<vars, opts, chainVars>>

\* The network takes a transaction with the account's next sequence number if
\* no other one of that account is waiting.
Acceptable(tx) ==
  /\ tx.seq = seq[tx.caller] + 1
  /\ \A other \in pool : other.caller = tx.caller => other = tx

\* sendTransaction answered PENDING, or DUPLICATE for a transaction that waits.
Send(s) ==
  /\ At(s, "send")
  /\ Acceptable(call[s].tx)
  /\ pool' = pool \cup {call[s].tx}
  /\ call' = [call EXCEPT ![s] = [@ EXCEPT !.phase = "poll", !.sent = TRUE]]
  /\ UNCHANGED <<vars, opts, seq, running, applied>>

\* sendTransaction answered ERROR or TRY_AGAIN_LATER.
SendRefused(s) ==
  /\ At(s, "send")
  /\ call[s].tx \notin pool
  /\ Reject(s, "TRANSACTION_REJECTED")
  /\ UNCHANGED <<vars, opts, chainVars>>

\* sendTransaction threw, and the transaction may have got through.
SendLost(s) ==
  /\ At(s, "send")
  /\ Acceptable(call[s].tx)
  /\ pool' = pool \cup {call[s].tx}
  /\ \E code \in ThrownCode :
       call' = [call EXCEPT ![s] = [@ EXCEPT !.phase = "done", !.outcome = code,
                                             !.sent = TRUE]]
  /\ UNCHANGED <<vars, opts, seq, running, applied>>

\* Any other awaited request threw.
RequestFails(s) ==
  /\ call[s].phase \in {"network", "account", "prepare", "send", "poll"}
  /\ \E code \in ThrownCode : Reject(s, code)
  /\ UNCHANGED <<vars, opts, chainVars>>

\* Mutant: one poll too many before the deadline is noticed.
PollNotFoundLate(s) ==
  LET n == call[s].polls + 1
  IN  /\ At(s, "poll")
      /\ call' = [call EXCEPT ![s] =
           IF n <= PollLimit THEN [@ EXCEPT !.polls = n]
           ELSE [@ EXCEPT !.phase = "done", !.outcome = "NETWORK_ERROR", !.polls = n]]
      /\ UNCHANGED <<vars, opts, chainVars>>

\* Mutant: the deadline is reported as a rejected transaction.
PollNotFoundRejects(s) ==
  LET n == call[s].polls + 1
  IN  /\ At(s, "poll")
      /\ call' = [call EXCEPT ![s] =
           IF n < PollLimit THEN [@ EXCEPT !.polls = n]
           ELSE [@ EXCEPT !.phase = "done", !.outcome = "TRANSACTION_REJECTED", !.polls = n]]
      /\ UNCHANGED <<vars, opts, chainVars>>

\* Mutant: the loop has no deadline.
PollNotFoundForever(s) ==
  /\ At(s, "poll")
  /\ call' = [call EXCEPT ![s].polls = (@ + 1) % PollLimit]
  /\ UNCHANGED <<vars, opts, chainVars>>

\* getTransaction answered NOT_FOUND: not applied yet, or not seen yet.
PollNotFound(s) ==
  LET n == call[s].polls + 1
  IN  /\ At(s, "poll")
      /\ call' = [call EXCEPT ![s] =
           IF n < PollLimit THEN [@ EXCEPT !.polls = n]
           ELSE [@ EXCEPT !.phase = "done", !.outcome = "NETWORK_ERROR", !.polls = n]]
      /\ UNCHANGED <<vars, opts, chainVars>>

\* getTransaction answered FAILED.
PollFailed(s) ==
  /\ At(s, "poll")
  /\ \E r \in applied : r.tx = call[s].tx /\ ~r.ok
  /\ Reject(s, "TRANSACTION_REJECTED")
  /\ UNCHANGED <<vars, opts, chainVars>>

\* decodeVerifyReturnValue: the boolean in the answer's return value or in its
\* fn_return diagnostic event, or neither.
Decoded(r) == {r.results, None}

\* Mutant: without the event, a batch that was applied counts as verified.
DecodedBatchAssumed(r) == {r.results, [i \in DOMAIN r.tx.items |-> TRUE]}

\* decodeBoolArrayFromDiagnostics: the flags of the fn_return diagnostic event,
\* or an empty array when the answer has none.
DecodedBatch(r) == {r.results, <<>>}

Resolve(s, verified) ==
  call' = [call EXCEPT ![s] = [@ EXCEPT !.phase = "done", !.outcome = "verified",
                                        !.verified = verified]]

\* Mutant: a missing return value is coerced to false.
PollSuccessCoerced(s) ==
  /\ At(s, "poll") /\ opts[s].op = "verify_proof"
  /\ \E r \in applied : \E value \in Decoded(r) :
       /\ r.tx = call[s].tx /\ r.ok
       /\ Resolve(s, IF value = None THEN <<FALSE>> ELSE value)
  /\ UNCHANGED <<vars, opts, chainVars>>

\* getTransaction answered SUCCESS, with all it should carry or without.
PollSuccess(s) ==
  /\ At(s, "poll") /\ opts[s].op = "verify_proof"
  /\ \E r \in applied : \E value \in Decoded(r) :
       /\ r.tx = call[s].tx /\ r.ok
       /\ IF value = None THEN Reject(s, "CONTRACT_INVOCATION_FAILED")
                          ELSE Resolve(s, value)
  /\ UNCHANGED <<vars, opts, chainVars>>

\* The same in verifyBatchOnChain, which is satisfied with an answer that has a
\* ledger and a result.
PollBatchSuccess(s) ==
  /\ At(s, "poll") /\ opts[s].op = "verify_batch"
  /\ \E r \in applied :
       /\ r.tx = call[s].tx /\ r.ok
       /\ \/ \E value \in DecodedBatch(r) : Resolve(s, value)
          \/ Reject(s, "CONTRACT_INVOCATION_FAILED")
  /\ UNCHANGED <<vars, opts, chainVars>>

SessionStep(s) ==
  \/ Start(s) \/ GetNetwork(s) \/ GetAccount(s) \/ Prepare(s) \/ PrepareBatch(s)
  \/ Send(s) \/ SendRefused(s) \/ SendLost(s) \/ RequestFails(s)
  \/ PollNotFound(s) \/ PollFailed(s) \/ PollSuccess(s) \/ PollBatchSuccess(s)

-----------------------------------------------------------------------------
(* The network.                                                            *)

\* A transaction's turn: its sequence number is used up.
Included(tx) ==
  /\ Idle
  /\ tx.seq = seq[tx.caller] + 1
  /\ seq' = [seq EXCEPT ![tx.caller] = @ + 1]
  /\ pool' = pool \ {tx}
  /\ UNCHANGED <<opts, call>>

Record(tx, ok, results) ==
  applied' = applied \cup {[tx |-> tx, ok |-> ok, results |-> results,
                            basis |-> Basis(tx.caller, tx.items)]}

\* The call reads the counter the simulation read, or none, and writes it only
\* if the simulation did.
InFootprint(tx) ==
  Allowed(tx.caller) =>
    /\ tx.window = CurrentWindow
    /\ tx.charged = 0 => RunBatch(tx.caller, tx.items).charged = 0

\* verify_proof runs on the state of the ledger that takes the transaction.
Apply(tx) ==
  /\ tx.op = "verify_proof" /\ InFootprint(tx)
  /\ Included(tx)
  /\ VerifyProof(tx.caller, tx.items[1])
  /\ Record(tx, receipt'.outcome = "Ok", receipt'.events)
  /\ UNCHANGED running

\* So does verify_batch, entry by entry.
ApplyBatch(tx) ==
  /\ tx.op = "verify_batch" /\ InFootprint(tx)
  /\ Included(tx)
  /\ BeginBatch(tx.caller)
  /\ running' = tx
  /\ UNCHANGED applied

RunEntry ==
  /\ ~Idle
  /\ Len(frame.items) < Len(running.items)
  /\ LET item == running.items[Len(frame.items) + 1]
     IN  \/ BatchEntry(item) /\ UNCHANGED clientVars
         \/ /\ BatchTrap(item)
            /\ Record(running, FALSE, <<>>)
            /\ running' = None
            /\ UNCHANGED <<opts, call, seq, pool>>

RunEnd ==
  /\ ~Idle
  /\ Len(frame.items) = Len(running.items)
  /\ EndBatch
  /\ Record(running, TRUE, receipt'.events)
  /\ running' = None
  /\ UNCHANGED <<opts, call, seq, pool>>

\* The host fails a call that leaves its footprint, and may
\* fail one that does more than its simulation.
ApplyFails(tx) ==
  /\ \/ ~InFootprint(tx)
     \/ tx.op = "verify_batch" /\ RunBatch(tx.caller, tx.items).charged > tx.charged
  /\ Included(tx)
  /\ Record(tx, FALSE, <<>>)
  /\ UNCHANGED <<vars, running>>

\* The time bounds of a transaction pass before a ledger takes it.
Drop(tx) ==
  /\ pool' = pool \ {tx}
  /\ UNCHANGED <<vars, opts, call, seq, running, applied>>

ClientInit ==
  /\ Init
  /\ opts \in [Session -> Request]
  /\ call = [s \in Session |-> NewCall]
  /\ seq = [a \in Address |-> 0]
  /\ pool = {} /\ running = None /\ applied = {}

Network ==
  \/ \E tx \in pool : Apply(tx) \/ ApplyBatch(tx) \/ ApplyFails(tx) \/ Drop(tx)
  \/ RunEntry
  \/ RunEnd

ClientNext ==
  \/ ((\E s \in Address : AdminCall(s)) \/ CloseLedger) /\ UNCHANGED clientVars
  \/ \E s \in Session : SessionStep(s)
  \/ Network

\* Every awaited request is answered or throws: fetch of the SDK's transport
\* settles.  Nothing is assumed of the network or of the other parties.
Fairness == \A s \in Session : WF_allVars(SessionStep(s))

ClientSpec == ClientInit /\ [][ClientNext]_allVars /\ Fairness

-----------------------------------------------------------------------------
(* Properties.                                                             *)

\* The state of the sessions and of the network is well formed, a session polls
\* only for a transaction the network took, and a batch in progress is that of
\* the transaction being applied, entry by entry in its order.
ClientTypeOK ==
  /\ TypeOK
  /\ seq \in [Address -> Nat]
  /\ \A s \in Session :
       /\ call[s].phase \in {"idle", "network", "account", "prepare", "send", "poll", "done"}
       /\ call[s].outcome \in {"none", "verified"} \cup CertainCode \cup ThrownCode
       /\ call[s].polls \in 0..PollLimit
       /\ call[s].phase = "poll" => call[s].sent
  /\ Idle => running = None
  /\ ~Idle =>
       /\ frame.caller = running.caller
       /\ Len(frame.items) <= Len(running.items)
       /\ \A i \in DOMAIN frame.items : frame.items[i] = running.items[i]

\* A promise that resolves has the contract's word for it: its transaction was
\* applied, and what the contract returned is what the promise says, a missing
\* return value never being read as false.  Only verifyBatchOnChain may also say
\* nothing.
ResultIsOnChain ==
  \A s \in Session : call[s].outcome = "verified" =>
    \E r \in applied :
      /\ r.tx = call[s].tx /\ r.ok
      /\ \/ call[s].verified = r.results
         \/ opts[s].op = "verify_batch" /\ call[s].verified = <<>>

\* What the doc of VerifyBatchResult says: "`verified[i]` corresponds to
\* `items[i]` from the request, in order."
BatchResultComplete ==
  \A s \in Session : call[s].outcome = "verified" =>
    Len(call[s].verified) = Len(opts[s].items)

\* A session rejected with one of the codes that say so is not charged, then or
\* later: nothing it sent is waiting or was counted.
RejectedUncharged ==
  \A s \in Session : call[s].outcome \in CertainCode /\ call[s].sent =>
    /\ call[s].tx \notin pool
    /\ \A r \in applied : r.tx = call[s].tx => ~r.ok

\* A call that passed simulation fails in a ledger only if something it depends
\* on changed in between: the comment on FAILED in verifyOnChain.
FailureMeansChange ==
  \A s \in Session, r \in applied :
    call[s].tx = r.tx /\ ~r.ok => r.basis # call[s].basis

-----------------------------------------------------------------------------
(* The inductive strengthening of RejectedUncharged and ResultIsOnChain.   *)

\* A transaction the SDK built from options it accepts.
Built(tx) ==
  /\ tx \in TransactionType
  /\ tx.op = "verify_proof" => Len(tx.items) = 1

CallField == DOMAIN NewCall

\* A session has a transaction from its simulation on, no outcome and polls to
\* spare before it is done, and if its transaction was taken and its outcome is
\* a certain rejection, there is a ledger that failed the transaction.
SessionInv(s) ==
  LET c == call[s]
  IN  /\ c = [f \in CallField |-> c[f]]
      /\ c.sent \in BOOLEAN
      /\ c.seq \in Nat
      /\ c.phase \in {"send", "poll"} => Built(c.tx)
      /\ c.phase # "done" => c.outcome = "none" /\ c.polls < PollLimit
      /\ c.sent => c.phase \in {"poll", "done"}
      /\ c.outcome \in CertainCode /\ c.sent =>
           \E r \in applied : r.tx = c.tx /\ ~r.ok

\* An account has at most one transaction waiting, with its next sequence
\* number, and what a ledger took once has an earlier one and one outcome.
NetworkInv ==
  /\ \A tx \in pool : Built(tx) /\ tx.seq = seq[tx.caller] + 1
  /\ \A tx, other \in pool : tx.caller = other.caller => tx = other
  /\ \A r \in applied :
       r.tx.caller \in Address /\ r.tx.seq \in Nat /\ r.tx.seq <= seq[r.tx.caller]
  /\ \A r, other \in applied : r.tx = other.tx => r = other
  /\ ~Idle => /\ Built(running) /\ running.op = "verify_batch"
              /\ running.seq <= seq[running.caller]
              /\ \A r \in applied : r.tx # running

ClientInv ==
  /\ ClientTypeOK
  /\ opts \in [Session -> Request]
  /\ call = [s \in Session |-> call[s]]
  /\ \A s \in Session : SessionInv(s)
  /\ NetworkInv
  /\ ResultIsOnChain

(* The inductive strengthening of FailureMeansChange.                      *)

\* A transaction applied on basis b stays within what its simulation declared,
\* and the contract returns Ok.
GoesThrough(tx, b) ==
  /\ b.allowed => tx.window = b.window
  /\ IF tx.op = "verify_proof"
     THEN /\ VerdictAt(b, 1, b.used, tx.items[1]) \in {"True", "False"}
          /\ tx.charged = 1
     ELSE /\ \A i \in 1..Len(tx.items) : VerdictAt(b, i, Met(b, i), tx.items[i]) # "Trap"
          /\ tx.charged = IF b.allowed THEN Met(b, Len(tx.items) + 1) - b.used ELSE 0

\* Every transaction that was built goes through on the basis of its simulation,
\* and none that failed would on the basis it failed on.
FailureInv ==
  /\ \A s \in Session : call[s].tx # None => GoesThrough(call[s].tx, call[s].basis)
  /\ \A r \in applied : r.tx # None /\ (~r.ok => ~GoesThrough(r.tx, r.basis))

-----------------------------------------------------------------------------
\* Every promise settles, whatever becomes of its transaction.
CallSettles == \A s \in Session : ~At(s, "idle") ~> At(s, "done")

=============================================================================
