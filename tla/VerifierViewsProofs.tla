------------------------ MODULE VerifierViewsProofs ------------------------
(***************************************************************************)
(* Theorems about VerifierViews for every number of sessions, every        *)
(* request and every history of calls and administration, and their        *)
(* proofs.                                                                 *)
(***************************************************************************)
EXTENDS VerifierViews, VerifierChargeProofs

USE DEF Ledger

-----------------------------------------------------------------------------
(* The contract takes no notice of the sessions.                           *)

LEMMA ViewsImplementVerifier == ViewsSpec => Spec
<1>1. ViewsInit => Init
  BY DEF ViewsInit
<1>2. [ViewsNext]_allVars => [Next]_vars
  BY DEF ViewsNext, allVars
<1> QED
  BY <1>1, <1>2, PTL DEF ViewsSpec, Spec

LEMMA ViewsCharge == ViewsSpec => []ChargeInv
BY ViewsImplementVerifier, ChargeInvariant, PTL

-----------------------------------------------------------------------------
(* Types.                                                                  *)

\* The codes a session may be rejected with.
Codes == ThrownCode \cup CertainCode

LEMMA ErrorCodesAreCodes ==
  ASSUME NEW v
  PROVE  ErrorCodes(v) \subseteq Codes
BY DEF ErrorCodes, Codes, CertainCode, ThrownCode

\* The fee of a call is typed, and never pays for less than a window from now.
LEMMA FeeFacts ==
  ASSUME TypeOK, NEW e \in EntryType
  PROVE  /\ Fee(e) \in [creates: BOOLEAN, life: Nat]
         /\ Fee(e).creates = (e.n = 0)
         /\ e.n = 0 => Fee(e).life = Larger(MinTtl, limits.window_size) + 1
         /\ e.n # 0 => Fee(e).life =
              Larger(e.liveUntil, ledger + limits.window_size) - e.liveUntil
<1> DEFINE W == limits.window_size
<1>1. ledger \in Nat /\ MinTtl \in Nat /\ W \in Nat /\ e.n \in Nat /\ e.liveUntil \in Nat
  BY ConstantsAssumption DEF TypeOK, LimitsType, EntryType
<1>2. Charge(e).liveUntil =
        IF e.n = 0 THEN Larger(ledger + MinTtl, ledger + W)
        ELSE Larger(e.liveUntil, ledger + W)
  BY DEF Charge
<1>3. Fee(e).creates = (e.n = 0)
      /\ Fee(e).life = Charge(e).liveUntil - (IF e.n = 0 THEN ledger - 1 ELSE e.liveUntil)
  BY DEF Fee
<1>4. e.n = 0 => Fee(e).life = Larger(MinTtl, W) + 1
  BY <1>1, <1>2, <1>3 DEF Larger
<1>5. e.n # 0 => Fee(e).life = Larger(e.liveUntil, ledger + W) - e.liveUntil
  BY <1>2, <1>3
<1>6. Fee(e).life \in Nat
  BY <1>1, <1>4, <1>5 DEF Larger
<1>7. Fee(e) = [creates |-> Fee(e).creates, life |-> Fee(e).life]
  BY DEF Fee
<1> QED
  BY <1>3, <1>4, <1>5, <1>6, <1>7

\* What may be true of one session.
GoodCall(o, c) ==
  /\ c = [f \in DOMAIN NewCall |-> c[f]]
  /\ c.phase \in {"idle", "network", "account", "simulate", "done"}
  /\ c.outcome \in Codes \cup {"none", "answered"}
  /\ c.phase = "done" <=> c.outcome # "none"
  /\ IF c.outcome = "answered" THEN c.answer \in Answer(o) ELSE c.answer = None

\* ViewsTypeOK, session by session.
ViewsInv ==
  /\ opts \in [Session -> Request]
  /\ asked \in [Session -> [ledger: Ledger, window: Ledger]]
  /\ call = [s \in Session |-> call[s]]
  /\ \A s \in Session : GoodCall(opts[s], call[s])

\* The steps a session is made of.
LEMMA ProceedGood ==
  ASSUME ViewsInv, NEW s \in Session, NEW phase \in {"network", "account", "simulate"},
         Proceed(s, phase), call[s].phase # "done"
  PROVE  /\ call' = [call EXCEPT ![s] = call'[s]]
         /\ GoodCall(opts[s], call'[s])
         /\ call'[s].outcome # "answered"
<1>1. call'[s] = [call[s] EXCEPT !.phase = phase] /\ call' = [call EXCEPT ![s] = call'[s]]
  BY DEF Proceed, ViewsInv
<1>2. GoodCall(opts[s], call[s])
  BY DEF ViewsInv
<1>3. /\ call'[s] = [f \in DOMAIN NewCall |-> call'[s][f]]
      /\ call'[s].phase = phase
      /\ call'[s].outcome = call[s].outcome /\ call'[s].answer = call[s].answer
  BY <1>1, <1>2 DEF GoodCall, NewCall
<1> QED
  BY <1>1, <1>2, <1>3 DEF GoodCall

LEMMA RejectGood ==
  ASSUME ViewsInv, NEW s \in Session, NEW code \in Codes, Reject(s, code),
         call[s].phase # "done"
  PROVE  /\ call' = [call EXCEPT ![s] = call'[s]]
         /\ GoodCall(opts[s], call'[s])
         /\ call'[s].outcome # "answered"
<1>1. call'[s] = [call[s] EXCEPT !.phase = "done", !.outcome = code]
      /\ call' = [call EXCEPT ![s] = call'[s]]
  BY DEF Reject, ViewsInv
<1>2. GoodCall(opts[s], call[s])
  BY DEF ViewsInv
<1>3. /\ call'[s] = [f \in DOMAIN NewCall |-> call'[s][f]]
      /\ call'[s].phase = "done"
      /\ call'[s].outcome = code /\ call'[s].answer = call[s].answer
  BY <1>1, <1>2 DEF GoodCall, NewCall
<1>4. code # "none" /\ code # "answered"
  BY DEF Codes, ThrownCode, CertainCode
<1> QED
  BY <1>1, <1>2, <1>3, <1>4 DEF GoodCall

LEMMA ResolveGood ==
  ASSUME ViewsInv, NEW s \in Session, NEW answer \in Answer(opts[s]), Resolve(s, answer)
  PROVE  /\ call' = [call EXCEPT ![s] = call'[s]]
         /\ GoodCall(opts[s], call'[s])
         /\ call'[s].answer = answer
<1>1. /\ call' = [call EXCEPT ![s] = call'[s]]
      /\ call'[s].phase = "done" /\ call'[s].outcome = "answered"
      /\ call'[s].answer = answer
      /\ call'[s] = [f \in DOMAIN NewCall |-> call'[s][f]]
  BY DEF Resolve, ViewsInv, NewCall
<1> QED
  BY <1>1 DEF GoodCall

LEMMA CallerIsAddress ==
  ASSUME ViewsInv, NEW s \in Session, IsEstimate(s)
  PROVE  opts[s].caller \in Address
<1>1. opts[s] \in RequestType
  BY ViewsAssumption DEF ViewsInv
<1>2. opts[s].caller \in CallerArg
  BY <1>1 DEF RequestType, IsEstimate
<1> QED
  BY <1>2, ConstantsAssumption

\* A caller's counter of the current window.
Counter(s) == counts[opts[s].caller][CurrentWindow]

LEMMA CounterIsEntry ==
  ASSUME TypeOK, ViewsInv, NEW s \in Session, IsEstimate(s)
  PROVE  Counter(s) \in EntryType
<1>1. CurrentWindow \in Ledger
  BY CurrentWindowBounds, ConstantsAssumption
<1> QED
  BY <1>1, CallerIsAddress DEF TypeOK, Counter

\* What a step of a session does: it leaves the others alone, keeps the types,
\* and answers an estimate with the fee of this very state.
LEMMA SessionStepEffect ==
  ASSUME TypeOK, ViewsInv, NEW s \in Session, SessionStep(s)
  PROVE  /\ call' = [call EXCEPT ![s] = call'[s]]
         /\ GoodCall(opts[s], call'[s])
         /\ asked' \in [Session -> [ledger: Ledger, window: Ledger]]
         /\ \A r \in Session : r # s => asked'[r] = asked[r]
         /\ IsEstimate(s) /\ call'[s].outcome = "answered" =>
              /\ call'[s].answer = Fee(Counter(s))
              /\ asked'[s] = [ledger |-> ledger, window |-> CurrentWindow]
<1> DEFINE framed == UNCHANGED asked
           kept == /\ call' = [call EXCEPT ![s] = call'[s]]
                   /\ GoodCall(opts[s], call'[s])
<1>1. ASSUME framed PROVE asked' \in [Session -> [ledger: Ledger, window: Ledger]]
  BY <1>1 DEF ViewsInv
<1>2. ThrownCode \subseteq Codes /\ {"INVALID_PROOF_FORMAT", "NETWORK_MISMATCH"} \subseteq Codes
      /\ "CONTRACT_INVOCATION_FAILED" \in Codes
  BY DEF Codes, ThrownCode, CertainCode
<1>3. CASE (Start(s) \/ GetNetwork(s) \/ GetAccount(s) \/ RequestFails(s)) /\ UNCHANGED asked
  <2>1. kept /\ call'[s].outcome # "answered"
    BY <1>2, <1>3, ProceedGood, RejectGood
    DEF Start, GetNetwork, GetAccount, RequestFails, At
  <2> QED
    BY <1>1, <1>3, <2>1
<1>4. CASE Read(s) /\ UNCHANGED asked
  <2>1. View(opts[s].op) \in Answer(opts[s])
    <3>1. opts[s] \in RequestType /\ opts[s].op # "estimate"
      BY <1>4, ViewsAssumption DEF ViewsInv, Read, IsEstimate
    <3>2. admin \in Address /\ wasm \in Wasm /\ limits \in LimitsType
          /\ allowlistEnabled \in BOOLEAN
      BY DEF TypeOK
    <3>3. Config \in [admin: Address, max: 0..U32Max, window: Nat \ {0},
                      allowlistEnabled: BOOLEAN]
      BY <3>2 DEF Config, LimitsType
    <3> QED
      BY <3>1, <3>2, <3>3 DEF View, Answer
  <2>2. kept
    BY <1>2, <1>4, <2>1, RejectGood, ResolveGood DEF Read, At
  <2> QED
    BY <1>1, <1>4, <2>2 DEF Read
<1>5. CASE Estimate(s)
  <2> DEFINE v == Verdict(opts[s].caller, opts[s].item, Counter(s))
  <2>1. IsEstimate(s) /\ call[s].phase # "done"
    BY <1>5 DEF Estimate, At
  <2>2. CASE Resolve(s, Fee(Counter(s)))
             /\ asked' = [asked EXCEPT ![s] = [ledger |-> ledger, window |-> CurrentWindow]]
    <3>1. Fee(Counter(s)) \in Answer(opts[s])
      BY <2>1, CounterIsEntry, FeeFacts DEF Answer, IsEstimate
    <3>2. [ledger |-> ledger, window |-> CurrentWindow] \in [ledger: Ledger, window: Ledger]
      BY CurrentWindowBounds, ConstantsAssumption DEF TypeOK
    <3>3. asked \in [Session -> [ledger: Ledger, window: Ledger]]
      BY DEF ViewsInv
    <3> QED
      BY <2>2, <3>1, <3>2, <3>3, ResolveGood
  <2>3. CASE (\E code \in ErrorCodes(v) : Reject(s, code)) /\ UNCHANGED asked
    <3>1. kept /\ call'[s].outcome # "answered"
      BY <2>1, <2>3, ErrorCodesAreCodes, RejectGood
    <3> QED
      BY <1>1, <2>3, <3>1
  <2> QED
    BY <1>5, <2>2, <2>3 DEF Estimate, Counter
<1> QED
  BY <1>3, <1>4, <1>5 DEF SessionStep

LEMMA NextViewsInv ==
  ASSUME TypeOK, ViewsInv, [ViewsNext]_allVars
  PROVE  ViewsInv'
<1>1. opts' = opts
  BY DEF ViewsNext, allVars, viewVars
<1>2. CASE UNCHANGED <<call, asked>>
  BY <1>1, <1>2 DEF ViewsInv
<1>3. ASSUME NEW s \in Session, SessionStep(s)
      PROVE  ViewsInv'
  <2>1. /\ call' = [call EXCEPT ![s] = call'[s]]
        /\ GoodCall(opts[s], call'[s])
        /\ asked' \in [Session -> [ledger: Ledger, window: Ledger]]
    BY <1>3, SessionStepEffect
  <2>2. call' = [r \in Session |-> call'[r]]
        /\ \A r \in Session : r # s => call'[r] = call[r]
    BY <2>1 DEF ViewsInv
  <2>3. \A r \in Session : GoodCall(opts[r], call'[r])
    BY <2>1, <2>2 DEF ViewsInv
  <2> QED
    BY <1>1, <2>1, <2>2, <2>3 DEF ViewsInv
<1> QED
  BY <1>2, <1>3 DEF ViewsNext, allVars, viewVars

LEMMA ViewsInvariant == ViewsSpec => []ViewsInv
<1>1. ViewsInit => ViewsInv
  BY ConstantsAssumption DEF ViewsInit, ViewsInv, GoodCall, NewCall
<1>2. ChargeInv => TypeOK
  BY DEF ChargeInv, BudgetInv
<1>3. TypeOK /\ ViewsInv /\ [ViewsNext]_allVars => ViewsInv'
  BY NextViewsInv
<1> QED
  BY <1>1, <1>2, <1>3, ViewsCharge, PTL DEF ViewsSpec

\* The sessions and the history keep their types, every settled session has one
\* outcome, and what it is answered is an answer of the function it called.
THEOREM ViewsTypeCorrect == ViewsSpec => []ViewsTypeOK
<1>1. ViewsInv => ViewsTypeOK
  BY DEF ViewsInv, ViewsTypeOK, GoodCall, Codes, At
<1> QED
  BY <1>1, ViewsInvariant, PTL

-----------------------------------------------------------------------------
(* Estimates.                                                              *)

\* A window that began after the limits were set either was the current one
\* before the step or is one that no ledger was in.
LEMMA WindowOfStep ==
  ASSUME ChargeInv, Next, since' < CurrentWindow'
  PROVE  /\ limits' = limits /\ since' = since
         /\ ledger' \in Nat /\ ledger <= ledger'
         /\ CurrentWindow' = CurrentWindow \/ CurrentWindow' > ledger
<1>1. ledger \in Nat /\ limits.window_size \in Nat \ {0}
  BY ConstantsAssumption DEF ChargeInv, BudgetInv, TypeOK, LimitsType
<1>2. CASE \E a \in Address, m \in MaxCallsArg, w \in WindowArg : SetLimits(a, m, w)
  <2>1. PICK a \in Address, m \in MaxCallsArg, w \in WindowArg : SetLimits(a, m, w)
    BY <1>2
  <2>2. since' = ledger /\ CurrentWindow' = WindowStart(ledger, w) /\ w \in Nat \ {0}
    BY <2>1, ConstantsAssumption DEF SetLimits, CurrentWindow
  <2>3. WindowStart(ledger, w) \in 0..ledger
    BY <1>1, <2>2, WindowBounds
  <2> QED
    BY <1>1, <2>2, <2>3
<1>3. CASE CloseLedger
  <2>1. /\ ledger' = ledger + 1 /\ limits' = limits /\ since' = since
        /\ CurrentWindow' = WindowStart(ledger + 1, limits.window_size)
    BY <1>3 DEF CloseLedger, CurrentWindow
  <2>2. CurrentWindow' = CurrentWindow \/ CurrentWindow' = ledger + 1
    BY <1>1, <2>1, NextWindow DEF CurrentWindow
  <2> QED
    BY <1>1, <2>1, <2>2
<1>4. CASE UNCHANGED <<ledger, limits, since>>
  BY <1>1, <1>4 DEF CurrentWindow
<1> QED
  BY <1>2, <1>3, <1>4
  DEF Next, AdminCall, VerifyCall, UpdateVk, SetAllowlistMode, AddToAllowlist,
      RemoveFromAllowlist, ProposeAdmin, AcceptAdmin, Upgrade, VerifyProof, BeginBatch,
      BatchEntry, BatchTrap, EndBatch, budget

\* While its window lasts, the counter of a caller who was charged in it is kept,
\* and a new charge makes it last a window from now.
LEMMA CounterLasts ==
  ASSUME ChargeInv, Next, NEW c \in Address, granted[c] > 0,
         since' < CurrentWindow', CurrentWindow' = CurrentWindow
  PROVE  /\ granted'[c] > 0
         /\ \/ counts'[c][CurrentWindow].liveUntil = counts[c][CurrentWindow].liveUntil
            \/ counts'[c][CurrentWindow].liveUntil >= ledger + limits.window_size
<1> DEFINE k == CurrentWindow
           W == limits.window_size
<1>1. /\ k \in Ledger /\ ledger \in Nat /\ W \in Nat \ {0} /\ k \in Nat
      /\ ledger < k + W
      /\ counts \in [Address -> [Ledger -> EntryType]]
      /\ granted \in [Address -> Nat]
  BY CurrentWindowBounds, ConstantsAssumption
  DEF ChargeInv, BudgetInv, TypeOK, LimitsType
<1>2. TypeOK
  BY DEF ChargeInv, BudgetInv
<1>3. UNCHANGED <<limits, since>>
  BY WindowOfStep
<1>4. CASE UNCHANGED <<counts, granted>>
  BY <1>4
<1>5. ASSUME NEW d \in Address, NEW e \in EntryType, NEW n \in Nat,
             counts' = [counts EXCEPT ![d][k] = e],
             granted' = [granted EXCEPT ![d] = @ + n],
             e = counts[d][k] \/ e.liveUntil >= ledger + W
      PROVE  /\ granted'[c] > 0
             /\ \/ counts'[c][k].liveUntil = counts[c][k].liveUntil
                \/ counts'[c][k].liveUntil >= ledger + W
  <2>1. granted'[c] >= granted[c] /\ granted[c] \in Nat /\ granted'[c] \in Nat
    BY <1>1, <1>5
  <2>2. /\ counts'[d][k] = e
        /\ \A b \in Address : b # d => counts'[b] = counts[b]
    BY <1>1, <1>5, CounterUpdate
  <2> QED
    BY <1>5, <2>1, <2>2
<1>6. CASE \E d \in CallerArg, item \in Item : VerifyProof(d, item)
  <2>1. PICK d \in CallerArg, item \in Item : VerifyProof(d, item)
    BY <1>6
  <2>2. d \in Address
    BY ConstantsAssumption
  <2>3. counts[d][k] \in EntryType
    BY <1>1, <2>2
  <2>4. /\ Charge(counts[d][k]) \in EntryType
        /\ Charge(counts[d][k]).liveUntil >= ledger + W
    BY <1>2, <2>3, ChargeFacts, ConstantsAssumption
  <2>5. \/ UNCHANGED <<counts, granted>>
        \/ /\ counts' = [counts EXCEPT ![d][k] = Charge(counts[d][k])]
           /\ granted' = [granted EXCEPT ![d] = @ + 1]
    BY <2>1 DEF VerifyProof
  <2> QED
    BY <1>4, <1>5, <2>2, <2>4, <2>5
<1>7. CASE EndBatch
  <2>1. /\ counts' = [counts EXCEPT ![frame.caller][k] = frame.entry]
        /\ granted' = [granted EXCEPT ![frame.caller] = @ + frame.granted]
        /\ ~Idle
    BY <1>7 DEF EndBatch
  <2>2. /\ frame.caller \in Address
        /\ frame.granted = 0 => frame.entry = counts[frame.caller][k]
        /\ frame.granted > 0 => ledger + W <= frame.entry.liveUntil
    BY <2>1 DEF ChargeInv, BudgetInv, FrameInv
  <2>3. frame.granted \in Nat /\ frame.entry \in EntryType /\ frame.entry.liveUntil \in Nat
    BY <1>2 DEF TypeOK, FrameType, EntryType
  <2>4. frame.entry = counts[frame.caller][k] \/ frame.entry.liveUntil >= ledger + W
    BY <1>1, <2>2, <2>3
  <2> QED
    BY <1>5, <2>1, <2>2, <2>3, <2>4
<1>8. CASE CloseLedger
  <2>1. /\ ledger' = ledger + 1
        /\ CurrentWindow' = WindowStart(ledger + 1, W)
        /\ granted' = IF WindowStart(ledger + 1, W) = CurrentWindow
                      THEN granted ELSE [a \in Address |-> 0]
        /\ counts' = Evict(ledger + 1)
    BY <1>8 DEF CloseLedger, CurrentWindow
  <2>2. granted' = granted
    BY <2>1
  <2>3. ledger + 1 < k + W
    <3>1. ledger + 1 \in Nat
      BY <1>1
    <3> HIDE DEF W
    <3> QED
      BY <1>1, <2>1, <3>1, WindowBounds
  <2>4. counts[c][k].liveUntil \in Nat /\ k + W <= counts[c][k].liveUntil + 1
    <3>1. counts[c][k] \in EntryType
      BY <1>1
    <3> QED
      BY <3>1 DEF ChargeInv, BudgetInv, WindowInv, EntryType
  <2>5. ~(counts[c][k].liveUntil < ledger + 1)
    BY <1>1, <2>3, <2>4
  <2>6. counts'[c][k] = counts[c][k]
    BY <1>1, <2>1, <2>5 DEF Evict
  <2> QED
    BY <2>2, <2>6
<1>9. CASE \E a \in Address, m \in MaxCallsArg, w \in WindowArg : SetLimits(a, m, w)
  <2>1. since' = ledger /\ k <= ledger
    BY <1>2, <1>9, CurrentWindowBounds, ConstantsAssumption DEF SetLimits
  <2> QED
    BY <1>1, <2>1
<1> QED
  BY <1>4, <1>6, <1>7, <1>8, <1>9
  DEF Next, AdminCall, VerifyCall, UpdateVk, SetAllowlistMode, AddToAllowlist,
      RemoveFromAllowlist, ProposeAdmin, AcceptAdmin, Upgrade, BeginBatch,
      BatchEntry, BatchTrap, budget

\* What EstimateInv says of one session.
Estimated(s) ==
  /\ asked[s].window <= asked[s].ledger /\ asked[s].ledger <= ledger
  /\ asked[s].window = CurrentWindow /\ since < CurrentWindow => Covered(s)

\* The step that makes an estimate, on the state it is made on.
LEMMA NewEstimate ==
  ASSUME ChargeInv, ViewsInv, NEW s \in Session, IsEstimate(s), UNCHANGED <<vars, opts>>,
         call'[s].answer = Fee(Counter(s)),
         asked'[s] = [ledger |-> ledger, window |-> CurrentWindow]
  PROVE  Estimated(s)'
<1> DEFINE e == Counter(s)
           W == limits.window_size
           c == opts[s].caller
<1>1. TypeOK
  BY DEF ChargeInv, BudgetInv
<1>2. e \in EntryType /\ c \in Address
  BY <1>1, CounterIsEntry, CallerIsAddress
<1>3. /\ ledger \in Nat /\ W \in Nat /\ CurrentWindow <= ledger
      /\ e.n \in Nat /\ e.liveUntil \in Nat
  <2>1. e.n \in Nat /\ e.liveUntil \in Nat
    BY <1>2 DEF EntryType
  <2>2. ledger \in Nat /\ W \in Nat
    BY <1>1, ConstantsAssumption DEF TypeOK, LimitsType
  <2> QED
    BY <1>1, <2>1, <2>2, CurrentWindowBounds, ConstantsAssumption
<1>4. /\ Fee(e).creates = (e.n = 0)
      /\ e.n = 0 => Fee(e).life = Larger(MinTtl, W) + 1
      /\ e.n # 0 => Fee(e).life = Larger(e.liveUntil, ledger + W) - e.liveUntil
  BY <1>1, <1>2, FeeFacts
<1>5. UNCHANGED <<ledger, limits, counts, granted, since, opts>> /\ CurrentWindow' = CurrentWindow
  BY DEF vars, budget, CurrentWindow
<1>6. asked'[s].ledger = ledger /\ asked'[s].window = CurrentWindow
  OBVIOUS
<1>7. ASSUME since < CurrentWindow
      PROVE  IF Fee(e).creates THEN Fee(e).life = Larger(MinTtl, W) + 1
             ELSE granted[c] > 0 /\ ledger + W <= e.liveUntil + Fee(e).life
  <2>1. e.n = granted[c]
    BY <1>2, <1>7 DEF ChargeInv, RateExact, Counter
  <2>2. CASE e.n = 0
    BY <1>4, <2>2
  <2>3. CASE e.n # 0
    <3>1. ledger + W <= e.liveUntil + Fee(e).life
      BY <1>3, <1>4, <2>3 DEF Larger
    <3>2. ~Fee(e).creates
      BY <1>4, <2>3
    <3>3. granted[c] > 0
      BY <1>3, <2>1, <2>3
    <3> QED
      BY <3>1, <3>2, <3>3
  <2> QED
    BY <2>2, <2>3
<1>8. since' < CurrentWindow' => Covered(s)'
  BY <1>5, <1>6, <1>7 DEF Covered, Counter
<1> QED
  BY <1>3, <1>5, <1>6, <1>8 DEF Estimated

\* A step of the contract, for an estimate that was made before it.
LEMMA OldEstimate ==
  ASSUME ChargeInv, ViewsInv, NEW s \in Session, IsEstimate(s),
         call[s].outcome = "answered", Estimated(s), Next, UNCHANGED <<opts, call, asked>>
  PROVE  Estimated(s)'
<1> DEFINE c == opts[s].caller
           W == limits.window_size
           k == CurrentWindow
           fee == call[s].answer
<1>1. TypeOK
  BY DEF ChargeInv, BudgetInv
<1>2. /\ ledger \in Nat /\ W \in Nat /\ c \in Address
      /\ asked[s].ledger \in Nat /\ asked[s].window \in Nat
      /\ fee.creates \in BOOLEAN /\ fee.life \in Nat
  <2>1. GoodCall(opts[s], call[s]) /\ asked[s] \in [ledger: Ledger, window: Ledger]
    BY DEF ViewsInv
  <2>2. fee \in [creates: BOOLEAN, life: Nat]
    BY <2>1 DEF GoodCall, Answer, IsEstimate
  <2>3. ledger \in Nat /\ W \in Nat
    BY <1>1, ConstantsAssumption DEF TypeOK, LimitsType
  <2> QED
    BY <2>1, <2>2, <2>3, CallerIsAddress, ConstantsAssumption
<1>3. asked'[s].ledger <= ledger'
  <2>1. ledger' \in Nat /\ ledger <= ledger'
    <3>1. ledger' = ledger \/ ledger' = ledger + 1
      BY DEF Next, AdminCall, VerifyCall, SetLimits, UpdateVk, SetAllowlistMode,
             AddToAllowlist, RemoveFromAllowlist, ProposeAdmin, AcceptAdmin, Upgrade,
             VerifyProof, BeginBatch, BatchEntry, BatchTrap, EndBatch, CloseLedger
    <3> QED
      BY <1>2, <3>1
  <2> QED
    BY <1>2, <2>1 DEF Estimated
<1>4. ASSUME asked'[s].window = CurrentWindow', since' < CurrentWindow'
      PROVE  Covered(s)'
  <2>1. limits' = limits /\ since' = since /\ CurrentWindow' = k
    <3>1. ~(CurrentWindow' > ledger)
      BY <1>2, <1>4 DEF Estimated
    <3> QED
      BY <1>4, <3>1, WindowOfStep
  <2>2. Covered(s)
    BY <1>4, <2>1 DEF Estimated
  <2>3. CASE fee.creates
    BY <2>1, <2>2, <2>3 DEF Covered
  <2>4. CASE ~fee.creates
    <3>1. granted[c] > 0 /\ asked[s].ledger + W <= counts[c][k].liveUntil + fee.life
      BY <2>2, <2>4 DEF Covered
    <3>2. /\ granted'[c] > 0
          /\ \/ counts'[c][k].liveUntil = counts[c][k].liveUntil
             \/ counts'[c][k].liveUntil >= ledger + W
      BY <1>2, <1>4, <2>1, <3>1, CounterLasts
    <3>3. counts'[c][k].liveUntil \in Nat
      <4>1. TypeOK'
        BY <1>1, NextTypeOK, ConstantsAssumption
      <4>2. k \in Ledger
        BY <1>1, CurrentWindowBounds, ConstantsAssumption
      <4> QED
        BY <1>2, <4>1, <4>2 DEF TypeOK, EntryType
    <3>4. asked[s].ledger + W <= counts'[c][k].liveUntil + fee.life
      <4>1. asked[s].ledger <= ledger
        BY DEF Estimated
      <4> QED
        BY <1>2, <3>1, <3>2, <3>3, <4>1
    <3> QED
      BY <2>1, <2>4, <3>2, <3>4 DEF Covered
  <2> QED
    BY <1>2, <2>3, <2>4
<1> QED
  BY <1>3, <1>4 DEF Estimated

LEMMA NextEstimateInv ==
  ASSUME ChargeInv, ViewsInv, EstimateInv, [ViewsNext]_allVars
  PROVE  EstimateInv'
<1> SUFFICES ASSUME NEW s \in Session, IsEstimate(s)', call'[s].outcome = "answered"
             PROVE  Estimated(s)'
  BY DEF EstimateInv, Estimated
<1>1. opts' = opts /\ IsEstimate(s)
  BY DEF ViewsNext, allVars, viewVars, IsEstimate
<1>2. call[s].outcome = "answered" => Estimated(s)
  BY <1>1 DEF EstimateInv, Estimated
<1>3. CASE UNCHANGED <<vars, call[s], asked[s]>>
  BY <1>1, <1>2, <1>3 DEF Estimated, Covered, vars, budget, CurrentWindow
<1>4. CASE Next /\ UNCHANGED <<call, asked>>
  BY <1>1, <1>2, <1>4, OldEstimate
<1>5. ASSUME NEW r \in Session, SessionStep(r), UNCHANGED vars
      PROVE  Estimated(s)'
  <2>1. TypeOK
    BY DEF ChargeInv, BudgetInv
  <2>2. CASE r = s
    BY <1>1, <1>5, <2>1, <2>2, SessionStepEffect, NewEstimate
  <2>3. CASE r # s
    <3>1. call'[s] = call[s] /\ asked'[s] = asked[s]
      BY <1>5, <2>1, <2>3, SessionStepEffect DEF ViewsInv
    <3> QED
      BY <1>3, <1>5, <3>1
  <2> QED
    BY <2>2, <2>3
<1> QED
  BY <1>3, <1>4, <1>5 DEF ViewsNext, allVars, viewVars

\* An estimate of this window against the fee of a call now.
LEMMA EstimateSuffices ==
  ASSUME ChargeInv, ViewsInv, EstimateInv, NEW s \in Session, IsEstimate(s),
         call[s].outcome = "answered", asked[s].window = CurrentWindow,
         since < CurrentWindow
  PROVE  LET now == Fee(Counter(s))
         IN  /\ now.creates => call[s].answer.creates
             /\ now.life <= call[s].answer.life + (ledger - asked[s].ledger)
<1> DEFINE c == opts[s].caller
           e == Counter(s)
           W == limits.window_size
           fee == call[s].answer
<1>1. TypeOK
  BY DEF ChargeInv, BudgetInv
<1>2. /\ e.n \in Nat /\ e.liveUntil \in Nat /\ e.n = granted[c] /\ e \in EntryType
      /\ CurrentWindow \in Nat /\ ledger < CurrentWindow + W
      /\ ledger \in Nat /\ W \in Nat /\ MinTtl \in Nat
  <2>1. e \in EntryType
    BY <1>1, CounterIsEntry
  <2>2. e.n = granted[c]
    BY CallerIsAddress DEF ChargeInv, RateExact, Counter
  <2>3. ledger \in Nat /\ W \in Nat /\ MinTtl \in Nat
    BY <1>1, ConstantsAssumption DEF TypeOK, LimitsType
  <2>4. CurrentWindow \in Nat /\ ledger < CurrentWindow + W
    BY <1>1, CurrentWindowBounds, ConstantsAssumption
  <2> QED
    BY <2>1, <2>2, <2>3, <2>4 DEF EntryType
<1>3. asked[s].ledger \in Nat /\ fee.creates \in BOOLEAN /\ fee.life \in Nat
  <2>1. asked[s] \in [ledger: Ledger, window: Ledger] /\ GoodCall(opts[s], call[s])
    BY DEF ViewsInv
  <2>2. fee \in [creates: BOOLEAN, life: Nat]
    BY <2>1 DEF GoodCall, Answer, IsEstimate
  <2> QED
    BY <2>1, <2>2, ConstantsAssumption
<1>4. asked[s].ledger <= ledger /\ Covered(s)
  BY DEF EstimateInv
<1>5. /\ Fee(e).creates = (e.n = 0) /\ Fee(e).life \in Nat
      /\ e.n = 0 => Fee(e).life = Larger(MinTtl, W) + 1
      /\ e.n # 0 => Fee(e).life = Larger(e.liveUntil, ledger + W) - e.liveUntil
  BY <1>1, <1>2, FeeFacts
<1>6. CASE e.n = 0
  <2>1. fee.creates
    BY <1>2, <1>4, <1>6 DEF Covered
  <2>2. fee.life = Larger(MinTtl, W) + 1
    BY <1>4, <2>1 DEF Covered
  <2> QED
    BY <1>2, <1>3, <1>4, <1>5, <1>6, <2>1, <2>2
<1>7. CASE e.n # 0 /\ fee.creates
  <2>1. fee.life >= W
    BY <1>2, <1>4, <1>7 DEF Covered, Larger
  <2>2. CurrentWindow + W <= e.liveUntil + 1
    BY <1>2, <1>7, CallerIsAddress DEF ChargeInv, BudgetInv, WindowInv, Counter
  <2>3. Fee(e).life <= W
    BY <1>2, <1>5, <1>7, <2>2 DEF Larger
  <2> QED
    BY <1>2, <1>3, <1>4, <1>5, <1>7, <2>1, <2>3
<1>8. CASE e.n # 0 /\ ~fee.creates
  <2>1. asked[s].ledger + W <= e.liveUntil + fee.life
    BY <1>4, <1>8 DEF Covered, Counter
  <2>2. Fee(e).life <= fee.life + (ledger - asked[s].ledger)
    BY <1>2, <1>3, <1>4, <1>5, <1>8, <2>1 DEF Larger
  <2> QED
    BY <1>5, <1>8, <2>2
<1> QED
  BY <1>3, <1>6, <1>7, <1>8

\* Whatever calls and changes come between, what estimateVerifyFee told a caller
\* covers the caller's verify_proof for the rest of the window, up to the rent of
\* one ledger for each that has passed.
THEOREM EstimateCoversHolds == ViewsSpec => []EstimateCovers
<1>1. ViewsInit => EstimateInv
  BY DEF ViewsInit, NewCall, EstimateInv
<1>2. ChargeInv /\ ViewsInv /\ EstimateInv /\ [ViewsNext]_allVars => EstimateInv'
  BY NextEstimateInv
<1>3. ChargeInv /\ ViewsInv /\ EstimateInv => EstimateCovers
  BY EstimateSuffices DEF EstimateCovers, Counter
<1> QED
  BY <1>1, <1>2, <1>3, ViewsCharge, ViewsInvariant, PTL DEF ViewsSpec

=============================================================================
