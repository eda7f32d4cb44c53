------------------------ MODULE VerifierClientProofs ------------------------
(***************************************************************************)
(* Theorems about VerifierClient for every number of sessions, every       *)
(* request, every poll limit and every behaviour of the network and of the *)
(* admins, and their proofs.                                               *)
(***************************************************************************)
EXTENDS VerifierClient, VerifierChargeProofs, WellFoundedInduction

-----------------------------------------------------------------------------
(* A simulated batch.                                                      *)

\* The least element of a set of natural numbers: what holds for every number
\* is argued from the least one for which it does not.
LEMMA Least ==
  ASSUME NEW T, T \subseteq Nat, T # {}
  PROVE  \E m \in T : \A k \in T : m <= k
<1>1. IsWellFoundedOn(OpToRel(<, Nat), Nat)
  BY NatLessThanWellFounded
<1>2. PICK m \in T : \A k \in T : ~ (<<k, m>> \in OpToRel(<, Nat))
  BY <1>1, WFMin
<1>3. \A k \in T : ~ (k < m)
  BY <1>2 DEF OpToRel
<1> QED
  BY <1>3

\* Where the loop of verify_batch stands after an entry: the counter, whether an
\* entry panicked, and how many were charged.
RunState == [entry: EntryType, trapped: BOOLEAN, charged: Nat]

AfterEntry(c, item, before) ==
  LET v == Verdict(c, item, before.entry)
  IN  IF WithinBudget(v)
      THEN [entry |-> Charge(before.entry), charged |-> before.charged + 1,
            trapped |-> before.trapped \/ v = "Trap"]
      ELSE before

\* A run of k steps, each a function of where the one before it ended, exists.
LEMMA RunExists ==
  ASSUME NEW start \in RunState, NEW k \in Nat, NEW F \in [1..k -> [RunState -> RunState]]
  PROVE  \E g \in [0..k -> RunState] :
           g[0] = start /\ \A i \in 1..k : g[i] = F[i][g[i - 1]]
<1> DEFINE Good(m, g) == g \in [0..m -> RunState] /\ g[0] = start
                         /\ \A i \in 1..m : g[i] = F[i][g[i - 1]]
           Reached(m) == \E g : Good(m, g)
           Bad == {m \in Nat : m <= k /\ ~Reached(m)}
<1> SUFFICES ASSUME Bad # {} PROVE FALSE
  <2>1. Bad = {} => Reached(k)
    <3> HIDE DEF Reached
    <3> QED
      OBVIOUS
  <2> QED
    BY <2>1
<1>1. PICK m \in Bad : \A x \in Bad : m <= x
  <2> HIDE DEF Reached
  <2> QED
    BY Least
<1>2. m \in Nat /\ m <= k /\ ~Reached(m)
  OBVIOUS
<1>3. m # 0
  <2>1. Good(0, [i \in 0..0 |-> start])
    OBVIOUS
  <2> QED
    BY <1>2, <2>1
<1>4. PICK g : Good(m - 1, g)
  <2>1. Reached(m - 1)
    <3> HIDE DEF Reached
    <3>1. m - 1 \in Nat /\ m - 1 <= k
      BY <1>2, <1>3
    <3>2. m - 1 \notin Bad
      BY <1>1, <1>2
    <3> QED
      BY <3>1, <3>2
  <2> QED
    BY <2>1
<1> DEFINE h == [i \in 0..m |-> IF i = m THEN F[m][g[m - 1]] ELSE g[i]]
<1>5. h \in [0..m -> RunState] /\ h[0] = start
  <2>1. m - 1 \in 0..(m - 1) /\ m \in 1..k
    BY <1>2, <1>3
  <2>2. F[m][g[m - 1]] \in RunState
    BY <1>4, <2>1
  <2>3. \A i \in 0..m : i # m => g[i] \in RunState
    BY <1>2, <1>4
  <2> HIDE DEF Good
  <2>4. g[0] = start
    BY <1>4 DEF Good
  <2> QED
    BY <1>2, <1>3, <2>2, <2>3, <2>4
<1>6. \A i \in 1..m : h[i] = F[i][h[i - 1]]
  <2> SUFFICES ASSUME NEW i \in 1..m PROVE h[i] = F[i][h[i - 1]]
    OBVIOUS
  <2>1. i - 1 \in 0..m /\ i - 1 # m /\ i \in 0..m /\ h[i - 1] = g[i - 1]
    BY <1>2
  <2>2. CASE i = m
    BY <2>1, <2>2
  <2>3. CASE i # m
    <3>1. i \in 1..(m - 1) /\ h[i] = g[i]
      BY <1>2, <2>1, <2>3
    <3> QED
      BY <1>4, <2>1, <3>1
  <2> QED
    BY <2>2, <2>3
<1> HIDE DEF h
<1>7. Good(m, h)
  BY <1>5, <1>6
<1> QED
  BY <1>2, <1>7

\* A simulated batch takes one entry after the other.
LEMMA RunBatchSteps ==
  ASSUME TypeOK, NEW c \in Address, NEW items \in Seq(Item)
  PROVE  \E g \in [0..Len(items) -> RunState] :
           /\ g[0] = [entry |-> counts[c][CurrentWindow], trapped |-> FALSE, charged |-> 0]
           /\ \A i \in 1..Len(items) : g[i] = AfterEntry(c, items[i], g[i - 1])
           /\ RunBatch(c, items) = g[Len(items)]
<1> DEFINE n == Len(items)
           start == [entry |-> counts[c][CurrentWindow], trapped |-> FALSE, charged |-> 0]
           F == [i \in 1..n |-> [x \in RunState |-> AfterEntry(c, items[i], x)]]
<1>1. n \in Nat
  OBVIOUS
<1>2. start \in RunState
  <2>1. counts[c][CurrentWindow] \in EntryType
    BY CurrentWindowBounds, ConstantsAssumption DEF TypeOK
  <2> QED
    BY <2>1 DEF RunState
<1>3. ASSUME NEW item, NEW x \in RunState PROVE AfterEntry(c, item, x) \in RunState
  <2>1. Charge(x.entry) \in EntryType
    BY ChargeFacts, ConstantsAssumption DEF RunState
  <2> DEFINE w == WithinBudget(Verdict(c, item, x.entry))
             t == x.trapped \/ Verdict(c, item, x.entry) = "Trap"
             e == Charge(x.entry)
  <2>2. AfterEntry(c, item, x) = IF w
               THEN [entry |-> e, charged |-> x.charged + 1, trapped |-> t]
                                 ELSE x
    BY DEF AfterEntry
  <2>3. t \in BOOLEAN /\ x.charged + 1 \in Nat
    BY DEF RunState
  <2> HIDE DEF w, t, e
  <2>4. [entry |-> e, charged |-> x.charged + 1, trapped |-> t] \in RunState
    BY <2>1, <2>3 DEF RunState, e
  <2> QED
    BY <2>2, <2>4
<1>4. F \in [1..n -> [RunState -> RunState]]
  BY <1>3
<1> HIDE DEF n, start
<1>5. PICK g \in [0..n -> RunState] :
        g[0] = start /\ \A i \in 1..n : g[i] = F[i][g[i - 1]]
  <2>1. \A H \in [1..n -> [RunState -> RunState]] :
          \E g \in [0..n -> RunState] :
            g[0] = start /\ \A i \in 1..n : g[i] = H[i][g[i - 1]]
    BY <1>1, <1>2, RunExists
  <2> HIDE DEF F
  <2> QED
    BY <1>4, <2>1
<1>6. \A i \in 1..n : g[i] = AfterEntry(c, items[i], g[i - 1])
  <2> SUFFICES ASSUME NEW i \in 1..n PROVE g[i] = AfterEntry(c, items[i], g[i - 1])
    OBVIOUS
  <2>1. g[i - 1] \in RunState
    BY <1>1
  <2> QED
    BY <1>5, <2>1
<1>7. g = [i \in 0..n |-> IF i = 0 THEN start ELSE AfterEntry(c, items[i], g[i - 1])]
  <2> HIDE DEF F
  <2>1. ASSUME NEW i \in 0..n
        PROVE  g[i] = IF i = 0 THEN start ELSE AfterEntry(c, items[i], g[i - 1])
    <3>1. i = 0 \/ i \in 1..n
      BY <1>1
    <3> QED
      BY <1>5, <1>6, <3>1
  <2> QED
    BY <2>1
<1> DEFINE Run == CHOOSE f : f = [i \in 0..n |-> IF i = 0 THEN start
                                                ELSE AfterEntry(c, items[i], f[i - 1])]
<1>8. RunBatch(c, items) = Run[n]
  BY DEF RunBatch, AfterEntry, n, start
<1>9. Run = [i \in 0..n |-> IF i = 0 THEN start ELSE AfterEntry(c, items[i], Run[i - 1])]
  <2> HIDE DEF F
  <2> QED
    BY <1>7
<1> HIDE DEF F, Run
<1>10. ASSUME NEW i \in 1..n PROVE Run[i] = AfterEntry(c, items[i], Run[i - 1])
  <2>1. i \in 0..n /\ i # 0
    BY <1>1
  <2> QED
    BY <1>9, <2>1
<1>11. Run[0] = start
  <2>1. 0 \in 0..n
    BY <1>1
  <2> QED
    BY <1>9, <2>1
<1>12. \A i \in 0..n : Run[i] \in RunState
  <2> DEFINE Bad == {i \in 0..n : Run[i] \notin RunState}
  <2> SUFFICES ASSUME Bad # {} PROVE FALSE
    OBVIOUS
  <2>1. PICK m \in Bad : \A x \in Bad : m <= x
    <3>1. Bad \subseteq Nat
      BY <1>1
    <3> QED
      BY <3>1, Least
  <2>2. m \in 0..n /\ Run[m] \notin RunState
    OBVIOUS
  <2>3. m \in 1..n
    BY <1>1, <1>2, <1>11, <2>2
  <2>4. m - 1 \in 0..n /\ ~ (m <= m - 1)
    BY <1>1, <2>3
  <2>5. Run[m - 1] \in RunState
    BY <2>1, <2>4
  <2> QED
    BY <1>3, <1>10, <2>2, <2>3, <2>5
<1>13. Run \in [0..n -> RunState]
  BY <1>9, <1>12
<1> QED
  BY <1>8, <1>10, <1>11, <1>13 DEF n, start

\* The counter moves by one up to the limit, and stays.
LEMMA MetSteps ==
  ASSUME NEW b, NEW i \in Nat \ {0}, b.used \in Nat, b.limits.max_calls \in Nat
  PROVE  /\ Met(b, 1) = b.used
         /\ Met(b, i) \in Nat
         /\ Met(b, i + 1) = IF Met(b, i) + 1 > b.limits.max_calls THEN Met(b, i)
                            ELSE Met(b, i) + 1
  BY DEF Met, Larger

\* Does some entry of a batch with basis b panic?
Panics(b, items) ==
  \E i \in 1..Len(items) : VerdictAt(b, i, Met(b, i), items[i]) = "Trap"

\* How many entries it charges if none does.
Charged(b, items) == IF b.allowed THEN Met(b, Len(items) + 1) - b.used ELSE 0

\* The numbers of a basis.
LEMMA BasisTyped ==
  ASSUME TypeOK, NEW c \in Address, NEW items
  PROVE  /\ Basis(c, items).used \in Nat
         /\ Basis(c, items).used = counts[c][CurrentWindow].n
         /\ Basis(c, items).limits.max_calls \in 0..U32Max
         /\ Basis(c, items).limits = limits
         /\ Basis(c, items).window = CurrentWindow
         /\ CurrentWindow \in Nat
         /\ Basis(c, items).allowed = Allowed(c)
<1>1. CurrentWindow \in Ledger /\ CurrentWindow \in Nat
  <2>1. CurrentWindow \in Ledger
    BY CurrentWindowBounds, ConstantsAssumption
  <2> QED
    BY <2>1, ConstantsAssumption DEF ConstantsAssumption, Ledger
<1>2. counts[c][CurrentWindow].n \in Nat /\ limits.max_calls \in 0..U32Max
  BY <1>1 DEF TypeOK, EntryType, LimitsType
<1> QED
  BY <1>1, <1>2 DEF Basis

\* What a simulated batch comes to is a function of its basis.
LEMMA RunOfBasis ==
  ASSUME TypeOK, NEW c \in Address, NEW items \in Seq(Item)
  PROVE  LET run == RunBatch(c, items)
             b == Basis(c, items)
         IN  /\ run.charged \in Nat
             /\ run.trapped <=> Panics(b, items)
             /\ ~run.trapped => run.charged = Charged(b, items)
<1> DEFINE n == Len(items)
           b == Basis(c, items)
           u == b.used
           trap(i) == VerdictAt(b, i, Met(b, i), items[i]) = "Trap"
           spent(i) == IF b.allowed THEN Met(b, i + 1) - u ELSE 0
<1>1. PICK g \in [0..n -> RunState] :
        /\ g[0] = [entry |-> counts[c][CurrentWindow], trapped |-> FALSE, charged |-> 0]
        /\ \A i \in 1..n : g[i] = AfterEntry(c, items[i], g[i - 1])
        /\ RunBatch(c, items) = g[n]
  BY RunBatchSteps
<1> DEFINE right(i) == /\ g[i].trapped <=> \E j \in 1..i : trap(j)
                       /\ ~g[i].trapped => /\ g[i].charged = spent(i)
                                           /\ g[i].entry.n = u + spent(i)
<1>2. /\ u \in Nat /\ u = counts[c][CurrentWindow].n
      /\ b.limits.max_calls \in Nat /\ b.limits.max_calls <= U32Max /\ U32Max \in Nat
  <2>1. U32Max \in Nat
    BY ConstantsAssumption DEF ConstantsAssumption
  <2> QED
    BY <2>1, BasisTyped
<1>3. right(0)
  <2>1. spent(0) = 0
    <3>1. Met(b, 1) = u
      BY <1>2, MetSteps
    <3> QED
      BY <1>2, <3>1
  <2> HIDE DEF spent, b, u, trap
  <2> QED
    BY <1>1, <1>2, <2>1
<1>4. ASSUME NEW i \in 1..n, right(i - 1) PROVE right(i)
  <2> DEFINE before == g[i - 1]
             v == Verdict(c, items[i], before.entry)
  <2>1. n \in Nat /\ i \in Nat \ {0} /\ i \in DOMAIN items /\ i - 1 \in 0..n
    OBVIOUS
  <2>2. before \in RunState /\ before.entry \in EntryType /\ before.charged \in Nat
    BY <1>1, <2>1 DEF RunState
  <2>3. g[i] = IF WithinBudget(v)
               THEN [entry |-> Charge(before.entry), charged |-> before.charged + 1,
                     trapped |-> before.trapped \/ v = "Trap"]
               ELSE before
    BY <1>1 DEF AfterEntry
  <2>4. v = VerdictAt(b, i, before.entry.n, items[i])
    BY <2>1, VerdictOfBasis
  <2>5. Charge(before.entry).n = before.entry.n + 1
    BY <2>2, ChargeFacts, ConstantsAssumption
  <2>6. (\E j \in 1..i : trap(j)) <=> (\E j \in 1..(i - 1) : trap(j)) \/ trap(i)
    <3> HIDE DEF trap
    <3> QED
      BY <2>1
  <2>7. /\ Met(b, i) \in Nat
        /\ Met(b, i + 1) = IF Met(b, i) + 1 > b.limits.max_calls THEN Met(b, i)
                           ELSE Met(b, i) + 1
    BY <1>2, <2>1, MetSteps
  <2>8. WithinBudget(v) <=> v # "CallerNotAllowed" /\ v # "RateLimitExceeded"
    BY DEF WithinBudget
  <2> DEFINE m == Met(b, i)
             next == Met(b, i + 1)
  <2>9. spent(i) = IF b.allowed THEN next - u ELSE 0
    OBVIOUS
  <2>10. spent(i - 1) = IF b.allowed THEN m - u ELSE 0
    BY <2>1
  <2>11. trap(i) <=> VerdictAt(b, i, m, items[i]) = "Trap"
    OBVIOUS
  <2> HIDE DEF b, u, v, m, next, trap, spent
  <2>12. CASE before.trapped
    <3>1. g[i].trapped = TRUE
      BY <2>2, <2>3, <2>12 DEF RunState
    <3> QED
      BY <1>4, <2>6, <2>12, <3>1
  <2>13. CASE ~before.trapped /\ ~b.allowed
    <3>1. v = "CallerNotAllowed" /\ ~trap(i)
      BY <2>4, <2>11, <2>13 DEF VerdictAt
    <3> QED
      BY <1>4, <2>3, <2>6, <2>8, <2>9, <2>10, <2>13, <3>1
  <2>14. CASE ~before.trapped /\ b.allowed
    <3>1. before.entry.n = m /\ before.charged = m - u
      <4>1. m \in Nat
        BY <2>7 DEF m
      <4>2. before.charged = spent(i - 1) /\ before.entry.n = u + spent(i - 1)
        BY <1>4, <2>14
      <4> HIDE DEF before
      <4> QED
        BY <1>2, <2>10, <2>14, <4>1, <4>2
    <3>2. v = VerdictAt(b, i, m, items[i])
      BY <2>4, <3>1
    <3>3. CASE v = "Trap"
      <4>1. g[i].trapped = TRUE
        BY <2>2, <2>3, <2>8, <3>3
      <4> QED
        BY <2>6, <2>11, <3>2, <3>3, <4>1
    <3>4. CASE v = "RateLimitExceeded"
      <4>1. m + 1 > b.limits.max_calls
        BY <3>2, <3>4, <2>14 DEF VerdictAt
      <4>2. next = m
        BY <2>7, <4>1 DEF m, next
      <4>3. g[i] = before /\ ~trap(i)
        BY <2>3, <2>8, <2>11, <3>2, <3>4
      <4> QED
        BY <1>4, <2>6, <2>9, <2>10, <2>14, <4>2, <4>3
    <3>5. CASE v # "Trap" /\ v # "RateLimitExceeded"
      <4>1. v # "CallerNotAllowed" /\ ~ (m + 1 > b.limits.max_calls)
        BY <3>2, <3>5, <2>14 DEF VerdictAt
      <4>2. next = m + 1
        BY <2>7, <4>1 DEF m, next
      <4>3. ~trap(i) /\ ~ (\E j \in 1..(i - 1) : trap(j))
        BY <1>4, <2>11, <2>14, <3>2, <3>5
      <4>4. g[i] = [entry |-> Charge(before.entry), charged |-> before.charged + 1,
                    trapped |-> before.trapped \/ v = "Trap"]
        BY <2>3, <2>8, <3>5, <4>1
      <4>5. g[i].entry.n = m + 1 /\ g[i].charged = m - u + 1
        <5> HIDE DEF before
        <5> QED
          BY <2>5, <3>1, <4>4
      <4>6. m \in Nat
        BY <2>7 DEF m
      <4>7. g[i].charged = spent(i) /\ g[i].entry.n = u + spent(i)
        <5>1. spent(i) = (m + 1) - u
          BY <2>9, <2>14, <4>2
        <5>2. u \in Nat
          BY <1>2
        <5> QED
          BY <4>5, <4>6, <5>1, <5>2
      <4>8. ~g[i].trapped
        <5>1. g[i].trapped = (before.trapped \/ v = "Trap")
          BY <4>4
        <5> QED
          BY <2>14, <3>5, <5>1
      <4> QED
        BY <2>6, <4>3, <4>7, <4>8
    <3> QED
      BY <3>3, <3>4, <3>5
  <2> QED
    BY <2>12, <2>13, <2>14
<1> HIDE DEF right
<1>5. \A i \in 0..n : right(i)
  <2> DEFINE Bad == {i \in 0..n : ~right(i)}
  <2> SUFFICES ASSUME Bad # {} PROVE FALSE
    OBVIOUS
  <2>1. PICK m \in Bad : \A x \in Bad : m <= x
    <3>1. Bad \subseteq Nat
      OBVIOUS
    <3> QED
      BY <3>1, Least
  <2>2. m \in 0..n /\ ~right(m) /\ n \in Nat
    OBVIOUS
  <2>3. m \in 1..n
    BY <1>3, <2>2
  <2>4. m - 1 \in 0..n /\ ~ (m <= m - 1)
    BY <2>2, <2>3
  <2>5. right(m - 1)
    BY <2>1, <2>4
  <2> QED
    BY <1>4, <2>2, <2>3, <2>5
<1>6. right(n) /\ g[n] \in RunState
  <2>1. n \in 0..n
    OBVIOUS
  <2> QED
    BY <1>1, <1>5, <2>1
<1> QED
  BY <1>1, <1>6 DEF right, Panics, Charged, RunState

-----------------------------------------------------------------------------
(* The record of a session.                                                *)

\* What ClientInv says of one session with options o and record c.
GoodCall(o, c) ==
  /\ c = [f \in CallField |-> c[f]]
  /\ c.sent \in BOOLEAN
  /\ c.phase \in {"idle", "network", "account", "prepare", "send", "poll", "done"}
  /\ c.outcome \in {"none", "verified"} \cup CertainCode \cup ThrownCode
  /\ c.polls \in 0..PollLimit
  /\ c.seq \in Nat
  /\ c.phase = "poll" => c.sent
  /\ c.phase \in {"send", "poll"} => Built(c.tx)
  /\ c.phase # "done" => c.outcome = "none" /\ c.polls < PollLimit
  /\ c.sent => c.phase \in {"poll", "done"}
  /\ c.outcome \in CertainCode /\ c.sent => \E r \in applied : r.tx = c.tx /\ ~r.ok
  /\ c.outcome = "verified" =>
       \E r \in applied :
         /\ r.tx = c.tx /\ r.ok
         /\ c.verified = r.results \/ (o.op = "verify_batch" /\ c.verified = <<>>)

\* What ClientInv says of the batch in progress.
BatchInOrder ==
  /\ Idle => running = None
  /\ ~Idle =>
       /\ frame.caller = running.caller
       /\ Len(frame.items) <= Len(running.items)
       /\ \A i \in DOMAIN frame.items : frame.items[i] = running.items[i]

\* ClientInv, taken apart by what a step changes.
GoodState ==
  /\ TypeOK
  /\ seq \in [Address -> Nat]
  /\ opts \in [Session -> Request]
  /\ call = [s \in Session |-> call[s]]
  /\ \A s \in Session : GoodCall(opts[s], call[s])
  /\ BatchInOrder
  /\ NetworkInv

LEMMA GoodStates == ClientInv <=> GoodState
<1>1. ASSUME NEW s \in Session
      PROVE  GoodCall(opts[s], call[s]) <=>
               /\ call[s].phase \in {"idle", "network", "account", "prepare", "send",
                                     "poll", "done"}
               /\ call[s].outcome \in {"none", "verified"} \cup CertainCode \cup ThrownCode
               /\ call[s].polls \in 0..PollLimit
               /\ call[s].phase = "poll" => call[s].sent
               /\ SessionInv(s)
               /\ call[s].outcome = "verified" =>
                    \E r \in applied :
                      /\ r.tx = call[s].tx /\ r.ok
                      /\ \/ call[s].verified = r.results
                         \/ opts[s].op = "verify_batch" /\ call[s].verified = <<>>
  BY DEF GoodCall, SessionInv
<1> QED
  BY <1>1 DEF ClientInv, GoodState, ClientTypeOK, ResultIsOnChain, BatchInOrder

\* A request asks for calls the contract can be sent.
LEMMA RequestTyped ==
  ASSUME opts \in [Session -> Request], NEW s \in Session
  PROVE  /\ opts[s].op \in {"verify_proof", "verify_batch"}
         /\ opts[s].caller \in CallerArg /\ opts[s].caller \in Address
         /\ opts[s].items \in Seq(Item)
         /\ opts[s].op = "verify_proof" => Len(opts[s].items) = 1
  BY ClientAssumption, ConstantsAssumption DEF RequestType, ConstantsAssumption

\* A step of one session that leaves the network alone.
LEMMA CallChanges ==
  ASSUME GoodState, NEW s \in Session, NEW d, GoodCall(opts[s], d),
         call' = [call EXCEPT ![s] = d], UNCHANGED <<vars, opts, chainVars>>
  PROVE  GoodState'
<1>1. \A q \in Session : call'[q] = IF q = s THEN d ELSE call[q]
  BY DEF GoodState
<1>2. call' = [q \in Session |-> call'[q]]
  BY DEF GoodState
<1>3. ASSUME NEW q \in Session PROVE GoodCall(opts[q], call[q])'
  <2>1. GoodCall(opts[q], call'[q])
    BY <1>1 DEF GoodState
  <2> QED
    BY <2>1 DEF GoodCall, chainVars
<1>4. TypeOK' /\ BatchInOrder' /\ NetworkInv'
  <2>1. TypeOK /\ BatchInOrder /\ NetworkInv
    BY DEF GoodState
  <2>2. TypeOK'
    BY <2>1 DEF TypeOK, vars, config, budget
  <2>3. BatchInOrder'
    BY <2>1 DEF BatchInOrder, Idle, vars, chainVars
  <2>4. NetworkInv'
    BY <2>1 DEF NetworkInv, Idle, vars, chainVars
  <2> QED
    BY <2>2, <2>3, <2>4
<1>5. seq' \in [Address -> Nat] /\ opts' \in [Session -> Request]
  BY DEF GoodState, chainVars
<1> QED
  BY <1>2, <1>3, <1>4, <1>5 DEF GoodState

\* The network takes the transaction of a session.
LEMMA CallSends ==
  ASSUME GoodState, NEW s \in Session, NEW d, GoodCall(opts[s], d),
         Built(call[s].tx), Acceptable(call[s].tx), pool' = pool \cup {call[s].tx},
         call' = [call EXCEPT ![s] = d],
         UNCHANGED <<vars, opts, seq, running, applied>>
  PROVE  GoodState'
<1>1. \A q \in Session : call'[q] = IF q = s THEN d ELSE call[q]
  BY DEF GoodState
<1>2. call' = [q \in Session |-> call'[q]]
  BY DEF GoodState
<1>3. ASSUME NEW q \in Session PROVE GoodCall(opts[q], call[q])'
  <2>1. GoodCall(opts[q], call'[q])
    BY <1>1 DEF GoodState
  <2> QED
    BY <2>1 DEF GoodCall
<1>4. TypeOK' /\ BatchInOrder' /\ NetworkInv'
  <2>1. TypeOK /\ BatchInOrder /\ NetworkInv
    BY DEF GoodState
  <2>2. TypeOK'
    BY <2>1 DEF TypeOK, vars, config, budget
  <2>3. BatchInOrder'
    BY <2>1 DEF BatchInOrder, Idle, vars
  <2>4. NetworkInv'
    BY <2>1 DEF NetworkInv, Acceptable, Idle, vars
  <2> QED
    BY <2>2, <2>3, <2>4
<1>5. seq' \in [Address -> Nat] /\ opts' \in [Session -> Request]
  BY DEF GoodState
<1> QED
  BY <1>2, <1>3, <1>4, <1>5 DEF GoodState

-----------------------------------------------------------------------------
(* Steps of a session.                                                     *)

\* A session that has not settled may be rejected with any code that does not
\* speak of a transaction it sent, and with those once its transaction failed.
LEMMA RejectInv ==
  ASSUME GoodState, NEW s \in Session, NEW code, Reject(s, code),
         \/ code \in ThrownCode
         \/ /\ code \in CertainCode
            /\ call[s].sent => \E r \in applied : r.tx = call[s].tx /\ ~r.ok,
         UNCHANGED <<vars, opts, chainVars>>
  PROVE  GoodState'
<1> DEFINE d == [call[s] EXCEPT !.phase = "done", !.outcome = code]
<1>1. GoodCall(opts[s], call[s])
  BY DEF GoodState
<1>2. GoodCall(opts[s], d)
  BY <1>1 DEF GoodCall, CallField, NewCall, ThrownCode, CertainCode
<1>3. call' = [call EXCEPT ![s] = d]
  BY DEF Reject
<1> HIDE DEF d
<1> QED
  BY <1>2, <1>3, CallChanges

\* Start, getNetwork and getAccount.
LEMMA OpeningInv ==
  ASSUME GoodState, NEW s \in Session, Start(s) \/ GetNetwork(s) \/ GetAccount(s)
  PROVE  GoodState'
<1>1. GoodCall(opts[s], call[s])
  BY DEF GoodState
<1>2. UNCHANGED <<vars, opts, chainVars>>
  BY DEF Start, GetNetwork, GetAccount
<1>3. ASSUME NEW phase \in {"network", "account"}, Proceed(s, phase),
             call[s].phase \in {"idle", "network"}
      PROVE  GoodState'
  <2> DEFINE d == [call[s] EXCEPT !.phase = phase]
  <2>1. GoodCall(opts[s], d)
    BY <1>1, <1>3 DEF GoodCall, CallField, NewCall
  <2>2. call' = [call EXCEPT ![s] = d]
    BY <1>3 DEF Proceed
  <2> HIDE DEF d
  <2> QED
    BY <1>2, <2>1, <2>2, CallChanges
<1>4. ASSUME GetAccount(s)
      PROVE  GoodState'
  <2> DEFINE n == seq[opts[s].caller] + 1
             d == [call[s] EXCEPT !.phase = "prepare", !.seq = n]
  <2>1. n \in Nat
    BY RequestTyped DEF GoodState
  <2>2. call[s].phase = "account"
    BY <1>4 DEF GetAccount, At
  <2>3. GoodCall(opts[s], d)
    <3> HIDE DEF n
    <3> QED
      BY <1>1, <2>1, <2>2 DEF GoodCall, CallField, NewCall
  <2>4. call' = [call EXCEPT ![s] = d]
    BY <1>4 DEF GetAccount
  <2> HIDE DEF d
  <2> QED
    BY <1>2, <2>3, <2>4, CallChanges
<1>5. ASSUME NEW code \in {"INVALID_PROOF_FORMAT", "NETWORK_MISMATCH"}, Reject(s, code),
             call[s].phase \in {"idle", "network"}
      PROVE  GoodState'
  <2>1. code \in CertainCode /\ ~call[s].sent
    BY <1>1, <1>5 DEF CertainCode, GoodCall
  <2> QED
    BY <1>2, <1>5, <2>1, RejectInv
<1> QED
  BY <1>3, <1>4, <1>5 DEF Start, GetNetwork, At

\* What the errors of the contract become.
LEMMA CodesOfVerdicts ==
  ASSUME NEW v, NEW code \in ErrorCodes(v)
  PROVE  code \in ThrownCode \/ code \in CertainCode
BY DEF ErrorCodes, CertainCode, ThrownCode

LEMMA PreparedInv ==
  ASSUME GoodState, NEW s \in Session, NEW charged \in Nat, At(s, "prepare"),
         Prepared(s, charged), UNCHANGED <<vars, opts, chainVars>>
  PROVE  GoodState'
<1>1. GoodCall(opts[s], call[s])
  BY DEF GoodState
<1>2. PICK stamp \in Stamp :
        call' = [call EXCEPT ![s] =
          [@ EXCEPT !.phase = "send", !.basis = Basis(opts[s].caller, opts[s].items),
                    !.tx = [op |-> opts[s].op, caller |-> opts[s].caller,
                            items |-> opts[s].items,
                            seq |-> call[s].seq, charged |-> charged, stamp |-> stamp,
                            window |-> IF Allowed(opts[s].caller)
                                       THEN CurrentWindow ELSE None]]]
  BY DEF Prepared
<1> DEFINE w == IF Allowed(opts[s].caller) THEN CurrentWindow ELSE None
           tx == [op |-> opts[s].op, caller |-> opts[s].caller, items |-> opts[s].items,
                  seq |-> call[s].seq, charged |-> charged, stamp |-> stamp, window |-> w]
           b == Basis(opts[s].caller, opts[s].items)
           d == [call[s] EXCEPT !.phase = "send", !.basis = b, !.tx = tx]
<1>3. call' = [call EXCEPT ![s] = d]
  BY <1>2
<1>4. Built(tx)
  <2>1. w \in Nat \cup {None}
    BY BasisTyped, RequestTyped DEF GoodState
  <2>2. call[s].seq \in Nat
    BY <1>1 DEF GoodCall
  <2> HIDE DEF w
  <2>3. tx \in TransactionType /\ tx.op = opts[s].op /\ tx.items = opts[s].items
    BY <2>1, <2>2, RequestTyped DEF GoodState, TransactionType
  <2> HIDE DEF tx
  <2> QED
    BY <2>3, RequestTyped DEF GoodState, Built, TransactionType
<1> HIDE DEF b
<1> HIDE DEF tx
<1>5. GoodCall(opts[s], d)
  BY <1>1, <1>4 DEF GoodCall, CallField, NewCall, At
<1> HIDE DEF d
<1> QED
  BY <1>3, <1>5, CallChanges

\* The simulations.
LEMMA PrepareInv ==
  ASSUME GoodState, NEW s \in Session, Prepare(s) \/ PrepareBatch(s)
  PROVE  GoodState'
<1>1. GoodCall(opts[s], call[s]) /\ call[s].phase = "prepare" /\ ~call[s].sent
  BY DEF GoodState, GoodCall, Prepare, PrepareBatch, At
<1>2. UNCHANGED <<vars, opts, chainVars>> /\ At(s, "prepare")
  BY DEF Prepare, PrepareBatch
<1>3. ASSUME NEW charged \in Nat, Prepared(s, charged)
      PROVE  GoodState'
  BY <1>2, <1>3, PreparedInv
<1>4. ASSUME NEW v, NEW code \in ErrorCodes(v), Reject(s, code)
      PROVE  GoodState'
  BY <1>1, <1>2, <1>4, CodesOfVerdicts, RejectInv
<1>5. ASSUME NEW code \in ThrownCode, Reject(s, code)
      PROVE  GoodState'
  BY <1>2, <1>5, RejectInv
<1>6. CASE Prepare(s)
  BY <1>3, <1>4, <1>6 DEF Prepare
<1>7. CASE PrepareBatch(s)
  <2>1. RunBatch(opts[s].caller, opts[s].items).charged \in Nat
    BY RequestTyped, RunOfBasis DEF GoodState
  <2> QED
    BY <1>3, <1>5, <1>7, <2>1 DEF PrepareBatch
<1> QED
  BY <1>6, <1>7

\* Sending, answered or not.
LEMMA SendInv ==
  ASSUME GoodState, NEW s \in Session, Send(s) \/ SendRefused(s) \/ SendLost(s)
  PROVE  GoodState'
<1>1. GoodCall(opts[s], call[s]) /\ call[s].phase = "send"
  BY DEF GoodState, Send, SendRefused, SendLost, At
<1>2. Built(call[s].tx) /\ ~call[s].sent
  BY <1>1 DEF GoodCall
<1>3. CASE Send(s)
  <2> DEFINE d == [call[s] EXCEPT !.phase = "poll", !.sent = TRUE]
  <2>1. GoodCall(opts[s], d)
    BY <1>1, <1>2 DEF GoodCall, CallField, NewCall, CertainCode
  <2>2. call' = [call EXCEPT ![s] = d]
    BY <1>3 DEF Send
  <2> HIDE DEF d
  <2> QED
    BY <1>2, <1>3, <2>1, <2>2, CallSends DEF Send
<1>4. CASE SendLost(s)
  <2> PICK code \in ThrownCode :
        call' = [call EXCEPT ![s] = [@ EXCEPT !.phase = "done", !.outcome = code,
                                              !.sent = TRUE]]
    BY <1>4 DEF SendLost
  <2> DEFINE d == [call[s] EXCEPT !.phase = "done", !.outcome = code, !.sent = TRUE]
  <2>1. GoodCall(opts[s], d)
    BY <1>1, <1>2 DEF GoodCall, CallField, NewCall, CertainCode, ThrownCode
  <2>2. call' = [call EXCEPT ![s] = d]
    OBVIOUS
  <2> HIDE DEF d
  <2> QED
    BY <1>2, <1>4, <2>1, <2>2, CallSends DEF SendLost
<1>5. CASE SendRefused(s)
  BY <1>2, <1>5, RejectInv DEF SendRefused, CertainCode
<1> QED
  BY <1>3, <1>4, <1>5

\* Polling.
LEMMA PollInv ==
  ASSUME GoodState, NEW s \in Session,
         PollNotFound(s) \/ PollFailed(s) \/ PollSuccess(s) \/ PollBatchSuccess(s)
  PROVE  GoodState'
<1>1. GoodCall(opts[s], call[s]) /\ call[s].phase = "poll"
  BY DEF GoodState, PollNotFound, PollFailed, PollSuccess, PollBatchSuccess, At
<1>2. UNCHANGED <<vars, opts, chainVars>>
  BY DEF PollNotFound, PollFailed, PollSuccess, PollBatchSuccess
<1>3. CASE PollNotFound(s)
  <2> DEFINE n == call[s].polls + 1
             d == [call[s] EXCEPT !.polls = n]
             e == [call[s] EXCEPT !.phase = "done",
                        !.outcome = "NETWORK_ERROR", !.polls = n]
  <2>1. n \in 0..PollLimit
    BY <1>1, ClientAssumption DEF GoodCall
  <2>2. call' = [call EXCEPT ![s] = IF n < PollLimit THEN d ELSE e]
    BY <1>3 DEF PollNotFound
  <2> HIDE DEF n
  <2>3. n < PollLimit => GoodCall(opts[s], d)
    BY <1>1, <2>1 DEF GoodCall, CallField, NewCall
  <2>4. GoodCall(opts[s], e)
    BY <1>1, <2>1 DEF GoodCall, CallField, NewCall, ThrownCode, CertainCode
  <2> HIDE DEF d, e
  <2> QED
    BY <1>2, <2>2, <2>3, <2>4, CallChanges
<1>4. CASE PollFailed(s)
  BY <1>2, <1>4, RejectInv DEF PollFailed, CertainCode
<1>5. ASSUME NEW r \in applied, NEW flags, Resolve(s, flags), r.tx = call[s].tx, r.ok,
             flags = r.results \/ (opts[s].op = "verify_batch" /\ flags = <<>>)
      PROVE  GoodState'
  <2> DEFINE d == [call[s] EXCEPT !.phase = "done", !.outcome = "verified",
                                  !.verified = flags]
  <2>1. GoodCall(opts[s], d)
    BY <1>1, <1>5 DEF GoodCall, CallField, NewCall, CertainCode
  <2>2. call' = [call EXCEPT ![s] = d]
    BY <1>5 DEF Resolve
  <2> HIDE DEF d
  <2> QED
    BY <1>2, <2>1, <2>2, CallChanges
<1>6. ASSUME Reject(s, "CONTRACT_INVOCATION_FAILED")
      PROVE  GoodState'
  BY <1>2, <1>6, RejectInv DEF ThrownCode
<1>7. CASE PollSuccess(s)
  BY <1>5, <1>6, <1>7 DEF PollSuccess, Decoded
<1>8. CASE PollBatchSuccess(s)
  BY <1>5, <1>6, <1>8 DEF PollBatchSuccess, DecodedBatch
<1> QED
  BY <1>3, <1>4, <1>7, <1>8

LEMMA SessionStepInv ==
  ASSUME GoodState, NEW s \in Session, SessionStep(s)
  PROVE  GoodState'
<1>1. CASE RequestFails(s)
  BY <1>1, RejectInv DEF RequestFails
<1> QED
  BY <1>1, OpeningInv, PrepareInv, SendInv, PollInv DEF SessionStep

-----------------------------------------------------------------------------
(* Steps of the network.                                                   *)

LEMMA NetworkChanges ==
  ASSUME GoodState, UNCHANGED <<opts, call>>, applied \subseteq applied',
         TypeOK', seq' \in [Address -> Nat], BatchInOrder', NetworkInv'
  PROVE  GoodState'
<1>1. ASSUME NEW s \in Session PROVE GoodCall(opts[s], call[s])'
  <2>1. GoodCall(opts[s], call[s])
    BY DEF GoodState
  <2> QED
    BY <2>1 DEF GoodCall
<1> QED
  BY <1>1 DEF GoodState

\* A transaction's turn comes once.
LEMMA IncludedOnce ==
  ASSUME GoodState, NEW tx \in pool, Included(tx)
  PROVE  /\ Built(tx) /\ tx.caller \in Address
         /\ seq' \in [Address -> Nat]
         /\ \A a \in Address : seq'[a] = IF a = tx.caller THEN seq[a] + 1 ELSE seq[a]
         /\ tx.seq = seq'[tx.caller]
         /\ \A t \in pool' : t \in pool /\ t.caller # tx.caller
         /\ \A r \in applied : r.tx # tx
<1>1. Built(tx) /\ tx.caller \in Address
  BY ConstantsAssumption DEF GoodState, NetworkInv,
      Built, TransactionType, ConstantsAssumption
<1>2. seq \in [Address -> Nat] /\ tx.seq = seq[tx.caller] + 1
  BY DEF GoodState, Included
<1>3. \A a \in Address : seq'[a] = IF a = tx.caller THEN seq[a] + 1 ELSE seq[a]
  BY <1>2 DEF Included
<1>4. \A r \in applied : r.tx # tx
  BY <1>1, <1>2 DEF GoodState, NetworkInv
<1> QED
  BY <1>1, <1>2, <1>3, <1>4 DEF Included, GoodState, NetworkInv

\* What it leaves of NetworkInv.
LEMMA IncludedNetwork ==
  ASSUME GoodState, NEW tx \in pool, Included(tx)
  PROVE  /\ \A t \in pool' : Built(t) /\ t.seq = seq'[t.caller] + 1
         /\ \A t, other \in pool' : t.caller = other.caller => t = other
         /\ \A r \in applied :
              r.tx.caller \in Address /\ r.tx.seq \in Nat /\ r.tx.seq <= seq'[r.tx.caller]
<1>1. NetworkInv
  BY DEF GoodState
<1>2. \A t \in pool : t.caller \in Address
  BY <1>1, ConstantsAssumption DEF NetworkInv, Built, TransactionType, ConstantsAssumption
<1>3. seq \in [Address -> Nat]
  BY DEF GoodState
<1> QED
  BY <1>1, <1>2, <1>3, IncludedOnce DEF NetworkInv

\* A transaction that is applied in one step, with an outcome.
LEMMA RecordInv ==
  ASSUME GoodState, NEW tx \in pool, Included(tx), NEW ok, NEW results,
         Record(tx, ok, results), TypeOK', UNCHANGED <<frame, running>>
  PROVE  GoodState'
<1> DEFINE q == [tx |-> tx, ok |-> ok, results |-> results,
                 basis |-> Basis(tx.caller, tx.items)]
<1>1. applied' = applied \cup {q} /\ q.tx = tx
  BY DEF Record
<1> HIDE DEF q
<1>2. Idle /\ Idle'
  BY DEF Included, Idle
<1>3. NetworkInv'
  <2>1. \A r \in applied' :
          r.tx.caller \in Address /\ r.tx.seq \in Nat /\ r.tx.seq <= seq'[r.tx.caller]
    BY <1>1, IncludedOnce, IncludedNetwork DEF Built, TransactionType
  <2>2. \A r, other \in applied' : r.tx = other.tx => r = other
    BY <1>1, IncludedOnce DEF GoodState, NetworkInv
  <2> QED
    BY <1>2, <2>1, <2>2, IncludedNetwork DEF NetworkInv
<1>4. BatchInOrder'
  BY <1>2 DEF BatchInOrder, GoodState
<1> QED
  BY <1>1, <1>3, <1>4, IncludedOnce, NetworkChanges DEF Included

\* A transaction is applied, fails, or passes its time bounds.
LEMMA ApplyInv ==
  ASSUME GoodState, NEW tx \in pool, Apply(tx) \/ ApplyFails(tx) \/ Drop(tx)
  PROVE  GoodState'
<1>1. TypeOK
  BY DEF GoodState
<1>2. CASE Apply(tx)
  <2>1. VerifyProof(tx.caller, tx.items[1]) /\ Included(tx)
    BY <1>2 DEF Apply
  <2>2. tx.caller \in CallerArg /\ tx.items[1] \in Item
    BY <1>2 DEF Apply, GoodState, NetworkInv, Built, TransactionType
  <2>3. TypeOK'
    BY <1>1, <2>1, <2>2, NextTypeOK, ConstantsAssumption DEF Next, VerifyCall
  <2>4. UNCHANGED <<frame, running>>
    BY <1>2 DEF Apply, VerifyProof
  <2>5. Record(tx, receipt'.outcome = "Ok", receipt'.events)
    BY <1>2 DEF Apply
  <2> QED
    BY <2>1, <2>3, <2>4, <2>5, RecordInv
<1>3. CASE ApplyFails(tx)
  <2>1. TypeOK' /\ UNCHANGED <<frame, running>>
    BY <1>1, <1>3 DEF ApplyFails, TypeOK, vars, config, budget
  <2>2. Included(tx) /\ Record(tx, FALSE, <<>>)
    BY <1>3 DEF ApplyFails
  <2> QED
    BY <2>1, <2>2, RecordInv
<1>4. CASE Drop(tx)
  <2>1. TypeOK'
    BY <1>1, <1>4 DEF Drop, TypeOK, vars, config, budget
  <2>2. BatchInOrder'
    BY <1>4 DEF Drop, GoodState, BatchInOrder, Idle, vars
  <2>3. NetworkInv'
    BY <1>4 DEF Drop, GoodState, NetworkInv, Idle, vars
  <2>4. seq' \in [Address -> Nat]
    BY <1>4 DEF Drop, GoodState
  <2> QED
    BY <1>4, <2>1, <2>2, <2>3, <2>4, NetworkChanges DEF Drop
<1> QED
  BY <1>2, <1>3, <1>4

\* A batch begins.
LEMMA ApplyBatchInv ==
  ASSUME GoodState, NEW tx \in pool, ApplyBatch(tx)
  PROVE  GoodState'
<1>1. Included(tx) /\ BeginBatch(tx.caller) /\ running' = tx /\ applied' = applied
      /\ tx.op = "verify_batch"
  BY DEF ApplyBatch
<1>2. Built(tx)
  BY DEF GoodState, NetworkInv
<1>3. TypeOK'
  BY <1>1, <1>2, NextTypeOK, ConstantsAssumption
    DEF GoodState, Built, TransactionType, Next, VerifyCall
<1>4. frame'.caller = tx.caller /\ frame'.items = <<>>
  BY <1>1 DEF BeginBatch
<1>5. ~Idle'
  BY <1>1, <1>4, IncludedOnce, ConstantsAssumption DEF Idle, NoFrame, ConstantsAssumption
<1>6. BatchInOrder'
  BY <1>1, <1>2, <1>4, <1>5 DEF BatchInOrder, Built, TransactionType
<1>7. NetworkInv'
  BY <1>1, <1>2, IncludedOnce, IncludedNetwork
    DEF NetworkInv, GoodState, Built, TransactionType
<1> QED
  BY <1>1, <1>3, <1>6, <1>7, IncludedOnce, NetworkChanges DEF Included

\* The transaction of a batch in progress gets its outcome.
LEMMA RecordBatchInv ==
  ASSUME GoodState, ~Idle, Idle', NEW ok, NEW results, Record(running, ok, results),
         running' = None, TypeOK', UNCHANGED <<opts, call, seq, pool>>
  PROVE  GoodState'
<1> DEFINE q == [tx |-> running, ok |-> ok, results |-> results,
                 basis |-> Basis(running.caller, running.items)]
<1>1. applied' = applied \cup {q} /\ q.tx = running
  BY DEF Record
<1> HIDE DEF q
<1>2. Built(running) /\ running.seq <= seq[running.caller] /\ running.caller \in Address
  BY ConstantsAssumption DEF GoodState, NetworkInv,
      Built, TransactionType, ConstantsAssumption
<1>3. \A r \in applied : r.tx # running
  BY DEF GoodState, NetworkInv
<1>4. NetworkInv'
  <2>1. \A r \in applied' :
          r.tx.caller \in Address /\ r.tx.seq \in Nat /\ r.tx.seq <= seq'[r.tx.caller]
    BY <1>1, <1>2 DEF GoodState, NetworkInv, Built, TransactionType
  <2>2. \A r, other \in applied' : r.tx = other.tx => r = other
    BY <1>1, <1>3 DEF GoodState, NetworkInv
  <2> QED
    BY <2>1, <2>2 DEF GoodState, NetworkInv
<1>5. BatchInOrder' /\ seq' \in [Address -> Nat]
  BY DEF BatchInOrder, GoodState
<1> QED
  BY <1>1, <1>4, <1>5, NetworkChanges

\* A batch goes on, panics, or ends.
LEMMA RunInv ==
  ASSUME GoodState, RunEntry \/ RunEnd
  PROVE  GoodState'
<1>1. ~Idle /\ TypeOK /\ Built(running) /\ BatchInOrder /\ frame.items \in Seq(Item)
  BY DEF RunEntry, RunEnd, GoodState, NetworkInv, TypeOK, FrameType
<1>2. CASE RunEnd
  <2>1. TypeOK'
    BY <1>1, <1>2, NextTypeOK, ConstantsAssumption DEF RunEnd, Next, VerifyCall
  <2> QED
    BY <1>1, <1>2, <2>1, RecordBatchInv DEF RunEnd, EndBatch, Idle
<1>3. CASE RunEntry
  <2> DEFINE item == running.items[Len(frame.items) + 1]
  <2>1. item \in Item
    BY <1>1, <1>3 DEF RunEntry, Built, TransactionType
  <2> HIDE DEF item
  <2>2. ASSUME BatchTrap(item), Record(running, FALSE, <<>>), running' = None,
               UNCHANGED <<opts, call, seq, pool>>
        PROVE  GoodState'
    <3>1. TypeOK'
      BY <1>1, <2>1, <2>2, NextTypeOK, ConstantsAssumption DEF Next, VerifyCall
    <3> QED
      BY <1>1, <2>2, <3>1, RecordBatchInv DEF BatchTrap, Idle
  <2>3. ASSUME BatchEntry(item), UNCHANGED clientVars
        PROVE  GoodState'
    <3>1. TypeOK'
      BY <1>1, <2>1, <2>3, NextTypeOK, ConstantsAssumption DEF Next, VerifyCall
    <3>2. frame'.caller = frame.caller /\ frame'.items = Append(frame.items, item)
      BY <2>3 DEF BatchEntry
    <3>3. ~Idle'
      <4>1. Len(frame'.items) > 0
        BY <1>1, <2>1, <3>2
      <4> QED
        BY <4>1 DEF Idle, NoFrame
    <3>4. BatchInOrder'
      BY <1>1, <1>3, <2>1, <2>3, <3>2, <3>3 DEF BatchInOrder,
          Built, TransactionType, RunEntry, clientVars, item
    <3>5. NetworkInv'
      BY <1>1, <2>3, <3>3 DEF GoodState, NetworkInv, clientVars
    <3>6. seq' \in [Address -> Nat] /\ applied' = applied /\ UNCHANGED <<opts, call>>
      BY <2>3 DEF GoodState, clientVars
    <3> QED
      BY <3>1, <3>4, <3>5, <3>6, NetworkChanges
  <2> QED
    BY <1>3, <2>2, <2>3 DEF RunEntry, item
<1> QED
  BY <1>2, <1>3

\* The contract's other callers.
LEMMA OthersInv ==
  ASSUME GoodState, (\E s \in Address : AdminCall(s)) \/ CloseLedger, UNCHANGED clientVars
  PROVE  GoodState'
<1>1. TypeOK'
  BY NextTypeOK, ConstantsAssumption DEF GoodState, Next
<1>2. UNCHANGED frame
  BY DEF AdminCall, SetLimits, UpdateVk, SetAllowlistMode, AddToAllowlist,
         RemoveFromAllowlist, ProposeAdmin, AcceptAdmin, Upgrade, CloseLedger
<1>3. BatchInOrder' /\ NetworkInv' /\ seq' \in [Address -> Nat]
  BY <1>2 DEF GoodState, BatchInOrder, NetworkInv, Idle, clientVars
<1> QED
  BY <1>1, <1>3, NetworkChanges DEF clientVars

-----------------------------------------------------------------------------
(* What a failure in a ledger says.                                        *)

\* A step in which no session gets a transaction and none is applied.
LEMMA FailureKept ==
  ASSUME FailureInv, applied' = applied,
         \A s \in Session : call'[s].tx = call[s].tx /\ call'[s].basis = call[s].basis
  PROVE  FailureInv'
BY DEF FailureInv

\* A step that gives a transaction its outcome.
LEMMA FailureRecorded ==
  ASSUME FailureInv, UNCHANGED call, NEW tx, tx # None, NEW ok, NEW results,
         Record(tx, ok, results),
         ~ok => ~GoesThrough(tx, Basis(tx.caller, tx.items))
  PROVE  FailureInv'
<1> DEFINE q == [tx |-> tx, ok |-> ok, results |-> results,
                 basis |-> Basis(tx.caller, tx.items)]
<1>1. applied' = applied \cup {q}
  BY DEF Record
<1>2. q.tx = tx /\ (q.ok <=> ok) /\ q.basis = Basis(tx.caller, tx.items)
  OBVIOUS
<1> HIDE DEF q
<1>3. q.tx # None /\ (~q.ok => ~GoesThrough(q.tx, q.basis))
  BY <1>2
<1> QED
  BY <1>1, <1>3 DEF FailureInv

\* A step of a session whose simulation does not go well, or is not due.
LEMMA PromiseKept ==
  ASSUME GoodState, NEW s \in Session,
         \/ SessionStep(s) /\ ~Prepare(s) /\ ~PrepareBatch(s)
         \/ \E code : Reject(s, code)
  PROVE  \A q \in Session : call'[q].tx = call[q].tx /\ call'[q].basis = call[q].basis
<1> DEFINE Kept == \A q \in Session :
                     call'[q].tx = call[q].tx /\ call'[q].basis = call[q].basis
<1> SUFFICES Kept
  OBVIOUS
<1>1. call[s] = [f \in CallField |-> call[s][f]] /\ {"tx", "basis"} \subseteq CallField
  BY DEF GoodState, GoodCall, CallField, NewCall
<1>2. ASSUME NEW d, d.tx = call[s].tx,
              d.basis = call[s].basis, call' = [call EXCEPT ![s] = d]
      PROVE  Kept
  BY <1>2 DEF GoodState
<1> HIDE DEF Kept
<1>3. ASSUME NEW code, Reject(s, code) PROVE Kept
  <2> DEFINE d == [call[s] EXCEPT !.phase = "done", !.outcome = code]
  <2>1. d.tx = call[s].tx /\ d.basis = call[s].basis /\ call' = [call EXCEPT ![s] = d]
    BY <1>1, <1>3 DEF Reject
  <2> HIDE DEF d
  <2> QED
    BY <1>2, <2>1
<1>4. ASSUME NEW phase, Proceed(s, phase) PROVE Kept
  <2> DEFINE d == [call[s] EXCEPT !.phase = phase]
  <2>1. d.tx = call[s].tx /\ d.basis = call[s].basis /\ call' = [call EXCEPT ![s] = d]
    BY <1>1, <1>4 DEF Proceed
  <2> HIDE DEF d
  <2> QED
    BY <1>2, <2>1
<1>5. CASE GetAccount(s)
  <2> DEFINE d == [call[s] EXCEPT !.phase = "prepare", !.seq = seq[opts[s].caller] + 1]
  <2>1. d.tx = call[s].tx /\ d.basis = call[s].basis /\ call' = [call EXCEPT ![s] = d]
    BY <1>1, <1>5 DEF GetAccount
  <2> HIDE DEF d
  <2> QED
    BY <1>2, <2>1
<1>6. CASE Send(s)
  <2> DEFINE d == [call[s] EXCEPT !.phase = "poll", !.sent = TRUE]
  <2>1. d.tx = call[s].tx /\ d.basis = call[s].basis /\ call' = [call EXCEPT ![s] = d]
    BY <1>1, <1>6 DEF Send
  <2> HIDE DEF d
  <2> QED
    BY <1>2, <2>1
<1>7. CASE SendLost(s)
  <2> PICK code \in ThrownCode :
        call' = [call EXCEPT ![s] = [@ EXCEPT !.phase = "done", !.outcome = code,
                                              !.sent = TRUE]]
    BY <1>7 DEF SendLost
  <2> DEFINE d == [call[s] EXCEPT !.phase = "done", !.outcome = code, !.sent = TRUE]
  <2>1. d.tx = call[s].tx /\ d.basis = call[s].basis /\ call' = [call EXCEPT ![s] = d]
    BY <1>1
  <2> HIDE DEF d
  <2> QED
    BY <1>2, <2>1
<1>8. CASE PollNotFound(s)
  <2> DEFINE k == call[s].polls + 1
             d == [call[s] EXCEPT !.polls = k]
             e == [call[s] EXCEPT !.phase = "done",
                        !.outcome = "NETWORK_ERROR", !.polls = k]
  <2>1. /\ d.tx = call[s].tx /\ d.basis = call[s].basis
        /\ e.tx = call[s].tx /\ e.basis = call[s].basis
        /\ call' = [call EXCEPT ![s] = IF k < PollLimit THEN d ELSE e]
    BY <1>1, <1>8 DEF PollNotFound
  <2> HIDE DEF d, e
  <2> QED
    BY <1>2, <2>1
<1>9. ASSUME NEW flags, Resolve(s, flags) PROVE Kept
  <2> DEFINE d == [call[s] EXCEPT !.phase = "done", !.outcome = "verified",
                                  !.verified = flags]
  <2>1. d.tx = call[s].tx /\ d.basis = call[s].basis /\ call' = [call EXCEPT ![s] = d]
    BY <1>1, <1>9 DEF Resolve
  <2> HIDE DEF d
  <2> QED
    BY <1>2, <2>1
<1>10. CASE Start(s) \/ GetNetwork(s)
  BY <1>3, <1>4, <1>10 DEF Start, GetNetwork
<1>11. CASE SendRefused(s) \/ RequestFails(s) \/ PollFailed(s)
  BY <1>3, <1>11 DEF SendRefused, RequestFails, PollFailed
<1>12. CASE PollSuccess(s) \/ PollBatchSuccess(s)
  BY <1>3, <1>9, <1>12 DEF PollSuccess, PollBatchSuccess
<1> QED
  BY <1>3, <1>5, <1>6, <1>7, <1>8, <1>10, <1>11, <1>12 DEF SessionStep

\* A simulation that went well gives a transaction that goes through on its basis.
LEMMA FailurePrepared ==
  ASSUME GoodState, FailureInv, NEW s \in Session, Prepare(s) \/ PrepareBatch(s)
  PROVE  FailureInv'
<1> DEFINE c == opts[s].caller
           items == opts[s].items
           b == Basis(c, items)
           tx(charged, stamp) ==
             [op |-> opts[s].op, caller |-> c, items |-> items,
              seq |-> call[s].seq, charged |-> charged, stamp |-> stamp,
              window |-> IF Allowed(c) THEN CurrentWindow ELSE None]
<1>1. /\ TypeOK /\ applied' = applied /\ c \in Address /\ items \in Seq(Item)
      /\ opts[s].op \in {"verify_proof", "verify_batch"}
      /\ opts[s].op = "verify_proof" => Len(items) = 1
  BY RequestTyped DEF GoodState, Prepare, PrepareBatch, chainVars
<1>2. /\ b.allowed => Allowed(c) /\ b.window = CurrentWindow
      /\ b.used = counts[c][CurrentWindow].n
  BY <1>1, BasisTyped
<1>3. ASSUME NEW charged, Prepared(s, charged),
             \A stamp : GoesThrough(tx(charged, stamp), b)
      PROVE  FailureInv'
  <2>1. PICK stamp \in Stamp :
          call' = [call EXCEPT ![s] = [@ EXCEPT !.phase = "send", !.basis = b,
                                                !.tx = tx(charged, stamp)]]
    BY <1>3 DEF Prepared
  <2> DEFINE x == tx(charged, stamp)
             d == [call[s] EXCEPT !.phase = "send", !.basis = b, !.tx = x]
  <2>2. GoesThrough(x, b)
    BY <1>3
  <2>3. call' = [call EXCEPT ![s] = d]
    BY <2>1
  <2> HIDE DEF tx, x, b
  <2>4. d.tx = x /\ d.basis = b
    BY DEF GoodState, GoodCall, CallField, NewCall
  <2> HIDE DEF d
  <2>5. /\ call'[s].tx = x /\ call'[s].basis = b
        /\ \A q \in Session : q # s => call'[q] = call[q]
    BY <2>3, <2>4 DEF GoodState
  <2> QED
    BY <1>1, <2>2, <2>5 DEF FailureInv
<1>4. ASSUME NEW code, Reject(s, code) PROVE FailureInv'
  BY <1>1, <1>4, PromiseKept, FailureKept
<1>5. ASSUME NEW charged, NEW stamp
      PROVE  LET x == tx(charged, stamp)
             IN  /\ x.op = opts[s].op /\ x.items = items /\ x.charged = charged
                 /\ b.allowed => x.window = b.window
  BY <1>2
<1> HIDE DEF tx
<1>6. CASE Prepare(s)
  <2> DEFINE v == Verdict(c, items[1], counts[c][CurrentWindow])
  <2>1. opts[s].op = "verify_proof" /\ 1 \in DOMAIN items
    BY <1>1, <1>6 DEF Prepare
  <2>2. v = VerdictAt(b, 1, b.used, items[1])
    BY <1>2, <2>1, VerdictOfBasis
  <2>3. v \in {"True", "False"} => \A stamp : GoesThrough(tx(1, stamp), b)
    <3> HIDE DEF v, b
    <3> QED
      BY <1>5, <2>1, <2>2 DEF GoesThrough
  <2> QED
    BY <1>3, <1>4, <1>6, <2>3 DEF Prepare
<1>7. CASE PrepareBatch(s)
  <2> DEFINE run == RunBatch(c, items)
  <2>1. opts[s].op = "verify_batch"
    BY <1>7 DEF PrepareBatch
  <2>2. /\ run.trapped <=> Panics(b, items)
        /\ ~run.trapped => run.charged = Charged(b, items)
    BY <1>1, RunOfBasis
  <2>3. ~run.trapped => \A stamp : GoesThrough(tx(run.charged, stamp), b)
    <3> HIDE DEF run, b
    <3> QED
      BY <1>5, <2>1, <2>2 DEF GoesThrough, Panics, Charged
  <2> QED
    BY <1>3, <1>4, <1>7, <2>3 DEF PrepareBatch
<1> QED
  BY <1>6, <1>7

\* A call that returned no Ok, left its footprint or outgrew its simulation does
\* not go through on the basis it had.
LEMMA FailureApplied ==
  ASSUME GoodState, FailureInv, NEW tx \in pool, Apply(tx) \/ ApplyFails(tx)
  PROVE  FailureInv'
<1> DEFINE b == Basis(tx.caller, tx.items)
<1>1. /\ TypeOK /\ tx # None /\ tx.caller \in Address /\ tx.items \in Seq(Item)
      /\ tx.op \in {"verify_proof", "verify_batch"}
      /\ tx.op = "verify_proof" => Len(tx.items) = 1
  BY ClientAssumption, ConstantsAssumption
  DEF GoodState, NetworkInv, Built, TransactionType, ConstantsAssumption
<1>2. UNCHANGED call
  BY DEF Apply, ApplyFails, Included
<1>3. CASE Apply(tx)
  <2> DEFINE v == Verdict(tx.caller, tx.items[1], counts[tx.caller][CurrentWindow])
  <2>1. Record(tx, receipt'.outcome = "Ok", receipt'.events)
    BY <1>3 DEF Apply
  <2>2. tx.op = "verify_proof" /\ 1 \in DOMAIN tx.items
    BY <1>1, <1>3 DEF Apply
  <2>3. v = VerdictAt(b, 1, b.used, tx.items[1])
    BY <1>1, <2>2, VerdictOfBasis, BasisTyped
  <2>4. receipt'.outcome # "Ok" => v \notin {"True", "False"}
    BY <1>3 DEF Apply, VerifyProof
  <2> HIDE DEF v, b
  <2>5. receipt'.outcome # "Ok" => ~GoesThrough(tx, b)
    BY <2>2, <2>3, <2>4 DEF GoesThrough
  <2> QED
    BY <1>1, <1>2, <2>1, <2>5, FailureRecorded DEF b
<1>4. CASE ApplyFails(tx)
  <2> DEFINE run == RunBatch(tx.caller, tx.items)
  <2>1. /\ run.trapped <=> Panics(b, tx.items)
        /\ ~run.trapped => run.charged = Charged(b, tx.items)
        /\ run.charged \in Nat
    BY <1>1, RunOfBasis
  <2>2. \/ Allowed(tx.caller) /\ tx.window # CurrentWindow
        \/ tx.charged = 0 /\ run.charged # 0
        \/ tx.op = "verify_batch" /\ run.charged > tx.charged
    BY <1>4 DEF ApplyFails, InFootprint
  <2>3. b.window = CurrentWindow /\ b.allowed = Allowed(tx.caller)
    BY <1>1, BasisTyped
  <2> HIDE DEF run, b
  <2>4. ASSUME GoesThrough(tx, b) PROVE FALSE
    <3>1. Allowed(tx.caller) => tx.window = CurrentWindow
      BY <2>3, <2>4 DEF GoesThrough
    <3>2. tx.op = "verify_batch" => run.charged = tx.charged
      BY <2>1, <2>4 DEF GoesThrough, Panics, Charged
    <3>3. tx.op = "verify_proof" => tx.charged = 1
      BY <2>4 DEF GoesThrough
    <3> QED
      BY <1>1, <2>1, <2>2, <3>1, <3>2, <3>3
  <2>5. Record(tx, FALSE, <<>>)
    BY <1>4 DEF ApplyFails
  <2> QED
    BY <1>1, <1>2, <2>4, <2>5, FailureRecorded DEF b
<1> QED
  BY <1>3, <1>4

\* The counter a batch in progress holds is the one its basis says its next entry
\* meets.
LEMMA FrameMet ==
  ASSUME TypeOK, FrameInv, ~Idle, Allowed(frame.caller), NEW items
  PROVE  frame.entry.n = Met(Basis(frame.caller, items), Len(frame.items) + 1)
<1> DEFINE c == frame.caller
           b == Basis(c, items)
           u == counts[c][CurrentWindow].n
           max == limits.max_calls
           k == Len(frame.items)
           g == frame.granted
<1>1. c \in Address
  BY DEF FrameInv
<1>2. b.used = u /\ b.limits.max_calls = max /\ u \in Nat
  BY <1>1, BasisTyped
<1>3. max \in Nat /\ k \in Nat /\ g \in Nat
  BY ConstantsAssumption DEF TypeOK, LimitsType, FrameType, ConstantsAssumption
<1>4. /\ frame.entry.n = u + g /\ g <= k
      /\ g > 0 => frame.entry.n <= max
      /\ g = k \/ frame.entry.n >= max
  BY DEF FrameInv, Allowed
<1>5. Met(b, k + 1) = IF u + k <= max THEN u + k ELSE Larger(u, max)
  <2> HIDE DEF b, u, max, k
  <2>1. u + (k + 1) - 1 = u + k
    BY <1>2, <1>3
  <2> QED
    BY <1>2, <2>1 DEF Met
<1> HIDE DEF b, u, max, k, g
<1> QED
  BY <1>2, <1>3, <1>4, <1>5 DEF Larger, b, c, k

\* A batch that panics has an entry that would on its basis, and one that ends
\* did not fail.
LEMMA FailureRun ==
  ASSUME GoodState, FrameInv, FailureInv, RunEntry \/ RunEnd
  PROVE  FailureInv'
<1> DEFINE tx == running
           b == Basis(tx.caller, tx.items)
<1>1. /\ TypeOK /\ ~Idle /\ tx # None /\ tx.caller \in Address
      /\ tx.items \in Seq(Item) /\ frame.items \in Seq(Item)
      /\ frame.caller = tx.caller
  BY ClientAssumption, ConstantsAssumption
  DEF RunEntry, RunEnd, GoodState, NetworkInv, BatchInOrder, Built, TransactionType, TypeOK,
      FrameType, ConstantsAssumption
<1>2. CASE RunEnd
  <2>1. Record(tx, TRUE, receipt'.events) /\ UNCHANGED call
    BY <1>2 DEF RunEnd
  <2> QED
    BY <1>1, <2>1, FailureRecorded
<1>3. ASSUME NEW item, BatchEntry(item), UNCHANGED clientVars PROVE FailureInv'
  BY <1>3, FailureKept DEF clientVars
<1>4. CASE RunEntry
  <2> DEFINE i == Len(frame.items) + 1
             item == tx.items[i]
  <2>1. i \in DOMAIN tx.items /\ i \in 1..Len(tx.items)
    BY <1>1, <1>4 DEF RunEntry
  <2>2. ASSUME BatchTrap(item), Record(tx, FALSE, <<>>), UNCHANGED call
        PROVE  FailureInv'
    <3>1. VerdictAt(b, i, frame.entry.n, item) = "Trap"
      <4>1. Verdict(tx.caller, item, frame.entry) = "Trap"
        BY <1>1, <2>2 DEF BatchTrap
      <4> QED
        BY <2>1, <4>1, VerdictOfBasis
    <3>2. b.allowed /\ b.allowed = Allowed(tx.caller)
      <4> HIDE DEF i, item, b
      <4>1. b.allowed
        BY <3>1 DEF VerdictAt
      <4>2. b.allowed = Allowed(tx.caller)
        BY <1>1, BasisTyped DEF b
      <4> QED
        BY <4>1, <4>2
    <3>3. frame.entry.n = Met(b, i)
      BY <1>1, <3>2, FrameMet
    <3>4. b.used = counts[tx.caller][CurrentWindow].n
      BY <1>1, BasisTyped
    <3>5. tx.op # "verify_proof"
      BY <1>1 DEF GoodState, NetworkInv
    <3> HIDE DEF b, i, item
    <3>6. ~GoesThrough(tx, b)
      BY <2>1, <3>1, <3>3, <3>5 DEF GoesThrough, item
    <3> QED
      BY <1>1, <2>2, <3>6, FailureRecorded DEF b
  <2> QED
    BY <1>3, <1>4, <2>2 DEF RunEntry
<1> QED
  BY <1>2, <1>4

-----------------------------------------------------------------------------
(* The theorems.                                                           *)

LEMMA ClientStepInv ==
  ASSUME ClientInv, [ClientNext]_allVars
  PROVE  ClientInv'
<1>1. GoodState
  BY GoodStates
<1>2. GoodState'
  <2>1. CASE UNCHANGED allVars
    <3>1. UNCHANGED <<vars, clientVars, frame>>
      BY <2>1 DEF allVars, vars
    <3>2. TypeOK'
      BY <1>1, <3>1, NextTypeOK, ConstantsAssumption DEF GoodState
    <3>3. BatchInOrder' /\ NetworkInv' /\ seq' \in [Address -> Nat]
      BY <1>1, <3>1 DEF GoodState, BatchInOrder, NetworkInv, Idle, clientVars
    <3> QED
      BY <1>1, <3>1, <3>2, <3>3, NetworkChanges DEF clientVars
  <2>2. CASE ClientNext
    BY <1>1, <2>2, OthersInv, SessionStepInv, ApplyInv, ApplyBatchInv, RunInv
    DEF ClientNext, Network
  <2> QED
    BY <2>1, <2>2
<1>3. ClientInv' <=> GoodState'
  BY GoodStates, PTL
<1> QED
  BY <1>2, <1>3

LEMMA ClientInitInv == ASSUME ClientInit PROVE ClientInv
<1>1. TypeOK /\ Idle
  BY InitTypeOK, ConstantsAssumption DEF ClientInit, Init, Idle
<1>2. ASSUME NEW s \in Session PROVE GoodCall(opts[s], call[s])
  <2>1. call[s] = NewCall
    BY DEF ClientInit
  <2> QED
    BY <2>1, ClientAssumption DEF GoodCall, NewCall, CallField, CertainCode, ThrownCode
<1>3. BatchInOrder /\ NetworkInv
  BY <1>1 DEF ClientInit, BatchInOrder, NetworkInv
<1>4. call = [s \in Session |-> call[s]] /\ seq \in [Address -> Nat]
  BY DEF ClientInit
<1> QED
  BY <1>1, <1>2, <1>3, <1>4, GoodStates DEF GoodState, ClientInit

LEMMA ClientInvariant == ClientSpec => []ClientInv
BY ClientInitInv, ClientStepInv, PTL DEF ClientSpec

\* Sessions, sequence numbers and the batch in progress are always well formed.
THEOREM ClientTypeCorrect == ClientSpec => []ClientTypeOK
<1>1. ClientInv => ClientTypeOK
  BY DEF ClientInv
<1> QED
  BY <1>1, ClientInvariant, PTL

\* What verifyOnChain and verifyBatchOnChain resolve to is what the contract
\* returned when a ledger applied the session's own transaction.
THEOREM ResultIsOnChainHolds == ClientSpec => []ResultIsOnChain
<1>1. ClientInv => ResultIsOnChain
  BY DEF ClientInv
<1> QED
  BY <1>1, ClientInvariant, PTL

\* A session that was told so was not charged and will not be: its transaction
\* had its one turn and failed, so no waiting or applied one charges it.
THEOREM RejectedUnchargedHolds == ClientSpec => []RejectedUncharged
<1>1. ClientInv => RejectedUncharged
  <2> SUFFICES ASSUME ClientInv, NEW s \in Session,
                      call[s].outcome \in CertainCode, call[s].sent
               PROVE  /\ call[s].tx \notin pool
                      /\ \A r \in applied : r.tx = call[s].tx => ~r.ok
    BY DEF RejectedUncharged
  <2>1. PICK r \in applied : r.tx = call[s].tx /\ ~r.ok
    BY DEF ClientInv, SessionInv
  <2>2. r.tx.caller \in Address /\ r.tx.seq \in Nat /\ r.tx.seq <= seq[r.tx.caller]
    BY DEF ClientInv, NetworkInv
  <2>3. seq[r.tx.caller] \in Nat
    BY <2>2 DEF ClientInv, ClientTypeOK
  <2>4. r.tx \notin pool
    BY <2>2, <2>3 DEF ClientInv, NetworkInv
  <2> QED
    BY <2>1, <2>4 DEF ClientInv, NetworkInv
<1> QED
  BY <1>1, ClientInvariant, PTL

\* What the network does with the sessions' transactions is what the contract's
\* specification allows.
LEMMA ClientStepIsContractStep ==
  ASSUME ClientInv, [ClientNext]_allVars
  PROVE  [Next]_vars
<1>1. GoodState
  BY GoodStates
<1>2. ASSUME NEW tx \in pool
      PROVE  /\ tx.caller \in CallerArg
             /\ tx.op = "verify_proof" => tx.items[1] \in Item
  BY <1>1 DEF GoodState, NetworkInv, Built, TransactionType
<1>3. CASE UNCHANGED vars
  BY <1>3
<1>4. CASE (\E s \in Address : AdminCall(s)) \/ CloseLedger
  BY <1>4 DEF Next
<1>5. ASSUME NEW tx \in pool, Apply(tx) PROVE Next
  BY <1>2, <1>5 DEF Apply, Next, VerifyCall
<1>6. ASSUME NEW tx \in pool, ApplyBatch(tx) PROVE Next
  BY <1>2, <1>6 DEF ApplyBatch, Next, VerifyCall
<1>7. CASE RunEntry
  <2>1. Built(running) /\ frame.items \in Seq(Item)
    BY <1>1, <1>7 DEF RunEntry, GoodState, NetworkInv, TypeOK, FrameType
  <2>2. running.items[Len(frame.items) + 1] \in Item
    BY <1>7, <2>1 DEF RunEntry, Built, TransactionType
  <2> QED
    BY <1>7, <2>2 DEF RunEntry, Next, VerifyCall
<1>8. CASE RunEnd
  BY <1>8 DEF RunEnd, Next, VerifyCall
<1>9. ASSUME NEW s \in Session, SessionStep(s) PROVE UNCHANGED vars
  BY <1>9, Zenon DEF SessionStep, Start, GetNetwork, GetAccount, Prepare,
                       PrepareBatch, Send,
              SendRefused, SendLost, RequestFails, PollNotFound, PollFailed, PollSuccess,
              PollBatchSuccess
<1>10. ASSUME NEW tx \in pool, ApplyFails(tx) \/ Drop(tx) PROVE UNCHANGED vars
  BY <1>10, Zenon DEF ApplyFails, Drop
<1>11. CASE UNCHANGED allVars
  BY <1>11 DEF allVars
<1> QED
  BY <1>3, <1>4, <1>5, <1>6, <1>7, <1>8, <1>9, <1>10, <1>11 DEF ClientNext, Network

\* The SDK and the network drive the contract through nothing but its entry
\* points, with arguments they take.
THEOREM ClientImplementsVerifier == ClientSpec => Spec
<1>1. ClientInit => Init
  BY DEF ClientInit
<1> QED
  BY <1>1, ClientInvariant, ClientStepIsContractStep, PTL DEF ClientSpec, Spec

\* So the contract's budget holds whatever sessions send, lose, or send twice.
THEOREM ClientRateLimit == ClientSpec => []RateLimit
BY ClientImplementsVerifier, RateLimitHolds, PTL

\* And the counter a caller finds is the number of entries of applied transactions
\* it was charged for: simulations, transactions that were refused, lost or dropped,
\* and those that failed in their ledger leave nothing in it.
THEOREM ClientRateExact == ClientSpec => []RateExact
BY ClientImplementsVerifier, RateExactHolds, PTL

LEMMA FailureStep ==
  ASSUME ClientInv, FrameInv, FailureInv, [ClientNext]_allVars
  PROVE  FailureInv'
<1>1. GoodState
  BY GoodStates
<1>2. ASSUME UNCHANGED <<call, applied>> PROVE FailureInv'
  BY <1>2, FailureKept
<1>3. CASE UNCHANGED allVars
  BY <1>2, <1>3 DEF allVars, clientVars
<1>4. CASE UNCHANGED clientVars
  BY <1>2, <1>4 DEF clientVars
<1>5. ASSUME NEW s \in Session, SessionStep(s) PROVE FailureInv'
  <2>1. CASE Prepare(s) \/ PrepareBatch(s)
    BY <1>1, <2>1, FailurePrepared
  <2>2. CASE ~Prepare(s) /\ ~PrepareBatch(s)
    <3>1. applied' = applied
      BY <1>5, <2>2, Zenon
      DEF SessionStep, Start, GetNetwork, GetAccount, Send, SendRefused, SendLost,
          RequestFails, PollNotFound, PollFailed, PollSuccess, PollBatchSuccess, chainVars
    <3> QED
      BY <1>1, <1>5, <2>2, <3>1, PromiseKept, FailureKept
  <2> QED
    BY <2>1, <2>2
<1>6. ASSUME NEW tx \in pool, ApplyBatch(tx) \/ Drop(tx) PROVE FailureInv'
  BY <1>2, <1>6 DEF ApplyBatch, Drop, Included
<1>7. ASSUME NEW tx \in pool, Apply(tx) \/ ApplyFails(tx) PROVE FailureInv'
  BY <1>1, <1>7, FailureApplied
<1>8. CASE RunEntry \/ RunEnd
  BY <1>1, <1>8, FailureRun
<1> QED
  BY <1>3, <1>4, <1>5, <1>6, <1>7, <1>8 DEF ClientNext, Network

\* A call that passed simulation fails in a ledger only if something it depends
\* on changed in between, whatever the sessions, the admins and other callers do:
\* what the message of a FAILED transaction tells its user.
THEOREM FailureMeansChangeHolds == ClientSpec => []FailureMeansChange
<1>1. ClientInit => FailureInv
  <2> SUFFICES ASSUME ClientInit PROVE FailureInv
    OBVIOUS
  <2>1. applied = {} /\ \A s \in Session : call[s].tx = None
    BY DEF ClientInit, NewCall
  <2> QED
    BY <2>1 DEF FailureInv
<1>2. ClientSpec => []FrameInv
  <2>1. BudgetInv => FrameInv
    BY DEF BudgetInv
  <2> QED
    BY <2>1, ClientImplementsVerifier, BudgetInvariant, PTL
<1>3. ClientSpec => []FailureInv
  BY <1>1, <1>2, ClientInvariant, FailureStep, PTL DEF ClientSpec
<1>4. FailureInv => FailureMeansChange
  BY DEF FailureInv, FailureMeansChange
<1> QED
  BY <1>3, <1>4, PTL

=============================================================================
