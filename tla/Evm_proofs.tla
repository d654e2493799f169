----------------------------- MODULE Evm_proofs -----------------------------
(***************************************************************************)
(* The EVM contracts answer every message once and truthfully and run only *)
(* what was admitted, for any subroutines, permissions, registries and     *)
(* number of messages, with messages of users, of the owner and of the     *)
(* Hyperlane mailbox in any order.  The one-way vault and the clearing     *)
(* queue behind it, for every number of users, deposits, requests and      *)
(* obligations, every fee, rate and limit: what they promise in every      *)
(* step, and that the queue settles in order.                              *)
(***************************************************************************)
EXTENDS EvmAuthorization, ClearingQueue, TLAPS, WellFoundedInduction

Address == Contract \cup {NoCode}
Callback == [result : Result, executedCount : Nat]

EvmTyped ==
  /\ executionId \in 0 .. MaxExecutionId
  /\ sent \in [ExecutionId -> Subroutine \cup {NoMessage, Control}]
  /\ callbacks \in [ExecutionId -> Seq(Callback)]
  /\ did \in [ExecutionId -> Seq(Address)]
  /\ DOMAIN listed = ExecutionId
  /\ mail \in [MailId -> Subroutine \cup {NoMessage, Control}]
  /\ dispatched \in [MailId -> Seq(Callback)]
  /\ ran \in [MailId -> Seq(Address)]
  /\ zkAuthorizations \in [Registry -> [users : SUBSET (User \cup {Zero}), route : Route \cup {""},
                                       checked : BOOLEAN]]
  /\ zkLastBlock \in [Registry -> Nat]
  /\ proven \in [Registry -> Seq(Nat)]

Prefix(done, functions) == \E m \in 0 .. Len(functions) : done = SubSeq(functions, 1, m)

\* A message that ran under a label ran what the label listed, as far as it got.
ListedRuns ==
  \A i \in ExecutionId : listed[i] # <<>> =>
    /\ sent[i] \in Subroutine /\ Prefix(did[i], sent[i].functions)
    /\ Len(listed[i]) = Len(sent[i].functions)
    /\ \A k \in 1 .. Len(listed[i]) : Permits(listed[i][k], sent[i].functions[k], sent[i].messages[k])

\* The stored block is at least every block a proof was executed for, in order.
BlocksGrow ==
  \A r \in Registry :
    /\ \A k \in DOMAIN proven[r] : proven[r][k] <= zkLastBlock[r]
    /\ \A j, k \in DOMAIN proven[r] : j < k => proven[r][j] < proven[r][k]

EvmInv == EvmTyped /\ AnsweredOnceTruthfully /\ ListedRuns /\ BlocksGrow

\* Messages are told apart.
LEMMA Kinds == NoMessage \notin Subroutine /\ Control \notin Subroutine /\ NoMessage # Control
<1>1. \A s \in Subroutine : DOMAIN s = {"functions", "messages", "atomic", "expired"}
  BY SubroutineAssumption, Zenon DEF isSubroutine
<1>2. DOMAIN NoMessage = {"kind"} /\ DOMAIN Control = {"kind"}
  BY Zenon DEF NoMessage, Control
<1>3. NoMessage # Control
  BY Zenon DEF NoMessage, Control
<1> QED BY <1>1, <1>2, <1>3, Zenon

\* The loop over the functions ends at one of them or past the end.
LEMMA FirstFailureExists ==
  ASSUME NEW functions, Len(functions) \in Nat, NEW ok
  PROVE  FirstFailure(functions, ok) \in 1 .. Len(functions) + 1
<1> DEFINE n == Len(functions)
           stops(k) == k = n + 1 \/ functions[k] = NoCode \/ ~ok[k]
           T == {k \in 1 .. n + 1 : stops(k)}
           less == {e \in Nat \X Nat : e[1] < e[2]}
<1>1. T \subseteq Nat /\ n + 1 \in T
  OBVIOUS
<1>2. OpToRel(<, Nat) = less
  BY Zenon DEF OpToRel
<1>3. IsWellFoundedOn(less, Nat)
  BY <1>2, NatLessThanWellFounded, Zenon
<1>4. PICK k \in T : \A j \in T : ~(<<j, k>> \in less)
  <2> HIDE DEF T, less
  <2> QED BY <1>1, <1>3, WFMin, Zenon
<1>5. \A j \in 1 .. k - 1 : functions[j] # NoCode /\ ok[j]
  <2> SUFFICES ASSUME NEW j \in 1 .. k - 1, ~(functions[j] # NoCode /\ ok[j]) PROVE FALSE
    BY Zenon
  <2>1. j \in T
    BY <1>4
  <2>2. <<j, k>> \in less
    BY <1>4
  <2> QED BY <1>4, <2>1, <2>2, Zenon
<1>6. k \in 1 .. n + 1 /\ stops(k)
  BY <1>4, Zenon
<1> QED BY <1>5, <1>6, Zenon DEF FirstFailure

Outcome == [succeeded : BOOLEAN, expired : BOOLEAN, done : Nat, effects : Seq(Address)]

\* The outcome of a subroutine and what it says of itself: what ran is the part of
\* the functions that is counted.
OutcomeOf(s, out) ==
  LET n == Len(s.functions)
  IN /\ out \in Outcome
     /\ out.done \in 0 .. n /\ out.effects = SubSeq(s.functions, 1, out.done)
     /\ out.succeeded => out.done = n
     /\ out.expired <=> s.expired
     /\ ~out.succeeded /\ n > 0 => out.done < n
     /\ s.expired => out.done = 0 /\ ~out.succeeded
     /\ s.atomic /\ ~out.succeeded => out.done = 0

\* What a subroutine consists of.
LEMMA SubroutineParts ==
  ASSUME NEW s \in Subroutine
  PROVE  /\ s.functions \in Seq(Address) /\ Len(s.functions) \in Nat
         /\ s.atomic \in BOOLEAN /\ s.expired \in BOOLEAN
<1>1. isSubroutine(s)
  BY SubroutineAssumption, Zenon
<1>2. s.functions \in Seq(Address) /\ s.atomic \in BOOLEAN /\ s.expired \in BOOLEAN
  BY <1>1, Zenon DEF isSubroutine, Address
<1> QED BY <1>2

\* The loops of the processor, and their rollback, count what lasts.
LEMMA OutcomeIsCounted ==
  ASSUME NEW s \in Subroutine, NEW ok, NEW out \in handleSendMsgs(s, ok)
  PROVE  OutcomeOf(s, out)
<1> DEFINE n == Len(s.functions)
           k == FirstFailure(s.functions, ok)
<1>1. s.functions \in Seq(Address) /\ n \in Nat /\ s.atomic \in BOOLEAN /\ s.expired \in BOOLEAN
  BY SubroutineParts, Zenon
<1>2. k \in 1 .. n + 1
  BY <1>1, FirstFailureExists, Zenon
<1>3. \A m \in 0 .. n : SubSeq(s.functions, 1, m) \in Seq(Address)
  BY <1>1
<1>4. SubSeq(s.functions, 1, 0) = <<>> /\ SubSeq(s.functions, 1, n) = s.functions
  BY <1>1
<1>5. Nothing \in Outcome /\ ~Nothing.succeeded /\ ~Nothing.expired /\ Nothing.done = 0
      /\ Nothing.effects = <<>>
  BY DEF Nothing, Outcome
<1>6. ~paused
  BY Zenon DEF handleSendMsgs
<1>7. CASE s.expired
  <2>1. out = [Nothing EXCEPT !.expired = TRUE]
    BY <1>6, <1>7, Zenon DEF handleSendMsgs
  <2>2. out = [succeeded |-> FALSE, expired |-> TRUE, done |-> 0, effects |-> <<>>]
    BY <2>1, Zenon DEF Nothing
  <2>3. out \in Outcome /\ ~out.succeeded /\ out.expired /\ out.done = 0 /\ out.effects = <<>>
    BY <2>2 DEF Outcome
  <2> QED BY <1>1, <1>4, <1>7, <2>3 DEF OutcomeOf
<1>8. CASE ~s.expired /\ s.atomic
  <2>1. out \in handleAtomicSubroutine(s, ok)
    BY <1>6, <1>8, Zenon DEF handleSendMsgs
  <2>2. CASE out = Nothing
    <3>1. out \in Outcome /\ ~out.succeeded /\ ~out.expired /\ out.done = 0 /\ out.effects = <<>>
      BY <1>5, <2>2, Zenon
    <3> QED BY <1>1, <1>4, <1>8, <3>1 DEF OutcomeOf
  <2>3. CASE out = [succeeded |-> TRUE, expired |-> FALSE, done |-> n, effects |-> s.functions]
    <3>1. out \in Outcome /\ out.succeeded /\ ~out.expired /\ out.done = n /\ out.effects = s.functions
      BY <1>1, <2>3, Zenon DEF Outcome
    <3> QED BY <1>1, <1>4, <1>8, <3>1 DEF OutcomeOf, Outcome
  <2> QED BY <2>1, <2>2, <2>3, Zenon DEF handleAtomicSubroutine
<1>9. CASE ~s.expired /\ ~s.atomic
  <2>1. out = [succeeded |-> k > n, expired |-> FALSE, done |-> k - 1,
               effects |-> SubSeq(s.functions, 1, k - 1)]
    BY <1>6, <1>9, Zenon DEF handleSendMsgs, handleNonAtomicSubroutine
  <2> HIDE DEF k
  <2>2. k - 1 \in 0 .. n /\ (k > n <=> k - 1 = n) /\ (k > n) \in BOOLEAN
    BY <1>1, <1>2
  <2>3. /\ out \in Outcome /\ out.succeeded = (k > n) /\ ~out.expired /\ out.done = k - 1
        /\ out.effects = SubSeq(s.functions, 1, k - 1)
    BY <1>1, <1>3, <2>1, <2>2 DEF Outcome
  <2> QED BY <1>1, <1>9, <2>2, <2>3 DEF OutcomeOf, Outcome
<1> QED BY <1>1, <1>7, <1>8, <1>9, Zenon

\* The callback built from it is truthful.
LEMMA CallbackIsTruthful ==
  ASSUME NEW s \in Subroutine, NEW ok, NEW out \in handleSendMsgs(s, ok)
  PROVE  /\ out.effects \in Seq(Address) /\ buildCallback(out) \in Callback
         /\ Truthful(s, out.effects, buildCallback(out))
<1> DEFINE n == Len(s.functions)
           c == buildCallback(out)
<1>1. OutcomeOf(s, out)
  BY OutcomeIsCounted, Zenon
<1>2. s.functions \in Seq(Address) /\ n \in Nat /\ s.atomic \in BOOLEAN /\ s.expired \in BOOLEAN
  BY SubroutineParts, ZenonT(40)
<1>3. /\ out.succeeded \in BOOLEAN /\ out.expired \in BOOLEAN /\ out.done \in Nat
      /\ out.effects \in Seq(Address) /\ out.done <= n
  BY <1>1, <1>2 DEF OutcomeOf, Outcome
<1>4. c \in Callback /\ c.executedCount = out.done
      /\ (c.result = "Success" <=> out.succeeded)
      /\ (c.result = "Expired" <=> ~out.succeeded /\ out.expired)
      /\ (c.result = "Rejected" <=> ~out.succeeded /\ ~out.expired /\ out.done = 0)
      /\ (c.result = "PartiallyExecuted" <=> ~out.succeeded /\ ~out.expired /\ out.done # 0)
  BY <1>3, Zenon DEF buildCallback, Callback, Result
<1> HIDE DEF c
<1>5. /\ SubSeq(s.functions, 1, n) = s.functions /\ SubSeq(s.functions, 1, 0) = <<>>
      /\ Len(out.effects) = out.done
  <2>1. out.done \in 0 .. n /\ out.effects = SubSeq(s.functions, 1, out.done)
    BY <1>1, Zenon DEF OutcomeOf
  <2> QED BY <1>2, <2>1
<1>6. out.effects = s.functions /\ out.effects # <<>> => out.succeeded
  BY <1>1, <1>2, <1>3, <1>5 DEF OutcomeOf
<1>7. out.done # 0 => out.effects # <<>>
  BY <1>3, <1>5, Zenon
<1>8. Truthful(s, out.effects, c)
  BY <1>1, <1>2, <1>3, <1>4, <1>5, <1>6, <1>7, Zenon DEF Truthful, OutcomeOf
<1> QED BY <1>3, <1>4, <1>8, Zenon DEF c

\* The state of one message: asked is what it asks for, ran what ran, and told the
\* callbacks.
Answered(asked, done, told) ==
  /\ Len(told) = IF asked \in Subroutine THEN 1 ELSE 0
  /\ \A k \in DOMAIN told : Truthful(asked, done, told[k])

\* A message that runs is answered once, whoever delivers it.
LEMMA RunIsAnswered ==
  ASSUME NEW s \in Subroutine, NEW ok, NEW out \in handleSendMsgs(s, ok),
         NEW asked, asked \notin Subroutine, NEW done, NEW told \in Seq(Callback),
         Answered(asked, done, told)
  PROVE  /\ out.effects \in Seq(Address) /\ Prefix(out.effects, s.functions)
         /\ Append(told, buildCallback(out)) \in Seq(Callback)
         /\ Answered(s, out.effects, Append(told, buildCallback(out)))
<1> DEFINE c == buildCallback(out)
<1>1. out.effects \in Seq(Address) /\ c \in Callback /\ Truthful(s, out.effects, c)
  BY CallbackIsTruthful, Zenon
<1> HIDE DEF c
<1>2. told = <<>>
  BY DEF Answered
<1>3. Append(told, c) \in Seq(Callback) /\ Len(Append(told, c)) = 1 /\ Append(told, c)[1] = c
      /\ DOMAIN Append(told, c) = {1}
  BY <1>1, <1>2
<1>4. Answered(s, out.effects, Append(told, c))
  BY <1>1, <1>3, Zenon DEF Answered
<1>5. Prefix(out.effects, s.functions)
  BY OutcomeIsCounted DEF OutcomeOf, Prefix
<1> QED BY <1>1, <1>3, <1>4, <1>5, Zenon DEF c

\* The first conjunct of the property, message by message.
LEMMA AnsweredByMessage ==
  AnsweredOnceTruthfully <=>
    /\ \A i \in ExecutionId : (sent[i] # NoMessage <=> i < executionId)
                              /\ Answered(sent[i], did[i], callbacks[i])
    /\ \A i \in MailId : Answered(mail[i], ran[i], dispatched[i])
  BY Zenon DEF AnsweredOnceTruthfully, Answered

\* Initially there are no messages.
LEMMA InitEvmInv == EvmInit => EvmInv
<1> SUFFICES ASSUME EvmInit PROVE EvmInv
  BY Zenon
<1> USE DEF EvmInit, ProcessorInit
<1>1. EvmTyped
  <2>1. executionId \in 0 .. MaxExecutionId
    BY EvmAuthorizationConstants
  <2>2. zkAuthorizations \in [Registry -> [users : SUBSET (User \cup {Zero}), route : Route \cup {""},
                                          checked : BOOLEAN]]
    BY Zenon DEF NoRegistry
  <2>3. NoMessage \in Subroutine \cup {NoMessage, Control} /\ \A S : <<>> \in Seq(S)
    OBVIOUS
  <2>4. /\ sent \in [ExecutionId -> Subroutine \cup {NoMessage, Control}]
        /\ mail \in [MailId -> Subroutine \cup {NoMessage, Control}]
    BY <2>3, Zenon
  <2>5. /\ callbacks \in [ExecutionId -> Seq(Callback)] /\ did \in [ExecutionId -> Seq(Address)]
        /\ dispatched \in [MailId -> Seq(Callback)] /\ ran \in [MailId -> Seq(Address)]
        /\ proven \in [Registry -> Seq(Nat)]
    BY <2>3, Zenon
  <2>6. DOMAIN listed = ExecutionId /\ zkLastBlock \in [Registry -> Nat]
    BY Zenon
  <2> QED BY <2>1, <2>2, <2>4, <2>5, <2>6, ZenonT(40) DEF EvmTyped
<1>2. AnsweredOnceTruthfully
  BY Kinds DEF AnsweredOnceTruthfully, ExecutionId
<1>3. ListedRuns /\ BlocksGrow
  BY DEF ListedRuns, BlocksGrow
<1> QED BY <1>1, <1>2, <1>3, Zenon DEF EvmInv

\* The invariant says what is asked for.
LEMMA InvAdmitted == EvmInv => OnlyTheAdmittedRuns
<1> SUFFICES ASSUME EvmInv PROVE OnlyTheAdmittedRuns
  BY Zenon
<1>1. ASSUME NEW i \in ExecutionId, listed[i] # <<>>
      PROVE  /\ Len(did[i]) <= Len(listed[i])
             /\ \A k \in DOMAIN did[i] : Permits(listed[i][k], did[i][k], sent[i].messages[k])
             /\ callbacks[i][1].result = "Success" => Len(did[i]) = Len(listed[i])
  <2> DEFINE s == sent[i]
             c == callbacks[i][1]
             n == Len(s.functions)
  <2>1. /\ s \in Subroutine /\ Len(listed[i]) = n
        /\ \A k \in 1 .. n : Permits(listed[i][k], s.functions[k], s.messages[k])
    BY <1>1, Zenon DEF EvmInv, ListedRuns
  <2>2. /\ Truthful(s, did[i], c) /\ c.executedCount \in Nat /\ did[i] \in Seq(Address)
    <3>1. Answered(s, did[i], callbacks[i]) /\ callbacks[i] \in Seq(Callback)
      BY AnsweredByMessage, Zenon DEF EvmInv, EvmTyped
    <3>2. 1 \in DOMAIN callbacks[i]
      BY <2>1, <3>1 DEF Answered
    <3>3. c \in Callback
      BY <3>1, <3>2
    <3> QED BY <3>1, <3>2, <3>3, Zenon DEF Answered, Callback, EvmInv, EvmTyped
  <2>3. s.functions \in Seq(Address) /\ n \in Nat
    BY <2>1, SubroutineParts, Zenon
  <2> HIDE DEF s, c
  <2>5. PICK m \in 0 .. n : did[i] = SubSeq(s.functions, 1, m)
    BY <1>1, Zenon DEF EvmInv, ListedRuns, Prefix, s
  <2>6. Len(did[i]) = m /\ \A k \in 1 .. m : did[i][k] = s.functions[k]
    BY <2>3, <2>5
  <2>7. Len(did[i]) <= Len(listed[i])
    BY <2>1, <2>3, <2>6
  <2>8. \A k \in DOMAIN did[i] : Permits(listed[i][k], did[i][k], sent[i].messages[k])
    BY <2>1, <2>2, <2>3, <2>6, SMTT(30) DEF s
  <2>9. c.result = "Success" => Len(did[i]) = Len(listed[i])
    BY <2>1, <2>2, Zenon DEF Truthful
  <2> QED BY <2>7, <2>8, <2>9, Zenon DEF c
<1>2. \A r \in Registry : \A j, k \in DOMAIN proven[r] : j < k => proven[r][j] < proven[r][k]
  BY Zenon DEF EvmInv, BlocksGrow
<1> QED BY <1>1, <1>2, Zenon DEF OnlyTheAdmittedRuns

\* A delivery by Hyperlane touches only the processor.
LEMMA DeliveryInv ==
  ASSUME EvmInv, Delivery, UNCHANGED <<contractVars, historyVars>>
  PROVE  EvmInv'
<1>1. UNCHANGED <<executionId, callbacks, zkAuthorizations, zkLastBlock, sent, did, listed, proven>>
  BY Zenon DEF contractVars, historyVars
<1>2. ListedRuns' /\ BlocksGrow'
  BY <1>1, Zenon DEF EvmInv, ListedRuns, BlocksGrow, Permits, Prefix
<1>3. ASSUME NEW i \in MailId, handleControl(i) PROVE EvmTyped' /\ AnsweredOnceTruthfully'
  <2>1. mail[i] = NoMessage /\ mail' = [mail EXCEPT ![i] = Control] /\ UNCHANGED <<dispatched, ran>>
    BY <1>3, Zenon DEF handleControl
  <2>2. EvmTyped'
    BY <1>1, <2>1, Zenon DEF EvmInv, EvmTyped
  <2>3. \A j \in MailId : Answered(mail'[j], ran'[j], dispatched'[j])
    <3> SUFFICES ASSUME NEW j \in MailId PROVE Answered(mail'[j], ran'[j], dispatched'[j])
      BY Zenon
    <3>1. Answered(mail[j], ran[j], dispatched[j]) /\ dispatched[j] \in Seq(Callback)
      BY AnsweredByMessage, Zenon DEF EvmInv, EvmTyped
    <3>2. CASE j # i
      BY <2>1, <3>1, <3>2, Zenon DEF EvmInv, EvmTyped
    <3>3. CASE j = i
      <4>1. mail'[i] = Control /\ ran'[i] = ran[i] /\ dispatched'[i] = dispatched[i]
        BY <2>1, Zenon DEF EvmInv, EvmTyped
      <4>2. Len(dispatched[i]) = 0
        BY <2>1, <3>1, <3>3, Kinds, Zenon DEF Answered
      <4>3. dispatched[i] = <<>>
        BY <3>1, <3>3, <4>2
      <4> QED BY <3>3, <4>1, <4>3, Kinds DEF Answered
    <3> QED BY <3>2, <3>3, Zenon
  <2>4. \A j \in ExecutionId : (sent'[j] # NoMessage <=> j < executionId')
                               /\ Answered(sent'[j], did'[j], callbacks'[j])
    BY <1>1, AnsweredByMessage, Zenon DEF EvmInv
  <2> QED BY <2>2, <2>3, <2>4, Zenon DEF AnsweredOnceTruthfully, Answered
<1>4. ASSUME NEW i \in MailId, NEW s \in Subroutine, NEW ok \in Outcomes(s), handle(i, s, ok)
      PROVE  EvmTyped' /\ AnsweredOnceTruthfully'
  <2>1. PICK out \in handleSendMsgs(s, ok) :
          /\ dispatched' = [dispatched EXCEPT ![i] = Append(@, buildCallback(out))]
          /\ ran' = [ran EXCEPT ![i] = out.effects]
    BY <1>4, Zenon DEF handle, sendCallback
  <2>2. mail[i] = NoMessage /\ mail' = [mail EXCEPT ![i] = s]
    BY <1>4, Zenon DEF handle
  <2> DEFINE told == Append(dispatched[i], buildCallback(out))
  <2>3. out.effects \in Seq(Address) /\ told \in Seq(Callback) /\ Answered(s, out.effects, told)
    <3>1. Answered(mail[i], ran[i], dispatched[i]) /\ dispatched[i] \in Seq(Callback)
      BY AnsweredByMessage, Zenon DEF EvmInv, EvmTyped
    <3> QED BY <2>2, <3>1, Kinds, RunIsAnswered, Zenon
  <2>4. dispatched' = [dispatched EXCEPT ![i] = told]
    BY <2>1, Zenon
  <2> HIDE DEF told
  <2>5. EvmTyped'
    BY <1>1, <2>1, <2>2, <2>3, <2>4, ZenonT(40) DEF EvmInv, EvmTyped
  <2>6. \A j \in MailId : Answered(mail'[j], ran'[j], dispatched'[j])
    <3> SUFFICES ASSUME NEW j \in MailId PROVE Answered(mail'[j], ran'[j], dispatched'[j])
      BY Zenon
    <3>1. CASE j # i
      <4>1. mail'[j] = mail[j] /\ ran'[j] = ran[j] /\ dispatched'[j] = dispatched[j]
        BY <2>1, <2>2, <2>4, <3>1, ZenonT(40) DEF EvmInv, EvmTyped
      <4> QED BY <4>1, AnsweredByMessage, Zenon DEF EvmInv
    <3>2. CASE j = i
      BY <2>1, <2>2, <2>3, <2>4, <3>2, ZenonT(40) DEF EvmInv, EvmTyped
    <3> QED BY <3>1, <3>2, Zenon
  <2>7. \A j \in ExecutionId : (sent'[j] # NoMessage <=> j < executionId')
                               /\ Answered(sent'[j], did'[j], callbacks'[j])
    BY <1>1, AnsweredByMessage, Zenon DEF EvmInv
  <2> QED BY <2>5, <2>6, <2>7, Zenon DEF AnsweredOnceTruthfully, Answered
<1> QED BY <1>2, <1>3, <1>4, Zenon DEF Delivery, EvmInv

\* The next id is one of those counted.
LEMMA FreeId ==
  ASSUME EvmInv, executionId < MaxExecutionId
  PROVE  executionId \in ExecutionId /\ executionId + 1 \in 0 .. MaxExecutionId
<1>1. executionId \in 0 .. MaxExecutionId /\ MaxExecutionId \in Nat
  BY EvmAuthorizationConstants, ZenonT(40) DEF EvmInv, EvmTyped
<1> QED BY <1>1 DEF ExecutionId

\* What executing a message, under a label or not, does to the execution ids.
LEMMA ExecuteStep ==
  ASSUME EvmInv, NEW s \in Subroutine, NEW ok, execute(s, ok),
         \/ UNCHANGED listed
         \/ \E data : /\ listed' = [listed EXCEPT ![executionId] = data]
                      /\ Len(data) = Len(s.functions)
                      /\ \A k \in 1 .. Len(data) : Permits(data[k], s.functions[k], s.messages[k])
  PROVE  /\ executionId' \in 0 .. MaxExecutionId
         /\ sent' \in [ExecutionId -> Subroutine \cup {NoMessage, Control}]
         /\ callbacks' \in [ExecutionId -> Seq(Callback)] /\ did' \in [ExecutionId -> Seq(Address)]
         /\ DOMAIN listed' = ExecutionId
         /\ AnsweredOnceTruthfully' /\ ListedRuns'
<1> DEFINE i == executionId
<1>1. i \in ExecutionId /\ i + 1 \in 0 .. MaxExecutionId
  BY FreeId, Zenon DEF execute
<1>2. PICK out \in handleSendMsgs(s, ok) :
        /\ callbacks' = [callbacks EXCEPT ![i] = Append(@, buildCallback(out))]
        /\ did' = [did EXCEPT ![i] = out.effects]
  BY ZenonT(40) DEF execute, handleCallback
<1>3. /\ sent' = [sent EXCEPT ![i] = s] /\ executionId' = i + 1
      /\ UNCHANGED <<mail, dispatched, ran>>
  BY Zenon DEF execute, processorVars
<1> DEFINE told == Append(callbacks[i], buildCallback(out))
<1>4. /\ out.effects \in Seq(Address) /\ Prefix(out.effects, s.functions)
      /\ told \in Seq(Callback) /\ Answered(s, out.effects, told)
  <2>1. Answered(sent[i], did[i], callbacks[i]) /\ callbacks[i] \in Seq(Callback)
    BY <1>1, AnsweredByMessage, ZenonT(40) DEF EvmInv, EvmTyped
  <2>2. sent[i] = NoMessage
    BY <1>1, AnsweredByMessage DEF EvmInv, ExecutionId
  <2> QED BY <2>1, <2>2, Kinds, RunIsAnswered, Zenon
<1>5. callbacks' = [callbacks EXCEPT ![i] = told]
  BY <1>2, Zenon
<1> HIDE DEF told
<1>6. /\ sent' \in [ExecutionId -> Subroutine \cup {NoMessage, Control}]
      /\ callbacks' \in [ExecutionId -> Seq(Callback)] /\ did' \in [ExecutionId -> Seq(Address)]
      /\ DOMAIN listed' = ExecutionId
  BY <1>2, <1>3, <1>4, <1>5, ZenonT(40) DEF EvmInv, EvmTyped
<1>7. /\ sent'[i] = s /\ did'[i] = out.effects /\ callbacks'[i] = told
      /\ \A j \in ExecutionId : j # i =>
           sent'[j] = sent[j] /\ did'[j] = did[j] /\ callbacks'[j] = callbacks[j] /\ listed'[j] = listed[j]
  BY <1>1, <1>2, <1>3, <1>5, ZenonT(40) DEF EvmInv, EvmTyped
<1>8. AnsweredOnceTruthfully'
  <2>1. ASSUME NEW j \in ExecutionId
        PROVE  (sent'[j] # NoMessage <=> j < executionId') /\ Answered(sent'[j], did'[j], callbacks'[j])
    <3>1. CASE j = i
      BY <1>1, <1>3, <1>4, <1>7, <3>1, Kinds DEF ExecutionId
    <3>2. CASE j # i
      <4>1. (sent[j] # NoMessage <=> j < executionId) /\ Answered(sent[j], did[j], callbacks[j])
        BY AnsweredByMessage, Zenon DEF EvmInv
      <4>2. j < executionId' <=> j < executionId
        BY <1>1, <1>3, <3>2, EvmAuthorizationConstants DEF ExecutionId
      <4> QED BY <1>7, <3>2, <4>1, <4>2, ZenonT(40)
    <3> QED BY <3>1, <3>2, ZenonT(40)
  <2>2. \A j \in MailId : Answered(mail'[j], ran'[j], dispatched'[j])
    BY <1>3, AnsweredByMessage, Zenon DEF EvmInv
  <2> QED BY <2>1, <2>2, Zenon DEF AnsweredOnceTruthfully, Answered
<1>9. ListedRuns'
  <2> SUFFICES ASSUME NEW j \in ExecutionId, listed'[j] # <<>>
               PROVE  /\ sent'[j] \in Subroutine /\ Prefix(did'[j], sent'[j].functions)
                      /\ Len(listed'[j]) = Len(sent'[j].functions)
                      /\ \A k \in 1 .. Len(listed'[j]) :
                           Permits(listed'[j][k], sent'[j].functions[k], sent'[j].messages[k])
    BY Zenon DEF ListedRuns, Permits, Prefix
  <2>1. CASE j # i
    BY <1>7, <2>1, ZenonT(40) DEF EvmInv, ListedRuns
  <2>2. CASE j = i
    <3>1. listed[i] = <<>>
      <4>1. sent[i] = NoMessage
        BY <1>1, AnsweredByMessage DEF EvmInv, ExecutionId
      <4> QED BY <1>1, <4>1, Kinds, ZenonT(40) DEF EvmInv, ListedRuns
    <3>2. PICK data : /\ listed' = [listed EXCEPT ![executionId] = data]
                      /\ Len(data) = Len(s.functions)
                      /\ \A k \in 1 .. Len(data) : Permits(data[k], s.functions[k], s.messages[k])
      BY <2>2, <3>1, Zenon
    <3>3. listed'[i] = data
      BY <1>1, <3>2, Zenon DEF EvmInv, EvmTyped
    <3> QED BY <1>4, <1>7, <2>2, <3>2, <3>3, ZenonT(40)
  <2> QED BY <2>1, <2>2, Zenon
<1> QED BY <1>1, <1>3, <1>6, <1>8, <1>9, Zenon

\* A control message takes an id and is not answered.
LEMMA ControlStep ==
  ASSUME EvmInv, executeControl, UNCHANGED listed
  PROVE  /\ executionId' \in 0 .. MaxExecutionId
         /\ sent' \in [ExecutionId -> Subroutine \cup {NoMessage, Control}]
         /\ UNCHANGED <<callbacks, did>>
         /\ AnsweredOnceTruthfully' /\ ListedRuns'
<1> DEFINE i == executionId
<1>1. i \in ExecutionId /\ i + 1 \in 0 .. MaxExecutionId
  BY FreeId, Zenon DEF executeControl
<1>2. /\ sent' = [sent EXCEPT ![i] = Control] /\ executionId' = i + 1
      /\ UNCHANGED <<mail, dispatched, ran, callbacks, did>>
  BY Zenon DEF executeControl
<1>3. sent' \in [ExecutionId -> Subroutine \cup {NoMessage, Control}]
      /\ sent'[i] = Control /\ \A j \in ExecutionId : j # i => sent'[j] = sent[j]
  BY <1>1, <1>2, ZenonT(40) DEF EvmInv, EvmTyped
<1>4. sent[i] = NoMessage
  BY <1>1, AnsweredByMessage DEF EvmInv, ExecutionId
<1>5. AnsweredOnceTruthfully'
  <2>1. ASSUME NEW j \in ExecutionId
        PROVE  (sent'[j] # NoMessage <=> j < executionId') /\ Answered(sent'[j], did'[j], callbacks'[j])
    <3>1. /\ (sent[j] # NoMessage <=> j < executionId) /\ Answered(sent[j], did[j], callbacks[j])
          /\ callbacks[j] \in Seq(Callback)
      BY AnsweredByMessage, ZenonT(40) DEF EvmInv, EvmTyped
    <3>2. CASE j = i
      <4>1. Len(callbacks[i]) = 0
        BY <1>4, <3>1, <3>2, Kinds, Zenon DEF Answered
      <4>2. callbacks[i] = <<>>
        BY <3>1, <3>2, <4>1
      <4> QED BY <1>1, <1>2, <1>3, <3>2, <4>2, Kinds DEF Answered, ExecutionId
    <3>3. CASE j # i
      <4>1. j < executionId' <=> j < executionId
        BY <1>1, <1>2, <3>3, EvmAuthorizationConstants DEF ExecutionId
      <4> QED BY <1>2, <1>3, <3>1, <3>3, <4>1, Zenon
    <3> QED BY <3>2, <3>3, Zenon
  <2>2. \A j \in MailId : Answered(mail'[j], ran'[j], dispatched'[j])
    BY <1>2, AnsweredByMessage, Zenon DEF EvmInv
  <2> QED BY <2>1, <2>2, Zenon DEF AnsweredOnceTruthfully, Answered
<1>6. ListedRuns'
  <2>1. listed[i] = <<>>
    BY <1>1, <1>4, Kinds, Zenon DEF EvmInv, ListedRuns
  <2> QED BY <1>2, <1>3, <2>1, ZenonT(40) DEF EvmInv, ListedRuns, Permits, Prefix
<1> QED BY <1>1, <1>2, <1>3, <1>5, <1>6, Zenon

\* The block of a proof that is admitted is above those before it.
LEMMA BlockStep ==
  ASSUME EvmInv, NEW r \in Registry, NEW block \in Block, admitsBlock(r, block),
         zkLastBlock' = IF zkAuthorizations[r].checked THEN [zkLastBlock EXCEPT ![r] = block] ELSE zkLastBlock,
         proven' = IF zkAuthorizations[r].checked THEN [proven EXCEPT ![r] = Append(@, block)] ELSE proven
  PROVE  zkLastBlock' \in [Registry -> Nat] /\ proven' \in [Registry -> Seq(Nat)] /\ BlocksGrow'
<1>1. zkLastBlock \in [Registry -> Nat] /\ proven \in [Registry -> Seq(Nat)] /\ block \in Nat
  BY EvmAuthorizationConstants, ZenonT(40) DEF EvmInv, EvmTyped
<1>2. CASE ~zkAuthorizations[r].checked
  BY <1>1, <1>2, Zenon DEF EvmInv, BlocksGrow
<1>3. CASE zkAuthorizations[r].checked
  <2> DEFINE p == proven[r]
             q == Append(p, block)
             n == Len(p)
  <2>1. block > zkLastBlock[r]
    BY <1>3, Zenon DEF admitsBlock
  <2>2. /\ p \in Seq(Nat) /\ n \in Nat /\ q \in Seq(Nat)
        /\ DOMAIN p = 1 .. n /\ DOMAIN q = 1 .. n + 1
        /\ q[n + 1] = block /\ \A k \in 1 .. n : q[k] = p[k] /\ p[k] \in Nat
    BY <1>1
  <2>3. zkLastBlock' = [zkLastBlock EXCEPT ![r] = block] /\ proven' = [proven EXCEPT ![r] = q]
    BY <1>3, Zenon
  <2>4. /\ \A k \in 1 .. n : p[k] <= zkLastBlock[r]
        /\ \A j, k \in 1 .. n : j < k => p[j] < p[k]
    BY <2>2, Zenon DEF EvmInv, BlocksGrow
  <2> HIDE DEF p, q, n
  <2>5. zkLastBlock' \in [Registry -> Nat] /\ proven' \in [Registry -> Seq(Nat)]
    BY <1>1, <2>2, <2>3, ZenonT(40)
  <2>6. zkLastBlock[r] \in Nat /\ \A k \in 1 .. n : q[k] < block
    BY <1>1, <2>1, <2>2, <2>4
  <2>7. /\ \A k \in DOMAIN q : q[k] <= block
        /\ \A j, k \in DOMAIN q : j < k => q[j] < q[k]
    <3>1. \A k \in DOMAIN q : k \in Nat /\ (k \in 1 .. n \/ k = n + 1)
      BY <2>2
    <3>2. \A k \in DOMAIN q : q[k] <= block
      BY <1>1, <2>2, <2>6, <3>1, SMTT(30)
    <3>3. ASSUME NEW j \in DOMAIN q, NEW k \in DOMAIN q, j < k PROVE q[j] < q[k]
      <4>1. j \in 1 .. n
        BY <2>2, <3>1, <3>3
      <4>2. CASE k = n + 1
        BY <2>2, <2>6, <4>1, <4>2, Zenon
      <4>3. CASE k \in 1 .. n
        BY <2>2, <2>4, <3>3, <4>1, <4>3, Zenon
      <4> QED BY <3>1, <4>2, <4>3, Zenon
    <3> QED BY <3>2, <3>3, Zenon
  <2>8. \A x \in Registry :
          IF x = r THEN zkLastBlock'[x] = block /\ proven'[x] = q
          ELSE zkLastBlock'[x] = zkLastBlock[x] /\ proven'[x] = proven[x]
    BY <1>1, <2>3, Zenon
  <2> QED BY <2>5, <2>7, <2>8, ZenonT(40) DEF EvmInv, BlocksGrow
<1> QED BY <1>2, <1>3, Zenon

\* Messages of users, with a label, of an admin, or with a proof.
LEMMA UserStepInv == ASSUME EvmInv, UserStep PROVE EvmInv'
<1>1. ASSUME NEW u \in User, NEW l \in Label, NEW s \in Subroutine, NEW ok \in Outcomes(s),
             sendProcessorMessage(u, l, s, ok)
      PROVE  EvmInv'
  <2>1. execute(s, ok) /\ UNCHANGED <<zkAuthorizations, zkLastBlock, proven, mail, dispatched, ran>>
    BY <1>1, ZenonT(40) DEF sendProcessorMessage, configuration, execute, processorVars
  <2>2. \E data : /\ listed' = [listed EXCEPT ![executionId] = data]
                  /\ Len(data) = Len(s.functions)
                  /\ \A k \in 1 .. Len(data) : Permits(data[k], s.functions[k], s.messages[k])
    BY <1>1, Zenon DEF sendProcessorMessage, verifySubroutineAuthorization, checkAddressIsAuthorized
  <2>3. /\ executionId' \in 0 .. MaxExecutionId
        /\ sent' \in [ExecutionId -> Subroutine \cup {NoMessage, Control}]
        /\ callbacks' \in [ExecutionId -> Seq(Callback)] /\ did' \in [ExecutionId -> Seq(Address)]
        /\ DOMAIN listed' = ExecutionId /\ AnsweredOnceTruthfully' /\ ListedRuns'
    BY <2>1, <2>2, ExecuteStep, ZenonT(40)
  <2>4. EvmTyped'
    BY <2>1, <2>3, ZenonT(40) DEF EvmInv, EvmTyped
  <2>5. BlocksGrow'
    BY <2>1, Zenon DEF EvmInv, BlocksGrow
  <2> QED BY <2>3, <2>4, <2>5, Zenon DEF EvmInv
<1>2. ASSUME NEW u \in User, sendControl(u) PROVE EvmInv'
  <2>1. executeControl /\ UNCHANGED <<zkAuthorizations, zkLastBlock, proven, listed, mail, dispatched, ran>>
    BY <1>2, Zenon DEF sendControl, configuration, executeControl
  <2>2. /\ executionId' \in 0 .. MaxExecutionId
        /\ sent' \in [ExecutionId -> Subroutine \cup {NoMessage, Control}]
        /\ UNCHANGED <<callbacks, did>> /\ AnsweredOnceTruthfully' /\ ListedRuns'
    BY <2>1, ControlStep, Zenon
  <2>3. EvmTyped'
    BY <2>1, <2>2, ZenonT(40) DEF EvmInv, EvmTyped
  <2>4. BlocksGrow'
    BY <2>1, Zenon DEF EvmInv, BlocksGrow
  <2> QED BY <2>2, <2>3, <2>4, Zenon DEF EvmInv
<1>3. ASSUME NEW u \in User, NEW r \in Registry, NEW b \in Block, NEW proof \in Proof,
             NEW m \in Subroutine \cup {Control}, executeZKMessage(u, r, b, proof, m)
      PROVE  EvmInv'
  <2>1. zkLastBlock' \in [Registry -> Nat] /\ proven' \in [Registry -> Seq(Nat)] /\ BlocksGrow'
    BY <1>3, BlockStep, ZenonT(40) DEF executeZKMessage
  <2>2. UNCHANGED <<zkAuthorizations, listed>>
    BY <1>3, Zenon DEF executeZKMessage, configuration
  <2>3. CASE m = Control
    <3>1. executeControl /\ UNCHANGED <<mail, dispatched, ran>>
      BY <1>3, <2>3, Zenon DEF executeZKMessage, executeControl
    <3>2. /\ executionId' \in 0 .. MaxExecutionId
          /\ sent' \in [ExecutionId -> Subroutine \cup {NoMessage, Control}]
          /\ UNCHANGED <<callbacks, did>> /\ AnsweredOnceTruthfully' /\ ListedRuns'
      BY <2>2, <3>1, ControlStep, Zenon
    <3>3. EvmTyped'
      BY <2>1, <2>2, <3>1, <3>2, ZenonT(40) DEF EvmInv, EvmTyped
    <3> QED BY <2>1, <3>2, <3>3, Zenon DEF EvmInv
  <2>4. CASE m # Control
    <3>1. PICK ok \in Outcomes(m) : execute(m, ok)
      BY <1>3, <2>4, ZenonT(40) DEF executeZKMessage
    <3>2. UNCHANGED <<mail, dispatched, ran>> /\ m \in Subroutine
      BY <2>4, <3>1, Zenon DEF execute, processorVars
    <3>3. /\ executionId' \in 0 .. MaxExecutionId
          /\ sent' \in [ExecutionId -> Subroutine \cup {NoMessage, Control}]
          /\ callbacks' \in [ExecutionId -> Seq(Callback)] /\ did' \in [ExecutionId -> Seq(Address)]
          /\ DOMAIN listed' = ExecutionId /\ AnsweredOnceTruthfully' /\ ListedRuns'
      BY <2>2, <3>1, <3>2, ExecuteStep, ZenonT(40)
    <3>4. EvmTyped'
      BY <2>1, <2>2, <3>2, <3>3, Zenon DEF EvmInv, EvmTyped
    <3> QED BY <2>1, <3>3, <3>4, Zenon DEF EvmInv
  <2> QED BY <2>3, <2>4, Zenon
<1> QED BY <1>1, <1>2, <1>3, Zenon DEF UserStep

\* The empty sequence is one of numbers and has no positions.
LEMMA EmptySequence == <<>> \in Seq(Nat) /\ DOMAIN <<>> = {}
  OBVIOUS

\* Nothing of the invariant but the registries is the owner's to change.
LEMMA ElsewhereInv ==
  ASSUME EvmInv, zkAuthorizations' \in [Registry -> [users : SUBSET (User \cup {Zero}),
                                                    route : Route \cup {""}, checked : BOOLEAN]],
         UNCHANGED <<executionId, callbacks, sent, did, listed, mail, dispatched, ran>>,
         \/ UNCHANGED <<zkLastBlock, proven>>
         \/ \E r \in Registry : /\ zkLastBlock' = [zkLastBlock EXCEPT ![r] = 0]
                                /\ proven' = [proven EXCEPT ![r] = <<>>]
  PROVE  EvmInv'
<1>1. AnsweredOnceTruthfully' /\ ListedRuns'
  <2>1. AnsweredOnceTruthfully'
    BY ZenonT(40) DEF EvmInv, AnsweredOnceTruthfully
  <2>2. ListedRuns'
    BY ZenonT(40) DEF EvmInv, ListedRuns
  <2> QED BY <2>1, <2>2, ZenonT(40)
<1>2. CASE UNCHANGED <<zkLastBlock, proven>>
  BY <1>1, <1>2, ZenonT(40) DEF EvmInv, EvmTyped, BlocksGrow
<1>3. ASSUME NEW r \in Registry, zkLastBlock' = [zkLastBlock EXCEPT ![r] = 0],
             proven' = [proven EXCEPT ![r] = <<>>]
      PROVE  EvmInv'
  <2>0. <<>> \in Seq(Nat) /\ DOMAIN <<>> = {}
    BY EmptySequence, ZenonT(40)
  <2>1. zkLastBlock \in [Registry -> Nat] /\ proven \in [Registry -> Seq(Nat)]
    BY ZenonT(40) DEF EvmInv, EvmTyped
  <2>2. EvmTyped'
    BY <1>3, <2>0, <2>1, ZenonT(40) DEF EvmInv, EvmTyped
  <2>3. \A x \in Registry :
          IF x = r THEN proven'[x] = <<>> ELSE zkLastBlock'[x] = zkLastBlock[x] /\ proven'[x] = proven[x]
    BY <1>3, <2>1, ZenonT(40)
  <2>4. BlocksGrow'
    <3> SUFFICES ASSUME NEW x \in Registry
                 PROVE  /\ \A k \in DOMAIN proven'[x] : proven'[x][k] <= zkLastBlock'[x]
                        /\ \A j, k \in DOMAIN proven'[x] : j < k => proven'[x][j] < proven'[x][k]
      BY ZenonT(40) DEF BlocksGrow
    <3>1. CASE x = r
      BY <2>0, <2>3, <3>1, ZenonT(40)
    <3>2. CASE x # r
      BY <2>3, <3>2, Zenon DEF EvmInv, BlocksGrow
    <3> QED BY <3>1, <3>2, ZenonT(40)
  <2> QED BY <1>1, <2>2, <2>4, Zenon DEF EvmInv
<1> QED BY <1>2, <1>3, Zenon

\* The owner's operations and the steps of the processor's own callers.
LEMMA OtherStepsInv ==
  ASSUME EvmInv, OwnerStep \/ (DirectStep /\ UNCHANGED <<contractVars, historyVars>>)
  PROVE  EvmInv'
<1> DEFINE Z == [users : SUBSET (User \cup {Zero}), route : Route \cup {""}, checked : BOOLEAN]
<1>1. zkAuthorizations \in [Registry -> Z]
  BY ZenonT(40) DEF EvmInv, EvmTyped
<1>2. ASSUME NEW r \in Registry, NEW route \in Route, NEW checked \in BOOLEAN,
             addRegistries(r, {Zero}, route, checked)
      PROVE  zkAuthorizations' \in [Registry -> Z]
  BY <1>1, <1>2, Zenon DEF addRegistries
<1>3. ASSUME NEW r \in Registry, NEW route \in Route, updateRegistryRoute(r, route)
      PROVE  zkAuthorizations' \in [Registry -> Z]
  BY <1>1, <1>3, ZenonT(40) DEF updateRegistryRoute
<1>4. ASSUME NEW r \in Registry, removeRegistries(r) PROVE zkAuthorizations' \in [Registry -> Z]
  BY <1>1, <1>4, ZenonT(40) DEF removeRegistries, NoRegistry
<1> HIDE DEF Z
<1>5. CASE DirectStep /\ UNCHANGED <<contractVars, historyVars>>
  <2>1. UNCHANGED <<mail, dispatched, ran>>
    BY <1>5, Zenon DEF DirectStep, executeDirectly, addAuthorizedAddress, removeAuthorizedAddress
  <2> QED BY <1>1, <1>5, <2>1, ElsewhereInv, ZenonT(40) DEF contractVars, historyVars, Z
<1>6. CASE OwnerStep
  <2>1. UNCHANGED <<executionId, callbacks, sent, did, listed, mail, dispatched, ran>>
    BY <1>6, ZenonT(40) DEF OwnerStep, Rest, processorVars
  <2>2. CASE UNCHANGED <<zkAuthorizations, zkLastBlock, proven>>
    BY <1>1, <2>1, <2>2, ElsewhereInv, ZenonT(40) DEF Z
  <2>3. ASSUME NEW r \in Registry, NEW route \in Route, UNCHANGED <<zkLastBlock, proven>>,
               \/ \E checked \in BOOLEAN : addRegistries(r, {Zero}, route, checked)
               \/ updateRegistryRoute(r, route)
        PROVE  EvmInv'
    BY <1>2, <1>3, <2>1, <2>3, ElsewhereInv, ZenonT(40) DEF Z
  <2>4. ASSUME NEW r \in Registry, removeRegistries(r) PROVE EvmInv'
    <3>1. zkLastBlock' = [zkLastBlock EXCEPT ![r] = 0] /\ proven' = [proven EXCEPT ![r] = <<>>]
      BY <2>4, Zenon DEF removeRegistries
    <3> QED BY <1>4, <2>1, <2>4, <3>1, ElsewhereInv, Zenon DEF Z
  <2> QED BY <1>6, <2>2, <2>3, <2>4, ZenonT(40) DEF OwnerStep
<1> QED BY <1>5, <1>6, Zenon

\* Every step keeps the invariant.
LEMMA NextEvmInv ==
  EvmInv /\ [EvmNext \/ (Delivery /\ UNCHANGED <<contractVars, historyVars>>)]_evmVars => EvmInv'
<1> SUFFICES ASSUME EvmInv, [EvmNext \/ (Delivery /\ UNCHANGED <<contractVars, historyVars>>)]_evmVars
             PROVE  EvmInv'
  BY Zenon
<1>1. CASE UNCHANGED evmVars
  <2>1. UNCHANGED <<executionId, callbacks, sent, did, listed, mail, dispatched, ran, zkAuthorizations,
                    zkLastBlock, proven>>
    BY <1>1, Zenon DEF evmVars, processorVars, contractVars, historyVars
  <2> QED BY <2>1, ElsewhereInv, ZenonT(40) DEF EvmInv, EvmTyped
<1> QED BY <1>1, DeliveryInv, UserStepInv, OtherStepsInv, Zenon DEF EvmNext

\* Every message that asks for functions to run is answered once, and the answer
\* tells what the functions did.
THEOREM AnswersAreTruthful == EvmSpec => []AnsweredOnceTruthfully
<1>1. EvmInv => AnsweredOnceTruthfully
  BY Zenon DEF EvmInv
<1> QED BY <1>1, InitEvmInv, NextEvmInv, PTL DEF EvmSpec

\* Under a label only the calls it lists run, and a registry that checks blocks
\* never executes the proof of an old block.
THEOREM AdmittedRuns == EvmSpec => []OnlyTheAdmittedRuns
  BY InitEvmInv, NextEvmInv, InvAdmitted, PTL DEF EvmSpec

-----------------------------------------------------------------------------
(* The arithmetic.                                                         *)

\* A quotient rounded down, times its divisor.
LEMMA DivDown ==
  ASSUME NEW x \in Nat, NEW c \in Nat \ {0}
  PROVE  x \div c \in Nat /\ (x \div c) * c <= x /\ x < (x \div c) * c + c
<1>1. x \div c \in Int /\ x % c \in 0 .. c - 1
  BY SMT
<1>2. x = c * (x \div c) + (x % c)
  BY SMT
<1>3. x \div c >= 0
  BY SMT
<1> QED BY <1>1, <1>2, <1>3, SMT

\* A quotient rounded up, times its divisor.
LEMMA DivUp ==
  ASSUME NEW x \in Nat, NEW c \in Nat \ {0}
  PROVE  /\ (x + c - 1) \div c \in Nat
         /\ ((x + c - 1) \div c) * c >= x /\ ((x + c - 1) \div c) * c < x + c
<1>1. x + c - 1 \in Nat
  BY SMT
<1> QED BY <1>1, DivDown, SMT

\* mulDiv and mulDivCeil round down and up.
LEMMA MulDivs ==
  ASSUME NEW a \in Nat, NEW b \in Nat, NEW c \in Nat \ {0}
  PROVE  /\ mulDiv(a, b, c) \in Nat /\ mulDiv(a, b, c) * c <= a * b
         /\ mulDivCeil(a, b, c) \in Nat
         /\ a * b <= mulDivCeil(a, b, c) * c /\ mulDivCeil(a, b, c) * c < a * b + c
<1>1. a * b \in Nat
  BY SMT
<1> QED BY <1>1, DivDown, DivUp, Zenon DEF mulDiv, mulDivCeil

\* Shares for assets are worth no more than the assets rounding down, no less and by
\* less than one share more rounding up.
LEMMA SharesForAssets ==
  ASSUME NEW assets \in Nat, NEW rate \in Nat \ {0}
  PROVE  /\ sharesFor(assets, rate) \in Nat /\ sharesForUp(assets, rate) \in Nat
         /\ sharesFor(assets, rate) * rate <= assets * OneShare
         /\ assets * OneShare <= sharesForUp(assets, rate) * rate
         /\ sharesForUp(assets, rate) * rate < assets * OneShare + rate
  BY MulDivs, VaultUnits, Zenon DEF sharesFor, sharesForUp

\* And assets for shares.
LEMMA AssetsForShares ==
  ASSUME NEW shares \in Nat, NEW rate \in Nat
  PROVE  /\ assetsFor(shares, rate) \in Nat /\ assetsForUp(shares, rate) \in Nat
         /\ assetsFor(shares, rate) * OneShare <= shares * rate
         /\ shares * rate <= assetsForUp(shares, rate) * OneShare
  BY MulDivs, VaultUnits, Zenon DEF assetsFor, assetsForUp

\* A product by a smaller factor is smaller, and the other way round.
LEMMA Monotone ==
  ASSUME NEW a \in Int, NEW b \in Int, NEW c \in Nat \ {0}
  PROVE  /\ a <= b => a * c <= b * c
         /\ a * c < (b + 1) * c => a <= b
  BY SMT

\* A fee, though it is rounded up, is at most what it is taken from.
LEMMA FeeWithin ==
  ASSUME NEW assets \in Nat, NEW bps \in 0 .. BasisPoints
  PROVE  feeOn(assets, bps) \in 0 .. assets
<1>1. feeOn(assets, bps) \in Nat /\ feeOn(assets, bps) * BasisPoints < assets * bps + BasisPoints
  BY MulDivs, VaultUnits DEF feeOn
<1>2. assets * bps <= assets * BasisPoints
  BY VaultUnits, SMT
<1>3. assets * BasisPoints + BasisPoints = (assets + 1) * BasisPoints
  BY VaultUnits, SMT
<1>4. feeOn(assets, bps) * BasisPoints < (assets + 1) * BasisPoints
  BY <1>1, <1>2, <1>3, VaultUnits, SMT
<1>5. feeOn(assets, bps) <= assets
  BY <1>1, <1>4, VaultUnits, Monotone, SMT
<1> QED BY <1>1, <1>5

\* The gross amount of a mint is at least its net amount.
LEMMA GrossCovers ==
  ASSUME NEW base \in Nat, NEW bps \in 0 .. BasisPoints - 1
  PROVE  grossFor(base, bps) \in Nat /\ grossFor(base, bps) >= base
<1> DEFINE gross == grossFor(base, bps)
           net == BasisPoints - bps
<1>1. net \in Nat \ {0} /\ net <= BasisPoints
  BY VaultUnits
<1>2. gross \in Nat /\ base * BasisPoints <= gross * net
  BY <1>1, MulDivs, VaultUnits, Zenon DEF grossFor
<1>3. base * net <= base * BasisPoints
  BY <1>1, VaultUnits, SMT
<1> HIDE DEF gross, net
<1>4. base * net <= gross * net
  BY <1>1, <1>2, <1>3, VaultUnits, SMT
<1>5. gross * net < (gross + 1) * net
  BY <1>1, <1>2, SMT
<1>6. base <= gross
  BY <1>1, <1>2, <1>4, <1>5, Monotone, SMT
<1> QED BY <1>2, <1>6, Zenon DEF gross

\* The strategist's part of the fees is no more than the fees.
LEMMA PartWithin ==
  ASSUME NEW fees \in Nat, NEW ratio \in 0 .. BasisPoints
  PROVE  strategistPart(fees, ratio) \in 0 .. fees
<1>1. strategistPart(fees, ratio) \in Nat
      /\ strategistPart(fees, ratio) * BasisPoints <= fees * ratio
  BY MulDivs, VaultUnits DEF strategistPart
<1>2. fees * ratio <= fees * BasisPoints /\ fees * BasisPoints < (fees + 1) * BasisPoints
  BY VaultUnits, SMT
<1>3. strategistPart(fees, ratio) <= fees
  BY <1>1, <1>2, VaultUnits, Monotone, SMT
<1> QED BY <1>1, <1>3

-----------------------------------------------------------------------------
(* The steps.                                                              *)

Request == [redemptionRate : WRate, sharesAmount : Nat, receiver : Receiver]

OneWayTyped ==
  /\ wconfig \in WConfig /\ redemptionRate \in WRate
  /\ totalSupply \in Nat /\ feesAccruedInAsset \in Nat /\ collected \in Nat
  /\ withdrawRequests \in Seq(Request)

\* The ranges a step may use.
LEMMA Ranges ==
  ASSUME OneWayTyped
  PROVE  /\ redemptionRate \in Nat \ {0} /\ OneShare \in Nat \ {0}
         /\ wconfig.depositFeeBps \in 0 .. BasisPoints /\ wconfig.withdrawFeeBps \in 0 .. BasisPoints
         /\ wconfig.strategistRatioBps \in 0 .. BasisPoints
  BY OneWayVaultConstants, VaultUnits, Zenon DEF OneWayTyped

\* What is asked of a step: the types, and that its growth is paid for.
Sound == OneWayTyped' /\ StepIsPaidFor

\* A step that moves nothing.
LEMMA QuietSound ==
  ASSUME OneWayTyped, wconfig' \in WConfig,
         UNCHANGED <<redemptionRate, withdrawRequests, feesAccruedInAsset, totalSupply, collected>>
  PROVE  Sound
<1>1. Owed(totalSupply + 0, feesAccruedInAsset + 0, redemptionRate)
        - Owed(totalSupply, feesAccruedInAsset, redemptionRate) = 0 * redemptionRate + 0 * OneShare
  BY Ranges, SMT DEF OneWayTyped, Owed
<1>2. totalSupply + 0 = totalSupply /\ feesAccruedInAsset + 0 = feesAccruedInAsset
      /\ 0 * redemptionRate + 0 * OneShare = 0 /\ (collected - collected) * OneShare = 0
  BY Ranges DEF OneWayTyped
<1> QED BY <1>1, <1>2 DEF Sound, OneWayTyped, StepIsPaidFor

\* Shares and a fee that assets are paid in for.
LEMMA DepositSound ==
  ASSUME OneWayTyped, NEW assets \in Nat, NEW shares \in Nat, NEW fee \in Nat,
         takeDeposit(assets, shares, fee),
         shares * redemptionRate + fee * OneShare <= assets * OneShare
  PROVE  Sound
<1>1. OneWayTyped'
  BY DEF OneWayTyped, takeDeposit
<1>2. Owed(totalSupply + shares, feesAccruedInAsset + fee, redemptionRate)
        - Owed(totalSupply, feesAccruedInAsset, redemptionRate)
          = shares * redemptionRate + fee * OneShare
  <2>1. totalSupply \in Int /\ feesAccruedInAsset \in Int /\ redemptionRate \in Int /\ OneShare \in Int
    BY Ranges DEF OneWayTyped
  <2> QED BY <2>1, SMT DEF Owed
<1>3. collected' - collected = assets /\ totalSupply' + 0 = totalSupply + shares
      /\ feesAccruedInAsset' = feesAccruedInAsset + fee /\ withdrawRequests' = withdrawRequests
  BY DEF OneWayTyped, takeDeposit
<1>4. StepIsPaidFor
  BY <1>2, <1>3, Zenon DEF StepIsPaidFor
<1> QED BY <1>1, <1>4, Zenon DEF Sound

\* Shares that are burned for the shares of a request and a fee.
LEMMA RequestSound ==
  ASSUME OneWayTyped, NEW receiver \in Receiver, NEW burned \in Nat, NEW net \in Nat, NEW fee \in Nat,
         fileRequest(receiver, burned, net, fee),
         net = 0 => fee * OneShare <= burned * redemptionRate,
         net * redemptionRate + fee * OneShare < burned * redemptionRate + redemptionRate
  PROVE  Sound
<1> DEFINE r == [redemptionRate |-> redemptionRate, sharesAmount |-> net, receiver |-> receiver]
<1>1. r \in Request /\ r.sharesAmount = net
  BY Zenon DEF OneWayTyped, Request
<1>2. withdrawRequests' = Append(withdrawRequests, r)
  BY Zenon DEF fileRequest
<1> HIDE DEF r
<1>3. /\ withdrawRequests' \in Seq(Request) /\ withdrawRequests' # withdrawRequests
      /\ withdrawRequests'[Len(withdrawRequests')] = r
  BY <1>1, <1>2 DEF OneWayTyped
<1>4. OneWayTyped'
  BY <1>3 DEF OneWayTyped, fileRequest
<1>5. Owed(totalSupply + (net - burned), feesAccruedInAsset + fee, redemptionRate)
        - Owed(totalSupply, feesAccruedInAsset, redemptionRate)
          = (net - burned) * redemptionRate + fee * OneShare
  <2>1. /\ totalSupply \in Int /\ net - burned \in Int /\ feesAccruedInAsset \in Int /\ fee \in Int
        /\ redemptionRate \in Int
    BY Ranges DEF OneWayTyped
  <2> QED BY <2>1, Ranges, SMT DEF Owed
<1>6. (net - burned) * redemptionRate = net * redemptionRate - burned * redemptionRate
  BY Ranges, SMT
<1>7. totalSupply' + net = totalSupply + (net - burned)
      /\ feesAccruedInAsset' = feesAccruedInAsset + fee /\ (collected' - collected) * OneShare = 0
  BY Ranges DEF OneWayTyped, fileRequest
<1> DEFINE grown == Owed(totalSupply' + net, feesAccruedInAsset', redemptionRate)
                      - Owed(totalSupply, feesAccruedInAsset, redemptionRate)
<1>8. grown = net * redemptionRate - burned * redemptionRate + fee * OneShare
  BY <1>5, <1>6, <1>7, Zenon
<1>9. net * redemptionRate \in Nat /\ burned * redemptionRate \in Nat /\ fee * OneShare \in Nat
      /\ (net = 0 => net * redemptionRate = 0)
  BY Ranges, SMT
<1>10. IF net = 0 THEN grown <= (collected' - collected) * OneShare ELSE grown < redemptionRate
  BY <1>7, <1>8, <1>9, Ranges
<1>11. StepIsPaidFor
  BY <1>1, <1>3, <1>10, Zenon DEF StepIsPaidFor
<1> QED BY <1>4, <1>11, Zenon DEF Sound

\* deposit: the shares are for what the fee leaves, rounded down.
LEMMA depositSound == ASSUME OneWayTyped, NEW a \in WAmount, deposit(a) PROVE Sound
<1> DEFINE fee == feeOn(a, wconfig.depositFeeBps)
           shares == sharesFor(a - fee, redemptionRate)
<1>1. a \in Nat /\ fee \in 0 .. a
  BY Ranges, FeeWithin, OneWayVaultConstants, Zenon
<1>2. takeDeposit(a, shares, fee)
  BY Zenon DEF deposit
<1> HIDE DEF fee
<1>3. shares \in Nat /\ shares * redemptionRate <= (a - fee) * OneShare
  <2>1. a - fee \in Nat /\ redemptionRate \in Nat \ {0}
    BY <1>1, Ranges
  <2> QED BY <2>1, SharesForAssets, Zenon
<1> HIDE DEF shares
<1>4. (a - fee) * OneShare + fee * OneShare = a * OneShare
  BY <1>1, Ranges, SMT
<1>5. shares * redemptionRate \in Nat /\ (a - fee) * OneShare \in Nat /\ fee * OneShare \in Nat
  BY <1>1, <1>3, Ranges, SMT
<1> QED BY <1>1, <1>2, <1>3, <1>4, <1>5, DepositSound

\* mint: the assets are rounded up before the fee is put on top.
LEMMA mintSound == ASSUME OneWayTyped, NEW s \in WAmount, mint(s) PROVE Sound
<1> DEFINE base == assetsForUp(s, redemptionRate)
           gross == IF wconfig.depositFeeBps = 0 THEN base ELSE grossFor(base, wconfig.depositFeeBps)
<1>1. s \in Nat /\ base \in Nat /\ s * redemptionRate <= base * OneShare
  BY Ranges, AssetsForShares, OneWayVaultConstants, Zenon
<1>2. takeDeposit(gross, s, gross - base) /\ wconfig.depositFeeBps < BasisPoints
  BY Zenon DEF mint
<1> HIDE DEF base
<1>3. gross \in Nat /\ gross >= base
  BY <1>1, <1>2, Ranges, GrossCovers, VaultUnits
<1> HIDE DEF gross
<1>4. (gross - base) * OneShare = gross * OneShare - base * OneShare
  BY <1>1, <1>3, Ranges, SMT
<1>5. s * redemptionRate \in Nat /\ base * OneShare \in Nat /\ gross * OneShare \in Nat
  BY <1>1, <1>3, Ranges, SMT
<1>6. s * redemptionRate + (gross - base) * OneShare <= gross * OneShare
  BY <1>1, <1>4, <1>5
<1> QED BY <1>1, <1>2, <1>3, <1>6, DepositSound

\* withdraw: both amounts of shares are rounded up.
LEMMA withdrawSound ==
  ASSUME OneWayTyped, NEW receiver \in Receiver, NEW a \in WAmount, withdraw(receiver, a)
  PROVE  Sound
<1> DEFINE fee == feeOn(a, wconfig.withdrawFeeBps)
           burned == sharesForUp(a, redemptionRate)
           net == sharesForUp(a - fee, redemptionRate)
<1>1. a \in Nat /\ fee \in 0 .. a
  BY Ranges, FeeWithin, OneWayVaultConstants, Zenon
<1>2. fileRequest(receiver, burned, net, fee)
  BY Zenon DEF withdraw
<1> HIDE DEF fee
<1>3. burned \in Nat /\ a * OneShare <= burned * redemptionRate
  BY <1>1, Ranges, SharesForAssets, Zenon
<1>4. net \in Nat /\ net * redemptionRate < (a - fee) * OneShare + redemptionRate
  <2>1. a - fee \in Nat /\ redemptionRate \in Nat \ {0}
    BY <1>1, Ranges
  <2> QED BY <2>1, SharesForAssets, Zenon
<1> HIDE DEF burned, net
<1>5. (a - fee) * OneShare + fee * OneShare = a * OneShare /\ fee * OneShare <= a * OneShare
  BY <1>1, Ranges, SMT
<1>6. /\ net * redemptionRate \in Nat /\ burned * redemptionRate \in Nat
      /\ a * OneShare \in Nat /\ (a - fee) * OneShare \in Nat /\ fee * OneShare \in Nat
  BY <1>1, <1>3, <1>4, Ranges, SMT
<1>7. /\ fee * OneShare <= burned * redemptionRate
      /\ net * redemptionRate + fee * OneShare < burned * redemptionRate + redemptionRate
  BY <1>3, <1>4, <1>5, <1>6, Ranges
<1> QED BY <1>1, <1>2, <1>3, <1>4, <1>7, RequestSound

\* redeem: the assets are rounded down, the shares of the request up.
LEMMA redeemSound ==
  ASSUME OneWayTyped, NEW receiver \in Receiver, NEW s \in WAmount, redeem(receiver, s)
  PROVE  Sound
<1> DEFINE gross == assetsFor(s, redemptionRate)
           fee == feeOn(gross, wconfig.withdrawFeeBps)
           net == sharesForUp(gross - fee, redemptionRate)
<1>1. s \in Nat /\ gross \in Nat /\ gross * OneShare <= s * redemptionRate
  BY Ranges, AssetsForShares, OneWayVaultConstants, Zenon
<1>2. fileRequest(receiver, s, net, fee)
  BY Zenon DEF redeem
<1> HIDE DEF gross
<1>3. fee \in 0 .. gross
  BY <1>1, Ranges, FeeWithin, Zenon
<1> HIDE DEF fee
<1>4. net \in Nat /\ net * redemptionRate < (gross - fee) * OneShare + redemptionRate
  <2>1. gross - fee \in Nat /\ redemptionRate \in Nat \ {0}
    BY <1>1, <1>3, Ranges
  <2> QED BY <2>1, SharesForAssets, Zenon
<1> HIDE DEF net
<1>5. (gross - fee) * OneShare + fee * OneShare = gross * OneShare /\ fee * OneShare <= gross * OneShare
  BY <1>1, <1>3, Ranges, SMT
<1>6. /\ net * redemptionRate \in Nat /\ s * redemptionRate \in Nat
      /\ gross * OneShare \in Nat /\ (gross - fee) * OneShare \in Nat /\ fee * OneShare \in Nat
  BY <1>1, <1>3, <1>4, Ranges, SMT
<1>7. /\ fee * OneShare <= s * redemptionRate
      /\ net * redemptionRate + fee * OneShare < s * redemptionRate + redemptionRate
  BY <1>1, <1>4, <1>5, <1>6, Ranges
<1> QED BY <1>1, <1>2, <1>3, <1>4, <1>7, RequestSound

\* update: the fees are shared out, rounded down twice, at the rate before it.
LEMMA updateSound == ASSUME OneWayTyped, NEW rate \in WRate, update(rate) PROVE Sound
<1> DEFINE fees == feesAccruedInAsset
           part == strategistPart(fees, wconfig.strategistRatioBps)
           mine == sharesFor(part, redemptionRate)
           rest == sharesFor(fees - part, redemptionRate)
<1>1. fees \in Nat /\ redemptionRate \in Nat \ {0} /\ OneShare \in Nat \ {0}
  BY Ranges, Zenon DEF OneWayTyped
<1>2. part \in 0 .. fees
  BY <1>1, Ranges, PartWithin, Zenon
<1>3. /\ totalSupply' = totalSupply + (mine + rest) /\ feesAccruedInAsset' = 0
      /\ UNCHANGED <<withdrawRequests, collected, wconfig>> /\ redemptionRate' = rate
  BY Zenon DEF update, feeShares
<1> HIDE DEF part
<1>4. part \in Nat /\ fees - part \in Nat
  BY <1>1, <1>2
<1>5. mine \in Nat /\ mine * redemptionRate <= part * OneShare
  BY <1>1, <1>4, SharesForAssets, Zenon
<1>6. rest \in Nat /\ rest * redemptionRate <= (fees - part) * OneShare
  BY <1>1, <1>4, SharesForAssets, Zenon
<1> HIDE DEF mine, rest
<1>7. OneWayTyped'
  BY <1>3, <1>5, <1>6 DEF OneWayTyped
<1>8. Owed(totalSupply + (mine + rest), fees + (0 - fees), redemptionRate)
        - Owed(totalSupply, fees, redemptionRate) = (mine + rest) * redemptionRate + (0 - fees) * OneShare
  <2>1. /\ totalSupply \in Int /\ mine + rest \in Int /\ fees \in Int /\ 0 - fees \in Int
        /\ redemptionRate \in Int
    BY <1>1, <1>5, <1>6 DEF OneWayTyped
  <2> QED BY <2>1, Ranges, SMT DEF Owed
<1>9. /\ (mine + rest) * redemptionRate = mine * redemptionRate + rest * redemptionRate
      /\ part * OneShare + (fees - part) * OneShare + (0 - fees) * OneShare = 0
  BY <1>1, <1>4, <1>5, <1>6, SMT
<1>10. /\ mine * redemptionRate \in Int /\ rest * redemptionRate \in Int /\ part * OneShare \in Int
       /\ (fees - part) * OneShare \in Int /\ (0 - fees) * OneShare \in Int
  BY <1>1, <1>4, <1>5, <1>6, SMT
<1>11. (mine + rest) * redemptionRate + (0 - fees) * OneShare <= 0
  BY <1>5, <1>6, <1>9, <1>10
<1>12. fees + (0 - fees) = feesAccruedInAsset' /\ totalSupply' + 0 = totalSupply + (mine + rest)
       /\ (collected' - collected) * OneShare = 0
  BY <1>1, <1>3, <1>5, <1>6 DEF OneWayTyped
<1>13. StepIsPaidFor
  BY <1>3, <1>8, <1>11, <1>12, Zenon DEF StepIsPaidFor
<1> QED BY <1>7, <1>13, Zenon DEF Sound

\* Every step keeps the types and is paid for.
LEMMA NextSound == OneWayTyped /\ [OneWayNext]_vaultVars => Sound
<1> SUFFICES ASSUME OneWayTyped, [OneWayNext]_vaultVars PROVE Sound
  BY Zenon
<1>1. CASE UNCHANGED vaultVars
  BY <1>1, QuietSound, Zenon DEF vaultVars, OneWayTyped
<1>2. ASSUME NEW c \in WConfig, updateConfig(c) PROVE Sound
  BY <1>2, QuietSound, Zenon DEF updateConfig
<1>3. ASSUME NEW a \in WAmount, deposit(a) \/ mint(a) PROVE Sound
  BY <1>3, depositSound, mintSound, Zenon
<1>4. ASSUME NEW a \in WAmount, NEW receiver \in Receiver, withdraw(receiver, a) \/ redeem(receiver, a)
      PROVE  Sound
  BY <1>4, withdrawSound, redeemSound, Zenon
<1>5. CASE pauseForStaleRate
  BY <1>5, QuietSound, Zenon DEF pauseForStaleRate, OneWayTyped
<1>6. ASSUME NEW rate \in WRate, update(rate) PROVE Sound
  BY <1>6, updateSound, Zenon
<1>7. ASSUME NEW byOwner \in BOOLEAN, pause(byOwner) \/ unpause(byOwner) PROVE Sound
  BY <1>7, QuietSound, Zenon DEF pause, unpause, OneWayTyped
<1>8. CASE passTime
  BY <1>8, QuietSound, Zenon DEF passTime, OneWayTyped
<1> QED BY <1>1, <1>2, <1>3, <1>4, <1>5, <1>6, <1>7, <1>8, Zenon DEF OneWayNext

\* Only operations of an open vault, whose rate is not stale, take assets or file
\* requests.
LEMMA NextFresh ==
  [OneWayNext]_vaultVars => (StaleRate => UNCHANGED <<collected, withdrawRequests>>)
<1> SUFFICES ASSUME [OneWayNext]_vaultVars, StaleRate PROVE UNCHANGED <<collected, withdrawRequests>>
  BY Zenon
<1>1. CASE UNCHANGED vaultVars
  BY <1>1, Zenon DEF vaultVars
<1>2. ASSUME NEW a, deposit(a) \/ mint(a) PROVE FALSE
  BY <1>2, Zenon DEF deposit, mint, Open
<1>3. ASSUME NEW a, NEW receiver, withdraw(receiver, a) \/ redeem(receiver, a) PROVE FALSE
  BY <1>3, Zenon DEF withdraw, redeem, Open
<1> QED
  BY <1>1, <1>2, <1>3, Zenon DEF OneWayNext, updateConfig, pauseForStaleRate, update, pause, unpause, passTime

\* The vault starts with its types.
LEMMA InitTyped == OneWayInit => OneWayTyped
  BY OneWayVaultConstants DEF OneWayInit, OneWayTyped

\* No sequence of deposits, mints, withdrawals, redemptions, updates, pauses and
\* configuration changes makes value by rounding or acts at a stale rate, whatever
\* the rates, the fees and the number of decimals.
THEOREM NoValueFromRounding == OneWaySpec => OwedIsPaidFor
<1>1. OneWayTyped /\ [OneWayNext]_vaultVars => OneWayTyped'
  BY NextSound, Zenon DEF Sound
<1>2. OneWayTyped /\ [OneWayNext]_vaultVars =>
        [StepIsPaidFor /\ (StaleRate => UNCHANGED <<collected, withdrawRequests>>)]_vaultVars
  BY NextSound, NextFresh, Zenon DEF Sound
<1> QED BY InitTyped, <1>1, <1>2, PTL DEF OneWaySpec, OwedIsPaidFor

-----------------------------------------------------------------------------
(* The clearing queue                                                      *)

Obligation == [id : ObligationId, amount : Nat, denom : Denom]

ClearingTyped ==
  /\ OneWayTyped /\ Len(withdrawRequests) <= MaxRequests
  /\ latest_id \in 0 .. Len(withdrawRequests)
  /\ clearing_queue \in Seq(Obligation) /\ payouts \in Seq(Obligation)
  /\ obligation_status \in [ObligationId -> {"None", "InQueue", "Processed", "Error"}]
  /\ denom \in Denom

\* What was paid comes before what is queued, each in order; all of it is registered
\* and for its worth.
Ordered ==
  /\ \A j, k \in DOMAIN payouts : j < k => payouts[j].id < payouts[k].id
  /\ \A j, k \in DOMAIN clearing_queue : j < k => clearing_queue[j].id < clearing_queue[k].id
  /\ \A j \in DOMAIN payouts, k \in DOMAIN clearing_queue : payouts[j].id < clearing_queue[k].id
  /\ \A k \in DOMAIN payouts : payouts[k].id <= latest_id /\ payouts[k].amount = payout_amount(payouts[k].id)
  /\ \A k \in DOMAIN clearing_queue :
       clearing_queue[k].id <= latest_id /\ clearing_queue[k].amount = payout_amount(clearing_queue[k].id)

StatusTells ==
  \A id \in ObligationId :
    /\ obligation_status[id] = "InQueue" <=> id \in Queued
    /\ obligation_status[id] = "Processed" <=> id \in Paid
    /\ obligation_status[id] = "None" <=> id > latest_id

ClearingInv == ClearingTyped /\ Ordered /\ StatusTells

\* The invariant says what is asked for.
LEMMA InvPaidOnceInOrder == ClearingInv => PaidOnceInOrder
<1> SUFFICES ASSUME ClearingInv PROVE PaidOnceInOrder
  BY ZenonT(40)
<1> DEFINE all == payouts \o clearing_queue
           n == Len(payouts)
<1>1. /\ n \in Nat /\ Len(clearing_queue) \in Nat
      /\ DOMAIN payouts = 1 .. n /\ DOMAIN clearing_queue = 1 .. Len(clearing_queue)
      /\ DOMAIN all = 1 .. n + Len(clearing_queue)
  BY DEF ClearingInv, ClearingTyped
<1>2. /\ \A k \in DOMAIN all : k <= n => k \in DOMAIN payouts /\ all[k] = payouts[k]
      /\ \A k \in DOMAIN all : k > n =>
           k - n \in DOMAIN clearing_queue /\ all[k] = clearing_queue[k - n]
  BY <1>1 DEF ClearingInv, ClearingTyped
<1>3. \A k \in DOMAIN all : k \in Nat
  BY <1>1
<1> HIDE DEF all, n
<1>4. ASSUME NEW j \in DOMAIN all, NEW k \in DOMAIN all, j < k PROVE all[j].id < all[k].id
  <2>1. CASE k <= n
    BY <1>1, <1>2, <1>3, <1>4, <2>1 DEF ClearingInv, Ordered
  <2>2. CASE j <= n /\ k > n
    BY <1>1, <1>2, <1>3, <2>2, Zenon DEF ClearingInv, Ordered
  <2>3. CASE j > n
    <3>1. k > n /\ j - n < k - n
      BY <1>1, <1>3, <1>4, <2>3, SMTT(30)
    <3> QED BY <1>2, <2>3, <3>1, Zenon DEF ClearingInv, Ordered
  <2> QED BY <1>1, <1>3, <2>1, <2>2, <2>3, SMTT(30)
<1>5. ASSUME NEW k \in DOMAIN all
      PROVE  all[k].id <= Len(withdrawRequests) /\ all[k].amount = payout_amount(all[k].id)
  <2>1. all[k] \in Obligation /\ all[k].id <= latest_id /\ all[k].amount = payout_amount(all[k].id)
    <3>1. CASE k <= n
      BY <1>1, <1>2, <3>1, SMTT(30) DEF ClearingInv, ClearingTyped, Ordered
    <3>2. CASE k > n
      BY <1>1, <1>2, <3>2 DEF ClearingInv, ClearingTyped, Ordered
    <3> QED BY <1>1, <1>3, <3>1, <3>2, SMTT(30)
  <2>2. all[k].id \in Nat /\ latest_id \in Nat /\ Len(withdrawRequests) \in Nat
        /\ latest_id <= Len(withdrawRequests)
    BY <2>1 DEF Obligation, ObligationId, ClearingInv, ClearingTyped, OneWayTyped
  <2> QED BY <2>1, <2>2
<1> QED BY <1>4, <1>5, Zenon DEF PaidOnceInOrder, ClearingInv, StatusTells, all

\* Nothing is queued or paid at first.
LEMMA InitClearingInv == ASSUME SettlementInit PROVE ClearingInv
<1>1. OneWayTyped /\ withdrawRequests = <<>>
  BY InitTyped, Zenon DEF SettlementInit, OneWayInit
<1>2. ClearingTyped
  BY <1>1, OneWayVaultConstants, ClearingConstants DEF SettlementInit, ClearingInit, ClearingTyped
<1>3. Ordered
  <2>1. DOMAIN clearing_queue = {} /\ DOMAIN payouts = {}
    <3>1. clearing_queue = << >> /\ payouts = << >>
      BY Zenon DEF SettlementInit, ClearingInit
    <3> QED BY <3>1
  <2> QED BY <2>1, Zenon DEF Ordered
<1>4. StatusTells
  BY DEF SettlementInit, ClearingInit, StatusTells, Queued, Paid, ObligationId
<1> QED BY <1>2, <1>3, <1>4, Zenon DEF ClearingInv

\* The vault only adds requests, and leaves those it has as they are.
LEMMA RequestsStay ==
  ASSUME OneWayTyped, Len(withdrawRequests) <= MaxRequests, OneWayNext
  PROVE  /\ OneWayTyped' /\ Len(withdrawRequests') <= MaxRequests
         /\ Len(withdrawRequests) <= Len(withdrawRequests')
         /\ \A i \in DOMAIN withdrawRequests : withdrawRequests'[i] = withdrawRequests[i]
<1>1. OneWayTyped'
  BY NextSound, Zenon DEF Sound
<1>2. UNCHANGED withdrawRequests \/ \E receiver, burned, net, fee : fileRequest(receiver, burned, net, fee)
  BY Zenon DEF OneWayNext, updateConfig, deposit, mint, takeDeposit, withdraw, redeem, pauseForStaleRate, update,
         pause, unpause, passTime
<1>3. CASE UNCHANGED withdrawRequests
  BY <1>1, <1>3 DEF OneWayTyped
<1>4. ASSUME NEW receiver, NEW burned, NEW net, NEW fee, fileRequest(receiver, burned, net, fee)
      PROVE  /\ Len(withdrawRequests') <= MaxRequests
             /\ Len(withdrawRequests) <= Len(withdrawRequests')
             /\ \A i \in DOMAIN withdrawRequests : withdrawRequests'[i] = withdrawRequests[i]
  <2> DEFINE r == [redemptionRate |-> redemptionRate, sharesAmount |-> net, receiver |-> receiver]
  <2>1. withdrawRequests' = Append(withdrawRequests, r) /\ Len(withdrawRequests) < MaxRequests
    BY <1>4, Zenon DEF fileRequest, currentWithdrawRequestId
  <2> HIDE DEF r
  <2>2. withdrawRequests \in Seq(Request)
    BY Zenon DEF OneWayTyped
  <2> QED BY <2>1, <2>2, OneWayVaultConstants
<1> QED BY <1>1, <1>2, <1>3, <1>4, Zenon

\* Every entry is an obligation of the vault.
LEMMA Entries ==
  ASSUME ClearingInv
  PROVE  /\ \A k \in DOMAIN payouts : payouts[k].id \in ObligationId /\ payouts[k].id \in Nat
         /\ \A k \in DOMAIN clearing_queue :
              clearing_queue[k].id \in ObligationId /\ clearing_queue[k].id \in Nat
<1>1. /\ \A k \in DOMAIN payouts : payouts[k] \in Obligation
      /\ \A k \in DOMAIN clearing_queue : clearing_queue[k] \in Obligation
  BY DEF ClearingInv, ClearingTyped
<1>2. \A o \in Obligation : o.id \in ObligationId /\ o.id \in Nat
  BY DEF Obligation, ObligationId
<1> QED BY <1>1, <1>2, Zenon

\* What a registered request is worth does not change.
LEMMA VaultStepInv == ASSUME ClearingInv, OneWayNext, UNCHANGED clearingVars PROVE ClearingInv'
<1>1. /\ OneWayTyped' /\ Len(withdrawRequests') <= MaxRequests
      /\ Len(withdrawRequests) <= Len(withdrawRequests')
      /\ \A i \in DOMAIN withdrawRequests : withdrawRequests'[i] = withdrawRequests[i]
  BY RequestsStay, Zenon DEF ClearingInv, ClearingTyped
<1>2. UNCHANGED <<latest_id, denom, clearing_queue, obligation_status, settlement, payouts>>
  BY Zenon DEF clearingVars
<1>3. ClearingTyped'
  <2>1. latest_id' \in 0 .. Len(withdrawRequests')
    BY <1>1, <1>2 DEF ClearingInv, ClearingTyped, OneWayTyped
  <2> QED BY <1>1, <1>2, <2>1, Zenon DEF ClearingInv, ClearingTyped
<1>4. \A id \in ObligationId : id <= latest_id => payout_amount(id)' = payout_amount(id)
  <2> SUFFICES ASSUME NEW id \in ObligationId, id <= latest_id PROVE payout_amount(id)' = payout_amount(id)
    BY Zenon
  <2>1. id \in DOMAIN withdrawRequests
    BY OneWayVaultConstants DEF ClearingInv, ClearingTyped, OneWayTyped, ObligationId
  <2> QED BY <1>1, <2>1, Zenon DEF payout_amount, assetsFor, mulDiv
<1>5. Ordered'
  <2>1. /\ \A k \in DOMAIN payouts : payouts[k].id \in ObligationId
        /\ \A k \in DOMAIN clearing_queue : clearing_queue[k].id \in ObligationId
    BY Entries, ZenonT(40)
  <2> QED BY <1>2, <1>4, <2>1, ZenonT(40) DEF ClearingInv, Ordered
<1>6. StatusTells'
  BY <1>2, Zenon DEF ClearingInv, StatusTells, Queued, Paid
<1> QED BY <1>3, <1>5, <1>6, Zenon DEF ClearingInv

\* The next request joins the queue, or is refused; any other is turned away.
LEMMA RegisterInv ==
  ASSUME ClearingInv, NEW id \in 1 .. Len(withdrawRequests), try_register_withdraw_obligation(id),
         UNCHANGED vaultVars
  PROVE  ClearingInv'
<1>1. /\ latest_id \in Nat /\ id = latest_id + 1 /\ latest_id' = id
      /\ UNCHANGED <<denom, settlement, payouts, withdrawRequests>>
  BY DEF try_register_withdraw_obligation, ClearingInv, ClearingTyped, vaultVars
<1>2. id \in ObligationId /\ id \in DOMAIN withdrawRequests
  BY OneWayVaultConstants DEF ClearingInv, ClearingTyped, OneWayTyped, ObligationId
<1>3. /\ OneWayTyped' /\ Len(withdrawRequests') <= MaxRequests
      /\ latest_id' \in 0 .. Len(withdrawRequests') /\ denom' \in Denom
  <2>1. OneWayTyped'
    BY Zenon DEF ClearingInv, ClearingTyped, OneWayTyped, vaultVars
  <2> QED BY <1>1, <2>1 DEF ClearingInv, ClearingTyped, OneWayTyped
<1>4. payout_amount(id) \in Nat
  <2>1. withdrawRequests[id] \in Request
    BY <1>2 DEF ClearingInv, ClearingTyped, OneWayTyped
  <2>2. withdrawRequests[id].sharesAmount \in Nat /\ withdrawRequests[id].redemptionRate \in Nat
    BY <2>1, OneWayVaultConstants, ZenonT(40) DEF Request
  <2> QED BY <2>2, AssetsForShares, ZenonT(40) DEF payout_amount
<1>5. \A i : payout_amount(i)' = payout_amount(i)
  BY <1>1, Zenon DEF payout_amount, assetsFor, mulDiv
<1>6. CASE /\ obligation_status' = [obligation_status EXCEPT ![id] = "Error"]
           /\ UNCHANGED clearing_queue
  <2>1. ClearingTyped'
    <3>1. obligation_status' \in [ObligationId -> {"None", "InQueue", "Processed", "Error"}]
      BY <1>6, ZenonT(40) DEF ClearingInv, ClearingTyped
    <3> QED BY <1>1, <1>3, <1>6, <3>1, Zenon DEF ClearingInv, ClearingTyped
  <2>2. Ordered'
    <3>1. /\ \A k \in DOMAIN payouts : payouts[k].id \in Nat
          /\ \A k \in DOMAIN clearing_queue : clearing_queue[k].id \in Nat
      BY Entries, ZenonT(40)
    <3>2. \A i \in Nat : i <= latest_id => i <= latest_id'
      BY <1>1
    <3> QED BY <1>1, <1>5, <1>6, <3>1, <3>2, ZenonT(40) DEF ClearingInv, Ordered
  <2>3. StatusTells'
    <3>1. Queued' = Queued /\ Paid' = Paid
      BY <1>1, <1>6, Zenon DEF Queued, Paid
    <3>2. id \notin Queued /\ id \notin Paid
      BY <1>1, <1>2 DEF ClearingInv, StatusTells
    <3>3. \A i \in ObligationId : obligation_status'[i] = IF i = id THEN "Error" ELSE obligation_status[i]
      BY <1>6, Zenon DEF ClearingInv, ClearingTyped
    <3> QED BY <1>1, <1>2, <3>1, <3>2, <3>3 DEF ClearingInv, StatusTells, ObligationId
  <2> QED BY <2>1, <2>2, <2>3, Zenon DEF ClearingInv
<1> DEFINE o == [id |-> id, amount |-> payout_amount(id), denom |-> denom]
<1>7. CASE /\ clearing_queue' = Append(clearing_queue, o)
           /\ obligation_status' = [obligation_status EXCEPT ![id] = "InQueue"]
  <2>1. o \in Obligation /\ o.id = id /\ o.amount = payout_amount(id)
    BY <1>2, <1>4, Zenon DEF ClearingInv, ClearingTyped, Obligation
  <2> HIDE DEF o
  <2> DEFINE n == Len(clearing_queue)
  <2>2. /\ clearing_queue' \in Seq(Obligation) /\ n \in Nat
        /\ DOMAIN clearing_queue = 1 .. n /\ DOMAIN clearing_queue' = 1 .. n + 1
        /\ clearing_queue'[n + 1] = o /\ \A k \in 1 .. n : clearing_queue'[k] = clearing_queue[k]
    <3>1. clearing_queue \in Seq(Obligation)
      BY Zenon DEF ClearingInv, ClearingTyped
    <3> QED BY <1>7, <2>1, <3>1, SMTT(30)
  <2> HIDE DEF n
  <2>3. ClearingTyped'
    <3>1. obligation_status' \in [ObligationId -> {"None", "InQueue", "Processed", "Error"}]
      BY <1>7, ZenonT(40) DEF ClearingInv, ClearingTyped
    <3> QED BY <1>1, <1>3, <2>2, <3>1, ZenonT(40) DEF ClearingInv, ClearingTyped
  <2>4. /\ \A k \in DOMAIN payouts : payouts[k].id \in Nat
        /\ \A k \in DOMAIN clearing_queue : clearing_queue[k].id \in Nat
    BY Entries, Zenon
  <2>5. Ordered'
    <3>1. \A j, k \in DOMAIN clearing_queue' : j < k => clearing_queue'[j].id < clearing_queue'[k].id
      <4> SUFFICES ASSUME NEW j \in 1 .. n + 1, NEW k \in 1 .. n + 1, j < k
                   PROVE  clearing_queue'[j].id < clearing_queue'[k].id
        BY <2>2, Zenon
      <4>1. j \in 1 .. n /\ k \in 1 .. n \cup {n + 1}
        BY <2>2
      <4>2. /\ clearing_queue'[j] = clearing_queue[j]
            /\ clearing_queue[j].id \in Nat /\ clearing_queue[j].id <= latest_id
        BY <2>2, <2>4, <4>1, ZenonT(40) DEF ClearingInv, Ordered
      <4>3. CASE k = n + 1
        BY <1>1, <2>1, <2>2, <4>2, <4>3
      <4>4. CASE k \in 1 .. n
        BY <2>2, <4>1, <4>2, <4>4, ZenonT(40) DEF ClearingInv, Ordered
      <4> QED BY <4>1, <4>3, <4>4, Zenon
    <3>2. \A j \in DOMAIN payouts, k \in DOMAIN clearing_queue' : payouts[j].id < clearing_queue'[k].id
      BY <1>1, <2>1, <2>2, <2>4, SMTT(30) DEF ClearingInv, Ordered
    <3>3. \A k \in DOMAIN payouts :
            payouts[k].id <= latest_id' /\ payouts[k].amount = payout_amount(payouts[k].id)
      BY <1>1, <2>4, SMTT(30) DEF ClearingInv, Ordered
    <3>4. \A k \in DOMAIN clearing_queue' :
            /\ clearing_queue'[k].id <= latest_id'
            /\ clearing_queue'[k].amount = payout_amount(clearing_queue'[k].id)
      BY <1>1, <2>1, <2>2, <2>4 DEF ClearingInv, Ordered
    <3>5. \A j, k \in DOMAIN payouts' : j < k => payouts'[j].id < payouts'[k].id
      BY <1>1, ZenonT(40) DEF ClearingInv, Ordered
    <3> QED BY <1>1, <1>5, <3>1, <3>2, <3>3, <3>4, <3>5, ZenonT(40) DEF Ordered
  <2>6. StatusTells'
    <3>1. Queued' = Queued \cup {id} /\ Paid' = Paid
      BY <1>1, <2>1, <2>2 DEF Queued, Paid
    <3>2. id \notin Queued /\ id \notin Paid
      BY <1>1, <1>2 DEF ClearingInv, StatusTells
    <3>3. \A i \in ObligationId : obligation_status'[i] = IF i = id THEN "InQueue" ELSE obligation_status[i]
      BY <1>7, Zenon DEF ClearingInv, ClearingTyped
    <3> QED BY <1>1, <1>2, <3>1, <3>2, <3>3, SMTT(30) DEF ClearingInv, StatusTells, ObligationId
  <2> QED BY <2>3, <2>5, <2>6, ZenonT(40) DEF ClearingInv
<1> QED BY <1>6, <1>7, Zenon DEF try_register_withdraw_obligation

\* The head of the queue is paid and goes to the end of what was paid.
LEMMA SettleInv == ASSUME ClearingInv, try_settle_next_obligation, UNCHANGED vaultVars PROVE ClearingInv'
<1> DEFINE o == Head(clearing_queue)
           n == Len(clearing_queue)
           m == Len(payouts)
<1>1. /\ n \in Nat \ {0} /\ m \in Nat /\ o \in Obligation /\ o = clearing_queue[1]
      /\ DOMAIN clearing_queue = 1 .. n /\ DOMAIN payouts = 1 .. m
  BY DEF try_settle_next_obligation, ClearingInv, ClearingTyped
<1>2. /\ clearing_queue' = Tail(clearing_queue) /\ payouts' = Append(payouts, o)
      /\ obligation_status' = [obligation_status EXCEPT ![o.id] = "Processed"]
      /\ UNCHANGED <<latest_id, denom, withdrawRequests>>
  BY ZenonT(40) DEF try_settle_next_obligation, vaultVars
<1>3. /\ clearing_queue' \in Seq(Obligation) /\ DOMAIN clearing_queue' = 1 .. n - 1
      /\ \A k \in 1 .. n - 1 : clearing_queue'[k] = clearing_queue[k + 1]
  BY <1>1, <1>2 DEF ClearingInv, ClearingTyped
<1> HIDE DEF o
<1>4. /\ payouts' \in Seq(Obligation) /\ DOMAIN payouts' = 1 .. m + 1
      /\ payouts'[m + 1] = o /\ \A k \in 1 .. m : payouts'[k] = payouts[k]
  BY <1>1, <1>2 DEF ClearingInv, ClearingTyped
<1> HIDE DEF n, m
<1>5. OneWayTyped' /\ o.id \in ObligationId
  BY <1>1, ZenonT(40) DEF ClearingInv, ClearingTyped, OneWayTyped, vaultVars, Obligation
<1>6. ClearingTyped'
  BY <1>2, <1>3, <1>4, <1>5, Zenon DEF ClearingInv, ClearingTyped
<1>7. \A i : payout_amount(i)' = payout_amount(i)
  BY <1>2, Zenon DEF payout_amount, assetsFor, mulDiv
<1>8. /\ \A k \in 1 .. m : payouts[k].id \in Nat /\ payouts[k].id < o.id
      /\ \A k \in 1 .. n - 1 : k + 1 \in 1 .. n /\ clearing_queue[k + 1].id \in Nat
                               /\ o.id < clearing_queue[k + 1].id
      /\ o.id \in Nat /\ o.id <= latest_id /\ o.amount = payout_amount(o.id)
  <2>1. /\ \A k \in 1 .. m : payouts[k].id \in Nat
        /\ \A k \in 1 .. n : clearing_queue[k].id \in Nat
        /\ 1 \in 1 .. n /\ \A k \in 1 .. n - 1 : k + 1 \in 1 .. n /\ 1 < k + 1
    BY <1>1, Entries
  <2> QED BY <1>1, <2>1, ZenonT(40) DEF ClearingInv, Ordered
<1>9. Ordered'
  <2>1. \A j, k \in DOMAIN payouts' : j < k => payouts'[j].id < payouts'[k].id
    BY <1>1, <1>4, <1>8 DEF ClearingInv, Ordered
  <2>2. \A j, k \in DOMAIN clearing_queue' : j < k => clearing_queue'[j].id < clearing_queue'[k].id
    <3> SUFFICES ASSUME NEW j \in 1 .. n - 1, NEW k \in 1 .. n - 1, j < k
                 PROVE  clearing_queue'[j].id < clearing_queue'[k].id
      BY <1>3, Zenon
    <3>1. j + 1 \in DOMAIN clearing_queue /\ k + 1 \in DOMAIN clearing_queue /\ j + 1 < k + 1
      BY <1>1
    <3>2. clearing_queue[j + 1].id < clearing_queue[k + 1].id
      BY <3>1, ZenonT(40) DEF ClearingInv, Ordered
    <3> QED BY <1>3, <3>2, ZenonT(40)
  <2>3. \A j \in DOMAIN payouts', k \in DOMAIN clearing_queue' : payouts'[j].id < clearing_queue'[k].id
    <3> SUFFICES ASSUME NEW j \in 1 .. m + 1, NEW k \in 1 .. n - 1
                 PROVE  payouts'[j].id < clearing_queue'[k].id
      BY <1>3, <1>4, Zenon
    <3>1. clearing_queue'[k] = clearing_queue[k + 1] /\ k + 1 \in DOMAIN clearing_queue
          /\ o.id < clearing_queue[k + 1].id
      BY <1>1, <1>3, <1>8, Zenon
    <3>2. CASE j = m + 1
      BY <1>4, <3>1, <3>2, Zenon
    <3>3. CASE j \in 1 .. m
      BY <1>1, <1>4, <3>1, <3>3, ZenonT(40) DEF ClearingInv, Ordered
    <3> QED BY <1>1, <3>2, <3>3
  <2>4. \A k \in DOMAIN payouts' :
          payouts'[k].id <= latest_id /\ payouts'[k].amount = payout_amount(payouts'[k].id)
    BY <1>1, <1>4, <1>8 DEF ClearingInv, Ordered
  <2>5. \A k \in DOMAIN clearing_queue' :
          /\ clearing_queue'[k].id <= latest_id
          /\ clearing_queue'[k].amount = payout_amount(clearing_queue'[k].id)
    <3> SUFFICES ASSUME NEW k \in 1 .. n - 1
                 PROVE  /\ clearing_queue'[k].id <= latest_id
                        /\ clearing_queue'[k].amount = payout_amount(clearing_queue'[k].id)
      BY <1>3, Zenon
    <3>1. k + 1 \in DOMAIN clearing_queue
      BY <1>1
    <3>2. /\ clearing_queue[k + 1].id <= latest_id
          /\ clearing_queue[k + 1].amount = payout_amount(clearing_queue[k + 1].id)
      BY <3>1, ZenonT(40) DEF ClearingInv, Ordered
    <3> QED BY <1>3, <3>2, Zenon
  <2> QED BY <1>2, <1>7, <2>1, <2>2, <2>3, <2>4, <2>5, ZenonT(40) DEF Ordered
<1>10. StatusTells'
  <2>1. Paid' = Paid \cup {o.id}
    BY <1>1, <1>4 DEF Paid
  <2>2. Queued = Queued' \cup {o.id} /\ o.id \notin Queued'
    <3>1. \A k \in 1 .. n : k = 1 \/ (k - 1 \in 1 .. n - 1 /\ clearing_queue[k] = clearing_queue'[k - 1])
      BY <1>1, <1>3
    <3>2. \A k \in 1 .. n - 1 : k + 1 \in 1 .. n /\ clearing_queue'[k].id # o.id
      BY <1>3, <1>8
    <3>3. Queued \subseteq Queued' \cup {o.id}
      <4> SUFFICES ASSUME NEW k \in 1 .. n PROVE clearing_queue[k].id \in Queued' \cup {o.id}
        BY <1>1, Zenon DEF Queued
      <4>1. CASE k = 1
        BY <1>1, <4>1, Zenon
      <4>2. CASE k - 1 \in 1 .. n - 1 /\ clearing_queue[k] = clearing_queue'[k - 1]
        BY <1>3, <4>2, Zenon DEF Queued
      <4> QED BY <3>1, <4>1, <4>2, Zenon
    <3>4. Queued' \subseteq Queued /\ o.id \in Queued
      BY <1>1, <1>3, <3>2, SMTT(30) DEF Queued
    <3>5. o.id \notin Queued'
      BY <1>3, <3>2, Zenon DEF Queued
    <3> QED BY <3>3, <3>4, <3>5, Zenon
  <2>3. \A i \in ObligationId : obligation_status'[i] = IF i = o.id THEN "Processed" ELSE obligation_status[i]
    BY <1>2, Zenon DEF ClearingInv, ClearingTyped
  <2>4. o.id \notin Paid /\ ~(o.id > latest_id)
    BY <1>5, <2>2, Zenon DEF ClearingInv, StatusTells
  <2> SUFFICES ASSUME NEW i \in ObligationId
               PROVE  /\ obligation_status'[i] = "InQueue" <=> i \in Queued'
                      /\ obligation_status'[i] = "Processed" <=> i \in Paid'
                      /\ obligation_status'[i] = "None" <=> i > latest_id
    BY <1>2, Zenon DEF StatusTells
  <2>5. CASE i = o.id
    BY <2>1, <2>2, <2>3, <2>4, <2>5, Zenon
  <2>6. CASE i # o.id
    BY <2>1, <2>2, <2>3, <2>6, Zenon DEF ClearingInv, StatusTells
  <2> QED BY <2>5, <2>6, Zenon
<1> QED BY <1>6, <1>9, <1>10, ZenonT(40) DEF ClearingInv

\* The configuration and the settlement account are not part of the invariant.
LEMMA QueueAtRest ==
  ASSUME ClearingInv, denom' \in Denom, UNCHANGED vaultVars,
         UNCHANGED <<latest_id, clearing_queue, obligation_status, payouts>>
  PROVE  ClearingInv'
<1>1. UNCHANGED <<wconfig, redemptionRate, withdrawRequests, feesAccruedInAsset, totalSupply, collected>>
  BY Zenon DEF vaultVars
<1>2. ClearingTyped'
  BY <1>1, Zenon DEF ClearingInv, ClearingTyped, OneWayTyped
<1>3. \A i : payout_amount(i)' = payout_amount(i)
  BY <1>1, Zenon DEF payout_amount, assetsFor, mulDiv
<1>4. Ordered'
  BY <1>3, Zenon DEF ClearingInv, Ordered
<1>5. StatusTells'
  BY Zenon DEF ClearingInv, StatusTells, Queued, Paid
<1> QED BY <1>2, <1>4, <1>5, Zenon DEF ClearingInv

\* Every step of the vault, of the relayer and of the queue keeps the invariant.
LEMMA NextClearingInv == ClearingInv /\ [SettlementNext]_settlementVars => ClearingInv'
<1> SUFFICES ASSUME ClearingInv, [SettlementNext]_settlementVars PROVE ClearingInv'
  BY Zenon
<1>1. CASE UNCHANGED settlementVars
  BY <1>1, QueueAtRest, Zenon DEF settlementVars, clearingVars, ClearingInv, ClearingTyped
<1>2. CASE OneWayNext /\ UNCHANGED clearingVars
  BY <1>2, VaultStepInv, Zenon
<1>3. CASE Relay /\ UNCHANGED vaultVars
  BY <1>3, RegisterInv, Zenon DEF Relay
<1>4. CASE try_settle_next_obligation /\ UNCHANGED vaultVars
  BY <1>4, SettleInv, Zenon
<1>5. ASSUME NEW d \in Denom, NEW acc, update_config(d, acc), UNCHANGED vaultVars PROVE ClearingInv'
  BY <1>5, QueueAtRest, Zenon DEF update_config
<1>6. CASE topUp /\ UNCHANGED vaultVars
  BY <1>6, QueueAtRest, Zenon DEF topUp, ClearingInv, ClearingTyped
<1> QED BY <1>1, <1>2, <1>3, <1>4, <1>5, <1>6, Zenon DEF SettlementNext, ClearingNext

\* Requests of the vault are paid at most once each, in order and for what they were
\* worth when they were made, and the stored status tells which, for any number of
\* requests and however the relayer repeats and reorders them.
THEOREM EachRequestPaidOnce == SettlementSpec => []PaidOnceInOrder
<1>1. SettlementInit => ClearingInv
  BY InitClearingInv, ZenonT(40)
<1> QED BY <1>1, NextClearingInv, InvPaidOnceInOrder, PTL DEF SettlementSpec
=============================================================================
