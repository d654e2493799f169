------------------------ MODULE Authorization_proofs ------------------------
(***************************************************************************)
(* Proofs about the authorization contract, for every set of labels and    *)
(* users, every limit and any number of executions.  The inductive         *)
(* invariant joins the counts, the records, the answers still to come and  *)
(* the tokens: a callback keeps the count right only because its execution *)
(* is in process, which holds because an answer to come means exactly that.*)
(***************************************************************************)
EXTENDS Authorization, FiniteSetTheorems, TLAPS

\* Only executions for a Polytone domain travel in packets and can be retried.
ByPolytone ==
  \A id \in Id :
    /\ sent[id] # "none" => callbacks[id].domain = "Polytone"
    /\ callbacks[id].result = "TimeoutRetriable" => callbacks[id].domain = "Polytone"
    /\ callbacks[id].result = "Unused" => sent[id] = "none"

IInv == TypeOK /\ ByPolytone /\ IdsFresh /\ OneAnswerToCome /\ CountsMatch /\ AtMostOnce /\ Escrow

\* The parts of TypeOK, by what the actions change together.
ExecTyped ==
  /\ current_executions \in [Label -> Nat]
  /\ callbacks \in [Id -> Callback]
  /\ execution_id \in 0 .. MaxId + 1
  /\ sent \in [Id -> BridgeReply \cup {"none", "flight"}]
  /\ running \in SUBSET Id
  /\ runs \in [Id -> Nat]

LedgerTyped ==
  /\ held \in [Label -> Nat] /\ kept \in [Label -> Nat]
  /\ balance \in [Label -> [User -> Nat]]

ConfigTyped ==
  /\ authorizations \in [Label -> AuthorizationRec]
  /\ proxy \in {"Absent", "PendingResponse", "TimedOut", "Created", "UnexpectedError"}
  /\ proxy_sent \in BOOLEAN

\* What the executions promise, tokens aside.
ExecInv == ExecTyped /\ ByPolytone /\ IdsFresh /\ OneAnswerToCome /\ CountsMatch /\ AtMostOnce

execs == <<callbacks, current_executions, execution_id, running, sent, runs>>

\* The invariant is the conjunction of its parts, in a state
LEMMA Parts == IInv <=> ExecInv /\ LedgerTyped /\ ConfigTyped /\ Escrow
BY Zenon DEF IInv, ExecInv, TypeOK, ExecTyped, LedgerTyped, ConfigTyped

\* and in its successor.
LEMMA PartsNext == IInv' <=> ExecInv' /\ LedgerTyped' /\ ConfigTyped' /\ Escrow'
BY Zenon DEF IInv, ExecInv, TypeOK, ExecTyped, LedgerTyped, ConfigTyped

-----------------------------------------------------------------------------
\* Sets of ids and their sizes.

\* Sets of execution ids are finite, so they have a size.
LEMMA SizeOfIds ==
  ASSUME NEW S \in SUBSET Id
  PROVE  IsFiniteSet(S) /\ Cardinality(S) \in Nat
<1>1. IsFiniteSet(Id)  BY FS_Interval, AuthorizationConstants DEF Id
<1>2. IsFiniteSet(S)   BY <1>1, FS_Subset, Zenon
<1>3. QED  BY <1>2, FS_CardinalityType, Zenon

\* One id more makes the set of executions larger by one.
LEMMA OneMore ==
  ASSUME NEW S \in SUBSET Id, NEW T \in SUBSET Id, NEW id \in Id,
         id \notin S, T = S \cup {id}
  PROVE  Cardinality(T) = Cardinality(S) + 1
BY SizeOfIds, FS_AddElement, Zenon

\* One id less makes it smaller by one.
LEMMA OneLess ==
  ASSUME NEW S \in SUBSET Id, NEW T \in SUBSET Id, NEW id \in Id,
         id \in S, T = S \ {id}
  PROVE  Cardinality(T) = Cardinality(S) - 1
BY SizeOfIds, FS_RemoveElement, Zenon

\* An execution gets into process: the count of its label goes up by one.
LEMMA CountUp ==
  ASSUME CountsMatch, TypeOK, NEW id \in Id, NEW c \in Callback,
         callbacks[id].result # "InProcess", c.result = "InProcess",
         callbacks' = [callbacks EXCEPT ![id] = c],
         current_executions' = [current_executions EXCEPT ![c.label] = @ + 1]
  PROVE  CountsMatch'
<1> SUFFICES ASSUME NEW l \in Label
             PROVE  current_executions'[l] = Cardinality(InProcess(l)')
  BY Zenon DEF CountsMatch
<1>1. InProcess(l) \in SUBSET Id /\ InProcess(l)' \in SUBSET Id  BY Zenon DEF InProcess
<1>2. current_executions[l] = Cardinality(InProcess(l))  BY Zenon DEF CountsMatch
<1>3. CASE l = c.label
  <2>1. InProcess(l)' = InProcess(l) \cup {id}  BY <1>3 DEF InProcess, TypeOK, Callback
  <2>2. id \notin InProcess(l)  BY Zenon DEF InProcess
  <2>3. Cardinality(InProcess(l)') = Cardinality(InProcess(l)) + 1  BY <1>1, <2>1, <2>2, OneMore, Zenon
  <2>4. current_executions'[l] = current_executions[l] + 1  BY <1>3, Zenon DEF TypeOK
  <2>5. QED  BY <1>2, <2>3, <2>4, Zenon
<1>4. CASE l # c.label
  <2>1. InProcess(l)' = InProcess(l)  BY <1>4, Zenon DEF InProcess, TypeOK, Callback
  <2>2. current_executions'[l] = current_executions[l]  BY <1>4, Zenon DEF TypeOK
  <2>3. QED  BY <1>2, <2>1, <2>2, Zenon
<1>5. QED  BY <1>3, <1>4, Zenon

\* An execution in process is answered: the count of its label goes down.
LEMMA CountDown ==
  ASSUME CountsMatch, TypeOK, NEW id \in Id, NEW r \in Result,
         callbacks[id].result = "InProcess", r # "InProcess",
         set_result(id, r), lower_count(callbacks[id].label)
  PROVE  CountsMatch'
<1> SUFFICES ASSUME NEW l \in Label
             PROVE  current_executions'[l] = Cardinality(InProcess(l)')
  BY Zenon DEF CountsMatch
<1>1. InProcess(l) \in SUBSET Id /\ InProcess(l)' \in SUBSET Id  BY Zenon DEF InProcess
<1>2. current_executions[l] = Cardinality(InProcess(l))  BY Zenon DEF CountsMatch
<1>3. CASE l = callbacks[id].label
  <2>1. InProcess(l)' = InProcess(l) \ {id}  BY <1>3, ZenonT(40) DEF InProcess, TypeOK, Callback, set_result
  <2>2. id \in InProcess(l)  BY <1>3, Zenon DEF InProcess
  <2>3. Cardinality(InProcess(l)') = Cardinality(InProcess(l)) - 1  BY <1>1, <2>1, <2>2, OneLess, Zenon
  <2>4. current_executions'[l] = current_executions[l] - 1  BY <1>3, Zenon DEF TypeOK, lower_count
  <2>5. QED  BY <1>2, <2>3, <2>4, Zenon
<1>4. CASE l # callbacks[id].label
  <2>1. InProcess(l)' = InProcess(l)  BY <1>4, Zenon DEF InProcess, TypeOK, Callback, set_result
  <2>2. current_executions'[l] = current_executions[l]  BY <1>4, Zenon DEF TypeOK, lower_count
  <2>3. QED  BY <1>2, <2>1, <2>2, Zenon
<1>5. QED  BY <1>3, <1>4, Zenon

\* Nothing the count depends on changes.
LEMMA CountSame ==
  ASSUME CountsMatch, UNCHANGED current_executions,
         \A id \in Id : /\ callbacks'[id].label = callbacks[id].label
                        /\ callbacks'[id].result = "InProcess" <=>
                             callbacks[id].result = "InProcess"
  PROVE  CountsMatch'
<1>1. \A l \in Label : InProcess(l)' = InProcess(l)  BY Zenon DEF InProcess
<1>2. QED  BY <1>1, Zenon DEF CountsMatch

-----------------------------------------------------------------------------
\* Tokens: one record changes, and with it at most one token.

\* A record begins to keep a token and the contract holds one more.
LEMMA TokenTaken ==
  ASSUME Escrow, TypeOK, NEW id \in Id, NEW c \in Callback,
         ~KeepsToken(callbacks[id]), KeepsToken(c),
         callbacks' = [callbacks EXCEPT ![id] = c],
         held' = [held EXCEPT ![c.label] = @ + 1], UNCHANGED kept
  PROVE  Escrow'
<1> SUFFICES ASSUME NEW l \in Label
             PROVE  held'[l] = Cardinality(Unsettled(l)') + kept'[l]
  BY Zenon DEF Escrow
<1>1. Unsettled(l) \in SUBSET Id /\ Unsettled(l)' \in SUBSET Id  BY Zenon DEF Unsettled
<1>2. held[l] = Cardinality(Unsettled(l)) + kept[l]  BY Zenon DEF Escrow
<1>3. held[l] \in Nat /\ kept[l] \in Nat /\ kept'[l] = kept[l] /\ Cardinality(Unsettled(l)) \in Nat
  BY <1>1, SizeOfIds, Zenon DEF TypeOK
<1>4. CASE l = c.label
  <2>1. Unsettled(l)' = Unsettled(l) \cup {id}
    BY <1>4, Zenon DEF Unsettled, TypeOK, KeepsToken, Paid
  <2>2. id \notin Unsettled(l)  BY Zenon DEF Unsettled
  <2>3. Cardinality(Unsettled(l)') = Cardinality(Unsettled(l)) + 1  BY <1>1, <2>1, <2>2, OneMore, Zenon
  <2>4. held'[l] = held[l] + 1  BY <1>4, Zenon DEF TypeOK
  <2>5. QED  BY <1>2, <1>3, <2>3, <2>4
<1>5. CASE l # c.label
  <2>1. Unsettled(l)' = Unsettled(l)  BY <1>5, Zenon DEF Unsettled, TypeOK, KeepsToken, Paid
  <2>2. held'[l] = held[l]  BY <1>5, Zenon DEF TypeOK
  <2>3. QED  BY <1>2, <1>3, <2>1, <2>2, Zenon
<1>6. QED  BY <1>4, <1>5, Zenon

\* A record stops keeping its token and the contract holds one less.
LEMMA TokenReleased ==
  ASSUME Escrow, TypeOK, NEW id \in Id, NEW r \in Result, set_result(id, r),
         KeepsToken(callbacks[id]), ~KeepsToken(callbacks'[id]),
         held' = [held EXCEPT ![callbacks[id].label] = @ - 1], UNCHANGED kept
  PROVE  Escrow'
<1> SUFFICES ASSUME NEW l \in Label
             PROVE  held'[l] = Cardinality(Unsettled(l)') + kept'[l]
  BY Zenon DEF Escrow
<1>1. Unsettled(l) \in SUBSET Id /\ Unsettled(l)' \in SUBSET Id  BY Zenon DEF Unsettled
<1>2. held[l] = Cardinality(Unsettled(l)) + kept[l]  BY Zenon DEF Escrow
<1>3. held[l] \in Nat /\ kept[l] \in Nat /\ kept'[l] = kept[l] /\ Cardinality(Unsettled(l)) \in Nat
  BY <1>1, SizeOfIds, Zenon DEF TypeOK
<1>4. CASE l = callbacks[id].label
  <2>1. Unsettled(l)' = Unsettled(l) \ {id}
    BY <1>4, Zenon DEF Unsettled, TypeOK, KeepsToken, Paid, set_result
  <2>2. id \in Unsettled(l)  BY <1>4, Zenon DEF Unsettled
  <2>3. Cardinality(Unsettled(l)') = Cardinality(Unsettled(l)) - 1  BY <1>1, <2>1, <2>2, OneLess, Zenon
  <2>4. held'[l] = held[l] - 1  BY <1>4, Zenon DEF TypeOK
  <2>5. QED  BY <1>2, <1>3, <2>3, <2>4
<1>5. CASE l # callbacks[id].label
  <2>1. Unsettled(l)' = Unsettled(l)
    BY <1>5, Zenon DEF Unsettled, TypeOK, Callback, KeepsToken, Paid, set_result
  <2>2. held'[l] = held[l]  BY <1>5, Zenon DEF TypeOK
  <2>3. QED  BY <1>2, <1>3, <2>1, <2>2, Zenon
<1>6. QED  BY <1>4, <1>5, Zenon

\* No token moves.
LEMMA TokenStays ==
  ASSUME Escrow, UNCHANGED <<held, kept>>,
         \A id \in Id :
           /\ KeepsToken(callbacks'[id]) <=> KeepsToken(callbacks[id])
           /\ KeepsToken(callbacks[id]) => callbacks'[id].label = callbacks[id].label
  PROVE  Escrow'
<1>1. \A l \in Label : Unsettled(l)' = Unsettled(l)  BY Zenon DEF Unsettled, KeepsToken, Paid
<1>2. QED  BY <1>1, Zenon DEF Escrow

-----------------------------------------------------------------------------
\* The executions, action by action.

\* A step that leaves the executions alone keeps what they promise.
LEMMA ExecsUnchanged ==
  ASSUME ExecInv, UNCHANGED execs
  PROVE  ExecInv'
BY DEF ExecInv, execs, ExecTyped, ByPolytone, IdsFresh, OneAnswerToCome, CountsMatch, InProcess,
       AtMostOnce

\* CURRENT_EXECUTIONS stays a natural number: it is lowered only above zero.
LEMMA CountTyped ==
  ASSUME ExecTyped, NEW l \in Label, raise_count(l) \/ lower_count(l)
  PROVE  current_executions' \in [Label -> Nat]
<1>1. current_executions[l] \in Nat  BY Zenon DEF ExecTyped
<1>2. CASE raise_count(l)  BY <1>1, <1>2 DEF ExecTyped, raise_count
<1>3. CASE lower_count(l)
  <2>1. current_executions[l] - 1 \in Nat  BY <1>1, <1>3 DEF lower_count
  <2>2. QED  BY <1>3, <2>1, Zenon DEF ExecTyped, lower_count
<1>4. QED  BY <1>2, <1>3, Zenon

\* Both ways of handing a message to a processor keep the types.
LEMMA MessageTyped ==
  ASSUME ExecTyped, NEW id \in Id, NEW d, create_msg_for_processor(id, d)
  PROVE  /\ sent' \in [Id -> BridgeReply \cup {"none", "flight"}]
         /\ running' \in SUBSET Id
         /\ runs' \in [Id -> Nat]
<1>1. CASE d = "Polytone"  BY <1>1, Zenon DEF create_msg_for_processor, ExecTyped
<1>2. CASE d # "Polytone"
  <2>1. running' = running \cup {id} /\ sent' = sent /\ runs' = [runs EXCEPT ![id] = @ + 1]
    BY <1>2, Zenon DEF create_msg_for_processor
  <2>2. runs[id] \in Nat  BY Zenon DEF ExecTyped
  <2>3. running' \in SUBSET Id  BY <2>1, Zenon DEF ExecTyped
  <2>4. runs' \in [Id -> Nat]  BY <2>1, <2>2 DEF ExecTyped
  <2>5. QED  BY <2>1, <2>3, <2>4, Zenon DEF ExecTyped
<1>3. QED  BY <1>1, <1>2, Zenon

\* A fresh id goes into process and one answer to it is to come.
LEMMA StartExec ==
  ASSUME IInv, NEW l \in Label, NEW initiator \in User \cup {Owner}, NEW d \in Target[l],
         NEW ttl \in {"none", "live"}, start(l, initiator, d, ttl)
  PROVE  ExecInv'
<1> DEFINE id == execution_id
           c  == [label |-> l, initiator |-> initiator, domain |-> d, ttl |-> ttl,
                  result |-> "InProcess"]
<1>1. id \in Id /\ execution_id' = execution_id + 1
  BY DEF start, get_and_increase_execution_id, IInv, TypeOK, Id
<1>2. c \in Callback /\ d \in Domain
  BY AuthorizationConstants, Zenon DEF Callback, Domain, Result
<1>3. callbacks' = [callbacks EXCEPT ![id] = c]
  BY Zenon DEF start, store_inprocess_callback
<1>4. current_executions' = [current_executions EXCEPT ![l] = @ + 1]
  BY Zenon DEF start, raise_count
<1>5. callbacks[id].result = "Unused"  BY <1>1 DEF IInv, IdsFresh, TypeOK
<1>6. id \notin running /\ sent[id] \in {"none", "ok"}
  BY <1>1, <1>5, Zenon DEF IInv, OneAnswerToCome, TypeOK, BridgeReply
<1>7. ExecTyped'
  <2>1. execution_id' \in 0 .. MaxId + 1  BY <1>1, AuthorizationConstants DEF Id
  <2>2. callbacks' \in [Id -> Callback]  BY <1>1, <1>2, <1>3, Zenon DEF IInv, TypeOK
  <2>3. current_executions' \in [Label -> Nat]  BY <1>4 DEF IInv, TypeOK
  <2>4. QED  BY <1>1, <2>1, <2>2, <2>3, MessageTyped, Parts, Zenon DEF start, ExecTyped, ExecInv
<1>8. CountsMatch'
  BY Zenon, <1>1, <1>2, <1>3, <1>4, <1>5, CountUp DEF IInv
<1>9. IdsFresh'
  <2>1. \A i \in Id : callbacks'[i].result = IF i = id THEN "InProcess" ELSE callbacks[i].result
    BY <1>1, <1>3, Zenon DEF IInv, TypeOK
  <2>2. ASSUME NEW i \in Id
        PROVE  (i >= execution_id') <=> callbacks'[i].result = "Unused"
    <3>1. i \in Int /\ execution_id \in Int  BY <1>1 DEF Id
    <3>2. (i >= execution_id) <=> callbacks[i].result = "Unused"  BY Zenon DEF IInv, IdsFresh
    <3>3. CASE i = id  BY <1>1, <2>1, <3>1, <3>3
    <3>4. CASE i # id
      <4>1. (i >= execution_id') <=> (i >= execution_id)  BY <1>1, <3>1, <3>4
      <4>2. QED  BY <2>1, <3>2, <3>4, <4>1, Zenon
    <3>5. QED  BY <3>3, <3>4, Zenon
  <2>3. QED  BY <2>2, Zenon DEF IdsFresh
<1>10. OneAnswerToCome'
  BY <1>1, <1>3, <1>6, ZenonT(40) DEF start, create_msg_for_processor, IInv, OneAnswerToCome, TypeOK
<1>11. AtMostOnce'
  BY <1>1, <1>3, <1>5, <1>6 DEF start, create_msg_for_processor, IInv, AtMostOnce, TypeOK, Reported,
     Executed, NotExecuted
<1>12. ByPolytone'
  BY <1>1, <1>3, <1>5, ZenonT(40) DEF start, create_msg_for_processor, IInv, ByPolytone, TypeOK
<1>13. QED  BY <1>7, <1>8, <1>9, <1>10, <1>11, <1>12, Zenon DEF ExecInv
\* A retriable execution goes back into process with the same id.
LEMMA ResendExec ==
  ASSUME IInv, NEW id \in Id, Retriable(callbacks[id]), resend(id, callbacks[id]),
         UNCHANGED execution_id
  PROVE  ExecInv'
<1> DEFINE c == [callbacks[id] EXCEPT !.result = "InProcess"]
<1>1. callbacks[id] \in Callback /\ callbacks[id].result = "TimeoutRetriable"
  BY Zenon DEF IInv, TypeOK, Retriable
<1>2. c \in Callback /\ c.result = "InProcess" /\ c.label = callbacks[id].label
  BY <1>1, Zenon DEF Callback, Result
<1>3. callbacks' = [callbacks EXCEPT ![id] = c]
  BY Zenon DEF resend, set_result, IInv, TypeOK
<1>4. current_executions' = [current_executions EXCEPT ![c.label] = @ + 1]
  BY <1>2, Zenon DEF resend, raise_count
<1>5. id \notin running /\ sent[id] \in {"none", "ok"}
  BY <1>1, Zenon DEF IInv, OneAnswerToCome, TypeOK, BridgeReply
<1>6. ExecTyped'
  <2>1. callbacks' \in [Id -> Callback]  BY <1>2, <1>3, Zenon DEF IInv, TypeOK
  <2>2. callbacks[id].label \in Label  BY <1>1, Zenon DEF Callback
  <2>3. current_executions' \in [Label -> Nat]
    BY <2>2, CountTyped, Parts, Zenon DEF resend, ExecInv
  <2>4. QED  BY <2>1, <2>3, MessageTyped, Parts, Zenon DEF resend, ExecTyped, ExecInv
<1>7. CountsMatch'  BY Zenon, <1>1, <1>2, <1>3, <1>4, CountUp DEF IInv
<1>8. IdsFresh'  BY <1>1, <1>2, <1>3, Zenon DEF IInv, IdsFresh, TypeOK
<1>9. OneAnswerToCome'
  BY <1>2, <1>3, <1>5 DEF resend, create_msg_for_processor, IInv, OneAnswerToCome, TypeOK
<1>10. AtMostOnce'
  BY <1>1, <1>2, <1>3, <1>5 DEF resend, create_msg_for_processor, IInv, AtMostOnce, TypeOK,
     Reported, Executed, NotExecuted
<1>11. ByPolytone'
  <2>1. c.domain = callbacks[id].domain  BY <1>1, Zenon DEF Callback
  <2>2. callbacks[id].domain = "Polytone"  BY <1>1, Zenon DEF IInv, ByPolytone
  <2>3. QED  BY <1>2, <1>3, <2>1, <2>2
             DEF resend, create_msg_for_processor, IInv, ByPolytone, TypeOK
<1>12. QED  BY <1>6, <1>7, <1>8, <1>9, <1>10, <1>11, Zenon DEF ExecInv

\* A retriable execution is closed.
LEMMA CloseExec ==
  ASSUME IInv, NEW id \in Id, Retriable(callbacks[id]), close(id, callbacks[id]),
         UNCHANGED execution_id
  PROVE  ExecInv'
<1>1. callbacks[id] \in Callback /\ callbacks[id].result = "TimeoutRetriable"
  BY ZenonT(40) DEF IInv, TypeOK, Retriable
<1>2. callbacks' \in [Id -> Callback]
  BY Zenon, <1>1 DEF close, set_result, Callback, Result, IInv, TypeOK
<1>3. \A i \in Id : /\ callbacks'[i].label = callbacks[i].label
                    /\ i # id => callbacks'[i] = callbacks[i]
                    /\ i = id => callbacks'[i].result = "TimeoutFinal"
  BY <1>1, Zenon DEF close, set_result, Callback, IInv, TypeOK
<1>4. CountsMatch'  BY <1>1, <1>3, CountSame, Zenon DEF close, IInv
<1>5. UNCHANGED <<current_executions, sent, running, runs>>  BY Zenon DEF close, bridge
<1>6. ExecTyped'  BY <1>2, <1>5, Zenon DEF IInv, TypeOK, ExecTyped
<1>7. IdsFresh' /\ OneAnswerToCome'
  BY <1>1, <1>3, <1>5, ZenonT(40) DEF IInv, IdsFresh, OneAnswerToCome
<1>8. AtMostOnce'
  BY <1>1, <1>3, <1>5, Zenon DEF IInv, AtMostOnce, Reported, Executed, NotExecuted
<1>9. ByPolytone'
  <2>1. callbacks'[id].domain = callbacks[id].domain
    BY <1>1, Zenon DEF close, set_result, Callback, IInv, TypeOK
  <2>2. QED  BY <1>1, <1>3, <1>5, <2>1, ZenonT(40) DEF IInv, ByPolytone
<1>10. QED  BY <1>4, <1>6, <1>7, <1>8, <1>9, Zenon DEF ExecInv

\* A processor answers: the record, the count and the answers to come move together.
LEMMA ReportExec ==
  ASSUME IInv, NEW id \in running, NEW r \in Reports,
         set_result(id, r), lower_count(callbacks[id].label),
         running' = running \ {id}, UNCHANGED <<sent, runs, execution_id>>
  PROVE  ExecInv'
<1>1. id \in Id /\ callbacks[id] \in Callback  BY Zenon DEF IInv, TypeOK
<1>2. callbacks[id].result = "InProcess" /\ sent[id] \in {"none", "ok"}
  BY <1>1, Zenon DEF IInv, OneAnswerToCome
<1>3. r \in Reported /\ r \in Result /\ r # "InProcess" /\ r # "Unused"
  BY AuthorizationConstants, Zenon DEF Reported, Executed, NotExecuted, Result
<1>4. CountsMatch'  BY <1>1, <1>2, <1>3, CountDown, Zenon DEF IInv
<1>5. callbacks' \in [Id -> Callback]
  BY Zenon, <1>1, <1>3 DEF set_result, Callback, IInv, TypeOK
<1>6. current_executions' \in [Label -> Nat]
  <2>1. callbacks[id].label \in Label  BY <1>1, Zenon DEF Callback
  <2>2. QED  BY <2>1, CountTyped, Parts, Zenon DEF ExecInv
<1>7. \A i \in Id : /\ i # id => callbacks'[i] = callbacks[i]
                    /\ i = id => callbacks'[i].result = r
  BY <1>1, Zenon DEF set_result, Callback, IInv, TypeOK
<1>8. ExecTyped'  BY <1>5, <1>6, Zenon DEF IInv, TypeOK, ExecTyped
<1>9. IdsFresh'  BY <1>1, <1>2, <1>3, <1>7, Zenon DEF IInv, IdsFresh
<1>10. OneAnswerToCome'  BY <1>1, <1>2, <1>3, <1>7, Zenon DEF IInv, OneAnswerToCome
<1>11. AtMostOnce'  BY <1>1, <1>2, <1>3, <1>7, Zenon DEF IInv, AtMostOnce
<1>12. ByPolytone'
  <2>1. r # "TimeoutRetriable"  BY AuthorizationConstants, Zenon DEF Reported, Executed, NotExecuted
  <2>2. callbacks'[id].domain = callbacks[id].domain
    BY <1>1, Zenon DEF set_result, Callback, IInv, TypeOK
  <2>3. QED  BY <1>1, <1>3, <1>7, <2>1, <2>2, Zenon DEF IInv, ByPolytone
<1>13. QED  BY <1>4, <1>8, <1>9, <1>10, <1>11, <1>12, Zenon DEF ExecInv

\* The bridge answers for a packet that was not delivered.
LEMMA FailExec ==
  ASSUME IInv, NEW id \in Id, NEW r \in {"TimeoutFinal", "TimeoutRetriable", "UnexpectedError"},
         sent[id] \in {"error", "fatal", "timeout"},
         set_result(id, r), lower_count(callbacks[id].label),
         sent' = [sent EXCEPT ![id] = "none"], UNCHANGED <<running, runs, execution_id>>
  PROVE  ExecInv'
<1>1. callbacks[id] \in Callback  BY Zenon DEF IInv, TypeOK
<1>2. callbacks[id].result = "InProcess" /\ id \notin running
  BY Zenon DEF IInv, OneAnswerToCome
<1>3. r \notin Reported /\ r \in Result /\ r # "InProcess" /\ r # "Unused"
  BY Zenon DEF Reported, Executed, NotExecuted, Result
<1>4. CountsMatch'  BY <1>2, <1>3, CountDown, Zenon DEF IInv
<1>5. callbacks' \in [Id -> Callback]
  BY Zenon, <1>1, <1>3 DEF set_result, Callback, IInv, TypeOK
<1>6. current_executions' \in [Label -> Nat]
  <2>1. callbacks[id].label \in Label  BY <1>1, Zenon DEF Callback
  <2>2. QED  BY <2>1, CountTyped, Parts, Zenon DEF ExecInv
<1>7. \A i \in Id : /\ i # id => callbacks'[i] = callbacks[i]
                    /\ i = id => callbacks'[i].result = r
  BY <1>1, Zenon DEF set_result, Callback, IInv, TypeOK
<1>8. ExecTyped'  BY Zenon, <1>5, <1>6 DEF IInv, TypeOK, ExecTyped
<1>9. IdsFresh'  BY <1>2, <1>3, <1>7, Zenon DEF IInv, IdsFresh
<1>10. OneAnswerToCome'  BY <1>2, <1>3, <1>7, Zenon DEF IInv, OneAnswerToCome, TypeOK
<1>11. AtMostOnce'
  <2>1. "InProcess" \notin Reported  BY Zenon DEF Reported, Executed, NotExecuted
  <2>2. QED  BY <1>2, <1>3, <1>7, <2>1, Zenon DEF IInv, AtMostOnce
<1>12. ByPolytone'
  <2>1. callbacks'[id].domain = callbacks[id].domain
    BY <1>1, Zenon DEF set_result, Callback, IInv, TypeOK
  <2>2. callbacks[id].domain = "Polytone"  BY Zenon DEF IInv, ByPolytone
  <2>3. QED  BY <1>3, <1>7, <2>1, <2>2, ZenonT(40) DEF IInv, ByPolytone, TypeOK
<1>13. QED  BY <1>4, <1>8, <1>9, <1>10, <1>11, <1>12, Zenon DEF ExecInv

\* The acknowledgement of a delivered packet changes no record.
LEMMA AckExec ==
  ASSUME IInv, NEW id \in Id, sent[id] = "ok", sent' = [sent EXCEPT ![id] = "none"],
         UNCHANGED <<callbacks, current_executions, execution_id, running, runs>>
  PROVE  ExecInv'
<1>1. ExecTyped' /\ IdsFresh' /\ AtMostOnce'
  BY Zenon DEF IInv, TypeOK, ExecTyped, IdsFresh, AtMostOnce
<1>2. OneAnswerToCome'  BY Zenon DEF IInv, OneAnswerToCome, TypeOK
<1>3. CountsMatch'  BY CountSame, Zenon DEF IInv
<1>4. ByPolytone'
  BY Zenon DEF IInv, ByPolytone, TypeOK
<1>5. QED  BY <1>1, <1>2, <1>3, <1>4, Zenon DEF ExecInv

\* A packet is delivered to its processor, or lost.
LEMMA RelayExec ==
  ASSUME IInv, NEW id \in Id, NEW r \in BridgeReply, relay(id, r)
  PROVE  ExecInv'
<1>1. callbacks[id].result = "InProcess" /\ id \notin running
  BY Zenon DEF relay, IInv, OneAnswerToCome
<1>2. UNCHANGED <<callbacks, current_executions, execution_id>>  BY Zenon DEF relay, storage
<1>3. sent' \in [Id -> BridgeReply \cup {"none", "flight"}]  BY Zenon DEF relay, IInv, TypeOK
<1>4. running' \in SUBSET Id /\ runs' \in [Id -> Nat]
  <2>1. runs[id] \in Nat  BY Zenon DEF IInv, TypeOK
  <2>2. CASE r = "ok"
    <3>1. running' = running \cup {id}  BY <2>2, Zenon DEF relay
    <3>2. runs' = [runs EXCEPT ![id] = @ + 1]  BY <2>2, Zenon DEF relay
    <3>3. running' \in SUBSET Id  BY <3>1, Zenon DEF IInv, TypeOK
    <3>4. QED  BY <2>1, <3>2, <3>3 DEF IInv, TypeOK
  <2>3. CASE r # "ok"  BY <2>3, Zenon DEF relay, IInv, TypeOK
  <2>4. QED  BY <2>2, <2>3, Zenon
<1>5. ExecTyped' /\ IdsFresh'  BY <1>2, <1>3, <1>4, Zenon DEF IInv, TypeOK, ExecTyped, IdsFresh
<1>6. CountsMatch'  BY <1>2, CountSame, Zenon DEF IInv
<1>7. OneAnswerToCome'
  BY <1>1, <1>2, ZenonT(40) DEF relay, IInv, OneAnswerToCome, TypeOK, BridgeReply
<1>8. AtMostOnce'
  <2>1. "InProcess" \notin Reported  BY Zenon DEF Reported, Executed, NotExecuted
  <2>2. QED  BY <1>1, <1>2, <2>1 DEF relay, IInv, AtMostOnce, TypeOK
<1>9. ByPolytone'
  BY <1>1, <1>2, Zenon DEF relay, IInv, ByPolytone, TypeOK
<1>10. QED  BY <1>5, <1>6, <1>7, <1>8, <1>9, Zenon DEF ExecInv

\* The time to live of an execution runs out.
LEMMA TtlExec ==
  ASSUME IInv, NEW id \in Id, ttl_passes(id)
  PROVE  ExecInv'
<1>1. callbacks[id] \in Callback  BY Zenon DEF IInv, TypeOK
<1>2. callbacks' \in [Id -> Callback]  BY Zenon, <1>1 DEF ttl_passes, Callback, IInv, TypeOK
<1>3. \A i \in Id : /\ callbacks'[i].label = callbacks[i].label
                    /\ callbacks'[i].result = callbacks[i].result
                    /\ callbacks'[i].domain = callbacks[i].domain
  BY <1>1, Zenon DEF ttl_passes, Callback, IInv, TypeOK
<1>4. UNCHANGED <<current_executions, execution_id, sent, running, runs>>
  BY Zenon DEF ttl_passes, bridge
<1>5. ExecTyped'  BY <1>2, <1>4, Zenon DEF IInv, TypeOK, ExecTyped
<1>6. CountsMatch'  BY <1>3, <1>4, CountSame, Zenon DEF IInv
<1>7. QED  BY <1>3, <1>4, <1>5, <1>6 DEF IInv, ExecInv, ByPolytone, IdsFresh, OneAnswerToCome,
             AtMostOnce

-----------------------------------------------------------------------------
\* The tokens, action by action.

\* validate_permission takes a token only from a user who has one.
LEMMA PayTyped ==
  ASSUME LedgerTyped, NEW l \in Label, NEW u \in User, pay(l, u), kept' \in [Label -> Nat]
  PROVE  LedgerTyped'
<1>1. CASE HasLimit(l)
  <2>1. balance[l][u] \in Nat /\ balance[l][u] >= 1 /\ held[l] \in Nat
    BY <1>1, ZenonT(40) DEF pay, HasLimit, LedgerTyped
  <2>2. balance[l][u] - 1 \in Nat /\ held[l] + 1 \in Nat  BY <2>1
  <2>3. held' \in [Label -> Nat]  BY <1>1, <2>2, Zenon DEF pay, LedgerTyped
  <2>4. [balance[l] EXCEPT ![u] = @ - 1] \in [User -> Nat]  BY <2>2, Zenon DEF LedgerTyped
  <2>5. balance' = [balance EXCEPT ![l] = [balance[l] EXCEPT ![u] = @ - 1]]
    BY <1>1, Zenon DEF pay, LedgerTyped
  <2>6. balance' \in [Label -> [User -> Nat]]  BY <2>4, <2>5, Zenon DEF LedgerTyped
  <2>7. QED  BY <2>3, <2>6, Zenon DEF LedgerTyped
<1>2. CASE ~HasLimit(l)  BY <1>2, Zenon DEF pay, LedgerTyped
<1>3. QED  BY <1>1, <1>2, Zenon

\* A refund leaves no negative balance.
LEMMA RefundTyped ==
  ASSUME LedgerTyped, NEW l \in Label, NEW u \in User, refund(l, u)
  PROVE  LedgerTyped'
<1>1. balance[l][u] \in Nat /\ held[l] \in Nat /\ held[l] >= 1  BY Zenon DEF refund, LedgerTyped
<1>2. balance[l][u] + 1 \in Nat /\ held[l] - 1 \in Nat  BY <1>1
<1>3. held' \in [Label -> Nat]  BY <1>2, Zenon DEF refund, LedgerTyped
<1>4. balance' \in [Label -> [User -> Nat]]  BY <1>2, Zenon DEF refund, LedgerTyped
<1>5. QED  BY <1>3, <1>4, Zenon DEF LedgerTyped, refund

\* Neither does a burn.
LEMMA BurnTyped ==
  ASSUME LedgerTyped, NEW l \in Label, burn(l)
  PROVE  LedgerTyped'
<1>1. held[l] - 1 \in Nat  BY DEF burn, LedgerTyped
<1>2. QED  BY <1>1, Zenon DEF burn, LedgerTyped

\* An execution that starts takes the token its user paid, if they paid one.
LEMMA StartToken ==
  ASSUME IInv, NEW l \in Label, NEW u \in User \cup {Owner}, NEW d \in Target[l],
         NEW ttl \in {"none", "live"}, start(l, u, d, ttl), UNCHANGED kept,
         u # Owner /\ HasLimit(l) => held' = [held EXCEPT ![l] = @ + 1],
         ~(u # Owner /\ HasLimit(l)) => UNCHANGED held
  PROVE  Escrow'
<1> DEFINE c == [label |-> l, initiator |-> u, domain |-> d, ttl |-> ttl, result |-> "InProcess"]
<1>1. execution_id \in Id
  BY DEF start, get_and_increase_execution_id, IInv, TypeOK, Id
<1>2. c \in Callback  BY AuthorizationConstants, Zenon DEF Callback, Domain, Result
<1>3. callbacks' = [callbacks EXCEPT ![execution_id] = c]
  BY Zenon DEF start, store_inprocess_callback
<1>4. callbacks[execution_id].result = "Unused"  BY <1>1 DEF IInv, IdsFresh, TypeOK
<1>5. ~KeepsToken(callbacks[execution_id])  BY <1>4, Zenon DEF KeepsToken
<1>6. KeepsToken(c) <=> u # Owner /\ HasLimit(l)  BY Zenon DEF KeepsToken, Paid
<1>7. CASE KeepsToken(c)
  <2>1. held' = [held EXCEPT ![c.label] = @ + 1]  BY Zenon, <1>6, <1>7
  <2>2. QED  BY Zenon, <1>1, <1>2, <1>3, <1>5, <1>7, <2>1, TokenTaken DEF IInv
<1>8. CASE ~KeepsToken(c)
  <2>1. UNCHANGED held  BY <1>6, <1>8, Zenon
  <2>2. \A i \in Id : callbacks'[i] = IF i = execution_id THEN c ELSE callbacks[i]
    BY <1>1, <1>3, Zenon DEF IInv, TypeOK
  <2>3. \A i \in Id :
          /\ KeepsToken(callbacks'[i]) <=> KeepsToken(callbacks[i])
          /\ KeepsToken(callbacks[i]) => callbacks'[i].label = callbacks[i].label
    BY <1>5, <1>8, <2>2, Zenon
  <2>4. QED  BY <2>1, <2>3, TokenStays, Zenon DEF IInv
<1>9. QED  BY <1>7, <1>8, Zenon

\* The records change in nothing a token depends on.
LEMMA ResultToken ==
  ASSUME IInv, NEW id \in Id, NEW r \in Result, set_result(id, r), UNCHANGED <<held, kept>>,
         KeepsToken([callbacks[id] EXCEPT !.result = r]) <=> KeepsToken(callbacks[id])
  PROVE  Escrow'
<1>1. callbacks[id] \in Callback  BY Zenon DEF IInv, TypeOK
<1>2. \A i \in Id : callbacks'[i] = IF i = id THEN [callbacks[id] EXCEPT !.result = r]
                                    ELSE callbacks[i]
  BY Zenon DEF set_result, IInv, TypeOK
<1>3. [callbacks[id] EXCEPT !.result = r].label = callbacks[id].label  BY <1>1, Zenon DEF Callback
<1>4. \A i \in Id :
        /\ KeepsToken(callbacks'[i]) <=> KeepsToken(callbacks[i])
        /\ KeepsToken(callbacks[i]) => callbacks'[i].label = callbacks[i].label
  BY Zenon, <1>2, <1>3
<1>5. QED  BY <1>4, TokenStays, Zenon DEF IInv

\* A paid execution is settled.
LEMMA SettledToken ==
  ASSUME IInv, NEW id \in Id,
         NEW r \in Result \ {"InProcess", "TimeoutRetriable", "UnexpectedError"},
         set_result(id, r), Paid(callbacks[id]), callbacks[id].domain # "Evm",
         callbacks[id].result \in {"InProcess", "TimeoutRetriable"},
         held' = [held EXCEPT ![callbacks[id].label] = @ - 1], UNCHANGED kept
  PROVE  Escrow'
<1>1. callbacks[id] \in Callback  BY Zenon DEF IInv, TypeOK
<1>2. KeepsToken(callbacks[id])  BY Zenon DEF KeepsToken
<1>3. callbacks'[id] = [callbacks[id] EXCEPT !.result = r]  BY Zenon DEF set_result, IInv, TypeOK
<1>4. ~KeepsToken(callbacks'[id])  BY <1>1, <1>3, Zenon DEF KeepsToken, Callback
<1>5. QED  BY Zenon, <1>2, <1>4, TokenReleased DEF IInv

-----------------------------------------------------------------------------
\* The whole invariant, action by action.

\* Instantiation establishes the invariant.
LEMMA InitInv == Init => IInv
<1> SUFFICES ASSUME Init PROVE IInv
  BY Zenon
<1>1. (CHOOSE l \in Label : TRUE) \in Label
  BY AuthorizationConstants, Zenon
<1>2. ExecTyped
  <2>1. callbacks \in [Id -> Callback]  BY <1>1, Zenon DEF Init, Callback, Domain, Result
  <2>2. QED  BY <2>1, AuthorizationConstants DEF Init, ExecTyped
<1>3. LedgerTyped  BY Zenon DEF Init, LedgerTyped
<1>4. ConfigTyped  BY Zenon DEF Init, ConfigTyped, AuthorizationRec, Window
<1>5. \A id \in Id : callbacks[id].result = "Unused"  BY Zenon DEF Init
<1>6. ByPolytone /\ IdsFresh /\ OneAnswerToCome
  BY <1>5 DEF Init, ByPolytone, IdsFresh, OneAnswerToCome, Id
<1>7. AtMostOnce  BY <1>5, Zenon DEF Init, AtMostOnce, Reported, Executed, NotExecuted
<1>8. CountsMatch
  <2>1. \A l \in Label : InProcess(l) = {}  BY <1>5, Zenon DEF InProcess
  <2>2. QED  BY Zenon, <2>1, FS_EmptySet DEF Init, CountsMatch
<1>9. Escrow
  <2>1. \A l \in Label : Unsettled(l) = {}  BY <1>5, Zenon DEF Unsettled, KeepsToken
  <2>2. \A l \in Label : Cardinality(Unsettled(l)) = 0  BY <2>1, FS_EmptySet, Zenon
  <2>3. \A l \in Label : held[l] = 0 /\ kept[l] = 0  BY Zenon DEF Init
  <2>4. QED  BY <2>2, <2>3 DEF Escrow
<1>10. QED  BY <1>2, <1>3, <1>4, <1>6, <1>7, <1>8, <1>9, Parts, Zenon DEF ExecInv

\* Configuration, minting and the clock leave the executions and the tokens
\* the contract holds alone.
LEMMA ConfigStep ==
  ASSUME IInv, UNCHANGED execs, UNCHANGED <<held, kept>>, ConfigTyped',
         balance' \in [Label -> [User -> Nat]]
  PROVE  IInv'
<1>1. ExecInv'  BY ExecsUnchanged, Parts, Zenon
<1>2. LedgerTyped'  BY Parts, Zenon DEF LedgerTyped
<1>3. Escrow'  BY TokenStays, Zenon DEF execs, IInv
<1>4. QED  BY <1>1, <1>2, <1>3, PartsNext, Zenon

\* Creating a plain or ZK authorization.
LEMMA CreateStep ==
  ASSUME IInv, NEW l \in Label, NEW rec \in AuthorizationRec, create(l, rec)
  PROVE  IInv'
<1>1. UNCHANGED execs /\ UNCHANGED <<held, kept>>  BY Zenon DEF create, owner_leaves, bridge, execs
<1>2. ConfigTyped'  BY Parts, Zenon DEF create, ConfigTyped
<1>3. [u \in User |-> IF Mode[l] = "Permissionless" THEN 0 ELSE 1] \in [User -> Nat]
  BY Zenon
<1>4. balance' \in [Label -> [User -> Nat]]  BY <1>3, Zenon DEF create, IInv, TypeOK
<1>5. QED  BY <1>1, <1>2, <1>4, ConfigStep, Zenon

\* Modifying, disabling or enabling one.
LEMMA ChangeStep ==
  ASSUME IInv, NEW l \in Label, NEW rec \in AuthorizationRec, change(l, rec)
  PROVE  IInv'
<1>1. UNCHANGED execs /\ UNCHANGED <<held, kept>>  BY Zenon DEF change, owner_leaves, bridge, execs
<1>2. ConfigTyped'  BY Parts, Zenon DEF change, ConfigTyped
<1>3. balance' \in [Label -> [User -> Nat]]  BY Zenon DEF change, IInv, TypeOK
<1>4. QED  BY <1>1, <1>2, <1>3, ConfigStep, ZenonT(40)

\* The owner's insertion.
LEMMA InsertStep ==
  ASSUME IInv, NEW l \in Label, NEW d \in Target[l], insert_messages(l, d)
  PROVE  IInv'
<1>1. start(l, Owner, d, "none") /\ UNCHANGED <<held, kept, balance>>
  BY Zenon DEF insert_messages, ledger
<1>2. ExecInv'  BY <1>1, StartExec, Zenon
<1>3. Escrow'  BY <1>1, StartToken, Zenon
<1>4. LedgerTyped' /\ ConfigTyped'
  BY <1>1, Parts, Zenon DEF insert_messages, LedgerTyped, ConfigTyped
<1>5. QED  BY <1>2, <1>3, <1>4, PartsNext, Zenon

\* A user's messages.
LEMMA SendStep ==
  ASSUME IInv, NEW l \in Label, NEW u \in User, NEW d \in Target[l], NEW ttl \in {"none", "live"},
         send_msgs(l, u, d, ttl)
  PROVE  IInv'
<1>1. start(l, u, d, ttl) /\ pay(l, u) /\ UNCHANGED kept /\ u # Owner
  BY AuthorizationConstants, Zenon DEF send_msgs
<1>2. ExecInv'  BY <1>1, StartExec, Zenon
<1>3. Escrow'  BY <1>1, StartToken, Zenon DEF pay
<1>4. LedgerTyped'  BY <1>1, PayTyped, Parts, Zenon DEF LedgerTyped
<1>5. ConfigTyped'  BY Parts, Zenon DEF send_msgs, ConfigTyped
<1>6. QED  BY <1>2, <1>3, <1>4, <1>5, PartsNext, Zenon

\* A proven message, which starts an execution or controls a processor.
LEMMA ZkStep ==
  ASSUME IInv, NEW l \in Label, NEW u \in User, NEW d \in Target[l], NEW block,
         NEW starts \in BOOLEAN, execute_zk_authorization(l, u, d, block, starts)
  PROVE  IInv'
<1>1. pay(l, u) /\ u # Owner  BY AuthorizationConstants, Zenon DEF execute_zk_authorization
<1>2. ConfigTyped'  BY Parts, Zenon DEF execute_zk_authorization, ConfigTyped
<1>3. CASE starts
  <2>1. start(l, u, d, "none") /\ UNCHANGED kept  BY <1>3, Zenon DEF execute_zk_authorization
  <2>2. ExecInv'  BY <2>1, StartExec, Zenon
  <2>3. Escrow'  BY <1>1, <2>1, StartToken, Zenon DEF pay
  <2>4. LedgerTyped'  BY <1>1, <2>1, PayTyped, Parts, Zenon DEF LedgerTyped
  <2>5. QED  BY <1>2, <2>2, <2>3, <2>4, PartsNext, Zenon
<1>4. CASE ~starts
  <2>1. UNCHANGED execs  BY <1>4, Zenon DEF execute_zk_authorization, execs, bridge
  <2>2. kept' = IF HasLimit(l) THEN [kept EXCEPT ![l] = @ + 1] ELSE kept
    BY <1>4, Zenon DEF execute_zk_authorization
  <2>3. kept' \in [Label -> Nat]  BY <2>2 DEF IInv, TypeOK
  <2>4. LedgerTyped'  BY <1>1, <2>3, PayTyped, Parts, Zenon
  <2>5. ExecInv'  BY <2>1, ExecsUnchanged, Parts, Zenon
  <2>6. Escrow'
    <3>1. \A k \in Label : Unsettled(k)' = Unsettled(k) /\ Unsettled(k) \in SUBSET Id
      BY <2>1, Zenon DEF Unsettled, execs
    <3>2. \A k \in Label : Cardinality(Unsettled(k)) \in Nat  BY <3>1, SizeOfIds, Zenon
    <3>3. held' = IF HasLimit(l) THEN [held EXCEPT ![l] = @ + 1] ELSE held
      BY <1>1, Zenon DEF pay
    <3>4. ASSUME NEW k \in Label
          PROVE  held'[k] - held[k] = kept'[k] - kept[k]
      BY <2>2, <3>3 DEF IInv, TypeOK
    <3>5. ASSUME NEW k \in Label
          PROVE  held'[k] = Cardinality(Unsettled(k)') + kept'[k]
      <4>1. held[k] = Cardinality(Unsettled(k)) + kept[k]  BY Zenon DEF IInv, Escrow
      <4>2. held[k] \in Nat /\ kept[k] \in Nat /\ held'[k] \in Nat /\ kept'[k] \in Nat
        BY <2>4, Parts, Zenon DEF LedgerTyped
      <4>3. /\ Cardinality(Unsettled(k)') = Cardinality(Unsettled(k))
            /\ Cardinality(Unsettled(k)) \in Nat
        BY <3>1, <3>2, Zenon
      <4>4. QED  BY <3>4, <4>1, <4>2, <4>3
    <3>6. QED  BY <3>5, Zenon DEF Escrow
  <2>7. QED  BY <1>2, <2>4, <2>5, <2>6, PartsNext, Zenon
<1>5. QED  BY <1>3, <1>4, Zenon

\* retry_msgs: sent again or closed.
LEMMA RetryStep ==
  ASSUME IInv, NEW id \in Id, retry_msgs(id)
  PROVE  IInv'
<1>1. callbacks[id] \in Callback /\ callbacks[id].result = "TimeoutRetriable"
  BY Zenon DEF retry_msgs, Retriable, IInv, TypeOK
<1>2. ConfigTyped'  BY Parts, Zenon DEF retry_msgs, ConfigTyped
<1>3. CASE resend(id, callbacks[id])
  <2>1. ExecInv'  BY <1>3, ResendExec, Zenon DEF retry_msgs
  <2>2. UNCHANGED <<held, kept, balance>>  BY <1>3, Zenon DEF resend, ledger
  <2>3. KeepsToken([callbacks[id] EXCEPT !.result = "InProcess"]) <=> KeepsToken(callbacks[id])
    BY <1>1, Zenon DEF KeepsToken, Paid, Callback
  <2>4. Escrow'  BY <1>3, <2>2, <2>3, ResultToken, Zenon DEF resend, Result
  <2>5. LedgerTyped'  BY <2>2, Parts, Zenon DEF LedgerTyped
  <2>6. QED  BY <1>2, <2>1, <2>4, <2>5, PartsNext, Zenon
<1>4. CASE close(id, callbacks[id])
  <2>1. ExecInv'  BY <1>4, CloseExec, Zenon DEF retry_msgs
  <2>2. /\ Paid(callbacks[id]) /\ set_result(id, "TimeoutFinal")
        /\ refund(callbacks[id].label, callbacks[id].initiator)
    BY <1>4, Zenon DEF close
  <2>3. callbacks[id].domain # "Evm"  BY <1>1, Zenon DEF IInv, ByPolytone
  <2>4. Escrow'  BY ZenonT(60), <1>1, <2>2, <2>3, SettledToken DEF refund, Result
  <2>5. callbacks[id].label \in Label /\ callbacks[id].initiator \in User
    BY <1>1, <2>2, Zenon DEF Callback, Paid
  <2>6. LedgerTyped'  BY <2>2, <2>5, RefundTyped, Parts, Zenon
  <2>7. QED  BY <1>2, <2>1, <2>4, <2>6, PartsNext, ZenonT(40)
<1>5. QED  BY <1>3, <1>4, Zenon DEF retry_msgs

\* The callback of a processor on the main domain or behind Polytone.
LEMMA ReportStep ==
  ASSUME IInv, NEW id \in Id, NEW r \in Reports, process_processor_callback(id, r)
  PROVE  IInv'
<1> DEFINE c == callbacks[id]
<1>1. /\ id \in running /\ c.domain # "Evm" /\ set_result(id, r) /\ lower_count(c.label)
      /\ running' = running \ {id} /\ UNCHANGED <<sent, runs, execution_id>>
  BY ZenonT(60) DEF process_processor_callback, callback_leaves
<1>2. IF ~Paid(c) THEN UNCHANGED ledger
      ELSE IF r \in Executed THEN burn(c.label) ELSE refund(c.label, c.initiator)
  BY Zenon DEF process_processor_callback
<1>3. c \in Callback /\ c.result = "InProcess"
  BY <1>1, Zenon DEF IInv, TypeOK, OneAnswerToCome
<1>4. r \in Result \ {"InProcess", "TimeoutRetriable", "UnexpectedError"}
  BY AuthorizationConstants, Zenon DEF Reported, Executed, NotExecuted, Result
<1>5. ExecInv'  BY Zenon, <1>1, ReportExec
<1>6. ConfigTyped'  BY Parts, Zenon DEF process_processor_callback, callback_leaves, ConfigTyped
<1>7. CASE ~Paid(c)
  <2>1. UNCHANGED <<held, kept, balance>>  BY <1>2, <1>7, Zenon DEF ledger
  <2>2. KeepsToken([c EXCEPT !.result = r]) <=> KeepsToken(c)
    BY <1>3, <1>7, Zenon DEF KeepsToken, Paid, Callback
  <2>3. Escrow'  BY <1>1, <1>4, <2>1, <2>2, ResultToken, Zenon
  <2>4. LedgerTyped'  BY <2>1, Parts, Zenon DEF LedgerTyped
  <2>5. QED  BY <1>5, <1>6, <2>3, <2>4, PartsNext, Zenon
<1>8. CASE Paid(c)
  <2>1. burn(c.label) \/ refund(c.label, c.initiator)  BY <1>2, <1>8, Zenon
  <2>2. c.label \in Label /\ c.initiator \in User  BY <1>3, <1>8, Zenon DEF Callback, Paid
  <2>3. LedgerTyped'  BY <2>1, <2>2, BurnTyped, RefundTyped, Parts, Zenon
  <2>4. held' = [held EXCEPT ![c.label] = @ - 1] /\ UNCHANGED kept
    BY <2>1, Zenon DEF burn, refund
  <2>5. Escrow'  BY Zenon, <1>1, <1>3, <1>4, <1>8, <2>4, SettledToken
  <2>6. QED  BY <1>5, <1>6, <2>3, <2>5, PartsNext, Zenon
<1>9. QED  BY <1>7, <1>8, Zenon

\* The callback of a processor behind Hyperlane.
LEMMA HyperlaneStep ==
  ASSUME IInv, NEW id \in Id, NEW r \in Reports, process_hyperlane_callback(id, r)
  PROVE  IInv'
<1> DEFINE c == callbacks[id]
<1>1. /\ id \in running /\ c.domain = "Evm" /\ set_result(id, r) /\ lower_count(c.label)
      /\ running' = running \ {id} /\ UNCHANGED <<sent, runs, execution_id, held, kept, balance>>
  BY Zenon DEF process_hyperlane_callback, callback_leaves, ledger
<1>2. c \in Callback /\ c.result = "InProcess"
  BY <1>1, Zenon DEF IInv, TypeOK, OneAnswerToCome
<1>3. r \in Result /\ r # "Unused"
  BY AuthorizationConstants, Zenon DEF Reported, Executed, NotExecuted, Result
<1>4. ExecInv'  BY <1>1, ReportExec, Zenon
<1>5. ConfigTyped' /\ LedgerTyped'
  BY <1>1, Parts, ZenonT(40) DEF process_hyperlane_callback, callback_leaves, ConfigTyped, LedgerTyped
<1>6. KeepsToken([c EXCEPT !.result = r]) <=> KeepsToken(c)
  BY <1>1, <1>2, <1>3, Zenon DEF KeepsToken, Paid, Callback
<1>7. Escrow'  BY <1>1, <1>3, <1>6, ResultToken, Zenon
<1>8. QED  BY <1>4, <1>5, <1>7, PartsNext, Zenon

\* The bridge's acknowledgement, error or timeout.
LEMMA PolytoneStep ==
  ASSUME IInv, NEW id \in Id, process_polytone_callback(id)
  PROVE  IInv'
<1> DEFINE c == callbacks[id]
<1>1. /\ sent' = [sent EXCEPT ![id] = "none"] /\ UNCHANGED <<running, runs, execution_id>>
      /\ ConfigTyped'
  BY Parts, Zenon DEF process_polytone_callback, callback_leaves, ConfigTyped
<1>2. c \in Callback  BY Zenon DEF IInv, TypeOK
<1>3. sent[id] \in {"error", "fatal", "timeout"} => c.result = "InProcess" /\ c.domain = "Polytone"
  BY Zenon DEF IInv, OneAnswerToCome, ByPolytone
<1>4. ASSUME sent[id] = "ok", UNCHANGED <<callbacks, current_executions, ledger>>
      PROVE  IInv'
  <2>1. ExecInv'  BY Zenon, <1>1, <1>4, AckExec
  <2>2. Escrow'  BY <1>4, TokenStays, Zenon DEF IInv, ledger
  <2>3. LedgerTyped'  BY <1>4, Parts, Zenon DEF LedgerTyped, ledger
  <2>4. QED  BY <1>1, <2>1, <2>2, <2>3, PartsNext, Zenon
<1>5. ASSUME NEW r \in {"TimeoutRetriable", "UnexpectedError"},
             sent[id] \in {"error", "fatal", "timeout"}, set_result(id, r), lower_count(c.label),
             UNCHANGED ledger
      PROVE  IInv'
  <2>1. ExecInv'  BY Zenon, <1>1, <1>5, FailExec
  <2>2. KeepsToken([c EXCEPT !.result = r]) <=> KeepsToken(c)
    BY <1>2, <1>3, <1>5, Zenon DEF KeepsToken, Paid, Callback
  <2>3. Escrow'  BY <1>5, <2>2, ResultToken, Zenon DEF Result, ledger
  <2>4. LedgerTyped'  BY <1>5, Parts, Zenon DEF LedgerTyped, ledger
  <2>5. QED  BY <1>1, <2>1, <2>3, <2>4, PartsNext, Zenon
<1>6. ASSUME sent[id] = "timeout", set_result(id, "TimeoutFinal"), lower_count(c.label),
             IF Paid(c) THEN refund(c.label, c.initiator) ELSE UNCHANGED ledger
      PROVE  IInv'
  <2>1. ExecInv'  BY Zenon, <1>1, <1>6, FailExec
  <2>2. CASE Paid(c)
    <3>1. refund(c.label, c.initiator)  BY <1>6, <2>2, Zenon
    <3>2. c.label \in Label /\ c.initiator \in User  BY <1>2, <2>2, Zenon DEF Callback, Paid
    <3>3. LedgerTyped'  BY <3>1, <3>2, RefundTyped, Parts, Zenon
    <3>4. Escrow'  BY Zenon, <1>3, <1>6, <2>2, <3>1, SettledToken DEF refund, Result
    <3>5. QED  BY <1>1, <2>1, <3>3, <3>4, PartsNext, Zenon
  <2>3. CASE ~Paid(c)
    <3>1. UNCHANGED <<held, kept, balance>>  BY <1>6, <2>3, Zenon DEF ledger
    <3>2. KeepsToken([c EXCEPT !.result = "TimeoutFinal"]) <=> KeepsToken(c)
      BY <1>2, <2>3, Zenon DEF KeepsToken, Paid, Callback
    <3>3. Escrow'  BY <1>6, <3>1, <3>2, ResultToken, Zenon DEF Result
    <3>4. LedgerTyped'  BY <3>1, Parts, ZenonT(40) DEF LedgerTyped
    <3>5. QED  BY <1>1, <2>1, <3>3, <3>4, PartsNext, ZenonT(40)
  <2>4. QED  BY <2>2, <2>3, Zenon
<1>7. CASE polytone_acknowledged(id)  BY <1>4, <1>7, Zenon DEF polytone_acknowledged
<1>8. CASE polytone_fatal(id)  BY <1>5, <1>8, Zenon DEF polytone_fatal
<1>9. CASE polytone_failed(id)
  <2>1. sent[id] \in {"error", "timeout"} /\ c.result = "InProcess"
    BY Zenon, <1>3, <1>9 DEF polytone_failed
  <2>2. CASE sent[id] = "error"
    BY <1>5, <1>9, <2>1, <2>2, Zenon DEF polytone_failed
  <2>3. CASE sent[id] = "timeout" /\ c.ttl = "live"
    BY <1>5, <1>9, <2>1, <2>3, Zenon DEF polytone_failed
  <2>4. CASE sent[id] = "timeout" /\ c.ttl # "live"
    BY <1>6, <1>9, <2>1, <2>4, Zenon DEF polytone_failed
  <2>5. QED  BY <2>1, <2>2, <2>3, <2>4, Zenon
<1>10. QED  BY <1>7, <1>8, <1>9, Zenon DEF process_polytone_callback

\* Every action of the owner keeps the invariant.
LEMMA OwnerStep ==
  ASSUME IInv, OwnerAction
  PROVE  IInv'
<1>1. ASSUME NEW l \in Label, NEW max \in Limits, NEW window \in Window,
             create_authorizations(l, max, window)
      PROVE  IInv'
  <2> DEFINE rec == [state |-> "Enabled", max |-> max, window |-> window, validate |-> FALSE]
  <2>1. rec \in AuthorizationRec  BY AuthorizationConstants, Zenon DEF AuthorizationRec
  <2>2. create(l, rec)  BY <1>1, Zenon DEF create_authorizations
  <2>3. QED  BY <2>1, <2>2, CreateStep, Zenon
<1>2. ASSUME NEW l \in Label, NEW max \in Limits, NEW window \in Window,
             modify_authorization(l, max, window)
      PROVE  IInv'
  <2> DEFINE rec == [authorizations[l] EXCEPT !.max = max, !.window = window]
  <2>1. authorizations[l] \in AuthorizationRec  BY Zenon DEF IInv, TypeOK
  <2>2. rec \in AuthorizationRec  BY Zenon, <2>1, AuthorizationConstants DEF AuthorizationRec
  <2>3. change(l, rec)  BY <1>2, Zenon DEF modify_authorization
  <2>4. QED  BY <2>2, <2>3, ChangeStep, Zenon
<1>3. ASSUME NEW l \in Label, NEW validate \in BOOLEAN, create_zk_authorizations(l, validate)
      PROVE  IInv'
  <2> DEFINE rec == [state |-> "Enabled", max |-> 0, window |-> "open", validate |-> validate]
  <2>1. rec \in AuthorizationRec  BY Zenon DEF AuthorizationRec, Window
  <2>2. create(l, rec)  BY <1>3, Zenon DEF create_zk_authorizations
  <2>3. QED  BY <2>1, <2>2, CreateStep, Zenon
<1>4. ASSUME NEW l \in Label, NEW validate \in BOOLEAN, modify_zk_authorization(l, validate)
      PROVE  IInv'
  <2> DEFINE rec == [authorizations[l] EXCEPT !.validate = validate]
  <2>1. authorizations[l] \in AuthorizationRec  BY Zenon DEF IInv, TypeOK
  <2>2. rec \in AuthorizationRec  BY <2>1, Zenon DEF AuthorizationRec
  <2>3. change(l, rec)  BY <1>4, Zenon DEF modify_zk_authorization
  <2>4. QED  BY <2>2, <2>3, ChangeStep, Zenon
<1>5. ASSUME NEW l \in Label, disable_authorization(l) \/ enable_authorization(l)
      PROVE  IInv'
  <2> DEFINE rec(st) == [authorizations[l] EXCEPT !.state = st]
  <2>1. authorizations[l] \in AuthorizationRec  BY Zenon DEF IInv, TypeOK
  <2>2. rec("Disabled") \in AuthorizationRec /\ rec("Enabled") \in AuthorizationRec
    BY <2>1, Zenon DEF AuthorizationRec
  <2>3. change(l, rec("Disabled")) \/ change(l, rec("Enabled"))
    BY <1>5, Zenon DEF disable_authorization, enable_authorization
  <2>4. QED  BY <2>2, <2>3, ChangeStep, Zenon
<1>6. ASSUME NEW l \in Label, NEW u \in User, mint_authorizations(l, u)
      PROVE  IInv'
  <2>1. balance[l][u] + 1 \in Nat  BY DEF IInv, TypeOK
  <2>2. balance' \in [Label -> [User -> Nat]]  BY <1>6, <2>1, Zenon DEF mint_authorizations, IInv, TypeOK
  <2>3. UNCHANGED execs /\ UNCHANGED <<held, kept>>
    BY <1>6, Zenon DEF mint_authorizations, owner_leaves, bridge, execs
  <2>4. ConfigTyped'  BY <1>6, Parts, Zenon DEF mint_authorizations, ConfigTyped
  <2>5. QED  BY <2>2, <2>3, <2>4, ConfigStep, Zenon
<1>7. ASSUME add_external_domains
      PROVE  IInv'
  <2>1. UNCHANGED execs /\ UNCHANGED <<held, kept>>
    BY <1>7, Zenon DEF add_external_domains, owner_leaves, bridge, execs
  <2>2. ConfigTyped'  BY <1>7, Parts, Zenon DEF add_external_domains, ConfigTyped
  <2>3. balance' \in [Label -> [User -> Nat]]  BY <1>7, Zenon DEF add_external_domains, IInv, TypeOK
  <2>4. QED  BY <2>1, <2>2, <2>3, ConfigStep, Zenon
<1>8. QED  BY Zenon, <1>1, <1>2, <1>3, <1>4, <1>5, <1>6, <1>7, InsertStep DEF OwnerAction

\* A packet meets its fate.
LEMMA RelayStep ==
  ASSUME IInv, NEW id \in Id, NEW r \in BridgeReply, relay(id, r)
  PROVE  IInv'
<1>1. ExecInv'  BY RelayExec, Zenon
<1>2. UNCHANGED <<held, kept, balance, callbacks>>  BY Zenon DEF relay, storage, ledger
<1>3. Escrow'  BY <1>2, TokenStays, Zenon DEF IInv
<1>4. ConfigTyped' /\ LedgerTyped'  BY <1>2, Parts, Zenon DEF relay, storage, ConfigTyped, LedgerTyped
<1>5. QED  BY <1>1, <1>3, <1>4, PartsNext, Zenon

\* Time passes for an execution.
LEMMA TtlStep ==
  ASSUME IInv, NEW id \in Id, ttl_passes(id)
  PROVE  IInv'
<1>1. ExecInv'  BY TtlExec, Zenon
<1>2. callbacks[id] \in Callback  BY ZenonT(40) DEF IInv, TypeOK
<1>3. \A i \in Id : callbacks'[i] = IF i = id THEN [callbacks[id] EXCEPT !.ttl = "expired"]
                                    ELSE callbacks[i]
  BY Zenon DEF ttl_passes, IInv, TypeOK
<1>4. KeepsToken([callbacks[id] EXCEPT !.ttl = "expired"]) <=> KeepsToken(callbacks[id])
  BY <1>2, Zenon DEF KeepsToken, Paid, Callback
<1>5. [callbacks[id] EXCEPT !.ttl = "expired"].label = callbacks[id].label
  BY <1>2, Zenon DEF Callback
<1>6. \A i \in Id :
        /\ KeepsToken(callbacks'[i]) <=> KeepsToken(callbacks[i])
        /\ KeepsToken(callbacks[i]) => callbacks'[i].label = callbacks[i].label
  BY Zenon, <1>3, <1>4, <1>5
<1>7. UNCHANGED <<held, kept, balance>>  BY Zenon DEF ttl_passes, ledger
<1>8. Escrow'  BY <1>6, <1>7, TokenStays, Zenon DEF IInv
<1>9. ConfigTyped' /\ LedgerTyped'  BY <1>7, Parts, Zenon DEF ttl_passes, ConfigTyped, LedgerTyped
<1>10. QED  BY <1>1, <1>8, <1>9, PartsNext, Zenon

\* Every step keeps the invariant.
LEMMA NextInv == IInv /\ [Next]_vars => IInv'
<1> SUFFICES ASSUME IInv, [Next]_vars PROVE IInv'
  BY Zenon
<1>1. CASE OwnerAction  BY <1>1, OwnerStep, Zenon
<1>2. ASSUME proxy' \in {"Absent", "PendingResponse", "TimedOut", "Created", "UnexpectedError"},
             proxy_sent' \in BOOLEAN, UNCHANGED authorizations, UNCHANGED <<ledger, execs>>
      PROVE  IInv'
  <2>1. ConfigTyped'  BY <1>2, Parts, Zenon DEF ConfigTyped
  <2>2. balance' \in [Label -> [User -> Nat]]  BY <1>2, Zenon DEF ledger, IInv, TypeOK
  <2>3. QED  BY <1>2, <2>1, <2>2, ConfigStep, Zenon DEF ledger
<1>3. CASE UserAction
  <2>1. CASE retry_bridge_creation
    BY <1>2, <2>1, Zenon DEF retry_bridge_creation, bridge, execs
  <2>2. QED  BY <1>3, <2>1, SendStep, ZkStep, RetryStep, Zenon DEF UserAction
<1>4. CASE CallbackAction
  <2>1. ASSUME NEW r \in BridgeReply, polytone_proxy_callback(r)
        PROVE  IInv'
    BY Zenon, <1>2, <2>1 DEF polytone_proxy_callback, bridge, execs
  <2>2. QED  BY <1>4, <2>1, ReportStep, HyperlaneStep, PolytoneStep, Zenon DEF CallbackAction
<1>5. CASE Environment
  <2>1. ASSUME NEW l \in Label, window_moves(l)
        PROVE  IInv'
    <3>1. authorizations[l] \in AuthorizationRec  BY Zenon DEF IInv, TypeOK
    <3>2. authorizations' \in [Label -> AuthorizationRec]
      BY Zenon, <2>1, <3>1 DEF window_moves, AuthorizationRec, Window, IInv, TypeOK
    <3>3. ConfigTyped'  BY <2>1, <3>2, Parts, Zenon DEF window_moves, ConfigTyped
    <3>4. UNCHANGED execs /\ UNCHANGED <<held, kept, balance>>
      BY <2>1, Zenon DEF window_moves, ledger, bridge, execs
    <3>5. QED  BY <3>3, <3>4, ConfigStep, Parts, Zenon DEF LedgerTyped
  <2>2. QED  BY <1>5, <2>1, RelayStep, TtlStep, Zenon DEF Environment
<1>6. CASE UNCHANGED vars
  BY <1>2, <1>6, Parts, Zenon DEF vars, storage, bridge, execs, ConfigTyped
<1>7. QED  BY <1>1, <1>3, <1>4, <1>5, <1>6, Zenon DEF Next

-----------------------------------------------------------------------------
\* What one step does to the records: nothing that matters, or one of them
\* starts, is retried, or is answered.

Same(i) ==
  /\ callbacks'[i].label = callbacks[i].label
  /\ callbacks'[i].initiator = callbacks[i].initiator
  /\ callbacks'[i].result = callbacks[i].result

Starts(id) ==
  /\ callbacks[id].result = "Unused"
  /\ callbacks'[id].initiator # Owner /\ callbacks'[id].label \notin Zk =>
       BelowLimit(callbacks'[id].label)

Resumes(id) ==
  /\ callbacks[id].result = "TimeoutRetriable"
  /\ callbacks'[id].label = callbacks[id].label
  /\ BelowLimit(callbacks[id].label)

Ends(id) ==
  /\ callbacks[id].result \in {"InProcess", "TimeoutRetriable"}
  /\ callbacks'[id].result # "InProcess"

RecordStep ==
  \/ \A i \in Id : Same(i)
  \/ \E id \in Id : /\ \A i \in Id \ {id} : Same(i)
                    /\ Starts(id) \/ Resumes(id) \/ Ends(id)

\* Steps that write no record.
LEMMA RecordsQuiet ==
  ASSUME UNCHANGED callbacks
  PROVE  RecordStep
BY Zenon DEF RecordStep, Same

\* start writes the record of a fresh id.
LEMMA RecordStarts ==
  ASSUME IInv, NEW l \in Label, NEW initiator \in User \cup {Owner}, NEW d, NEW ttl,
         start(l, initiator, d, ttl), initiator # Owner /\ l \notin Zk => BelowLimit(l)
  PROVE  RecordStep
<1>1. execution_id \in Id
  BY DEF start, get_and_increase_execution_id, IInv, TypeOK, Id
<1>2. \A i \in Id \ {execution_id} : Same(i)
  BY Zenon DEF start, store_inprocess_callback, IInv, TypeOK, Same
<1>3. callbacks[execution_id].result = "Unused"  BY <1>1 DEF IInv, IdsFresh, TypeOK
<1>4. callbacks'[execution_id].label = l /\ callbacks'[execution_id].initiator = initiator
  BY <1>1, Zenon DEF start, store_inprocess_callback, IInv, TypeOK
<1>5. Starts(execution_id)  BY <1>3, <1>4, Zenon DEF Starts
<1>6. QED  BY <1>1, <1>2, <1>5, Zenon DEF RecordStep

\* A result is stored for an execution in process or retriable.
LEMMA RecordEnds ==
  ASSUME IInv, NEW id \in Id, NEW r, set_result(id, r), r # "InProcess",
         callbacks[id].result \in {"InProcess", "TimeoutRetriable"}
  PROVE  RecordStep
<1>1. callbacks[id] \in Callback  BY Zenon DEF IInv, TypeOK
<1>2. \A i \in Id \ {id} : Same(i)  BY Zenon DEF set_result, IInv, TypeOK, Same
<1>3. callbacks'[id].result = r  BY <1>1, Zenon DEF set_result, IInv, TypeOK, Callback
<1>4. Ends(id)  BY <1>3, Zenon DEF Ends
<1>5. QED  BY <1>2, <1>4, Zenon DEF RecordStep

\* A retry resumes or ends an execution.
LEMMA RecordRetry ==
  ASSUME IInv, NEW id \in Id, retry_msgs(id)
  PROVE  RecordStep
<1>1. callbacks[id] \in Callback /\ callbacks[id].result = "TimeoutRetriable"
  BY ZenonT(40) DEF retry_msgs, Retriable, IInv, TypeOK
<1>2. CASE resend(id, callbacks[id])
  <2>1. set_result(id, "InProcess") /\ BelowLimit(callbacks[id].label)  BY <1>2, Zenon DEF resend
  <2>2. \A i \in Id \ {id} : Same(i)  BY <2>1, Zenon DEF set_result, IInv, TypeOK, Same
  <2>3. callbacks'[id].label = callbacks[id].label
    BY <1>1, <2>1, Zenon DEF set_result, IInv, TypeOK, Callback
  <2>4. Resumes(id)  BY <1>1, <2>1, <2>3, Zenon DEF Resumes
  <2>5. QED  BY <2>2, <2>4, Zenon DEF RecordStep
<1>3. CASE close(id, callbacks[id])  BY <1>1, <1>3, RecordEnds, Zenon DEF close
<1>4. QED  BY <1>2, <1>3, Zenon DEF retry_msgs

\* The bridge's answer ends an execution or changes nothing.
LEMMA RecordPolytone ==
  ASSUME IInv, NEW id \in Id, process_polytone_callback(id)
  PROVE  RecordStep
<1>1. sent[id] \in {"error", "fatal", "timeout"} => callbacks[id].result = "InProcess"
  BY Zenon DEF IInv, OneAnswerToCome
<1>2. CASE polytone_acknowledged(id)  BY <1>2, RecordsQuiet, Zenon DEF polytone_acknowledged
<1>3. CASE polytone_fatal(id)  BY <1>1, <1>3, RecordEnds, Zenon DEF polytone_fatal
<1>4. CASE polytone_failed(id)
  <2>1. sent[id] \in {"error", "timeout"}  BY <1>4, Zenon DEF polytone_failed
  <2>2. callbacks[id].result = "InProcess"  BY <1>1, <2>1, Zenon
  <2>3. \/ set_result(id, "TimeoutFinal")
        \/ set_result(id, "TimeoutRetriable")
        \/ set_result(id, "UnexpectedError")
    <3>1. CASE sent[id] = "error"  BY <1>4, <2>2, <3>1, Zenon DEF polytone_failed
    <3>2. CASE sent[id] = "timeout"
      <4>1. set_result(id, IF callbacks[id].ttl # "live" THEN "TimeoutFinal" ELSE "TimeoutRetriable")
        BY <1>4, <2>2, <3>2, Zenon DEF polytone_failed
      <4>2. CASE callbacks[id].ttl # "live"  BY <4>1, <4>2, Zenon
      <4>3. CASE callbacks[id].ttl = "live"  BY <4>1, <4>3, Zenon
      <4>4. QED  BY <4>2, <4>3, Zenon
    <3>3. QED  BY <2>1, <3>1, <3>2, Zenon
  <2>4. ASSUME NEW r \in {"TimeoutFinal", "TimeoutRetriable", "UnexpectedError"}, set_result(id, r)
        PROVE  RecordStep
    <3>1. r # "InProcess"  BY <2>4, Zenon
    <3>2. callbacks[id].result \in {"InProcess", "TimeoutRetriable"}  BY <2>2, Zenon
    <3>3. QED  BY <2>4, <3>1, <3>2, RecordEnds, Zenon
  <2>5. QED  BY <2>3, <2>4, Zenon
<1>5. QED  BY <1>2, <1>3, <1>4, Zenon DEF process_polytone_callback

\* Every step of the contract is one of these.
LEMMA StepOfRecords == IInv /\ [Next]_vars => RecordStep
<1> SUFFICES ASSUME IInv, [Next]_vars PROVE RecordStep
  BY Zenon
<1>1. CASE OwnerAction
  <2>1. ASSUME NEW l \in Label, NEW d \in Target[l], insert_messages(l, d)
        PROVE  RecordStep
    BY <2>1, RecordStarts, Zenon DEF insert_messages
  <2>2. CASE UNCHANGED callbacks  BY <2>2, RecordsQuiet, Zenon
  <2>3. QED
    BY Zenon, <1>1, <2>1, <2>2
    DEF OwnerAction, create_authorizations, create_zk_authorizations, create, change,
        modify_authorization, modify_zk_authorization, disable_authorization,
        enable_authorization, mint_authorizations, add_external_domains, owner_leaves
<1>2. CASE UserAction
  <2>1. ASSUME NEW l \in Label, NEW u \in User, NEW ttl, NEW d \in Target[l],
               send_msgs(l, u, d, ttl)
        PROVE  RecordStep
    BY <2>1, RecordStarts, Zenon DEF send_msgs
  <2>2. ASSUME NEW l \in Label, NEW u \in User, NEW block, NEW starts \in BOOLEAN,
               NEW d \in Target[l], execute_zk_authorization(l, u, d, block, starts)
        PROVE  RecordStep
    BY <2>2, RecordStarts, RecordsQuiet, Zenon DEF execute_zk_authorization
  <2>3. CASE retry_bridge_creation  BY <2>3, RecordsQuiet, Zenon DEF retry_bridge_creation
  <2>4. QED  BY <1>2, <2>1, <2>2, <2>3, RecordRetry, Zenon DEF UserAction
<1>3. CASE CallbackAction
  <2>1. ASSUME NEW id \in Id, NEW r \in Reports,
               process_processor_callback(id, r) \/ process_hyperlane_callback(id, r)
        PROVE  RecordStep
    <3>1. set_result(id, r) /\ id \in running
      BY <2>1, Zenon DEF process_processor_callback, process_hyperlane_callback
    <3>2. callbacks[id].result = "InProcess"  BY <3>1, Zenon DEF IInv, OneAnswerToCome
    <3>3. r # "InProcess"  BY AuthorizationConstants, Zenon DEF Reported, Executed, NotExecuted
    <3>4. QED  BY <3>1, <3>2, <3>3, RecordEnds, Zenon
  <2>2. ASSUME NEW r \in BridgeReply, polytone_proxy_callback(r)
        PROVE  RecordStep
    BY <2>2, RecordsQuiet, Zenon DEF polytone_proxy_callback
  <2>3. QED  BY <1>3, <2>1, <2>2, RecordPolytone, Zenon DEF CallbackAction
<1>4. CASE Environment
  <2>1. ASSUME NEW id \in Id, ttl_passes(id)
        PROVE  RecordStep
    <3>1. callbacks[id] \in Callback  BY Zenon DEF IInv, TypeOK
    <3>2. \A i \in Id : Same(i)  BY <2>1, <3>1, Zenon DEF ttl_passes, Callback, IInv, TypeOK, Same
    <3>3. QED  BY <3>2, Zenon DEF RecordStep
  <2>2. CASE UNCHANGED callbacks  BY <2>2, RecordsQuiet, ZenonT(40)
  <2>3. QED  BY <1>4, <2>1, <2>2, Zenon DEF Environment, relay, window_moves, storage
<1>5. CASE UNCHANGED vars  BY <1>5, RecordsQuiet, Zenon DEF vars, storage
<1>6. QED  BY <1>1, <1>2, <1>3, <1>4, <1>5, Zenon DEF Next

\* No such step touches a final result.
LEMMA FinalStays ==
  ASSUME RecordStep, NEW id \in Id, callbacks[id].result \in Final
  PROVE  callbacks'[id].result = callbacks[id].result
<1>1. callbacks[id].result \notin {"Unused", "InProcess", "TimeoutRetriable"}
  BY Zenon DEF Final, Reported, Executed, NotExecuted
<1>2. QED  BY <1>1, Zenon DEF RecordStep, Same, Starts, Resumes, Ends

\* A label gains a run of a user only below its limit.
LEMMA Admits ==
  ASSUME IInv, RecordStep, NEW l \in Label \ Zk,
         Cardinality(UserRuns(l)') > Cardinality(UserRuns(l))
  PROVE  Cardinality(InProcess(l)) < authorizations[l].max
<1>1. CASE UserRuns(l)' \subseteq UserRuns(l)
  <2>1. UserRuns(l) \in SUBSET Id /\ UserRuns(l)' \in SUBSET Id  BY Zenon DEF UserRuns, InProcess
  <2>2. IsFiniteSet(UserRuns(l))  BY <2>1, SizeOfIds, Zenon
  <2>3. Cardinality(UserRuns(l)') <= Cardinality(UserRuns(l))  BY <1>1, <2>2, FS_Subset, Zenon
  <2>4. Cardinality(UserRuns(l)') \in Nat /\ Cardinality(UserRuns(l)) \in Nat
    BY <2>1, SizeOfIds, Zenon
  <2>5. QED  BY <2>3, <2>4
<1>2. CASE \E id \in UserRuns(l)' : id \notin UserRuns(l)
  <2>1. PICK id \in UserRuns(l)' : id \notin UserRuns(l)  BY <1>2, Zenon
  <2>2. /\ id \in Id /\ callbacks'[id].label = l /\ callbacks'[id].result = "InProcess"
        /\ callbacks'[id].initiator # Owner
    BY <2>1, Zenon DEF UserRuns, InProcess
  <2>3. ~Same(id)  BY <2>1, <2>2, Zenon DEF UserRuns, InProcess, Same
  <2>4. Starts(id) \/ Resumes(id) \/ Ends(id)  BY <2>2, <2>3, Zenon DEF RecordStep
  <2>5. BelowLimit(l)  BY <2>2, <2>4, Zenon DEF Starts, Resumes, Ends
  <2>6. QED  BY <2>5, Zenon DEF BelowLimit, IInv, CountsMatch
<1>3. QED  BY <1>1, <1>2, Zenon

-----------------------------------------------------------------------------
\* The results.

\* The inductive invariant holds throughout.
THEOREM Invariance == Spec => []IInv
<1>1. Init => IInv  BY InitInv, Zenon
<1>2. IInv /\ [Next]_vars => IInv'  BY NextInv, Zenon
<1>3. QED  BY <1>1, <1>2, PTL DEF Spec

\* Every variable keeps its type; in particular no count and no token balance
\* goes below zero (CURRENT_EXECUTIONS is decremented without saturation).
THEOREM AuthorizationTyped == Spec => []TypeOK
<1>1. IInv => TypeOK  BY Zenon DEF IInv
<1>2. QED  BY <1>1, Invariance, PTL

\* CURRENT_EXECUTIONS counts the executions in process, whatever the order of
\* sends, callbacks, acknowledgements, timeouts and retries.
THEOREM CountsAreRight == Spec => []CountsMatch
<1>1. IInv => CountsMatch  BY Zenon DEF IInv
<1>2. QED  BY <1>1, Invariance, PTL

\* An execution in process has exactly one answer to come, from its processor
\* or from the bridge.
THEOREM AnswersAreExclusive == Spec => []OneAnswerToCome
<1>1. IInv => OneAnswerToCome  BY Zenon DEF IInv
<1>2. QED  BY <1>1, Invariance, PTL

\* No processor takes an execution in twice, retries included.
THEOREM NoSecondRun == Spec => []AtMostOnce
<1>1. IInv => AtMostOnce  BY Zenon DEF IInv
<1>2. QED  BY <1>1, Invariance, PTL

\* The contract holds exactly the tokens of the executions it has not settled
\* and of paid control messages: burns and refunds are neither missed nor
\* doubled.
THEOREM TokensAreHeld == Spec => []Escrow
<1>1. IInv => Escrow  BY Zenon DEF IInv
<1>2. QED  BY <1>1, Invariance, PTL

\* No callback, timeout or retry revises a final result.
THEOREM FinalResults == Spec => ResultsFinal
<1> DEFINE A == \A id \in Id : callbacks[id].result \in Final =>
                  callbacks'[id].result = callbacks[id].result
<1>1. IInv /\ [Next]_vars => [A]_vars  BY StepOfRecords, FinalStays, Zenon
<1>2. QED  BY <1>1, Invariance, PTL DEF Spec, ResultsFinal

\* Sends and retries of users respect max_concurrent_executions.
THEOREM LimitRespected == Spec => Admission
<1> DEFINE A == \A l \in Label \ Zk :
                  Cardinality(UserRuns(l)') > Cardinality(UserRuns(l)) =>
                    Cardinality(InProcess(l)) < authorizations[l].max
<1>1. IInv /\ [Next]_vars => [A]_vars
  <2>1. IInv /\ RecordStep => A  BY Admits, Zenon
  <2>2. QED  BY <2>1, StepOfRecords, Zenon
<1>2. QED  BY <1>1, Invariance, PTL DEF Spec, Admission

-----------------------------------------------------------------------------
\* ZK messages: the last block of a registry bounds those that were checked.
Registries == {Registry[l] : l \in Label}

ZkRun == [registry : Registries, block : Nat, validated : BOOLEAN]

BlockInv ==
  /\ last_block \in [Registries -> Nat]
  /\ zk_runs \in Seq(ZkRun)
  /\ \A i \in 1 .. Len(zk_runs) : zk_runs[i].validated => zk_runs[i].block <= last_block[zk_runs[i].registry]
  /\ BlocksIncrease

\* An index that is not the last is an earlier one.
LEMMA NotLast ==
  ASSUME NEW n \in Nat, NEW j \in 1 .. n + 1, j # n + 1
  PROVE  j \in 1 .. n
  OBVIOUS

\* A block below one that is below another.
LEMMA BelowBoth ==
  ASSUME NEW a \in Nat, NEW b \in Nat, NEW c \in Nat, a <= b, b < c
  PROVE  a < c
  OBVIOUS

\* A message that is executed comes after those its registry has checked.
LEMMA BlockStep ==
  ASSUME IInv, BlockInv, NEW l \in Label, NEW block \in Nat, check_last_block(l, block),
         zk_runs' = Append(zk_runs, [registry |-> Registry[l], block |-> block,
                                     validated |-> authorizations[l].validate])
  PROVE  BlockInv'
<1> DEFINE g == Registry[l]
           v == authorizations[l].validate
           r == [registry |-> g, block |-> block, validated |-> v]
<1>1. g \in Registries /\ v \in BOOLEAN
  BY Parts, Zenon DEF Registries, ConfigTyped, AuthorizationRec
<1>2. r \in ZkRun /\ r.registry = g /\ r.block = block /\ r.validated = v
  BY <1>1, Zenon DEF ZkRun
<1>3. /\ last_block' \in [Registries -> Nat]
      /\ \A h \in Registries : last_block[h] <= last_block'[h]
      /\ v => last_block[g] < block /\ block <= last_block'[g]
  <2>1. last_block \in [Registries -> Nat]
    BY ZenonT(40) DEF BlockInv
  <2>2. CASE v
    BY <1>1, <2>1, <2>2 DEF check_last_block
  <2>3. CASE ~v
    BY <1>1, <2>1, <2>3 DEF check_last_block
  <2> QED BY <1>1, <2>2, <2>3, ZenonT(40)
<1> HIDE DEF g, v, r
<1>4. zk_runs' = Append(zk_runs, r)
  BY Zenon DEF g, v, r
<1>5. /\ zk_runs' \in Seq(ZkRun) /\ Len(zk_runs') = Len(zk_runs) + 1
      /\ \A i \in 1 .. Len(zk_runs) : zk_runs'[i] = zk_runs[i] /\ zk_runs[i] \in ZkRun
      /\ zk_runs'[Len(zk_runs) + 1] = r
  BY <1>2, <1>4 DEF BlockInv
<1>6. \A i \in 1 .. Len(zk_runs) :
        zk_runs[i].registry \in Registries /\ zk_runs[i].block \in Nat
  BY <1>5, Zenon DEF ZkRun
<1>7. \A i \in 1 .. Len(zk_runs') :
        zk_runs'[i].validated => zk_runs'[i].block <= last_block'[zk_runs'[i].registry]
  <2> SUFFICES ASSUME NEW i \in 1 .. Len(zk_runs'), zk_runs'[i].validated
               PROVE  zk_runs'[i].block <= last_block'[zk_runs'[i].registry]
    BY Zenon
  <2>1. CASE i = Len(zk_runs) + 1
    BY <1>2, <1>3, <1>5, <2>1, Zenon
  <2>2. CASE i # Len(zk_runs) + 1
    <3>1. i \in 1 .. Len(zk_runs)
      BY <1>5, <2>2 DEF BlockInv
    <3>2. zk_runs[i].block <= last_block[zk_runs[i].registry] /\ zk_runs'[i] = zk_runs[i]
      BY <1>5, <3>1, Zenon DEF BlockInv
    <3> QED BY <1>3, <1>6, <3>1, <3>2 DEF BlockInv
  <2> QED BY <2>1, <2>2, Zenon
<1>8. BlocksIncrease'
  <2> SUFFICES ASSUME NEW i \in 1 .. Len(zk_runs'), NEW j \in 1 .. Len(zk_runs'), i < j,
                      zk_runs'[i].registry = zk_runs'[j].registry,
                      zk_runs'[i].validated, zk_runs'[j].validated
               PROVE  zk_runs'[i].block < zk_runs'[j].block
    BY Zenon DEF BlocksIncrease
  <2>1. i \in 1 .. Len(zk_runs) /\ zk_runs'[i] = zk_runs[i]
    BY <1>5 DEF BlockInv
  <2>2. CASE j = Len(zk_runs) + 1
    <3>1. zk_runs'[j] = r /\ v /\ zk_runs[i].registry = g
      BY <1>2, <1>5, <2>1, <2>2, Zenon
    <3>2. zk_runs[i].block <= last_block[g] /\ zk_runs[i].block \in Nat
      BY <1>6, <2>1, <3>1, Zenon DEF BlockInv
    <3>3. last_block[g] \in Nat /\ last_block[g] < block /\ zk_runs'[j].block = block
      BY <1>1, <1>2, <1>3, <3>1, Zenon DEF BlockInv
    <3>4. zk_runs[i].block < block
      BY <3>2, <3>3, BelowBoth, Zenon
    <3> QED BY <2>1, <3>3, <3>4, Zenon
  <2>3. CASE j # Len(zk_runs) + 1
    <3>1. j \in 1 .. Len(zk_runs) /\ zk_runs'[j] = zk_runs[j]
      <4>1. Len(zk_runs) \in Nat
        BY DEF BlockInv
      <4>2. j \in 1 .. Len(zk_runs) + 1
        BY <1>5, Zenon
      <4>3. j \in 1 .. Len(zk_runs)
        BY <2>3, <4>1, <4>2, NotLast, Zenon
      <4> QED BY <1>5, <4>3, Zenon
    <3> QED BY <2>1, <3>1, Zenon DEF BlockInv, BlocksIncrease
  <2> QED BY <2>2, <2>3, ZenonT(40)
<1> QED BY <1>3, <1>5, <1>7, <1>8, Zenon DEF BlockInv

\* Nothing else touches the last blocks.
LEMMA NextBlocks == IInv /\ BlockInv /\ [Next]_vars => BlockInv'
<1> SUFFICES ASSUME IInv, BlockInv, [Next]_vars PROVE BlockInv'
  BY Zenon
<1>1. ASSUME UNCHANGED <<last_block, zk_runs>> PROVE BlockInv'
  BY <1>1, Zenon DEF BlockInv, BlocksIncrease
<1>2. CASE OwnerAction
  <2>1. UNCHANGED <<last_block, zk_runs>>
    BY <1>2, ZenonT(40) DEF OwnerAction, create_authorizations, create_zk_authorizations, create,
                modify_authorization, modify_zk_authorization, disable_authorization,
                enable_authorization, change, mint_authorizations, add_external_domains,
                insert_messages, owner_leaves
  <2> QED BY <1>1, <2>1, Zenon
<1>3. CASE UserAction
  <2>1. ASSUME NEW l \in Label, NEW u \in User, NEW block \in 1 .. MaxBlock, NEW starts \in BOOLEAN,
               NEW d \in Target[l], execute_zk_authorization(l, u, d, block, starts)
        PROVE  BlockInv'
    BY <2>1, BlockStep DEF execute_zk_authorization
  <2>2. ASSUME \/ \E l \in Label, u \in User, ttl \in {"none", "live"} : \E d \in Target[l] :
                    send_msgs(l, u, d, ttl)
               \/ \E id \in Id : retry_msgs(id)
               \/ retry_bridge_creation
        PROVE  BlockInv'
    BY <1>1, <2>2, ZenonT(40) DEF send_msgs, retry_msgs, retry_bridge_creation
  <2> QED BY <1>3, <2>1, <2>2, Zenon DEF UserAction
<1>4. CASE CallbackAction
  <2>1. UNCHANGED <<last_block, zk_runs>>
    BY <1>4, Zenon DEF CallbackAction, process_processor_callback, process_hyperlane_callback,
                process_polytone_callback, polytone_proxy_callback, callback_leaves
  <2> QED BY <1>1, <2>1, ZenonT(40)
<1>5. CASE Environment \/ UNCHANGED vars
  <2>1. UNCHANGED <<last_block, zk_runs>>
    BY <1>5, Zenon DEF Environment, relay, ttl_passes, window_moves, vars, storage
  <2> QED BY <1>1, <2>1, ZenonT(40)
<1> QED BY <1>2, <1>3, <1>4, <1>5, Zenon DEF Next

\* No proven message is executed twice, or after a later one of its registry, by
\* authorizations that check the block number.
THEOREM ProofsRunInOrder == Spec => []BlocksIncrease
<1>1. Init => BlockInv
  BY DEF Init, BlockInv, BlocksIncrease, Registries
<1>2. BlockInv => BlocksIncrease
  BY Zenon DEF BlockInv
<1> QED BY <1>1, <1>2, NextBlocks, Invariance, PTL DEF Spec
=============================================================================
