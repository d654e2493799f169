---------------------------- MODULE EvmProcessor ----------------------------
(***************************************************************************)
(* The EVM processor (solidity/src/processor/ProcessorBase.sol and         *)
(* LiteProcessor.sol).  It keeps no queue: a message that arrives through  *)
(* the Hyperlane mailbox or from an authorized address is executed in the  *)
(* same transaction and its result is sent back to where it came from.     *)
(* A transaction that reverts changes nothing, so it is a step that is not *)
(* enabled.                                                                *)
(***************************************************************************)
EXTENDS Integers, Sequences

CONSTANTS
  Contract,            \* libraries that are deployed
  NoCode,              \* an address without code
  Call,                \* calldata, as <<selector, arguments>>
  Uint8Max,            \* largest loop counter (255); small when model checking
  Subroutine,          \* the subroutines that are sent
  MailId,              \* ids of messages the main domain sends by Hyperlane
  Authorization,       \* the authorization contract of this chain
  Eoa                  \* an externally owned account (no code)

\* A subroutine of a SendMsgs message: its functions and their messages, and
\* whether its expiration time, if it has one, has passed when it is executed.
isSubroutine(s) ==
  s \in [functions : Seq(Contract \cup {NoCode}), messages : Seq(Call),
         atomic : BOOLEAN, expired : BOOLEAN]

ASSUME SubroutineAssumption ==
  /\ Uint8Max \in Nat /\ NoCode \notin Contract
  /\ \A s \in Subroutine : isSubroutine(s)

VARIABLES
  paused,
  authorizedAddresses, \* who may call execute
  mail,                \* external: a Hyperlane message, or NoMessage before it is delivered
  dispatched,          \* the callbacks handed to the mailbox
  ran                  \* what the functions of a Hyperlane message did, in order

processorVars == <<paused, authorizedAddresses, mail, dispatched, ran>>

\* No message yet, and one that pauses or resumes the processor.
NoMessage == [kind |-> "none"]
Control == [kind |-> "control"]

Result == {"Success", "Rejected", "PartiallyExecuted", "Expired"}

\* The first function without code or whose call fails (ok says which calls
\* succeed), or one past the end.
FirstFailure(functions, ok) ==
  CHOOSE k \in 1 .. Len(functions) + 1 :
    /\ k = Len(functions) + 1 \/ functions[k] = NoCode \/ ~ok[k]
    /\ \A j \in 1 .. k - 1 : functions[j] # NoCode /\ ok[j]

\* A loop with an 8-bit counter gets to the k-th function.
Reaches(k) == k <= Uint8Max + 1

\* Nothing ran: effects are the calls whose changes last.
Nothing == [succeeded |-> FALSE, expired |-> FALSE, done |-> 0, effects |-> <<>>]

\* Variant: what ran before the failure is not rolled back.
handleAtomicSubroutine_kept(s, ok) ==
  LET k == FirstFailure(s.functions, ok)
  IN {[succeeded |-> k > Len(s.functions), expired |-> FALSE,
       done |-> IF k > Len(s.functions) THEN k - 1 ELSE 0,
       effects |-> SubSeq(s.functions, 1, k - 1)]}

\* All or nothing: an inner call reverts when anything fails, a mismatch of
\* lengths and an overflow of the counter included.
handleAtomicSubroutine(s, ok) ==
  LET n == Len(s.functions)
  IN {IF n = Len(s.messages) /\ FirstFailure(s.functions, ok) = n + 1 /\ n <= Uint8Max
      THEN [succeeded |-> TRUE, expired |-> FALSE, done |-> n, effects |-> s.functions]
      ELSE Nothing}

\* One by one up to the first failure; here a mismatch or an overflow reverts
\* the whole transaction.
handleNonAtomicSubroutine(s, ok) ==
  LET n == Len(s.functions)
      k == FirstFailure(s.functions, ok)
  IN IF n # Len(s.messages) \/ (k <= n /\ ~Reaches(k)) \/ (k > n /\ n > Uint8Max)
     THEN {}
     ELSE {[succeeded |-> k > n, expired |-> FALSE, done |-> k - 1,
            effects |-> SubSeq(s.functions, 1, k - 1)]}

\* The outcome of a subroutine: a set of one, or empty when it reverts.
handleSendMsgs(s, ok) ==
  IF paused THEN {}
  ELSE IF s.expired THEN {[Nothing EXCEPT !.expired = TRUE]}
  ELSE IF s.atomic THEN handleAtomicSubroutine(s, ok)
  ELSE handleNonAtomicSubroutine(s, ok)

buildCallback(out) ==
  [result |-> IF out.succeeded THEN "Success"
              ELSE IF out.expired THEN "Expired"
              ELSE IF out.done = 0 THEN "Rejected" ELSE "PartiallyExecuted",
   executedCount |-> out.done]

\* Which calls succeed is up to the libraries.
Outcomes(s) == [1 .. Len(s.functions) -> BOOLEAN]

ProcessorInit ==
  /\ paused = FALSE
  /\ authorizedAddresses = {Authorization}
  /\ mail = [i \in MailId |-> NoMessage]
  /\ dispatched = [i \in MailId |-> <<>>]
  /\ ran = [i \in MailId |-> <<>>]

handlePause == paused' = TRUE
handleResume == paused' = FALSE

\* handle: only the mailbox, for messages of the authorization contract of the
\* main domain.  The mailbox delivers a message once; one whose handling
\* reverts (InsertMsgs and EvictMsgs always do) can be tried again.
handleControl(i) ==
  /\ mail[i] = NoMessage
  /\ \/ handlePause
     \/ handleResume
  /\ mail' = [mail EXCEPT ![i] = Control]
  /\ UNCHANGED <<authorizedAddresses, dispatched, ran>>

\* The callback of a Hyperlane message goes back through the mailbox.
sendCallback(i, callback) ==
  dispatched' = [dispatched EXCEPT ![i] = Append(@, callback)]

handle(i, s, ok) ==
  /\ mail[i] = NoMessage
  /\ \E out \in handleSendMsgs(s, ok) :
       /\ sendCallback(i, buildCallback(out))
       /\ ran' = [ran EXCEPT ![i] = out.effects]
  /\ mail' = [mail EXCEPT ![i] = s]
  /\ UNCHANGED <<paused, authorizedAddresses>>

\* execute called by an account without code: it is told nothing.
executeDirectly ==
  /\ Eoa \in authorizedAddresses
  /\ \/ handlePause
     \/ handleResume
     \/ ~paused /\ UNCHANGED paused
  /\ UNCHANGED <<authorizedAddresses, mail, dispatched, ran>>

addAuthorizedAddress(a) ==
  /\ a \notin authorizedAddresses
  /\ authorizedAddresses' = authorizedAddresses \cup {a}
  /\ UNCHANGED <<paused, mail, dispatched, ran>>

removeAuthorizedAddress(a) ==
  /\ a \in authorizedAddresses
  /\ authorizedAddresses' = authorizedAddresses \ {a}
  /\ UNCHANGED <<paused, mail, dispatched, ran>>

Delivery ==
  \/ \E i \in MailId : handleControl(i)
  \/ \E i \in MailId, s \in Subroutine : \E ok \in Outcomes(s) : handle(i, s, ok)

DirectStep ==
  \/ executeDirectly
  \/ \E a \in {Authorization, Eoa} : addAuthorizedAddress(a) \/ removeAuthorizedAddress(a)

ProcessorNext == Delivery \/ DirectStep

-----------------------------------------------------------------------------
\* The callback tells what the functions did: s was asked, done is what ran.
Truthful(s, done, callback) ==
  /\ done = SubSeq(s.functions, 1, callback.executedCount)
  /\ callback.result = "Success" => ~s.expired /\ done = s.functions
  /\ done = s.functions /\ done # <<>> => callback.result = "Success"
  /\ callback.result = "PartiallyExecuted" => ~s.atomic /\ done # <<>>
  /\ callback.result \in {"Rejected", "Expired"} => done = <<>>
=============================================================================
