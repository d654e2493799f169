---------------------------- MODULE MCProcessor ----------------------------
(***************************************************************************)
(* Small instances of the processor for TLC: one on the main domain, and   *)
(* one behind Polytone with shorter batches.                               *)
(***************************************************************************)
EXTENDS Processor, TLC

VARIABLE domain          \* the processor a behavior is of

Times(n) == [times |-> n, interval |-> 1]

Fn(logic, confirm) == [retry |-> logic, confirm |-> confirm]

Atomic(logic) == [atomic |-> TRUE, retry |-> logic, functions |-> <<Fn(None, FALSE), Fn(None, FALSE)>>]

NonAtomic(fns) == [atomic |-> FALSE, retry |-> None, functions |-> fns]

\* An atomic batch that is retried and one that is not, functions that are
\* confirmed or not and retried once, never or for ever.
MCSubroutine ==
  {Atomic(Times(1)), Atomic(None),
   NonAtomic(<<Fn(Times(1), TRUE), Fn(Times(1), FALSE)>>),
   NonAtomic(<<Fn(None, FALSE), Fn(Times(Indefinitely), TRUE)>>)}

\* Two functions, neither retried.
MCUnretried == {NonAtomic(<<Fn(None, FALSE), Fn(None, TRUE)>>)}

\* One function, retried once.
MCShort == {NonAtomic(<<Fn(Times(1), FALSE)>>)}

\* Two functions, each retried once.
MCRetried == {NonAtomic(<<Fn(Times(1), FALSE), Fn(Times(1), FALSE)>>)}

\* -1: the batch has expired when it arrives.
MCLifetime == {None, 1, -1}

MCLate == {None, -1}

MCSymmetry == Permutations(Id)

External ==
  INSTANCE Processor WITH ProcessorDomain <- "External", Subroutine <- MCShort, Lifetime <- MCLate

\* A behavior is of one of them.
Of(main, external) == (domain = "Main" /\ main) \/ (domain = "External" /\ external)
BothVars == <<domain, vars>>
BothFairness ==
  /\ WF_vars(Of(process_tick, External!process_tick))
  /\ \A id \in Id :
       WF_vars(\E right \in BOOLEAN :
                 Of(process_callback(id, right), External!process_callback(id, right)))
  /\ WF_vars(Of(pass_time, External!pass_time))
BothSpec ==
  Of(Init, External!Init) /\ [][UNCHANGED domain /\ Of(Next, External!Next)]_BothVars /\ BothFairness

\* The one on the main domain alone.
MainSpec == domain = "Main" /\ Init /\ [][UNCHANGED domain /\ Next]_BothVars
=============================================================================
