-------------------------- MODULE MCAuthorization --------------------------
EXTENDS Authorization, TLC

CONSTANTS p, e, z, y, u

\* p: behind Polytone, paid; e: EVM, paid; z and y: ZK authorizations of one
\* registry, z paid, y on the main domain for owners of a token.
MCMode == [l \in Label |-> IF l = y THEN "WithoutLimit" ELSE "WithLimit"]

MCRegistry == [l \in Label |-> 1]

MCTarget == [l \in Label |-> CASE l = p -> {"Polytone"}
                               [] l = e -> {"Evm"}
                               [] l = y -> {"Main"}
                               [] l = z -> {"Main", "Polytone"}]
=============================================================================
