---------------------------- MODULE MCAttSession ----------------------------
\* Model-checking instance of AttSession.
EXTENDS AttSession

Char(n, notify, descs) == [len |-> n, notify |-> notify, descs |-> descs, cccs |-> 0]

\* A default service with the Service Changed characteristic.
MCDefault == <<[len |-> 2, chars |-> <<Char(2, TRUE, <<>>)>>]>>

\* A 128-bit service without characteristics, one that mixes the lengths, and
\* one whose entries take several responses at the smallest MTU.
MCServices ==
  {[len |-> 16, chars |-> <<>>],
   [len |-> 2, chars |-> <<Char(2, TRUE, <<16>>), Char(16, FALSE, <<2>>)>>],
   [len |-> 2, chars |-> <<Char(2, FALSE, <<2>>), Char(2, FALSE, <<>>),
                           Char(2, FALSE, <<>>), Char(2, FALSE, <<2, 16>>)>>]}

\* Parts that continue one another, one that repeats an offset, an empty one, a
\* second attribute and one without a write handler.
Part(a, o, n) == [a |-> a, off |-> o, len |-> n]

MCParts == {Part("w1", 0, 2), Part("w1", 2, 2), Part("w1", 2, 0), Part("w2", 2, 1), Part("ro", 0, 2)}

MCPlans == {{"discover"}, {"long"}, {"write"}}

=============================================================================
