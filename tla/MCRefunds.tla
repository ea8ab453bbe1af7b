----------------------------- MODULE MCRefunds -----------------------------
EXTENDS Refunds

CONSTANTS o1, t1, t2, h1, h2

\* An order of two tickets at different prices.
OneOrder == [t \in Tickets |-> o1]
TwoPrices == [t \in Tickets |-> IF t = t1 THEN 60 ELSE 40]
RoundFace == [o \in Orders |-> 100]
TenPerCent == [o \in Orders |-> 10]

\* Two tickets at one price, and a coupon that leaves an odd number of cents.
EvenPrices == [t \in Tickets |-> 50]
OddFace == [o \in Orders |-> 95]

\* People ask for t1 or for all; t2 enters.
Some == {{}, {t1}}

\* One thing goes wrong at a time.
AnyFault == {{}, {"effects"}, {"lost"}, {"crash"}, {"logged"}}
=============================================================================
