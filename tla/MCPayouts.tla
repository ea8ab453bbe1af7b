----------------------------- MODULE MCPayouts -----------------------------
EXTENDS Payouts

CONSTANTS o1, o2

\* Two orders whose fees round: ten percent of 45 and of 105 cents.
TwoFaces == [o \in Orders |-> IF o = o1 THEN 45 ELSE 105]
FeeOfThree == [o \in Orders |-> 3]
ProducerPays == {<<"event", "producer">>}
=============================================================================
