------------------------------- MODULE Quotients -------------------------------
(* Quotients of whole numbers as pairs <<numerator, positive denominator>>, compared by   *)
(* cross multiplication, and the median the statistics share (_median in                  *)
(* backend/app/services/insight_engine.py).                                              *)
EXTENDS Integers, FiniteSets

Less(x, y) == x[1] * y[2] < y[1] * x[2]
AtLeast(x, y) == ~Less(x, y)
Plus(x, y) == <<x[1] * y[2] + y[1] * x[2], x[2] * y[2]>>
Over(x, y) == <<x[1] * y[2], x[2] * y[1]>>       \* x / y, for y above 0

\* The median of Value over S: the middle one, or the mean of the two middle ones. Equal
\* values are told apart by the elements, which are numbers.
Median(S, Value(_)) ==
    LET n == Cardinality(S)
        below(p) == {q \in S : Less(Value(q), Value(p)) \/ (~Less(Value(p), Value(q)) /\ q < p)}
        at(k) == Value(CHOOSE p \in S : Cardinality(below(p)) = k)
        low == at(n \div 2 - 1)
        high == at(n \div 2)
    IN  IF n = 0 THEN <<0, 1>>
        ELSE IF n % 2 = 1 THEN at(n \div 2)
        ELSE Over(Plus(low, high), <<2, 1>>)
================================================================================
