-------------------------------- MODULE Sums --------------------------------
\* What sum() makes of a list of numbers, here and in SQL.
EXTENDS Integers, Sequences

SumOf(numbers) ==
    LET Sum[i \in 0 .. Len(numbers)] == IF i = 0 THEN 0 ELSE Sum[i - 1] + numbers[i]
    IN Sum[Len(numbers)]
=============================================================================
