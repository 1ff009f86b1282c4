----------------------------- MODULE Selection ------------------------------
(* What the loops of the code that skip items make of a list. *)
EXTENDS Naturals, Sequences

\* The items of the list s that are in S, in their order.
Selected(s, S) ==
    LET upTo[n \in 0 .. Len(s)] == IF n = 0 THEN <<>>
                                   ELSE IF s[n] \in S THEN Append(upTo[n - 1], s[n])
                                   ELSE upTo[n - 1]
    IN  upTo[Len(s)]
=============================================================================
