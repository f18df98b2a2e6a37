--------------------------- MODULE MCFactValidity ---------------------------
(* FactValidity for TLC.  Every window that ends after it begins, one that *)
(* does not, and one that has only an end.                                 *)
EXTENDS FactValidity

MCWindow ==
    {w \in (0..MaxTime) \X (1..MaxTime) : w[1] < w[2]}
        \cup {<<t, Never>> : t \in Date} \cup {<<1, 0>>, <<Never, 1>>}
=============================================================================
