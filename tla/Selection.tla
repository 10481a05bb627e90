----------------------------- MODULE Selection ------------------------------
(* std::copy_if, as the passes and the analyses use it.                      *)
EXTENDS Naturals, Sequences

(* The elements of s that are in T, in their order.                          *)
Selected(s, T) ==
    LET upTo[k \in 0 .. Len(s)] ==
          IF k = 0 THEN << >>
          ELSE IF s[k] \in T THEN Append(upTo[k - 1], s[k]) ELSE upTo[k - 1]
    IN  upTo[Len(s)]
=============================================================================
