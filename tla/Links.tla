------------------------------- MODULE Links -------------------------------
(* Cells linked by an index to the next one, as the free list of a pool    *)
(* and the intrusive lists of the book are.                                *)
EXTENDS Integers, Sequences

(* The cells read from first on, along next, to nil; cut off after most.   *)
Walk(first, next, nil, most) ==
    LET upTo[k \in 0 .. most] ==
            IF k = 0 THEN <<>>
            ELSE LET walked == upTo[k - 1]
                     cell == IF walked = <<>> THEN first ELSE next[walked[Len(walked)]]
                 IN  IF cell = nil THEN walked ELSE Append(walked, cell)
    IN  upTo[most]
=============================================================================
