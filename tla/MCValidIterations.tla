------------------------ MODULE MCValidIterations ------------------------
(* Small instances of ValidIterations. *)
EXTENDS ValidIterations

(* Elements that do not overlap going up, and any element going down. *)
MCLoops ==
    {l \in [step : (-9 .. 9) \ {0}, size : 1 .. 4] : l.step > 0 => l.size <= l.step}
(* Sliding windows: each element overlaps the next. *)
MCWindows == {l \in [step : 1 .. 3, size : 1 .. 4] : l.size > l.step}
MCStarts == 0 .. 40
==========================================================================
