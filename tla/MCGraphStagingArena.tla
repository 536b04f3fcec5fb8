------------------------- MODULE MCGraphStagingArena ------------------------
(* Two ranks, two planned descriptors (1 and 2 tokens) and one outside the  *)
(* plan (3), two calls per forward, three captures, and up to three faults: *)
(* one to fail a capture, two for a rank to miss all calls of the next. A   *)
(* stray input has no planned size, but slots as large as descriptor 2's.   *)
EXTENDS GraphStagingArena

MCCapturePlans ==
    { <<<<1>>, <<2>>, <<1>>>>,          \* one size per capture, then a repeat
      <<<<1>>, <<1>>, <<2>>>>,          \* a retry of the first size
      <<<<1>>, <<1>>, <<1>>>>,          \* and another after that
      <<<<2, 1>>, <<3>>, <<2>>>> }      \* two sizes in one capture
=============================================================================
