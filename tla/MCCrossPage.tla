---------------------------- MODULE MCCrossPage ----------------------------
(* Two threads whose accesses share pages, and one byte. *)
EXTENDS CrossPage

CONSTANTS t1, t2, none

MCThreads == {t1, t2}
MCPages == 0 .. 3
MCFrames == 0 .. 3
MCOffsets == {0, 1}
MCValues == 0 .. 15
MCRequests == [page : Pages, off : Offsets, dirty : BOOLEAN]

To(addr, size, how) == [addr : {addr}, size : {size}, dirty : how]
OnlyLoads == {FALSE}
MCProgram ==
    [t \in MCThreads |->
       IF t = t1 THEN To(1, 2, BOOLEAN) \cup To(1, 1, OnlyLoads) \cup To(4, 1, OnlyLoads)
                 ELSE To(0, 1, BOOLEAN) \cup To(2, 1, BOOLEAN) \cup To(6, 1, BOOLEAN)]
MCMaxAccesses == [t \in MCThreads |-> IF t = t1 THEN 3 ELSE 2]

PageOf(f) == IF f \in Frames THEN cache[f] ELSE f
CrossView ==
    <<[t \in Threads |-> [i \in Slots |->
          <<tlb[t][i].bs, PageOf(tlb[t][i].epc), tlb[t][i].dirty>>]],
      [t \in Threads |-> IF pc[t] \in {"drop", "insert", "linked"}
                           THEN PageOf(res[t]) ELSE NoPage],
      [t \in Threads |-> [i \in DOMAIN at[t] |->
          <<PageOf(at[t][i].f), at[t][i].o>>]],
      pc, req, ref, dirty, backing, {<<cache[f], data[f]>> : f \in Frames},
      stage, acc, buf, pending, back, seen, flat, slipped, made>>
============================================================================
