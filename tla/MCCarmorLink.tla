--------------------------- MODULE MCCarmorLink ---------------------------
(* Small instances of CarmorLink. *)
EXTENDS CarmorLink, TLC

CONSTANTS t1, t2, none

MCThreads == {t1, t2}
MCPages4 == 0 .. 3
MCPages5 == 0 .. 4
MCFrames4 == 0 .. 3
MCOneOffset == {0}
MCZero == {0}
MCBits == {0, 1}
MCAll == [page : Pages, off : Offsets, dirty : BOOLEAN]
(* Page 0 is stored to; the others are only loaded, and make it fall out of *)
(* the TLBs and of the page cache.                                         *)
MCStores0 == {r \in MCAll : r.dirty => r.page = 0}
MCLoads == [page : Pages, off : Offsets, dirty : {FALSE}]

(* Frames are interchangeable: a state is told apart by the pages its      *)
(* frames hold, and a translation by the page of the frame it leads to.    *)
PageOf(f) == IF f \in Frames THEN cache[f] ELSE f
FramesView ==
    <<[t \in Threads |-> [i \in Slots |->
          <<tlb[t][i].bs, PageOf(tlb[t][i].epc), tlb[t][i].dirty>>]],
      [t \in Threads |-> IF pc[t] \in {"drop", "insert", "linked"}
                           THEN PageOf(res[t]) ELSE NoPage],
      pc, req, val, ref, dirty, backing,
      {<<cache[f], data[f]>> : f \in Frames}>>

ThreadSymmetry == Permutations(MCThreads)
===========================================================================
