------------------------- MODULE CarmorLink_proofs -------------------------
(***************************************************************************)
(* Proofs about CarmorLink for every number of threads, pages, frames and  *)
(* TLB slots.  They assume what the runtime assumes of its environment:    *)
(* every thread ran __carmor_initialize_template, and the lstore computes  *)
(* page indices in the width the runtime does (lines 452-453).             *)
(***************************************************************************)
EXTENDS CarmorLink, FiniteSetTheorems, TLAPS

---------------------------------------------------------------------------
(* Index arithmetic *)

(* The narrowing conversions keep the indices in use, and an empty TLB     *)
(* entry, stored as -1 and compared as unsigned, matches no page in use.   *)
LEMMA Conversions ==
  /\ \A p \in Pages : p \in Int /\ p >= 0 /\ p < IndexMod
  /\ \A p \in Pages : AsUnsigned(p) = p /\ AsSigned(p) = p
  /\ AsUnsigned(NoPage) \notin Pages
  /\ \A f \in Frames : EpcIndex(f) = f
  /\ NoPage \notin Pages
<1> DEFINE half == IndexMod \div 2
<1>1. IndexMod \in Nat \ {0} /\ EpcMod \in Nat \ {0}
  BY ConstantsOK
<1>2. half \in Nat /\ half <= IndexMod /\ 2 * half <= IndexMod
  BY <1>1
<1>3. \A p \in Pages : p \in Nat /\ p < half
  <2>1. Pages \subseteq 0 .. (half - 1)
    BY IndicesFit
  <2> QED
    BY <2>1, <1>2
<1>4. \A p \in Pages : p \in Int /\ p >= 0 /\ p < IndexMod
  BY <1>1, <1>2, <1>3
<1>5. \A p \in Pages : AsUnsigned(p) = p
  BY <1>1, <1>4 DEF AsUnsigned
<1>6. \A p \in Pages : AsSigned(p) = p
  BY <1>3 DEF AsSigned
<1>7. AsUnsigned(NoPage) \notin Pages
  <2>1. AsUnsigned(NoPage) = IndexMod - 1
    BY <1>1 DEF AsUnsigned, NoPage
  <2> QED
    BY <2>1, <1>1, <1>2, <1>3
<1>8. \A f \in Frames : EpcIndex(f) = f
  BY <1>1, IndicesFit DEF EpcIndex
<1>9. NoPage \notin Pages
  BY <1>4 DEF NoPage
<1> QED
  BY <1>4, <1>5, <1>6, <1>7, <1>8, <1>9

(* The pointer handed to notify_tlb_dropped: the 32-bit difference wraps   *)
(* when the removed page lies above the linked one, and an lstore that     *)
(* keeps 32 bits of page index undoes the wrap.                            *)
LEMMA RemovedPageNamed ==
  ASSUME LstoreMod = IndexMod, NEW b \in Pages, NEW r \in Pages
  PROVE  RemovedPtrPage(b, r) = r
<1>1. /\ IndexMod \in Nat \ {0}
      /\ b \in Int /\ b >= 0 /\ b < IndexMod
      /\ r \in Int /\ r >= 0 /\ r < IndexMod
  BY Conversions, ConstantsOK
<1>2. CASE r <= b
  <2>1. AsUnsigned(b - r) = b - r
    BY <1>1, <1>2 DEF AsUnsigned
  <2> QED
    BY <1>1, <2>1 DEF RemovedPtrPage
<1>3. CASE r > b
  <2>1. AsUnsigned(b - r) = b - r + IndexMod
    BY <1>1, <1>3 DEF AsUnsigned
  <2>2. (r - IndexMod) % IndexMod = r
    BY <1>1
  <2>3. b - (b - r + IndexMod) = r - IndexMod
    BY <1>1
  <2> QED
    BY <2>1, <2>2, <2>3 DEF RemovedPtrPage
<1> QED
  BY <1>1, <1>2, <1>3

(* An lstore that keeps more than 32 bits of page index is told a page     *)
(* that is not the removed one whenever the removed page lies above the    *)
(* page being linked.                                                      *)
THEOREM WideLstoreMisled ==
  ASSUME LstoreMod >= 2 * IndexMod,
         NEW b \in Pages, NEW r \in Pages, r > b
  PROVE  RemovedPtrPage(b, r) # r
<1>1. /\ IndexMod \in Nat \ {0} /\ LstoreMod \in Nat
      /\ b \in Int /\ b >= 0 /\ b < IndexMod
      /\ r \in Int /\ r >= 0 /\ r < IndexMod
  BY Conversions, ConstantsOK
<1>2. AsUnsigned(b - r) = b - r + IndexMod
  BY <1>1 DEF AsUnsigned
<1>3. b - (b - r + IndexMod) = r - IndexMod
  BY <1>1
<1>4. (r - IndexMod) % LstoreMod = r - IndexMod + LstoreMod
  BY <1>1
<1> QED
  BY <1>1, <1>2, <1>3, <1>4 DEF RemovedPtrPage

---------------------------------------------------------------------------
(* Facts about TLBs and the holders of a page *)

(* In a TLB without duplicates the lookup has at most one slot to stop at, *)
(* and stops there exactly when the page is in the TLB.                    *)
LEMMA LookupFinds ==
  ASSUME LinkInv, NEW t \in Threads, pc[t] # "new", NEW p \in Pages
  PROVE  /\ \A i \in Slots : i \in Hits(t, p) <=> tlb[t][i].bs = p
         /\ Hits(t, p) # {} => /\ FirstHit(t, p) \in Slots
                               /\ tlb[t][FirstHit(t, p)].bs = p
<1>1. \A i \in Slots : tlb[t][i].bs \in Pages \cup {NoPage}
  BY DEF LinkInv, EntriesUsable
<1>2. \A i \in Slots : i \in Hits(t, p) <=> tlb[t][i].bs = p
  BY <1>1, Conversions DEF Hits
<1>3. ASSUME Hits(t, p) # {}
      PROVE  FirstHit(t, p) \in Hits(t, p)
  <2>1. PICK i \in Hits(t, p) : TRUE
    BY <1>3
  <2>2. \A j \in Hits(t, p) : j = i
    <3>1. Hits(t, p) \subseteq Slots
      BY DEF Hits
    <3>2. \A j \in Hits(t, p) : tlb[t][j].bs = tlb[t][i].bs /\ tlb[t][j].bs # NoPage
      BY <1>2, <2>1, <3>1, Conversions
    <3> QED
      BY <2>1, <3>1, <3>2 DEF LinkInv, NoDuplicates
  <2>3. i \in Int
    BY <2>1 DEF Hits, Slots
  <2>4. \A j \in Hits(t, p) : i <= j
    BY <2>2, <2>3
  <2> QED
    BY <2>1, <2>4 DEF FirstHit
<1> QED
  BY <1>2, <1>3 DEF Hits

LEMMA HoldersFinite ==
  \A p : Holders(p) \subseteq Threads /\ IsFiniteSet(Holders(p))
BY ConstantsOK, FS_Subset DEF Holders

(* A page with no references is in no TLB. *)
LEMMA UnreferencedUnheld ==
  ASSUME LinkInv, NEW p \in Pages, ref[p] = 0
  PROVE  Holders(p) = {}
<1>1. Cardinality(Holders(p)) = 0
  BY DEF LinkInv, RefMatches
<1> QED
  BY <1>1, HoldersFinite, FS_EmptySet

(* An evictable frame is neither translated to by a TLB nor in flight. *)
LEMMA LoadableUnused ==
  ASSUME LinkInv, NEW f \in Frames, Loadable(f)
  PROVE  /\ \A t \in Threads : \A i \in Counted(t) : tlb[t][i].epc # f
         /\ \A t \in Threads : pc[t] \in {"drop", "insert"} => res[t] # f
<1>1. cache[f] \in Pages \cup {NoPage}
  BY DEF LinkInv, TypeOK
<1>2. ASSUME NEW t \in Threads, NEW i \in Counted(t), tlb[t][i].epc = f
      PROVE  FALSE
  <2>1. tlb[t][i].bs = cache[f]
    BY <1>2 DEF LinkInv, TlbCoherent
  <2>2. tlb[t][i].bs \in Pages
    BY Conversions, <1>2 DEF LinkInv, EntriesUsable, Counted, NoPage
  <2>3. t \in Holders(cache[f])
    BY <1>2, <2>1 DEF Holders
  <2> QED
    BY <2>1, <2>2, <2>3, UnreferencedUnheld, Conversions DEF Loadable
<1>3. ASSUME NEW t \in Threads, pc[t] \in {"drop", "insert"}, res[t] = f
      PROVE  FALSE
  <2>1. cache[f] = req[t].page
    BY <1>3 DEF LinkInv, InFlightStays
  <2>2. req[t].page \in Pages
    <3>1. req[t] # NoReq /\ req[t] \in Accesses \cup {NoReq}
      BY <1>3 DEF LinkInv, TypeOK, ReqPending
    <3> QED
      BY <3>1, AccessesOK
  <2>3. Held(f) /\ cache[f] # NoPage
    BY <1>3, <2>1, <2>2, Conversions DEF Held
  <2> QED
    BY <2>3 DEF Loadable
<1> QED
  BY <1>2, <1>3

(* A linked thread's entry is counted. *)
LEMMA LinkedCounted ==
  ASSUME LinkInv, NEW t \in Threads, pc[t] = "linked"
  PROVE  \E i \in Counted(t) : /\ tlb[t][i].bs = req[t].page
                               /\ tlb[t][i].epc = res[t]
                               /\ res[t] \in Frames
                               /\ cache[res[t]] = req[t].page
                               /\ req[t].dirty => tlb[t][i].dirty
<1>1. PICK i \in Slots : /\ tlb[t][i].bs = req[t].page
                         /\ tlb[t][i].epc = res[t]
                         /\ req[t].dirty => tlb[t][i].dirty
  BY DEF LinkInv, LinkedEntry
<1>2. req[t] \in Accesses /\ req[t].page \in Pages
  BY AccessesOK DEF LinkInv, TypeOK, ReqPending
<1>3. i \in Counted(t)
  BY <1>1, <1>2, Conversions DEF Counted
<1>4. cache[res[t]] = req[t].page
  BY <1>1, <1>3 DEF LinkInv, TlbCoherent
<1>5. res[t] \in Frames
  BY <1>1, <1>2, Conversions DEF LinkInv, EntriesUsable
<1> QED
  BY <1>1, <1>3, <1>4, <1>5

---------------------------------------------------------------------------
(* The inductive invariant, one lemma per action *)

LEMMA InitInv ==
  ASSUME InitThreads = Threads, Init
  PROVE  LinkInv
<1> USE DEF Init
<1>1. /\ TLBSize \in Nat \ {0} /\ EpcMod \in Nat \ {0}
      /\ \A t \in Threads : pc[t] = "new"
  BY ConstantsOK
<1>2. \A t \in Threads : Counted(t) = {}
  BY <1>1 DEF Counted
<1>3. \A p : Holders(p) = {}
  BY <1>2 DEF Holders
<1>4. TypeOK
  BY <1>1, ValuesOK DEF TypeOK, ZeroEntry, Entry, Locations, NoReq
<1>5. ReqPending
  BY <1>1 DEF ReqPending
<1>6. EntriesUsable /\ NoDuplicates
  BY <1>1 DEF EntriesUsable, NoDuplicates
<1>7. MissStaysMissed /\ InFlightStays /\ LinkedEntry
  BY <1>1 DEF MissStaysMissed, InFlightStays, LinkedEntry
<1>8. TlbCoherent
  BY <1>2 DEF TlbCoherent
<1>9. CacheInjective /\ NothingLost
  BY DEF CacheInjective, NothingLost
<1>10. RefMatches
  BY <1>3, FS_EmptySet DEF RefMatches
<1> QED
  BY <1>4, <1>5, <1>6, <1>7, <1>8, <1>9, <1>10 DEF LinkInv

LEMMA InitializeInv ==
  ASSUME LinkInv, NEW t \in Threads, Initialize(t)
  PROVE  LinkInv'
<1> USE DEF Initialize, lstoreVars
<1>1. /\ TLBSize \in Nat \ {0} /\ EpcMod \in Nat \ {0}
      /\ TypeOK
  BY ConstantsOK DEF LinkInv
<1>2. /\ tlb' \in [Threads -> [Slots -> [bs : Pages \cup {NoPage, 0},
                                       epc : 0 .. (EpcMod - 1), dirty : BOOLEAN]]]
      /\ \A i \in Slots : tlb'[t][i].bs = NoPage
      /\ \A u \in Threads : u # t => tlb'[u] = tlb[u] /\ pc'[u] = pc[u]
      /\ pc'[t] = "idle" /\ pc[t] = "new"
  BY <1>1 DEF TypeOK, EmptyEntry, Entry, NoPage
<1>3. \A u \in Threads : Counted(u)' = Counted(u)
  BY <1>2 DEF Counted, NoPage
<1>4. \A u \in Threads : u # t => Counted(u)' = Counted(u) /\ tlb'[u] = tlb[u]
  BY <1>2, <1>3
<1>5. Counted(t) = {}
  BY <1>2 DEF Counted
<1>6. \A p : Holders(p)' = Holders(p)
  BY <1>3, <1>4, <1>5 DEF Holders
<1>7. TypeOK'
  BY <1>1, <1>2 DEF TypeOK, Locations
<1>8. ReqPending'
  BY <1>2 DEF LinkInv, ReqPending
<1>9. EntriesUsable' /\ NoDuplicates'
  BY <1>2 DEF LinkInv, EntriesUsable, NoDuplicates
<1>10. MissStaysMissed' /\ InFlightStays' /\ LinkedEntry'
  BY <1>2 DEF LinkInv, MissStaysMissed, InFlightStays, LinkedEntry
<1>11. TlbCoherent'
  BY <1>3, <1>4, <1>5 DEF LinkInv, TlbCoherent
<1>12. CacheInjective'
  BY DEF LinkInv, CacheInjective
<1>13. RefMatches'
  BY <1>6 DEF LinkInv, RefMatches
<1>14. NothingLost'
  BY <1>3, <1>4, <1>5 DEF LinkInv, NothingLost
<1> QED
  BY <1>7, <1>8, <1>9, <1>10, <1>11, <1>12, <1>13, <1>14 DEF LinkInv

LEMMA LinkHitInv ==
  ASSUME LinkInv, NEW t \in Threads, NEW r \in Accesses, LinkHit(t, r)
  PROVE  LinkInv'
<1> DEFINE h == FirstHit(t, r.page)
<1> USE DEF lstoreVars
<1>1. r.page \in Pages /\ r.dirty \in BOOLEAN /\ r # NoReq
  BY AccessesOK, Conversions DEF NoReq
<1>2. h \in Slots /\ tlb[t][h].bs = r.page /\ pc[t] = "idle"
  BY <1>1, LookupFinds DEF LinkHit
<1>3. /\ TypeOK
      /\ tlb' = [tlb EXCEPT ![t][h].dirty = tlb[t][h].dirty \/ r.dirty]
      /\ res' = [res EXCEPT ![t] = tlb[t][h].epc]
      /\ pc' = [pc EXCEPT ![t] = "linked"]
      /\ req' = [req EXCEPT ![t] = r]
      /\ val' = [val EXCEPT ![t] = NoValue]
      /\ UNCHANGED lstoreVars
  BY DEF LinkInv, LinkHit
<1>4. TypeOK'
  <2> DEFINE E == [bs : Pages \cup {NoPage, 0},
                   epc : 0 .. (EpcMod - 1), dirty : BOOLEAN]
             e == [tlb[t][h] EXCEPT !.dirty = tlb[t][h].dirty \/ r.dirty]
  <2>1. tlb \in [Threads -> [Slots -> E]] /\ tlb[t][h] \in E
    BY <1>2, <1>3 DEF TypeOK
  <2>2. e \in E
    BY <2>1
  <2>3. tlb' = [tlb EXCEPT ![t] = [tlb[t] EXCEPT ![h] = e]]
    BY <1>2, <1>3, <2>1
  <2> HIDE DEF E, e
  <2>4. tlb' \in [Threads -> [Slots -> E]]
    BY <1>2, <2>1, <2>2, <2>3
  <2>5. res' \in [Threads -> 0 .. (EpcMod - 1)]
    BY <1>2, <1>3 DEF TypeOK
  <2> QED
    BY <1>1, <1>3, <2>4, <2>5 DEF TypeOK, Locations, E
<1>5. /\ \A u \in Threads : \A i \in Slots :
            /\ tlb'[u][i].bs = tlb[u][i].bs
            /\ tlb'[u][i].epc = tlb[u][i].epc
            /\ tlb[u][i].dirty => tlb'[u][i].dirty
      /\ r.dirty => tlb'[t][h].dirty
  <2>1. ASSUME NEW u \in Threads, NEW i \in Slots
        PROVE  tlb'[u][i] = IF u = t /\ i = h
                              THEN [tlb[t][h] EXCEPT !.dirty = tlb[t][h].dirty \/ r.dirty]
                              ELSE tlb[u][i]
    BY <1>2, <1>3 DEF TypeOK
  <2>2. \A u \in Threads : \A i \in Slots :
          tlb[u][i] \in [bs : Pages \cup {NoPage, 0},
                        epc : 0 .. (EpcMod - 1), dirty : BOOLEAN]
    BY <1>3 DEF TypeOK
  <2>3. /\ tlb'[t][h].bs = tlb[t][h].bs
        /\ tlb'[t][h].epc = tlb[t][h].epc
        /\ tlb'[t][h].dirty = (tlb[t][h].dirty \/ r.dirty)
    BY <1>2, <2>1, <2>2
  <2> QED
    BY <1>2, <2>1, <2>3
<1>6. /\ \A u \in Threads : u # t => /\ pc'[u] = pc[u] /\ req'[u] = req[u]
                                      /\ res'[u] = res[u]
      /\ pc'[t] = "linked" /\ req'[t] = r /\ res'[t] = tlb[t][h].epc
  BY <1>3 DEF TypeOK
<1>7. \A u \in Threads : Counted(u)' = Counted(u)
  BY <1>2, <1>5, <1>6 DEF Counted
<1>8. \A p : Holders(p)' = Holders(p)
  <2>1. \A u \in Threads : Counted(u) \subseteq Slots
    BY DEF Counted
  <2> QED
    BY <1>5, <1>7, <2>1 DEF Holders
<1>9. ReqPending'
  BY <1>1, <1>2, <1>6 DEF LinkInv, ReqPending
<1>10. EntriesUsable' /\ NoDuplicates'
  BY <1>2, <1>5, <1>6 DEF LinkInv, EntriesUsable, NoDuplicates
<1>11. MissStaysMissed'
  BY <1>5, <1>6 DEF LinkInv, MissStaysMissed
<1>12. InFlightStays'
  BY <1>3, <1>6 DEF LinkInv, InFlightStays
<1>13. LinkedEntry'
  BY <1>2, <1>5, <1>6 DEF LinkInv, LinkedEntry
<1>14. TlbCoherent'
  BY <1>3, <1>5, <1>7 DEF LinkInv, TlbCoherent, Counted
<1>15. CacheInjective'
  BY <1>3 DEF LinkInv, CacheInjective
<1>16. RefMatches'
  BY <1>3, <1>8 DEF LinkInv, RefMatches
<1>17. NothingLost'
  <2>1. \A u \in Threads : Counted(u) \subseteq Slots
    BY DEF Counted
  <2> QED
    BY <1>3, <1>5, <1>7, <2>1 DEF LinkInv, NothingLost
<1> QED
  BY <1>4, <1>9, <1>10, <1>11, <1>12, <1>13, <1>14, <1>15, <1>16, <1>17
     DEF LinkInv

LEMMA LinkMissInv ==
  ASSUME LinkInv, NEW t \in Threads, NEW r \in Accesses, LinkMiss(t, r)
  PROVE  LinkInv'
<1> USE DEF lstoreVars
<1>1. r.page \in Pages /\ r # NoReq
  BY AccessesOK, Conversions DEF NoReq
<1>2. /\ TypeOK
      /\ pc[t] = "idle" /\ Hits(t, r.page) = {}
      /\ pc' = [pc EXCEPT ![t] = "fault"]
      /\ req' = [req EXCEPT ![t] = r]
      /\ val' = [val EXCEPT ![t] = NoValue]
      /\ UNCHANGED <<tlb, res, lstoreVars>>
  BY DEF LinkInv, LinkMiss
<1>3. /\ \A u \in Threads : u # t => pc'[u] = pc[u] /\ req'[u] = req[u]
      /\ pc'[t] = "fault" /\ req'[t] = r
  BY <1>2 DEF TypeOK
<1>4. TypeOK'
  BY <1>2 DEF TypeOK, Locations
<1>5. \A u \in Threads : Counted(u)' = Counted(u)
  BY <1>2, <1>3 DEF Counted
<1>6. \A p : Holders(p)' = Holders(p)
  BY <1>2, <1>5 DEF Holders
<1>7. ReqPending'
  BY <1>1, <1>2, <1>3 DEF LinkInv, ReqPending
<1>8. EntriesUsable' /\ NoDuplicates'
  BY <1>2, <1>3 DEF LinkInv, EntriesUsable, NoDuplicates
<1>9. MissStaysMissed'
  <2>1. \A i \in Slots : tlb[t][i].bs # r.page
    BY <1>1, <1>2, LookupFinds
  <2> QED
    BY <1>2, <1>3, <2>1 DEF LinkInv, MissStaysMissed
<1>10. InFlightStays' /\ LinkedEntry'
  BY <1>2, <1>3 DEF LinkInv, InFlightStays, LinkedEntry
<1>11. TlbCoherent' /\ CacheInjective'
  BY <1>2, <1>5 DEF LinkInv, TlbCoherent, CacheInjective
<1>12. RefMatches'
  BY <1>2, <1>6 DEF LinkInv, RefMatches
<1>13. NothingLost'
  BY <1>2, <1>5 DEF LinkInv, NothingLost
<1> QED
  BY <1>4, <1>7, <1>8, <1>9, <1>10, <1>11, <1>12, <1>13 DEF LinkInv

LEMMA FaultResidentInv ==
  ASSUME LinkInv, NEW t \in Threads, FaultResident(t)
  PROVE  LinkInv'
<1> USE DEF lstoreVars
<1>1. PICK f \in Frames : cache[f] = req[t].page /\ res' = [res EXCEPT ![t] = f]
  BY DEF FaultResident
<1>2. /\ TypeOK
      /\ pc[t] = "fault"
      /\ pc' = [pc EXCEPT ![t] = "drop"]
      /\ UNCHANGED <<tlb, req, val, lstoreVars>>
  BY DEF LinkInv, FaultResident
<1>3. /\ \A u \in Threads : u # t => pc'[u] = pc[u] /\ res'[u] = res[u]
      /\ pc'[t] = "drop" /\ res'[t] = f
  BY <1>1, <1>2 DEF TypeOK
<1>4. TypeOK'
  BY <1>1, <1>2, IndicesFit DEF TypeOK, Locations
<1>5. \A u \in Threads : Counted(u)' = Counted(u)
  BY <1>2, <1>3 DEF Counted
<1>6. \A p : Holders(p)' = Holders(p)
  BY <1>2, <1>5 DEF Holders
<1>7. ReqPending'
  BY <1>2, <1>3 DEF LinkInv, ReqPending
<1>8. EntriesUsable' /\ NoDuplicates' /\ MissStaysMissed'
  BY <1>2, <1>3 DEF LinkInv, EntriesUsable, NoDuplicates, MissStaysMissed
<1>9. InFlightStays' /\ LinkedEntry'
  BY <1>1, <1>2, <1>3 DEF LinkInv, InFlightStays, LinkedEntry
<1>10. TlbCoherent' /\ CacheInjective'
  BY <1>2, <1>5 DEF LinkInv, TlbCoherent, CacheInjective
<1>11. RefMatches'
  BY <1>2, <1>6 DEF LinkInv, RefMatches
<1>12. NothingLost'
  BY <1>2, <1>5 DEF LinkInv, NothingLost
<1> QED
  BY <1>4, <1>7, <1>8, <1>9, <1>10, <1>11, <1>12 DEF LinkInv

(* Loading a page replaces the contents of a frame nobody uses, after the  *)
(* page it held was written back if it differs from its copy in storage.   *)
LEMMA FaultLoadInv ==
  ASSUME LinkInv, NEW t \in Threads, FaultLoad(t)
  PROVE  LinkInv'
<1> DEFINE p == req[t].page
<1>1. PICK f \in Frames : /\ Loadable(f)
                          /\ Load(f, p)
                          /\ res' = [res EXCEPT ![t] = f]
  BY DEF FaultLoad
<1>2. /\ TypeOK
      /\ pc[t] = "fault"
      /\ \A g \in Frames : cache[g] # p
      /\ pc' = [pc EXCEPT ![t] = "drop"]
      /\ UNCHANGED <<tlb, req, val, ref>>
  BY DEF LinkInv, FaultLoad
<1>3. /\ \A u \in Threads : u # t => pc'[u] = pc[u] /\ res'[u] = res[u]
      /\ pc'[t] = "drop" /\ res'[t] = f
  BY <1>1, <1>2 DEF TypeOK
<1>4. p \in Pages /\ p # NoPage
  <2>1. req[t] \in Accesses
    BY <1>2 DEF LinkInv, TypeOK, ReqPending
  <2> QED
    BY <2>1, AccessesOK, Conversions
<1>5. /\ cache' = [cache EXCEPT ![f] = p]
      /\ data' = [data EXCEPT ![f] = backing[p]]
      /\ dirty' = IF cache[f] = NoPage THEN dirty
                                      ELSE [dirty EXCEPT ![cache[f]] = FALSE]
      /\ backing' = IF cache[f] # NoPage /\ dirty[cache[f]]
                      THEN [backing EXCEPT ![cache[f]] = data[f]]
                      ELSE backing
  BY <1>1 DEF Load
<1>6. TypeOK'
  <2>1. cache' \in [Frames -> Pages \cup {NoPage}]
    BY <1>2, <1>4, <1>5 DEF TypeOK
  <2>2. dirty' \in [Pages -> BOOLEAN]
    BY <1>2, <1>5 DEF TypeOK
  <2>3. backing' \in [Pages -> [Offsets -> Values]]
    BY <1>2, <1>5 DEF TypeOK
  <2>4. data' \in [Frames -> [Offsets -> Values]]
    BY <1>2, <1>4, <1>5 DEF TypeOK
  <2>5. res' \in [Threads -> 0 .. (EpcMod - 1)]
    BY <1>1, <1>2, IndicesFit DEF TypeOK
  <2> QED
    BY <1>2, <2>1, <2>2, <2>3, <2>4, <2>5 DEF TypeOK, Locations
<1>7. /\ \A u \in Threads : \A i \in Counted(u) : tlb[u][i].epc # f
      /\ \A u \in Threads : pc[u] \in {"drop", "insert"} => res[u] # f
  BY <1>1, LoadableUnused
<1>8. \A g \in Frames : g # f => cache'[g] = cache[g] /\ data'[g] = data[g]
  BY <1>2, <1>5 DEF TypeOK
<1>9. cache'[f] = p /\ data'[f] = backing[p]
  BY <1>2, <1>5 DEF TypeOK
<1>10. \A u \in Threads : Counted(u)' = Counted(u)
  BY <1>2, <1>3 DEF Counted
<1>11. \A q : Holders(q)' = Holders(q)
  BY <1>2, <1>10 DEF Holders
<1>12. ReqPending'
  BY <1>2, <1>3 DEF LinkInv, ReqPending
<1>13. EntriesUsable' /\ NoDuplicates' /\ MissStaysMissed'
  BY <1>2, <1>3 DEF LinkInv, EntriesUsable, NoDuplicates, MissStaysMissed
<1>14. InFlightStays'
  BY <1>2, <1>3, <1>7, <1>8, <1>9 DEF LinkInv, InFlightStays
<1>15. LinkedEntry'
  BY <1>2, <1>3 DEF LinkInv, LinkedEntry
<1>16. TlbCoherent'
  <2> SUFFICES ASSUME NEW u \in Threads, NEW i \in Counted(u)
               PROVE  cache'[tlb[u][i].epc] = tlb[u][i].bs
    BY <1>2, <1>10 DEF TlbCoherent
  <2>1. tlb[u][i].epc \in Frames
    BY Conversions DEF LinkInv, EntriesUsable, Counted, NoPage
  <2> QED
    BY <1>7, <1>8, <2>1 DEF LinkInv, TlbCoherent
<1>17. CacheInjective'
  BY <1>2, <1>8, <1>9 DEF LinkInv, CacheInjective
<1>18. RefMatches'
  BY <1>2, <1>11 DEF LinkInv, RefMatches
<1>19. NothingLost'
  <2> SUFFICES ASSUME NEW g \in Frames, cache'[g] # NoPage, ~dirty'[cache'[g]],
                      ~ \E u \in Threads : \E i \in Counted(u) :
                          tlb[u][i].bs = cache'[g] /\ tlb[u][i].dirty
               PROVE  data'[g] = backing'[cache'[g]]
    <3>1. tlb' = tlb
      BY <1>2
    <3> QED
      BY <1>10, <3>1 DEF NothingLost
  <2>1. CASE g = f
    <3>1. backing'[p] = backing[p]
      BY <1>2, <1>4, <1>5 DEF TypeOK
    <3> QED
      BY <1>9, <2>1, <3>1
  <2>2. CASE g # f
    <3>1. cache[g] # cache[f] /\ cache'[g] = cache[g] /\ cache[g] \in Pages
      BY <1>2, <1>8, <2>2 DEF LinkInv, CacheInjective, TypeOK
    <3>2. /\ dirty'[cache[g]] = dirty[cache[g]]
          /\ backing'[cache[g]] = backing[cache[g]]
      BY <1>2, <1>5, <3>1 DEF TypeOK
    <3> QED
      BY <1>8, <2>2, <3>1, <3>2 DEF LinkInv, NothingLost
  <2> QED
    BY <2>1, <2>2
<1> QED
  BY <1>6, <1>12, <1>13, <1>14, <1>15, <1>16, <1>17, <1>18, <1>19 DEF LinkInv

(* The drop names the page in the last slot, so exactly the reference that *)
(* slot stood for is given back.                                           *)
LEMMA DropInv ==
  ASSUME LstoreMod = IndexMod, LinkInv, NEW t \in Threads, Drop(t)
  PROVE  LinkInv'
<1> DEFINE b == tlb[t][TLBSize].bs
           d == tlb[t][TLBSize].dirty
<1>1. /\ TypeOK
      /\ TLBSize \in Slots
      /\ pc[t] = "drop"
      /\ pc' = [pc EXCEPT ![t] = "insert"]
      /\ UNCHANGED <<tlb, req, res, val, cache, data, backing>>
  BY ConstantsOK DEF LinkInv, Drop, Slots
<1>2. /\ \A u \in Threads : u # t => pc'[u] = pc[u]
      /\ pc'[t] = "insert"
  BY <1>1 DEF TypeOK
<1>3. b = NoPage \/ b \in Pages
  BY <1>1 DEF LinkInv, EntriesUsable
<1>4. req[t].page \in Pages
  <2>1. req[t] \in Accesses
    BY <1>1 DEF LinkInv, TypeOK, ReqPending
  <2> QED
    BY <2>1, AccessesOK
<1>5. IF b \in Pages
        THEN /\ ref' = [ref EXCEPT ![b] = ref[b] - 1]
             /\ dirty' = [dirty EXCEPT ![b] = dirty[b] \/ d]
        ELSE UNCHANGED <<ref, dirty>>
  <2>1. CASE b = NoPage
    BY <2>1, Conversions DEF Drop, NoPage
  <2>2. CASE b \in Pages
    <3>1. RemovedPtrPage(req[t].page, b) = b /\ b >= 0
      BY <1>4, <2>2, RemovedPageNamed, Conversions
    <3> QED
      BY <2>2, <3>1 DEF Drop
  <2> QED
    BY <1>3, <2>1, <2>2
<1>6. TypeOK'
  <2>1. ref' \in [Pages -> Int]
    BY <1>1, <1>5 DEF TypeOK
  <2>2. d \in BOOLEAN
    BY <1>1 DEF TypeOK
  <2>3. dirty' \in [Pages -> BOOLEAN]
    BY <1>1, <1>5, <2>2 DEF TypeOK
  <2> QED
    BY <1>1, <2>1, <2>3 DEF TypeOK, Locations
<1>7. /\ \A u \in Threads : u # t => Counted(u)' = Counted(u)
      /\ Counted(t)' = Counted(t) \ {TLBSize}
  BY <1>1, <1>2 DEF Counted
<1>8. \A p \in Pages : Holders(p)' = IF p = b THEN Holders(p) \ {t} ELSE Holders(p)
  <2>1. \A p : \A u \in Threads : u # t => (u \in Holders(p)' <=> u \in Holders(p))
    BY <1>1, <1>7 DEF Holders
  <2>2. ASSUME NEW p \in Pages, p # b
        PROVE  t \in Holders(p)' <=> t \in Holders(p)
    BY <1>1, <1>7, <2>2 DEF Holders
  <2>3. ASSUME b \in Pages
        PROVE  t \notin Holders(b)'
    <3>1. \A i \in Slots : tlb[t][i].bs = b => i = TLBSize
      BY <1>1, <2>3, Conversions DEF LinkInv, NoDuplicates
    <3>2. Counted(t) \subseteq Slots
      BY DEF Counted
    <3> QED
      BY <1>1, <1>7, <3>1, <3>2 DEF Holders
  <2>4. \A p : Holders(p) \subseteq Threads /\ Holders(p)' \subseteq Threads
    BY DEF Holders
  <2> QED
    BY <1>1, <2>1, <2>2, <2>3, <2>4
<1>9. RefMatches'
  <2> SUFFICES ASSUME NEW p \in Pages
               PROVE  ref'[p] = Cardinality(Holders(p)')
    BY DEF RefMatches
  <2>1. ref[p] = Cardinality(Holders(p))
    BY DEF LinkInv, RefMatches
  <2>2. CASE p = b
    <3>1. TLBSize \in Counted(t)
      BY <1>1, <2>2, Conversions DEF Counted
    <3>2. t \in Holders(p)
      BY <2>2, <3>1 DEF Holders
    <3>3. Cardinality(Holders(p) \ {t}) = Cardinality(Holders(p)) - 1
      BY <3>2, HoldersFinite, FS_RemoveElement
    <3>4. ref'[p] = ref[p] - 1
      BY <1>1, <1>5, <2>2 DEF TypeOK
    <3> QED
      BY <1>8, <2>1, <2>2, <3>3, <3>4
  <2>3. CASE p # b
    <3>1. ref'[p] = ref[p]
      BY <1>1, <1>5, <2>3 DEF TypeOK
    <3> QED
      BY <1>8, <2>1, <2>3, <3>1
  <2> QED
    BY <2>2, <2>3
<1>10. ReqPending'
  BY <1>1, <1>2 DEF LinkInv, ReqPending
<1>11. EntriesUsable' /\ NoDuplicates' /\ MissStaysMissed'
  BY <1>1, <1>2 DEF LinkInv, EntriesUsable, NoDuplicates, MissStaysMissed
<1>12. InFlightStays' /\ LinkedEntry'
  BY <1>1, <1>2 DEF LinkInv, InFlightStays, LinkedEntry
<1>13. TlbCoherent' /\ CacheInjective'
  BY <1>1, <1>7 DEF LinkInv, TlbCoherent, CacheInjective
<1>14. NothingLost'
  <2> SUFFICES ASSUME NEW g \in Frames, cache[g] # NoPage, ~dirty'[cache[g]],
                      ~ \E u \in Threads : \E i \in Counted(u)' :
                          tlb[u][i].bs = cache[g] /\ tlb[u][i].dirty
               PROVE  data[g] = backing[cache[g]]
    BY <1>1 DEF NothingLost
  <2>1. cache[g] \in Pages
    BY <1>1 DEF TypeOK
  <2>2. ~dirty[cache[g]]
    BY <1>1, <1>5, <2>1 DEF TypeOK
  <2>3. cache[g] = b => ~d
    BY <1>1, <1>5, <2>1 DEF TypeOK
  <2>4. ~ \E u \in Threads : \E i \in Counted(u) :
              tlb[u][i].bs = cache[g] /\ tlb[u][i].dirty
    BY <1>7, <2>3
  <2> QED
    BY <2>2, <2>4 DEF LinkInv, NothingLost
<1> QED
  BY <1>6, <1>9, <1>10, <1>11, <1>12, <1>13, <1>14 DEF LinkInv

(* The page comes in where no slot had it, one reference for one slot. *)
LEMMA InsertInv ==
  ASSUME LinkInv, NEW t \in Threads, Insert(t)
  PROVE  LinkInv'
<1> DEFINE p == req[t].page
           new == Entry(p, res[t], req[t].dirty)
<1>1. /\ TypeOK
      /\ TLBSize \in Nat \ {0}
      /\ pc[t] = "insert"
      /\ pc' = [pc EXCEPT ![t] = "linked"]
      /\ ref' = [ref EXCEPT ![p] = ref[p] + 1]
      /\ UNCHANGED <<req, res, val, cache, dirty, data, backing>>
  BY ConstantsOK DEF LinkInv, Insert
<1>2. /\ req[t] \in Accesses /\ p \in Pages /\ p # NoPage
      /\ req[t].dirty \in BOOLEAN
  <2>1. req[t] \in Accesses
    BY <1>1 DEF LinkInv, TypeOK, ReqPending
  <2> QED
    BY <2>1, AccessesOK, Conversions
<1>3. res[t] \in Frames /\ cache[res[t]] = p
  BY <1>1 DEF LinkInv, InFlightStays
<1>4. tlb' = [tlb EXCEPT ![t] = [i \in Slots |-> IF i = 1 THEN new ELSE tlb[t][i - 1]]]
  BY <1>2, <1>3, Conversions DEF Insert
<1>5. /\ new.bs = p /\ new.epc = res[t] /\ new.dirty = req[t].dirty
      /\ new \in [bs : Pages \cup {NoPage, 0},
                 epc : 0 .. (EpcMod - 1), dirty : BOOLEAN]
  BY <1>1, <1>2 DEF Entry, TypeOK
<1> HIDE DEF new
<1>6. /\ 1 \in Slots /\ TLBSize \in Slots
      /\ \A i \in Slots : i # 1 => i - 1 \in Slots /\ i - 1 # TLBSize
      /\ \A i \in Slots : i # TLBSize => i + 1 \in Slots /\ i + 1 # 1 /\ (i + 1) - 1 = i
  BY <1>1 DEF Slots
<1>7. /\ \A u \in Threads : u # t => pc'[u] = pc[u] /\ tlb'[u] = tlb[u]
      /\ pc'[t] = "linked" /\ tlb'[t][1] = new
      /\ \A i \in Slots : i # 1 => tlb'[t][i] = tlb[t][i - 1]
  BY <1>1, <1>4, <1>6 DEF TypeOK
<1>8. TypeOK'
  <2> DEFINE E == [bs : Pages \cup {NoPage, 0},
                   epc : 0 .. (EpcMod - 1), dirty : BOOLEAN]
  <2>1. tlb \in [Threads -> [Slots -> E]] /\ new \in E
    BY <1>1, <1>5 DEF TypeOK
  <2> HIDE DEF E
  <2>2. tlb' \in [Threads -> [Slots -> E]]
    BY <1>4, <1>6, <2>1
  <2>3. ref' \in [Pages -> Int]
    BY <1>1, <1>2 DEF TypeOK
  <2> QED
    BY <1>1, <2>2, <2>3 DEF TypeOK, Locations, E
<1>9. /\ \A u \in Threads : u # t => Counted(u)' = Counted(u)
      /\ 1 \in Counted(t)'
      /\ \A i \in Slots : i # 1 => (i \in Counted(t)' <=> i - 1 \in Counted(t))
      /\ Counted(t) \subseteq Slots /\ Counted(t)' \subseteq Slots
      /\ TLBSize \notin Counted(t)
  BY <1>1, <1>2, <1>5, <1>6, <1>7, Conversions DEF Counted
<1>10. \A q \in Pages : Holders(q)' = IF q = p THEN Holders(q) \cup {t} ELSE Holders(q)
  <2>1. \A q : \A u \in Threads : u # t => (u \in Holders(q)' <=> u \in Holders(q))
    BY <1>7, <1>9 DEF Holders
  <2>2. t \in Holders(p)'
    BY <1>1, <1>5, <1>7, <1>9 DEF Holders
  <2>3. ASSUME NEW q \in Pages, q # p
        PROVE  t \in Holders(q)' <=> t \in Holders(q)
    <3>1. ASSUME NEW i \in Counted(t), tlb[t][i].bs = q
          PROVE  \E j \in Counted(t)' : tlb'[t][j].bs = q
      <4>1. i \in Slots /\ i # TLBSize
        BY <1>9
      <4>2. i + 1 \in Counted(t)' /\ tlb'[t][i + 1] = tlb[t][i]
        BY <1>6, <1>7, <1>9, <4>1
      <4> QED
        BY <3>1, <4>2
    <3>2. ASSUME NEW j \in Counted(t)', tlb'[t][j].bs = q
          PROVE  \E i \in Counted(t) : tlb[t][i].bs = q
      <4>1. j # 1 /\ j \in Slots
        BY <1>5, <1>7, <1>9, <2>3, <3>2
      <4> QED
        BY <1>7, <1>9, <3>2, <4>1
    <3> QED
      BY <3>1, <3>2 DEF Holders
  <2>4. \A q : Holders(q) \subseteq Threads /\ Holders(q)' \subseteq Threads
    BY DEF Holders
  <2> QED
    BY <1>1, <2>1, <2>2, <2>3, <2>4
<1>11. t \notin Holders(p)
  BY <1>1, <1>9 DEF LinkInv, MissStaysMissed, Holders
<1>12. RefMatches'
  <2> SUFFICES ASSUME NEW q \in Pages
               PROVE  ref'[q] = Cardinality(Holders(q)')
    BY DEF RefMatches
  <2>1. ref[q] = Cardinality(Holders(q))
    BY DEF LinkInv, RefMatches
  <2>2. CASE q = p
    <3>1. Cardinality(Holders(q) \cup {t}) = Cardinality(Holders(q)) + 1
      BY <1>11, <2>2, HoldersFinite, FS_AddElement
    <3>2. ref'[q] = ref[q] + 1
      BY <1>1, <1>2, <2>2 DEF TypeOK
    <3> QED
      BY <1>10, <2>1, <2>2, <3>1, <3>2
  <2>3. CASE q # p
    <3>1. ref'[q] = ref[q]
      BY <1>1, <2>3 DEF TypeOK
    <3> QED
      BY <1>10, <2>1, <2>3, <3>1
  <2> QED
    BY <2>2, <2>3
<1>13. ReqPending'
  BY <1>1, <1>7 DEF LinkInv, ReqPending
<1>14. EntriesUsable'
  <2>1. ASSUME NEW i \in Slots
        PROVE  \/ tlb'[t][i].bs = NoPage
               \/ tlb'[t][i].bs \in Pages /\ tlb'[t][i].epc \in Frames
    <3>1. CASE i = 1
      BY <1>2, <1>3, <1>5, <1>7, <3>1
    <3>2. CASE i # 1
      BY <1>1, <1>6, <1>7, <3>2 DEF LinkInv, EntriesUsable
    <3> QED
      BY <3>1, <3>2
  <2> QED
    BY <1>7, <2>1 DEF LinkInv, EntriesUsable
<1>15. NoDuplicates'
  <2> SUFFICES ASSUME NEW i \in Slots, NEW j \in Slots,
                      tlb'[t][i].bs = tlb'[t][j].bs, tlb'[t][i].bs # NoPage
               PROVE  i = j
    BY <1>1, <1>7 DEF LinkInv, NoDuplicates
  <2>1. \A k \in Slots : tlb[t][k].bs # p
    BY <1>1 DEF LinkInv, MissStaysMissed
  <2>2. CASE i = 1 \/ j = 1
    BY <1>5, <1>6, <1>7, <2>1, <2>2
  <2>3. CASE i # 1 /\ j # 1
    <3>1. /\ i - 1 \in Slots /\ j - 1 \in Slots
          /\ tlb[t][i - 1].bs = tlb[t][j - 1].bs /\ tlb[t][i - 1].bs # NoPage
      BY <1>6, <1>7, <2>3
    <3>2. i - 1 = j - 1
      BY <1>1, <3>1 DEF LinkInv, NoDuplicates
    <3> QED
      BY <3>2 DEF Slots
  <2> QED
    BY <2>2, <2>3
<1>16. MissStaysMissed' /\ InFlightStays'
  BY <1>1, <1>7 DEF LinkInv, MissStaysMissed, InFlightStays
<1>17. LinkedEntry'
  <2>1. ASSUME NEW u \in Threads, u # t, pc'[u] = "linked"
        PROVE  \E i \in Slots : /\ tlb'[u][i].bs = req'[u].page
                                /\ tlb'[u][i].epc = res'[u]
                                /\ req'[u].dirty => tlb'[u][i].dirty
    BY <1>1, <1>7, <2>1 DEF LinkInv, LinkedEntry
  <2>2. /\ tlb'[t][1].bs = req'[t].page
        /\ tlb'[t][1].epc = res'[t]
        /\ req'[t].dirty => tlb'[t][1].dirty
    BY <1>1, <1>5, <1>7
  <2> QED
    BY <1>6, <2>1, <2>2 DEF LinkedEntry
<1>18. TlbCoherent'
  <2>1. ASSUME NEW i \in Counted(t)'
        PROVE  cache[tlb'[t][i].epc] = tlb'[t][i].bs
    <3>1. CASE i = 1
      BY <1>3, <1>5, <1>7, <3>1
    <3>2. CASE i # 1
      BY <1>7, <1>9, <3>2 DEF LinkInv, TlbCoherent
    <3> QED
      BY <3>1, <3>2
  <2> QED
    BY <1>1, <1>7, <1>9, <2>1 DEF LinkInv, TlbCoherent
<1>19. CacheInjective'
  BY <1>1 DEF LinkInv, CacheInjective
<1>20. NothingLost'
  <2> SUFFICES ASSUME NEW g \in Frames, cache[g] # NoPage,
                      NEW u \in Threads, NEW i \in Counted(u),
                      tlb[u][i].bs = cache[g], tlb[u][i].dirty
               PROVE  \E v \in Threads : \E j \in Counted(v)' :
                          tlb'[v][j].bs = cache[g] /\ tlb'[v][j].dirty
    BY <1>1 DEF LinkInv, NothingLost
  <2>1. CASE u # t
    BY <1>7, <1>9, <2>1
  <2>2. CASE u = t
    <3>1. i \in Slots /\ i # TLBSize
      BY <1>9, <2>2
    <3>2. i + 1 \in Counted(t)' /\ tlb'[t][i + 1] = tlb[t][i]
      BY <1>6, <1>7, <1>9, <2>2, <3>1
    <3> QED
      BY <2>2, <3>2
  <2> QED
    BY <2>1, <2>2
<1> QED
  BY <1>8, <1>12, <1>13, <1>14, <1>15, <1>16, <1>17, <1>18, <1>19, <1>20
     DEF LinkInv

LEMMA LoadLinkedInv ==
  ASSUME LinkInv, NEW t \in Threads, LoadLinked(t)
  PROVE  LinkInv'
<1> USE DEF lstoreVars
<1>1. /\ TypeOK
      /\ pc[t] = "linked"
      /\ pc' = [pc EXCEPT ![t] = "idle"]
      /\ req' = [req EXCEPT ![t] = NoReq]
      /\ res' = [res EXCEPT ![t] = 0]
      /\ val' = [val EXCEPT ![t] = data[res[t]][req[t].off]]
      /\ UNCHANGED <<tlb, lstoreVars>>
  BY DEF LinkInv, LoadLinked, Return
<1>2. /\ \A u \in Threads : u # t => /\ pc'[u] = pc[u] /\ req'[u] = req[u]
                                      /\ res'[u] = res[u]
      /\ pc'[t] = "idle" /\ req'[t] = NoReq
  BY <1>1 DEF TypeOK
<1>3. TypeOK'
  <2>1. res[t] \in Frames
    BY <1>1, LinkedCounted
  <2>2. req[t] \in Accesses
    BY <1>1 DEF LinkInv, TypeOK, ReqPending
  <2>3. data[res[t]][req[t].off] \in Values
    BY <1>1, <2>1, <2>2, AccessesOK DEF TypeOK
  <2> QED
    BY <1>1, <2>3, ConstantsOK DEF TypeOK, Locations
<1>4. \A u \in Threads : Counted(u)' = Counted(u)
  BY <1>1, <1>2 DEF Counted
<1>5. \A p : Holders(p)' = Holders(p)
  BY <1>1, <1>4 DEF Holders
<1>6. ReqPending'
  BY <1>1, <1>2 DEF LinkInv, ReqPending
<1>7. EntriesUsable' /\ NoDuplicates' /\ MissStaysMissed'
  BY <1>1, <1>2 DEF LinkInv, EntriesUsable, NoDuplicates, MissStaysMissed
<1>8. InFlightStays' /\ LinkedEntry'
  BY <1>1, <1>2 DEF LinkInv, InFlightStays, LinkedEntry
<1>9. TlbCoherent' /\ CacheInjective'
  BY <1>1, <1>4 DEF LinkInv, TlbCoherent, CacheInjective
<1>10. RefMatches'
  BY <1>1, <1>5 DEF LinkInv, RefMatches
<1>11. NothingLost'
  BY <1>1, <1>4 DEF LinkInv, NothingLost
<1> QED
  BY <1>3, <1>6, <1>7, <1>8, <1>9, <1>10, <1>11 DEF LinkInv

(* A store only changes a frame whose page the thread's TLB has as dirty. *)
LEMMA StoreLinkedInv ==
  ASSUME LinkInv, NEW t \in Threads, NEW v \in Values, StoreLinked(t, v)
  PROVE  LinkInv'
<1>1. /\ TypeOK
      /\ pc[t] = "linked" /\ req[t].dirty
      /\ pc' = [pc EXCEPT ![t] = "idle"]
      /\ req' = [req EXCEPT ![t] = NoReq]
      /\ res' = [res EXCEPT ![t] = 0]
      /\ data' = [data EXCEPT ![res[t]][req[t].off] = v]
      /\ UNCHANGED <<tlb, val, cache, ref, dirty, backing>>
  BY DEF LinkInv, StoreLinked, Return
<1>2. /\ \A u \in Threads : u # t => /\ pc'[u] = pc[u] /\ req'[u] = req[u]
                                      /\ res'[u] = res[u]
      /\ pc'[t] = "idle" /\ req'[t] = NoReq
  BY <1>1 DEF TypeOK
<1>3. TypeOK'
  <2>1. res' \in [Threads -> 0 .. (EpcMod - 1)]
    BY <1>1, ConstantsOK DEF TypeOK
  <2>2. data' \in [Frames -> [Offsets -> Values]]
    BY <1>1 DEF TypeOK
  <2> QED
    BY <1>1, <2>1, <2>2 DEF TypeOK, Locations
<1>4. \A u \in Threads : Counted(u)' = Counted(u)
  BY <1>1, <1>2 DEF Counted
<1>5. \A p : Holders(p)' = Holders(p)
  BY <1>1, <1>4 DEF Holders
<1>6. ReqPending'
  BY <1>1, <1>2 DEF LinkInv, ReqPending
<1>7. EntriesUsable' /\ NoDuplicates' /\ MissStaysMissed'
  BY <1>1, <1>2 DEF LinkInv, EntriesUsable, NoDuplicates, MissStaysMissed
<1>8. InFlightStays' /\ LinkedEntry'
  BY <1>1, <1>2 DEF LinkInv, InFlightStays, LinkedEntry
<1>9. TlbCoherent' /\ CacheInjective'
  BY <1>1, <1>4 DEF LinkInv, TlbCoherent, CacheInjective
<1>10. RefMatches'
  BY <1>1, <1>5 DEF LinkInv, RefMatches
<1>11. NothingLost'
  <2>1. PICK i \in Counted(t) : /\ tlb[t][i].bs = cache[res[t]]
                                /\ tlb[t][i].dirty
    BY <1>1, LinkedCounted
  <2>2. \A g \in Frames : g # res[t] => data'[g] = data[g]
    BY <1>1 DEF TypeOK
  <2> SUFFICES ASSUME NEW g \in Frames, cache[g] # NoPage, ~dirty[cache[g]],
                      ~ \E u \in Threads : \E j \in Counted(u) :
                          tlb[u][j].bs = cache[g] /\ tlb[u][j].dirty
               PROVE  data'[g] = backing[cache[g]]
    BY <1>1, <1>4 DEF NothingLost
  <2>3. g # res[t]
    BY <2>1
  <2> QED
    BY <2>2, <2>3 DEF LinkInv, NothingLost
<1> QED
  BY <1>3, <1>6, <1>7, <1>8, <1>9, <1>10, <1>11 DEF LinkInv

LEMMA StutterInv ==
  ASSUME LinkInv, UNCHANGED vars
  PROVE  LinkInv'
<1> USE DEF vars, threadVars, lstoreVars
<1>1. \A t \in Threads : Counted(t)' = Counted(t)
  BY DEF Counted
<1>2. \A p : Holders(p)' = Holders(p)
  BY <1>1 DEF Holders
<1>3. TypeOK' /\ ReqPending' /\ EntriesUsable' /\ NoDuplicates' /\ MissStaysMissed'
  BY DEF LinkInv, TypeOK, ReqPending, EntriesUsable, NoDuplicates, MissStaysMissed
<1>4. InFlightStays' /\ LinkedEntry'
  BY DEF LinkInv, InFlightStays, LinkedEntry
<1>5. TlbCoherent' /\ CacheInjective' /\ NothingLost'
  BY <1>1 DEF LinkInv, TlbCoherent, CacheInjective, NothingLost
<1>6. RefMatches'
  BY <1>2 DEF LinkInv, RefMatches
<1> QED
  BY <1>3, <1>4, <1>5, <1>6 DEF LinkInv

---------------------------------------------------------------------------
(* Theorems of the specification *)

(* The inductive invariant holds in every reachable state: every thread's  *)
(* link, at whatever step it is, keeps TLBs, reference counts and dirty    *)
(* marks consistent with the page cache.                                   *)
THEOREM LinkInvariant ==
  ASSUME InitThreads = Threads, LstoreMod = IndexMod
  PROVE  Spec => []LinkInv
<1>1. Init => LinkInv
  BY InitInv
<1>2. LinkInv /\ [Next]_vars => LinkInv'
  <2> SUFFICES ASSUME LinkInv, [Next]_vars
               PROVE  LinkInv'
    OBVIOUS
  <2>1. CASE UNCHANGED vars
    BY <2>1, StutterInv
  <2>2. CASE Next
    <3>1. PICK t \in Threads :
            \/ Initialize(t)
            \/ \E r \in Accesses : LinkHit(t, r) \/ LinkMiss(t, r)
            \/ LinkStep(t)
            \/ Access(t)
      BY <2>2 DEF Next
    <3>2. CASE Initialize(t)
      BY <3>2, InitializeInv
    <3>3. CASE \E r \in Accesses : LinkHit(t, r) \/ LinkMiss(t, r)
      BY <3>3, LinkHitInv, LinkMissInv
    <3>4. CASE LinkStep(t)
      BY <3>4, FaultResidentInv, FaultLoadInv, DropInv, InsertInv DEF LinkStep
    <3>5. CASE Access(t)
      BY <3>5, LoadLinkedInv, StoreLinkedInv DEF Access
    <3> QED
      BY <3>1, <3>2, <3>3, <3>4, <3>5
  <2> QED
    BY <2>1, <2>2
<1> QED
  BY <1>1, <1>2, PTL DEF Spec

(* A cached translation is never stale. *)
THEOREM TranslationsCoherent ==
  ASSUME InitThreads = Threads, LstoreMod = IndexMod
  PROVE  Spec => []TlbCoherent
<1>1. LinkInv => TlbCoherent
  BY DEF LinkInv
<1> QED
  BY <1>1, LinkInvariant, PTL

(* The reference count of a page is the number of TLBs that have it. *)
THEOREM CountsExact ==
  ASSUME InitThreads = Threads, LstoreMod = IndexMod
  PROVE  Spec => []RefMatches
<1>1. LinkInv => RefMatches
  BY DEF LinkInv
<1> QED
  BY <1>1, LinkInvariant, PTL

(* A clean page equals its copy in storage: no eviction loses a store. *)
THEOREM StoresKept ==
  ASSUME InitThreads = Threads, LstoreMod = IndexMod
  PROVE  Spec => []NothingLost
<1>1. LinkInv => NothingLost
  BY DEF LinkInv
<1> QED
  BY <1>1, LinkInvariant, PTL

(* Between a link's return and the access, the frame can neither have been *)
(* given to another page nor be taken.                                     *)
THEOREM LinkedFramesStay ==
  ASSUME InitThreads = Threads, LstoreMod = IndexMod
  PROVE  Spec => []LinkedFrameStays
<1>1. LinkInv => LinkedFrameStays
  <2> SUFFICES ASSUME LinkInv, NEW t \in Threads, pc[t] = "linked"
               PROVE  cache[res[t]] = req[t].page /\ ~Loadable(res[t])
    BY DEF LinkedFrameStays
  <2>1. PICK i \in Counted(t) : /\ tlb[t][i].bs = req[t].page
                                /\ tlb[t][i].epc = res[t]
                                /\ res[t] \in Frames
                                /\ cache[res[t]] = req[t].page
    BY LinkedCounted
  <2> QED
    BY <2>1, LoadableUnused
<1> QED
  BY <1>1, LinkInvariant, PTL

(* The state keeps its types, with the fields of s_victim_cache in their   *)
(* widths: no index or frame number is ever truncated.                     *)
THEOREM TypesKept ==
  ASSUME InitThreads = Threads, LstoreMod = IndexMod
  PROVE  Spec => []TypeOK
<1>1. LinkInv => TypeOK
  BY DEF LinkInv
<1> QED
  BY <1>1, LinkInvariant, PTL

---------------------------------------------------------------------------
(* Frames enough: a pinned frame is pinned by a slot of a TLB or by a link *)
(* that was given it, and no two frames by the same.                       *)

(* Pin x = <<u, i>> holds frame f: the i-th slot of u, or u's link (0). *)
Pins(x, f) ==
    \/ /\ x[2] \in Counted(x[1])
       /\ tlb[x[1]][x[2]].bs = cache[f]
    \/ /\ x[2] = 0
       /\ pc[x[1]] \in {"drop", "insert"} /\ res[x[1]] = f

LEMMA PinnedBySomeone ==
  ASSUME LinkInv, NEW f \in Frames, ~Loadable(f)
  PROVE  \E x \in Threads \X (0 .. TLBSize) : Pins(x, f)
<1>1. cache[f] \in Pages /\ TLBSize \in Nat
  BY ConstantsOK DEF LinkInv, TypeOK, Loadable
<1>2. CASE ref[cache[f]] # 0
  <2>1. Cardinality(Holders(cache[f])) # 0
    BY <1>1, <1>2 DEF LinkInv, RefMatches
  <2>2. PICK u \in Threads : \E i \in Counted(u) : tlb[u][i].bs = cache[f]
    BY <2>1, FS_EmptySet DEF Holders
  <2>3. PICK i \in Counted(u) : tlb[u][i].bs = cache[f]
    BY <2>2
  <2>4. i \in 0 .. TLBSize
    BY <1>1 DEF Counted, Slots
  <2>5. Pins(<<u, i>>, f)
    BY <2>3 DEF Pins
  <2> QED
    BY <2>4, <2>5
<1>3. CASE Held(f)
  <2>1. PICK u \in Threads : pc[u] \in {"drop", "insert"} /\ res[u] = f
    BY <1>3 DEF Held
  <2>2. Pins(<<u, 0>>, f)
    BY <2>1 DEF Pins
  <2> QED
    BY <1>1, <2>1, <2>2
<1> QED
  BY <1>2, <1>3 DEF Loadable

LEMMA PinsOneFrame ==
  ASSUME LinkInv, NEW f \in Frames, NEW g \in Frames,
         ~Loadable(f), ~Loadable(g),
         NEW x \in Threads \X (0 .. TLBSize), Pins(x, f), Pins(x, g)
  PROVE  f = g
<1>1. cache[f] # NoPage
  BY DEF Loadable
<1>2. 0 \notin Counted(x[1])
  BY ConstantsOK DEF Counted, Slots
<1>3. CASE x[2] = 0
  BY <1>2, <1>3 DEF Pins
<1>4. CASE x[2] # 0
  BY <1>1, <1>4 DEF Pins, LinkInv, CacheInjective
<1> QED
  BY <1>3, <1>4

(* A fault finds its page or a frame to put it in, when the page cache has *)
(* a frame for every slot of every TLB and for every link in flight, for   *)
(* any number of threads.                                                  *)
THEOREM FaultsFindFrames ==
  ASSUME InitThreads = Threads, LstoreMod = IndexMod,
         Cardinality(Frames) >= Cardinality(Threads) * (TLBSize + 1)
  PROVE  Spec => []FrameAvailable
<1>1. LinkInv => FrameAvailable
  <2> SUFFICES ASSUME LinkInv, NEW t \in Threads, pc[t] = "fault",
                      \A f \in Frames : ~Loadable(f)
               PROVE  FALSE
    BY DEF FrameAvailable
  <2> DEFINE All == Threads \X (0 .. TLBSize)
             Pinning == All \ {<<t, 0>>}
             PinOf == [f \in Frames |-> CHOOSE x \in Pinning : Pins(x, f)]
  <2>1. TLBSize \in Nat /\ EpcMod \in Int /\ IsFiniteSet(Threads)
    BY ConstantsOK
  <2>2. IsFiniteSet(Frames)
    <3>1. IsFiniteSet(0 .. (EpcMod - 1))
      BY <2>1, FS_Interval
    <3> QED
      BY <3>1, FS_Subset, IndicesFit
  <2>3. IsFiniteSet(0 .. TLBSize) /\ Cardinality(0 .. TLBSize) = TLBSize + 1
    BY <2>1, FS_Interval
  <2>4. IsFiniteSet(All) /\ Cardinality(All) = Cardinality(Threads) * (TLBSize + 1)
    BY <2>1, <2>3, FS_Product
  <2>5. <<t, 0>> \in All
    BY <2>1
  <2>6. IsFiniteSet(Pinning) /\ Cardinality(Pinning) = Cardinality(All) - 1
    BY <2>4, <2>5, FS_RemoveElement
  <2>7. Cardinality(Pinning) < Cardinality(Frames)
    <3>1. Cardinality(Frames) \in Nat /\ Cardinality(All) \in Nat
      BY <2>2, <2>4, FS_CardinalityType
    <3> QED
      BY <2>4, <2>6, <3>1
  <2>8. ASSUME NEW f \in Frames
        PROVE  \E x \in Pinning : Pins(x, f)
    <3>1. PICK x \in All : Pins(x, f)
      BY PinnedBySomeone
    <3>2. ~Pins(<<t, 0>>, f)
      BY ConstantsOK DEF Pins, Counted, Slots
    <3> QED
      BY <3>1, <3>2
  <2>9. PinOf \in [Frames -> Pinning] /\ \A f \in Frames : Pins(PinOf[f], f)
    BY <2>8
  <2> HIDE DEF PinOf
  <2>10. PICK f, g \in Frames : f # g /\ PinOf[f] = PinOf[g]
    <3> HIDE DEF Pinning
    <3> QED
      BY <2>2, <2>6, <2>7, <2>9, FS_PigeonHole
  <2>11. PinOf[f] \in All /\ Pins(PinOf[f], f) /\ Pins(PinOf[f], g)
    BY <2>9, <2>10
  <2> QED
    BY <2>10, <2>11, PinsOneFrame
<1> QED
  BY <1>1, LinkInvariant, PTL

---------------------------------------------------------------------------
(* Refinement: linked accesses are accesses to one flat memory *)

(* What a page holds as the program sees it. *)
LEMMA MemAt ==
  ASSUME CacheInjective, NEW p \in Pages
  PROVE  /\ \A f \in Frames : cache[f] = p => Mem[p] = data[f]
         /\ (\A f \in Frames : cache[f] # p) => Mem[p] = backing[p]
<1>1. ASSUME NEW f \in Frames, cache[f] = p
      PROVE  Mem[p] = data[f]
  <2>1. \A g \in Frames : cache[g] = p => g = f
    BY <1>1, Conversions DEF CacheInjective
  <2>2. (CHOOSE g \in Frames : cache[g] = p) = f
    BY <1>1, <2>1
  <2> QED
    BY <1>1, <2>2 DEF Mem
<1>2. ASSUME \A f \in Frames : cache[f] # p
      PROVE  Mem[p] = backing[p]
  BY <1>2 DEF Mem
<1> QED
  BY <1>1, <1>2

LEMMA MemAtNext ==
  ASSUME CacheInjective', NEW p \in Pages
  PROVE  /\ \A f \in Frames : cache'[f] = p => Mem'[p] = data'[f]
         /\ (\A f \in Frames : cache'[f] # p) => Mem'[p] = backing'[p]
<1>1. ASSUME NEW f \in Frames, cache'[f] = p
      PROVE  Mem'[p] = data'[f]
  <2>1. \A g \in Frames : cache'[g] = p => g = f
    BY <1>1, Conversions DEF CacheInjective
  <2>2. (CHOOSE g \in Frames : cache'[g] = p) = f
    BY <1>1, <2>1
  <2> QED
    BY <1>1, <2>2 DEF Mem
<1>2. ASSUME \A f \in Frames : cache'[f] # p
      PROVE  Mem'[p] = backing'[p]
  BY <1>2 DEF Mem
<1> QED
  BY <1>1, <1>2

(* Neither loading a page nor evicting another changes what the program    *)
(* sees: the evicted page was written back or is equal to its copy.        *)
LEMMA FaultKeepsMem ==
  ASSUME LinkInv, LinkInv', NEW t \in Threads, FaultLoad(t)
  PROVE  Mem' = Mem
<1> DEFINE p == req[t].page
<1>1. PICK f \in Frames : Loadable(f) /\ Load(f, p)
  BY DEF FaultLoad
<1>2. /\ TypeOK
      /\ \A g \in Frames : cache[g] # p
  BY DEF LinkInv, FaultLoad
<1>3. p \in Pages
  <2>1. req[t] \in Accesses
    BY DEF LinkInv, TypeOK, ReqPending, FaultLoad
  <2> QED
    BY <2>1, AccessesOK
<1>4. /\ cache' = [cache EXCEPT ![f] = p]
      /\ data' = [data EXCEPT ![f] = backing[p]]
      /\ backing' = IF cache[f] # NoPage /\ dirty[cache[f]]
                      THEN [backing EXCEPT ![cache[f]] = data[f]]
                      ELSE backing
  BY <1>1 DEF Load
<1>5. /\ \A g \in Frames : g # f => cache'[g] = cache[g] /\ data'[g] = data[g]
      /\ cache'[f] = p /\ data'[f] = backing[p]
  BY <1>2, <1>4 DEF TypeOK
<1>6. ASSUME NEW q \in Pages
      PROVE  Mem'[q] = Mem[q]
  <2>1. /\ \A g \in Frames : cache[g] = q => Mem[q] = data[g]
        /\ (\A g \in Frames : cache[g] # q) => Mem[q] = backing[q]
    BY MemAt DEF LinkInv
  <2>2. /\ \A g \in Frames : cache'[g] = q => Mem'[q] = data'[g]
        /\ (\A g \in Frames : cache'[g] # q) => Mem'[q] = backing'[q]
    BY MemAtNext DEF LinkInv
  <2>3. CASE q = p
    BY <1>2, <1>5, <2>1, <2>2, <2>3
  <2>4. CASE q # p /\ cache[f] = q
    <3>1. q # NoPage /\ \A g \in Frames : cache'[g] # q
      BY <1>5, <2>4, Conversions DEF LinkInv, CacheInjective
    <3>2. backing'[q] = data[f]
      <4>1. CASE dirty[q]
        BY <1>2, <1>4, <2>4, <3>1, <4>1 DEF TypeOK
      <4>2. CASE ~dirty[q]
        <5>1. \A u \in Threads : \A i \in Counted(u) : tlb[u][i].bs # q
          <6>1. Holders(q) = {}
            BY <1>1, <2>4, <3>1, UnreferencedUnheld DEF Loadable
          <6> QED
            BY <6>1 DEF Holders
        <5>2. data[f] = backing[q]
          BY <2>4, <3>1, <4>2, <5>1 DEF LinkInv, NothingLost
        <5> QED
          BY <1>4, <2>4, <4>2, <5>2
      <4> QED
        BY <4>1, <4>2
    <3> QED
      BY <2>1, <2>2, <2>4, <3>1, <3>2
  <2>5. CASE q # p /\ cache[f] # q
    <3>1. backing'[q] = backing[q]
      BY <1>2, <1>4, <2>5 DEF TypeOK
    <3> QED
      BY <1>5, <2>1, <2>2, <2>5, <3>1
  <2> QED
    BY <2>3, <2>4, <2>5
<1> QED
  BY <1>6 DEF Mem

(* A load returns, and a store changes, the page the program named. *)
LEMMA AccessIsFlat ==
  ASSUME LinkInv, LinkInv', NEW t \in Threads
  PROVE  /\ LoadLinked(t) => Flat!Read(t)
         /\ \A v \in Values : StoreLinked(t, v) => Flat!Write(t, v)
<1> DEFINE p == req[t].page
           f == res[t]
<1>1. ASSUME pc[t] = "linked"
      PROVE  /\ f \in Frames /\ cache[f] = p
             /\ req[t] # Flat!NoAccess
             /\ p \in Pages
             /\ req[t].off \in Offsets
  <2>1. req[t] \in Accesses
    BY <1>1 DEF LinkInv, TypeOK, ReqPending
  <2>2. p \in Pages /\ req[t].off \in Offsets
    BY <2>1, AccessesOK
  <2>3. req[t] # Flat!NoAccess
    BY <2>2, Conversions DEF Flat!NoAccess, NoPage
  <2> QED
    BY <1>1, <2>2, <2>3, LinkedCounted
<1>2. ASSUME LoadLinked(t)
      PROVE  Flat!Read(t)
  <2>1. /\ pc[t] = "linked" /\ ~req[t].dirty
        /\ val' = [val EXCEPT ![t] = data[f][req[t].off]]
        /\ req' = [req EXCEPT ![t] = NoReq]
        /\ UNCHANGED <<cache, data, backing>>
    BY <1>2 DEF LoadLinked, Return, lstoreVars
  <2>2. Mem[p] = data[f]
    BY <1>1, <2>1, MemAt DEF LinkInv
  <2>3. Mem' = Mem
    BY <2>1 DEF Mem
  <2> QED
    BY <1>1, <2>1, <2>2, <2>3 DEF Flat!Read, Flat!NoAccess, NoReq, NoPage
<1>3. ASSUME NEW v \in Values, StoreLinked(t, v)
      PROVE  Flat!Write(t, v)
  <2>1. /\ pc[t] = "linked" /\ req[t].dirty
        /\ data' = [data EXCEPT ![f][req[t].off] = v]
        /\ req' = [req EXCEPT ![t] = NoReq]
        /\ UNCHANGED <<val, cache, backing>>
        /\ TypeOK
    BY <1>3 DEF StoreLinked, Return, LinkInv
  <2>2. Mem[p] = data[f]
    BY <1>1, <2>1, MemAt DEF LinkInv
  <2>3. /\ data'[f] = [data[f] EXCEPT ![req[t].off] = v]
        /\ \A g \in Frames : g # f => data'[g] = data[g]
    BY <1>1, <2>1 DEF TypeOK
  <2>4. ASSUME NEW q \in Pages
        PROVE  Mem'[q] = IF q = p THEN [Mem[p] EXCEPT ![req[t].off] = v] ELSE Mem[q]
    <3>1. /\ \A g \in Frames : cache[g] = q => Mem[q] = data[g] /\ Mem'[q] = data'[g]
          /\ (\A g \in Frames : cache[g] # q) => Mem[q] = backing[q] /\ Mem'[q] = backing[q]
      BY <2>1, MemAt, MemAtNext DEF LinkInv
    <3>2. CASE q = p
      BY <1>1, <2>1, <2>2, <2>3, <3>1, <3>2
    <3>3. CASE q # p
      <4>1. \A g \in Frames : cache[g] = q => g # f
        BY <1>1, <2>1, <3>3
      <4> QED
        BY <2>3, <3>1, <3>3, <4>1
    <3> QED
      BY <3>2, <3>3
  <2>5. Mem' = [Mem EXCEPT ![p] = [Mem[p] EXCEPT ![req[t].off] = v]]
    BY <2>4 DEF Mem
  <2> QED
    BY <1>1, <2>1, <2>5 DEF Flat!Write, Flat!NoAccess, NoReq, NoPage
<1> QED
  BY <1>2, <1>3

(* Every behaviour of the runtime, seen through Mem, is one of FlatMemory. *)
THEOREM LinksRefineFlatMemory ==
  ASSUME InitThreads = Threads, LstoreMod = IndexMod
  PROVE  Spec => LinksAreFlat
<1>1. Init => Flat!FlatInit
  <2> SUFFICES ASSUME Init
               PROVE  Flat!FlatInit
    OBVIOUS
  <2>1. Mem = [p \in Pages |-> [o \in Offsets |-> 0]]
    BY Conversions DEF Init, Mem
  <2> QED
    BY <2>1 DEF Init, Flat!FlatInit, Flat!NoAccess, NoReq, NoPage
<1>2. LinkInv /\ LinkInv' /\ [Next]_vars => [Flat!FlatNext]_Flat!flatVars
  <2> SUFFICES ASSUME LinkInv, LinkInv', [Next]_vars
               PROVE  [Flat!FlatNext]_Flat!flatVars
    OBVIOUS
  <2>1. ASSUME UNCHANGED <<cache, data, backing, req, val>>
        PROVE  UNCHANGED Flat!flatVars
    BY <2>1 DEF Flat!flatVars, Mem
  <2>2. CASE UNCHANGED vars
    BY <2>1, <2>2 DEF vars, threadVars, lstoreVars
  <2>3. CASE Next
    <3>1. PICK t \in Threads :
            \/ Initialize(t)
            \/ \E r \in Accesses : LinkHit(t, r) \/ LinkMiss(t, r)
            \/ LinkStep(t)
            \/ Access(t)
      BY <2>3 DEF Next
    <3>2. CASE Initialize(t) \/ FaultResident(t) \/ Drop(t) \/ Insert(t)
      BY <2>1, <3>2 DEF Initialize, FaultResident, Drop, Insert, lstoreVars
    <3>3. CASE \E r \in Accesses : LinkHit(t, r) \/ LinkMiss(t, r)
      <4>1. PICK r \in Accesses : LinkHit(t, r) \/ LinkMiss(t, r)
        BY <3>3
      <4>2. /\ pc[t] = "idle"
            /\ req' = [req EXCEPT ![t] = r]
            /\ val' = [val EXCEPT ![t] = NoValue]
            /\ UNCHANGED <<cache, data, backing>>
        BY <4>1 DEF LinkHit, LinkMiss, lstoreVars
      <4>3. Mem' = Mem
        BY <4>2 DEF Mem
      <4>4. req[t] = Flat!NoAccess
        BY <4>2 DEF LinkInv, ReqPending, NoReq, NoPage, Flat!NoAccess
      <4>5. r \in Flat!Access
        BY <4>1, AccessesOK DEF Flat!Access
      <4>6. Flat!Begin(t, r)
        BY <4>2, <4>3, <4>4 DEF Flat!Begin
      <4> QED
        BY <4>5, <4>6 DEF Flat!FlatNext
    <3>4. CASE FaultLoad(t)
      <4>1. UNCHANGED <<req, val>> /\ Mem' = Mem
        BY <3>4, FaultKeepsMem DEF FaultLoad
      <4> QED
        BY <4>1 DEF Flat!flatVars
    <3>5. CASE Access(t)
      BY <3>5, AccessIsFlat DEF Access, Flat!FlatNext
    <3> QED
      BY <3>1, <3>2, <3>3, <3>4, <3>5 DEF LinkStep
  <2> QED
    BY <2>2, <2>3
<1>3. Spec => []LinkInv
  BY LinkInvariant
<1>4. Spec => Flat!FlatSpec
  BY <1>1, <1>2, <1>3, PTL DEF Spec, Flat!FlatSpec
<1> QED
  BY <1>4 DEF LinksAreFlat

---------------------------------------------------------------------------
(* Bytes of the storage area, for the components that address them *)

LEMMA Division ==
  ASSUME NEW d \in Nat \ {0}, NEW q \in Int, NEW r \in 0 .. (d - 1)
  PROVE  (d * q + r) \div d = q /\ (d * q + r) % d = r
<1>1. d * q \in Int
  OBVIOUS
<1> DEFINE n == d * q + r
<1>2. n \in Int /\ n \div d \in Int /\ n % d \in 0 .. (d - 1) /\ n = d * (n \div d) + (n % d)
  BY <1>1
<1> DEFINE k == n \div d
<1>3. k < q => d * k <= d * q - d
  <2> SUFFICES ASSUME k < q PROVE d * (q - k) >= d
    BY <1>2
  <2> QED
    BY <1>2
<1>4. k > q => d * k >= d * q + d
  <2> SUFFICES ASSUME k > q PROVE d * (k - q) >= d
    BY <1>2
  <2> QED
    BY <1>2
<1>5. n = d * q + r
  OBVIOUS
<1> HIDE DEF n
<1>6. k = q
  BY <1>1, <1>2, <1>3, <1>4, <1>5
<1> QED
  BY <1>1, <1>2, <1>5, <1>6

LEMMA DividedBy ==
  ASSUME NEW d \in Nat \ {0}, NEW n \in Nat
  PROVE  n \div d \in Int /\ n % d \in 0 .. (d - 1) /\ n = d * (n \div d) + (n % d)
OBVIOUS

(* Byte n is at an offset of a page, ... *)
LEMMA BytePlace ==
  ASSUME NEW size \in Nat \ {0}, Pages = 0 .. (Cardinality(Pages) - 1),
         Offsets = 0 .. (size - 1), NEW n \in 0 .. (size * Cardinality(Pages) - 1)
  PROVE  /\ n \div size \in Pages /\ n % size \in Offsets
         /\ n = size * (n \div size) + (n % size)
<1> DEFINE q == n \div size
           c == Cardinality(Pages)
<1>1. size \in Nat \ {0} /\ c \in Nat /\ n \in Nat /\ n < size * c
  BY ConstantsOK, FS_CardinalityType
<1>2. q \in Int /\ n % size \in 0 .. (size - 1) /\ n = size * q + (n % size)
  BY <1>1
<1>3. q >= 0
  BY <1>1
<1>4. q < c
  <2> SUFFICES ASSUME q >= c PROVE size * q >= size * c
    BY <1>1, <1>2
  <2>1. size * (q - c) >= 0
    BY <1>1, <1>2
  <2> QED
    BY <1>1, <1>2, <2>1
<1> HIDE DEF q, c
<1>5. q \in 0 .. (c - 1)
  BY <1>1, <1>2, <1>3, <1>4
<1> QED
  BY <1>2, <1>5 DEF q, c

(* ... and every offset of a page is a byte. *)
LEMMA PlaceByte ==
  ASSUME NEW size \in Nat \ {0}, Pages = 0 .. (Cardinality(Pages) - 1),
         Offsets = 0 .. (size - 1), NEW p \in Pages, NEW o \in Offsets
  PROVE  /\ size * p + o \in 0 .. (size * Cardinality(Pages) - 1)
         /\ (size * p + o) \div size = p
         /\ (size * p + o) % size = o
<1> DEFINE c == Cardinality(Pages)
<1>1. /\ size \in Nat \ {0} /\ c \in Nat /\ p \in 0 .. (c - 1)
      /\ o \in 0 .. (size - 1)
  BY ConstantsOK, FS_CardinalityType
<1> HIDE DEF c
<1>2. size * p \in Nat /\ size * (c - 1 - p) >= 0
  BY <1>1
<1>3. size * (c - 1 - p) = size * c - size - size * p
  BY <1>1
<1>4. size * p + o \in 0 .. (size * c - 1)
  <2>1. size * c \in Int
    BY <1>1
  <2> QED
    BY <1>1, <1>2, <1>3, <2>1
<1>5. (size * p + o) \div size = p /\ (size * p + o) % size = o
  BY <1>1, Division
<1> QED
  BY <1>4, <1>5 DEF c

---------------------------------------------------------------------------
(* What the components that call the links rely on *)

LEMMA MemSame ==
  UNCHANGED <<cache, data, backing>> => Mem' = Mem
BY DEF Mem

(* The thread's TLB has the page p, as dirty. *)
StoresTo(t, p) == \E j \in Counted(t) : tlb[t][j].bs = p /\ tlb[t][j].dirty

(* The links' invariant is about the frames that are written as well: they *)
(* are those of pages that a TLB has as dirty.                             *)
LEMMA WrittenInv ==
  ASSUME LinkInv, UNCHANGED <<threadVars, cache, ref, dirty, backing>>,
         data' \in [Frames -> [Offsets -> Values]],
         \A f \in Frames : data'[f] # data[f] => \E t \in Threads : StoresTo(t, cache[f])
  PROVE  LinkInv'
<1> USE DEF threadVars
<1>1. \A t \in Threads : Counted(t)' = Counted(t)
  BY DEF Counted
<1>2. \A p : Holders(p)' = Holders(p)
  BY <1>1 DEF Holders
<1>3. TypeOK' /\ ReqPending' /\ EntriesUsable' /\ NoDuplicates' /\ MissStaysMissed'
  BY DEF LinkInv, TypeOK, ReqPending, EntriesUsable, NoDuplicates, MissStaysMissed
<1>4. InFlightStays' /\ LinkedEntry'
  BY DEF LinkInv, InFlightStays, LinkedEntry
<1>5. TlbCoherent' /\ CacheInjective'
  BY <1>1 DEF LinkInv, TlbCoherent, CacheInjective
<1>6. NothingLost'
  <2> SUFFICES ASSUME NEW f \in Frames, cache[f] # NoPage, ~dirty[cache[f]],
                      ~ \E t \in Threads : StoresTo(t, cache[f])
               PROVE  data'[f] = backing[cache[f]]
    BY <1>1 DEF NothingLost, StoresTo
  <2>1. data'[f] = data[f]
    OBVIOUS
  <2> QED
    BY <2>1 DEF LinkInv, NothingLost, StoresTo
<1>7. RefMatches'
  BY <1>2 DEF LinkInv, RefMatches
<1> QED
  BY <1>3, <1>4, <1>5, <1>6, <1>7 DEF LinkInv

(* An address is taken from a link that returned; the page stays in the     *)
(* TLB.                                                                    *)
LEMMA ReturnInv ==
  ASSUME LinkInv, NEW t \in Threads, pc[t] = "linked", Return(t),
         UNCHANGED <<tlb, val, lstoreVars>>
  PROVE  LinkInv'
<1> USE DEF lstoreVars
<1>1. /\ TypeOK
      /\ pc' = [pc EXCEPT ![t] = "idle"]
      /\ req' = [req EXCEPT ![t] = NoReq]
      /\ res' = [res EXCEPT ![t] = 0]
  BY DEF LinkInv, Return
<1>2. /\ \A u \in Threads : u # t => /\ pc'[u] = pc[u] /\ req'[u] = req[u]
                                      /\ res'[u] = res[u]
      /\ pc'[t] = "idle" /\ req'[t] = NoReq
  BY <1>1 DEF TypeOK
<1>3. TypeOK'
  BY <1>1, ConstantsOK DEF TypeOK, Locations
<1>4. \A u \in Threads : Counted(u)' = Counted(u)
  BY <1>1, <1>2 DEF Counted
<1>5. \A p : Holders(p)' = Holders(p)
  BY <1>1, <1>4 DEF Holders
<1>6. ReqPending'
  BY <1>1, <1>2 DEF LinkInv, ReqPending
<1>7. EntriesUsable' /\ NoDuplicates' /\ MissStaysMissed'
  BY <1>1, <1>2 DEF LinkInv, EntriesUsable, NoDuplicates, MissStaysMissed
<1>8. InFlightStays' /\ LinkedEntry'
  BY <1>1, <1>2 DEF LinkInv, InFlightStays, LinkedEntry
<1>9. TlbCoherent' /\ CacheInjective'
  BY <1>1, <1>4 DEF LinkInv, TlbCoherent, CacheInjective
<1>10. RefMatches'
  BY <1>1, <1>5 DEF LinkInv, RefMatches
<1>11. NothingLost'
  BY <1>1, <1>4 DEF LinkInv, NothingLost
<1> QED
  BY <1>3, <1>6, <1>7, <1>8, <1>9, <1>10, <1>11 DEF LinkInv
===========================================================================
