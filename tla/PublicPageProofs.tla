-------------------------- MODULE PublicPageProofs --------------------------
(* Proofs about PublicPage, for all values of its constants.                  *)
EXTENDS PublicPage, TLAPS

ReaderAction(r) ==
  Ask(r) \/ Select(r) \/ NotFound(r) \/ CountView(r) \/ CountFails(r) \/ Respond(r)

OwnerAction(o) ==
  ToggleLoad(o) \/ ToggleCommit(o) \/ DeleteLoad(o) \/ DeleteCommit(o) \/ OwnerFails(o)

CrawlerAction(c) == CrawlSelect(c) \/ CrawlEnds(c)

(* What a visitor's request has loaded: a row that has had the address, and,  *)
(* while it is still that row, a counter that has not overtaken the commits.  *)
LoadedRows ==
  \A r \in Readers :
    reader[r].pc = "loaded" =>
      /\ reader[r].gen <= row.gen
      /\ reader[r].gen = row.gen => reader[r].seen <= counted

(* The inductive invariant of the counter and of the types.                   *)
Counting == TypeOK /\ LoadedRows /\ ViewsBounded

Rows == [here : BOOLEAN, public : BOOLEAN, stage : Stage, gen : 0 .. MaxGen]

Visits == [pc : {"idle", "asked", "loaded", "answering", "failed"},
           gen : 0 .. MaxGen, seen : 0 .. MaxViews, counted : BOOLEAN]

Changes == [pc : {"idle", "toggling", "deleting"}, target : BOOLEAN, gen : 0 .. MaxGen]

-----------------------------------------------------------------------------
LEMMA InitialCounting ==
  ASSUME Init
  PROVE  Counting
<1>1. reader \in [Readers -> Visits] /\ owner \in [Owners -> Changes]
  BY BoundsAssumption DEF Init, Visitor, IdleOwner, Visits, Changes
<1>2. row \in Rows /\ views \in 0 .. MaxViews /\ counted \in 0 .. MaxViews
  BY BoundsAssumption DEF Init, Stage, Rows
<1>3. sitemap \in BOOLEAN \cup {None} /\ crawler \in [Crawlers -> BOOLEAN \cup {None}]
  BY DEF Init
<1>4. TypeOK
  BY <1>1, <1>2, <1>3 DEF TypeOK, Visits, Changes, Rows
<1>5. LoadedRows /\ ViewsBounded
  BY DEF Init, LoadedRows, ViewsBounded, Visitor
<1> QED
  BY <1>4, <1>5 DEF Counting

(* A visitor's request that holds no row, or holds the one it held, says      *)
(* nothing new about the counter.                                             *)
LEMMA ReaderMoves ==
  ASSUME Counting, NEW r \in Readers, NEW v \in Visits, v.pc # "loaded",
         reader' = [reader EXCEPT ![r] = v],
         UNCHANGED <<row, owner, mapVars>>,
         views' \in 0 .. MaxViews, counted' \in 0 .. MaxViews,
         counted <= counted', ViewsBounded'
  PROVE  Counting'
<1> USE BoundsAssumption
<1>1. reader' \in [Readers -> Visits]
  BY DEF Counting, TypeOK, Visits
<1>2. TypeOK'
  BY <1>1 DEF Counting, TypeOK, Visits, mapVars
<1>3. LoadedRows'
  <2> SUFFICES ASSUME NEW q \in Readers, reader'[q].pc = "loaded"
               PROVE  /\ reader'[q].gen <= row'.gen
                      /\ reader'[q].gen = row'.gen => reader'[q].seen <= counted'
    BY DEF LoadedRows
  <2>1. q # r /\ reader'[q] = reader[q]
    BY DEF Counting, TypeOK
  <2>2. /\ reader[q].gen <= row.gen
        /\ reader[q].gen = row.gen => reader[q].seen <= counted
    BY <2>1 DEF Counting, LoadedRows
  <2>3. reader[q].seen \in Int /\ counted \in Int /\ counted' \in Int
    BY DEF Counting, TypeOK
  <2> QED
    BY <2>1, <2>2, <2>3
<1> QED
  BY <1>2, <1>3 DEF Counting

(* The steps of a visitor's request keep the counter within the commits.      *)
LEMMA ReadersCount ==
  ASSUME Counting, NEW r \in Readers, ReaderAction(r)
  PROVE  Counting'
<1> USE BoundsAssumption
<1>1. reader \in [Readers -> Visits] /\ reader[r] \in Visits
  BY DEF Counting, TypeOK, Visits
<1>2. CASE Ask(r) \/ NotFound(r) \/ CountFails(r) \/ Respond(r)
  <2>1. UNCHANGED <<row, views, counted, owner, mapVars>>
    BY <1>2 DEF Ask, NotFound, CountFails, Respond, viewVars
  <2>2. PICK v \in Visits : v.pc # "loaded" /\ reader' = [reader EXCEPT ![r] = v]
    <3>1. CASE Ask(r) \/ Respond(r)
      <4>1. PICK pc \in {"asked", "failed"}, b \in BOOLEAN :
              reader' = [reader EXCEPT ![r] = Visitor(pc, b)]
        BY <1>1, <3>1 DEF Ask, Respond, Visits
      <4>2. Visitor(pc, b) \in Visits /\ Visitor(pc, b).pc # "loaded"
        BY DEF Visitor, Visits
      <4> QED
        BY <4>1, <4>2
    <3>2. CASE NotFound(r) \/ CountFails(r)
      <4>1. PICK pc \in {"idle", "answering"} : reader' = [reader EXCEPT ![r].pc = pc]
        BY <3>2 DEF NotFound, CountFails, SetReader
      <4>2. [reader[r] EXCEPT !.pc = pc] \in Visits
        BY <1>1 DEF Visits
      <4>3. [reader[r] EXCEPT !.pc = pc].pc # "loaded"
        BY <1>1 DEF Visits
      <4> QED
        BY <4>1, <4>2, <4>3
    <3> QED
      BY <1>2, <3>1, <3>2
  <2>3. /\ views' \in 0 .. MaxViews /\ counted' \in 0 .. MaxViews
        /\ counted <= counted' /\ ViewsBounded'
    BY <2>1 DEF Counting, TypeOK, ViewsBounded
  <2> QED
    BY <2>1, <2>2, <2>3, ReaderMoves
<1>3. CASE Select(r)
  <2>1. /\ UNCHANGED <<row, views, counted, owner, sitemap, crawler>>
        /\ reader' = [reader EXCEPT ![r] = [pc |-> "loaded", gen |-> row.gen, seen |-> views,
                                            counted |-> FALSE]]
    BY <1>3 DEF Select, viewVars, mapVars
  <2>2. row.gen \in 0 .. MaxGen /\ views \in 0 .. MaxViews /\ views <= counted
    BY DEF Counting, TypeOK, ViewsBounded
  <2>3. reader' \in [Readers -> Visits]
    BY <1>1, <2>1, <2>2 DEF Visits
  <2>4. TypeOK'
    BY <2>1, <2>3 DEF Counting, TypeOK, Visits
  <2>5. LoadedRows'
    <3> SUFFICES ASSUME NEW q \in Readers, reader'[q].pc = "loaded"
                 PROVE  /\ reader'[q].gen <= row.gen
                        /\ reader'[q].gen = row.gen => reader'[q].seen <= counted
      BY <2>1 DEF LoadedRows
    <3>1. CASE q = r
      BY <1>1, <2>1, <2>2, <3>1
    <3>2. CASE q # r
      BY <1>1, <2>1, <3>2 DEF Counting, LoadedRows
    <3> QED
      BY <3>1, <3>2
  <2> QED
    BY <2>1, <2>4, <2>5 DEF Counting, ViewsBounded
<1>4. CASE CountView(r)
  <2>1. /\ UNCHANGED <<row, owner, mapVars>>
        /\ reader' = [reader EXCEPT ![r].pc = "answering", ![r].counted = TRUE]
        /\ reader[r].pc = "loaded" /\ reader[r].gen = row.gen
    BY <1>4 DEF CountView, Same
  <2>2. reader[r].seen \in 0 .. MaxViews /\ reader[r].seen <= counted
    BY <1>1, <2>1 DEF Counting, Visits, LoadedRows
  <2>3. /\ views' \in 0 .. MaxViews /\ counted' \in 0 .. MaxViews
        /\ counted <= counted' /\ views' <= counted' /\ (counted' > 0 => views' > 0)
    <3>1. CASE counted < MaxViews
      BY <1>4, <2>2, <3>1 DEF CountView, NextViews, Counting, TypeOK
    <3>2. CASE ~(counted < MaxViews)
      BY <1>4, <3>2 DEF CountView, viewVars, Counting, TypeOK, ViewsBounded
    <3> QED
      BY <3>1, <3>2
  <2> DEFINE done == [reader[r] EXCEPT !.pc = "answering", !.counted = TRUE]
  <2>4. done \in Visits /\ done.pc # "loaded" /\ reader' = [reader EXCEPT ![r] = done]
    BY <1>1, <2>1 DEF Visits
  <2>5. ViewsBounded'
    BY <2>3 DEF ViewsBounded
  <2> HIDE DEF done
  <2> QED
    BY <2>1, <2>3, <2>4, <2>5, ReaderMoves
<1> QED
  BY <1>2, <1>3, <1>4 DEF ReaderAction

(* The steps of an owner's request leave the counter and the visitors alone.  *)
LEMMA OwnersCount ==
  ASSUME Counting, NEW o \in Owners, OwnerAction(o)
  PROVE  Counting'
<1> USE BoundsAssumption
<1>0. row \in Rows /\ owner \in [Owners -> Changes]
  BY DEF Counting, TypeOK, Rows, Changes
<1>1. UNCHANGED <<views, counted, reader, sitemap, crawler>>
  BY DEF OwnerAction, ToggleLoad, ToggleCommit, DeleteLoad, DeleteCommit, OwnerFails, Load,
     viewVars, mapVars
<1>2. row' \in Rows /\ row'.gen = row.gen
  <2>1. CASE ToggleCommit(o)
    BY <1>0, <2>1 DEF ToggleCommit, Rows, Changes
  <2>2. CASE DeleteCommit(o)
    BY <1>0, <2>2 DEF DeleteCommit, Rows
  <2>3. CASE UNCHANGED row
    BY <1>0, <2>3
  <2> QED
    BY <2>1, <2>2, <2>3 DEF OwnerAction, ToggleLoad, DeleteLoad, OwnerFails, Load
<1>3. owner' \in [Owners -> Changes]
  <2>1. CASE ToggleLoad(o) \/ DeleteLoad(o)
    <3>1. PICK pc \in {"toggling", "deleting"} : Load(o, pc)
      BY <2>1 DEF ToggleLoad, DeleteLoad
    <3>2. [pc |-> pc, target |-> ~row.public, gen |-> row.gen] \in Changes
      BY <1>0 DEF Rows, Changes
    <3> QED
      BY <1>0, <3>1, <3>2 DEF Load
  <2>2. CASE OwnerEnds(o)
    BY <1>0, <2>2 DEF OwnerEnds, IdleOwner, Changes
  <2> QED
    BY <2>1, <2>2 DEF OwnerAction, ToggleCommit, DeleteCommit, OwnerFails
<1>4. TypeOK'
  BY <1>1, <1>2, <1>3 DEF Counting, TypeOK, Rows, Changes
<1>5. LoadedRows' /\ ViewsBounded'
  BY <1>1, <1>2 DEF Counting, LoadedRows, ViewsBounded
<1> QED
  BY <1>4, <1>5 DEF Counting

(* The address given to a new row: nobody has loaded that row yet.            *)
LEMMA RegenerateCounts ==
  ASSUME Counting, Regenerate
  PROVE  Counting'
<1> USE BoundsAssumption
<1>1. UNCHANGED <<reader, owner, sitemap, crawler>>
  BY DEF Regenerate, mapVars
<1>2. row.gen \in 0 .. MaxGen /\ row'.gen = row.gen + 1 /\ row'.gen \in 0 .. MaxGen
  BY DEF Regenerate, Counting, TypeOK
<1>3. row' \in Rows
  BY <1>2 DEF Regenerate, Stage, Rows
<1>4. TypeOK'
  BY <1>1, <1>3 DEF Regenerate, Counting, TypeOK, Rows
<1>5. LoadedRows'
  <2> SUFFICES ASSUME NEW q \in Readers, reader[q].pc = "loaded"
               PROVE  reader[q].gen <= row'.gen /\ reader[q].gen # row'.gen
    BY <1>1 DEF LoadedRows
  <2>1. reader[q].gen \in 0 .. MaxGen /\ reader[q].gen <= row.gen
    BY DEF Counting, TypeOK, LoadedRows
  <2> QED
    BY <1>2, <2>1
<1>6. ViewsBounded'
  BY DEF Regenerate, ViewsBounded
<1> QED
  BY <1>4, <1>5, <1>6 DEF Counting

LEMMA NextCounts ==
  ASSUME Counting, [Next]_vars
  PROVE  Counting'
<1> USE BoundsAssumption
<1>1. CASE \E r \in Readers : ReaderAction(r)
  BY <1>1, ReadersCount
<1>2. CASE \E o \in Owners : OwnerAction(o)
  BY <1>2, OwnersCount
<1>3. CASE (\E c \in Crawlers : CrawlerAction(c)) \/ SitemapExpire
  <2>1. UNCHANGED <<row, views, counted, reader, owner>>
    BY <1>3 DEF CrawlerAction, CrawlEnds, CrawlSelect, CrawlFill, CrawlFillFails, SitemapExpire,
       viewVars
  <2>2. /\ sitemap' \in BOOLEAN \cup {None}
        /\ crawler' \in [Crawlers -> BOOLEAN \cup {None}]
    <3>1. ASSUME NEW c \in Crawlers, CrawlSelect(c)
          PROVE  <2>2!1 /\ <2>2!2
      <4>1. Listed \in BOOLEAN
        BY DEF Listed, Visible, Counting, TypeOK
      <4> QED
        BY <3>1, <4>1 DEF CrawlSelect, SetCrawler, Counting, TypeOK
    <3>2. ASSUME NEW c \in Crawlers, CrawlEnds(c)
          PROVE  <2>2!1 /\ <2>2!2
      BY <3>2 DEF CrawlEnds, CrawlFill, CrawlFillFails, SetCrawler, Counting, TypeOK
    <3>3. CASE SitemapExpire
      BY <3>3 DEF SitemapExpire, Counting, TypeOK
    <3> QED
      BY <1>3, <3>1, <3>2, <3>3 DEF CrawlerAction
  <2> QED
    BY <2>1, <2>2 DEF Counting, TypeOK, LoadedRows, ViewsBounded
<1>4. CASE SetStage
  <2>1. PICK s \in Stage : row' = [row EXCEPT !.stage = s]
    BY <1>4 DEF SetStage
  <2>2. row' \in Rows /\ row'.gen = row.gen
    BY <2>1 DEF Counting, TypeOK, Rows
  <2> QED
    BY <1>4, <2>2 DEF SetStage, viewVars, mapVars, Counting, TypeOK, LoadedRows, ViewsBounded, Rows
<1>5. CASE Regenerate
  BY <1>5, RegenerateCounts
<1>6. CASE UNCHANGED vars
  BY <1>6 DEF vars, Counting, TypeOK, LoadedRows, ViewsBounded
<1> QED
  BY <1>1, <1>2, <1>3, <1>4, <1>5, <1>6 DEF Next, ReaderAction, OwnerAction, CrawlerAction

(* Every variable keeps its type, in every behaviour and for all constants.   *)
THEOREM TypeCorrect == Spec => []TypeOK
<1>1. Spec => []Counting
  BY InitialCounting, NextCounts, PTL DEF Spec
<1>2. Counting => TypeOK
  BY DEF Counting
<1> QED
  BY <1>1, <1>2, PTL

(* However many visitors overwrite each other's counts, and however often the *)
(* address passes to a new row, the counter never counts a visit that did not *)
(* commit and never forgets them all.                                         *)
THEOREM ViewsCorrect == Spec => []ViewsBounded
<1>1. Spec => []Counting
  BY InitialCounting, NextCounts, PTL DEF Spec
<1>2. Counting => ViewsBounded
  BY DEF Counting
<1> QED
  BY <1>1, <1>2, PTL
=============================================================================
