----------------------------- MODULE PublicPage -----------------------------
(***************************************************************************)
(* One public address, /portfolio/p/{slug}: the row behind it, the         *)
(* visitors who read it and count themselves, the sitemap that lists it    *)
(* and the owner's requests that hide or delete it.  A step ends where the *)
(* handler awaits something that another request can see or change.        *)
(*                                                                         *)
(* The Redis entry of the page is not here because it is never written.    *)
(* Counting the visit updates the row, and the update expires updated_at   *)
(* (onupdate, and no eager_defaults); _to_response reads it outside the    *)
(* greenlet of the AsyncSession and raises, so that cache.set, two lines   *)
(* below, is not reached.  Reads of the entry miss and deletes of it find  *)
(* nothing.  The sitemap selects columns, not objects, and is cached.      *)
(*                                                                         *)
(* A slug is a function of the user and the parsed name, so a portfolio    *)
(* generated after a delete may come back under the same slug: `gen' tells *)
(* the rows that have had the address apart.                               *)
(***************************************************************************)
EXTENDS Integers

CONSTANTS
  Readers,      \* concurrent GET /p/{slug} requests
  Owners,       \* concurrent PUT /{id}/publish and DELETE /{id} requests
  Crawlers,     \* concurrent GET /sitemap requests
  MaxGen,       \* bound: rows that have the slug one after the other
  MaxViews,     \* bound: the counters stop here
  None

ASSUME BoundsAssumption ==
  /\ MaxGen \in Nat /\ MaxViews \in Nat
  /\ None \notin Nat \cup BOOLEAN

VARIABLES
  row,       \* the committed row: is it here, is_public, its stage, its gen
  views,     \* portfolios.views
  counted,   \* view-counting commits of this row
  reader,    \* the visitors' requests: the row and the views they loaded, and
             \* whether they committed a visit
  owner,     \* the owner's requests
  sitemap,   \* the cached sitemap: None, or does it list the slug?
  crawler    \* the sitemap requests: None, or what their select returned

vars == <<row, views, counted, reader, owner, sitemap, crawler>>
mapVars == <<sitemap, crawler>>
viewVars == <<views, counted>>

Stage == {"unfinished", "published"}

(* A visitor's request that holds no row. *)
Visitor(pc, was) == [pc |-> pc, gen |-> 0, seen |-> 0, counted |-> was]

IdleOwner == [pc |-> "idle", target |-> FALSE, gen |-> 0]

Init ==
  /\ row = [here |-> TRUE, public |-> TRUE, stage |-> "unfinished", gen |-> 0]
  /\ views = 0
  /\ counted = 0
  /\ reader = [r \in Readers |-> Visitor("idle", FALSE)]
  /\ owner = [o \in Owners |-> IdleOwner]
  /\ sitemap = None
  /\ crawler = [c \in Crawlers |-> None]

-----------------------------------------------------------------------------
(* Faulty variants: each replaces the definition it is named after in one     *)
(* check, which shows that the property checked there can fail.               *)

NextViews_AddsHit(seen) == seen + 2
Same_AnyRow(gen) == row.here
Listed_Hidden == row.here /\ row.stage = "published"
-----------------------------------------------------------------------------

Visible == row.here /\ row.public

(* The row a request loaded is still the one in the table. *)
Same(gen) == row.here /\ row.gen = gen

-----------------------------------------------------------------------------
(* GET /p/{slug}. *)

SetReader(r, pc) == reader' = [reader EXCEPT ![r].pc = pc]

(* cache.get finds nothing. *)
Ask(r) ==
  /\ reader[r].pc \in {"idle", "failed"}
  /\ reader' = [reader EXCEPT ![r] = Visitor("asked", FALSE)]
  /\ UNCHANGED <<row, viewVars, owner, mapVars>>

(* where(slug == slug, is_public): the status is not looked at. *)
Select(r) ==
  /\ reader[r].pc = "asked"
  /\ Visible
  /\ reader' = [reader EXCEPT ![r] = [pc |-> "loaded", gen |-> row.gen, seen |-> views,
                                      counted |-> FALSE]]
  /\ UNCHANGED <<row, viewVars, owner, mapVars>>

NotFound(r) ==
  /\ reader[r].pc = "asked"
  /\ ~Visible
  /\ SetReader(r, "idle")
  /\ UNCHANGED <<row, viewVars, owner, mapVars>>

NextViews(seen) == seen + 1

(* views is written from the value read before, whatever it is by now. *)
CountView(r) ==
  /\ reader[r].pc = "loaded"
  /\ Same(reader[r].gen)
  /\ IF counted < MaxViews
     THEN views' = NextViews(reader[r].seen) /\ counted' = counted + 1
     ELSE UNCHANGED viewVars
  /\ reader' = [reader EXCEPT ![r].pc = "answering", ![r].counted = TRUE]
  /\ UNCHANGED <<row, owner, mapVars>>

(* The row is gone, or the commit fails: swallowed. *)
CountFails(r) ==
  /\ reader[r].pc = "loaded"
  /\ SetReader(r, "answering")
  /\ UNCHANGED <<row, viewVars, owner, mapVars>>

(* 500: after the commit updated_at is expired, after a failed one the whole  *)
(* object is, and the response cannot be built from it.                       *)
Respond(r) ==
  /\ reader[r].pc = "answering"
  /\ reader' = [reader EXCEPT ![r] = Visitor("failed", reader[r].counted)]
  /\ UNCHANGED <<row, viewVars, owner, mapVars>>

-----------------------------------------------------------------------------
(* The owner: PUT /{id}/publish and DELETE /{id}. *)

Load(o, pc) ==
  /\ owner[o].pc = "idle"
  /\ row.here
  /\ owner' = [owner EXCEPT ![o] = [pc |-> pc, target |-> ~row.public, gen |-> row.gen]]
  /\ UNCHANGED <<row, viewVars, reader, mapVars>>

OwnerEnds(o) == owner' = [owner EXCEPT ![o] = IdleOwner]

ToggleLoad(o) == Load(o, "toggling")

(* The answer is a 500 all the same, for the reason a visitor gets one. *)
ToggleCommit(o) ==
  /\ owner[o].pc = "toggling"
  /\ Same(owner[o].gen)
  /\ row' = [row EXCEPT !.public = owner[o].target]
  /\ OwnerEnds(o)
  /\ UNCHANGED <<viewVars, reader, mapVars>>

(* cache.delete, which removes nothing, lies between the load and the commit. *)
DeleteLoad(o) == Load(o, "deleting")

DeleteCommit(o) ==
  /\ owner[o].pc = "deleting"
  /\ row' = IF Same(owner[o].gen) THEN [row EXCEPT !.here = FALSE] ELSE row
  /\ OwnerEnds(o)
  /\ UNCHANGED <<viewVars, reader, mapVars>>

(* The row to be toggled is gone, or the commit fails. *)
OwnerFails(o) ==
  /\ owner[o].pc # "idle"
  /\ OwnerEnds(o)
  /\ UNCHANGED <<row, viewVars, reader, mapVars>>

-----------------------------------------------------------------------------
(* GET /sitemap; its entry is never deleted, it only expires. *)

Listed == Visible /\ row.stage = "published"

SetCrawler(c, found) == crawler' = [crawler EXCEPT ![c] = found]

(* No entry, an empty list (`if cached' takes it for none), or a read of      *)
(* Redis that fails while an entry is there.                                  *)
CrawlSelect(c) ==
  /\ crawler[c] = None
  /\ SetCrawler(c, Listed)
  /\ UNCHANGED <<row, viewVars, reader, owner, sitemap>>

CrawlFill(c) ==
  /\ crawler[c] # None
  /\ sitemap' = crawler[c]
  /\ SetCrawler(c, None)
  /\ UNCHANGED <<row, viewVars, reader, owner>>

(* cache.set swallows a failing Redis. *)
CrawlFillFails(c) ==
  /\ crawler[c] # None
  /\ SetCrawler(c, None)
  /\ UNCHANGED <<row, viewVars, reader, owner, sitemap>>

SitemapExpire ==
  /\ sitemap # None
  /\ sitemap' = None
  /\ UNCHANGED <<row, viewVars, reader, owner, crawler>>

-----------------------------------------------------------------------------
(* The worker writes the status. *)
SetStage ==
  /\ row.here
  /\ \E s \in Stage \ {row.stage} : row' = [row EXCEPT !.stage = s]
  /\ UNCHANGED <<viewVars, reader, owner, mapVars>>

(* Generated again under the same slug: is_public and views by their defaults. *)
Regenerate ==
  /\ ~row.here
  /\ row.gen < MaxGen
  /\ row' = [here |-> TRUE, public |-> TRUE, stage |-> "unfinished", gen |-> row.gen + 1]
  /\ views' = 0
  /\ counted' = 0
  /\ UNCHANGED <<reader, owner, mapVars>>

CrawlEnds(c) == CrawlFill(c) \/ CrawlFillFails(c)

Next ==
  \/ \E r \in Readers : \/ Ask(r) \/ Select(r) \/ NotFound(r) \/ CountView(r)
                        \/ CountFails(r) \/ Respond(r)
  \/ \E o \in Owners : \/ ToggleLoad(o) \/ ToggleCommit(o) \/ DeleteLoad(o)
                       \/ DeleteCommit(o) \/ OwnerFails(o)
  \/ \E c \in Crawlers : CrawlSelect(c) \/ CrawlEnds(c)
  \/ SitemapExpire
  \/ SetStage
  \/ Regenerate

Spec == Init /\ [][Next]_vars

(* Sitemap requests that have begun come to an end, and Redis drops what is   *)
(* past its TTL; nobody has to visit, toggle or delete anything.              *)
FairSpec ==
  /\ Spec
  /\ \A c \in Crawlers : WF_vars(CrawlEnds(c))
  /\ WF_vars(SitemapExpire)

-----------------------------------------------------------------------------
(* Properties. *)

TypeOK ==
  /\ row \in [here : BOOLEAN, public : BOOLEAN, stage : Stage, gen : 0 .. MaxGen]
  /\ views \in 0 .. MaxViews
  /\ counted \in 0 .. MaxViews
  /\ reader \in [Readers -> [pc : {"idle", "asked", "loaded", "answering", "failed"},
                             gen : 0 .. MaxGen, seen : 0 .. MaxViews, counted : BOOLEAN]]
  /\ owner \in [Owners -> [pc : {"idle", "toggling", "deleting"}, target : BOOLEAN,
                           gen : 0 .. MaxGen]]
  /\ sitemap \in BOOLEAN \cup {None}
  /\ crawler \in [Crawlers -> BOOLEAN \cup {None}]

(* The view counter may lose visits that overwrite each other, but it never   *)
(* counts one that did not commit, never forgets them all, and a page that    *)
(* takes the address over inherits none of those of the page before.          *)
ViewsBounded == views <= counted /\ (counted > 0 => views > 0)

(* A page that is hidden or deleted for good leaves the sitemap for good,     *)
(* although nothing invalidates it: lists that come late run out, the TTL     *)
(* does the rest, and no request lists the page again.                        *)
HiddenForGood ==
  <>[]~Visible => <>[](sitemap # TRUE)

(* "GET /portfolio/p/{slug} should return data for a public portfolio": a     *)
(* visitor who was counted gets the page.                                     *)
CountedIsServed ==
  \A r \in Readers : reader[r].pc = "failed" => ~reader[r].counted
=============================================================================
