-------------------------- MODULE ShellCache_proofs --------------------------
(***************************************************************************)
(* Proofs about the service worker and its caches: the type invariant,     *)
(* that a stored document has a bundle unless something went away between  *)
(* the two, and that a page of the build before keeps its bundle when a    *)
(* new worker takes over.                                                  *)
(***************************************************************************)
EXTENDS ShellCache, FiniteSetTheorems, WellFoundedInduction, TLAPS

-----------------------------------------------------------------------------
(* The inductive invariant: the order of the workers. *)

(* No worker, cache or page is ahead of the server, and nothing but its own *)
(* installation is ahead of the active worker.                              *)
AgesOK(act, inst, cs, add, tb) ==
    /\ act # NONE => act <= deployed
    /\ inst # NONE =>
        /\ inst.build <= deployed
        /\ act # NONE => act < inst.build
        /\ \A n \in DOMAIN cs : n <= inst.build
    /\ \A n \in DOMAIN cs : n <= deployed
    /\ \A a \in add : act # NONE /\ a.cache <= act
    /\ \A t \in Tabs : tb[t] # NONE =>
        /\ tb[t].by # NONE => act # NONE /\ tb[t].by <= act
        /\ tb[t].claims = 0 => tb[t].by = act

(* A cache of a worker that never took over is of one that is being        *)
(* installed, or whose installation missed something.                      *)
NewerIsBroken(act, inst, cs, lost) ==
    \A n \in DOMAIN cs :
        \/ act # NONE /\ n <= act
        \/ n \in lost
        \/ inst # NONE /\ n = inst.build

(* The bundle of a build is in a cache at least as new as n, or on its way *)
(* into one: caches go in the order of their age, so it stays as long as   *)
(* cache n does.                                                           *)
LaterBundle(cs, n, build) == \E k \in DOMAIN cs : k >= n /\ build \in cs[k].bundles

LaterAdded(add, n, build) == \E a \in add : a.build = build /\ a.cache >= n

LaterPage(tb, n, build) ==
    \E t \in Tabs :
        /\ tb[t] # NONE /\ tb[t].stage = "loading" /\ tb[t].build = build
        /\ tb[t].by # NONE /\ tb[t].by >= n

LaterInstalled(inst, n, build) ==
    inst # NONE /\ inst.stage = "adding" /\ inst.doc = build /\ inst.build >= n

InReach(cs, add, tb, inst, gone, n, build) ==
    \/ LaterBundle(cs, n, build)
    \/ LaterAdded(add, n, build)
    \/ LaterPage(tb, n, build)
    \/ LaterInstalled(inst, n, build)
    \/ build \in gone

DocumentsOK(cs, add, tb, inst, gone) ==
    \A n \in DOMAIN cs :
        cs[n].doc # NONE => InReach(cs, add, tb, inst, gone, n, cs[n].doc)

(* A page that runs under the worker it was loaded with has its bundle in  *)
(* the cache of that worker; after a takeover the bundle is still there,   *)
(* or the cache of a broken installation is in its place.                  *)
PageOK(page, act, cs, inh, lost) ==
    page # NONE /\ page.stage = "running" /\ page.had /\ page.build \notin inh =>
        /\ page.claims = 0 => act \in DOMAIN cs /\ page.build \in cs[act].bundles
        /\ page.claims = 1 =>
            \/ \E n \in DOMAIN cs : page.build \in cs[n].bundles
            \/ DOMAIN cs \cap lost # {}

Ages == AgesOK(active, installing, caches, adding, tab)
Newer == NewerIsBroken(active, installing, caches, broken)
Documents == DocumentsOK(caches, adding, tab, installing, failed \cup inherited)
PagesHave == \A t \in Tabs : PageOK(tab[t], active, caches, inherited, broken)

(* A document that is being precached is one. *)
Shapes ==
    /\ Installs("adding") => installing.doc # NONE
    /\ \A t \in Tabs : tab[t] # NONE /\ tab[t].stage \in {"loading", "running"} => tab[t].build # NONE

Inv == TypeOK /\ Shapes /\ Ages /\ Newer /\ Documents /\ PagesHave
-----------------------------------------------------------------------------
(* The operations of CacheStorage. *)

IsCaches(cs) == DOMAIN cs \subseteq Builds /\ cs \in [DOMAIN cs -> CacheRecords]

(* Every cache stays, and what it has of bundles. *)
Keeps(cs, next) ==
    /\ IsCaches(next)
    /\ DOMAIN cs \subseteq DOMAIN next
    /\ \A n \in DOMAIN cs : cs[n].bundles \subseteq next[n].bundles

(* Opening a cache makes an empty one where there was none. *)
LEMMA Opening ==
    ASSUME NEW cs, IsCaches(cs), NEW w \in Builds
    PROVE  /\ IsCaches(OpenedIn(cs, w))
           /\ DOMAIN OpenedIn(cs, w) = DOMAIN cs \cup {w}
           /\ \A n \in DOMAIN cs : OpenedIn(cs, w)[n] = cs[n]
           /\ w \notin DOMAIN cs => OpenedIn(cs, w)[w].doc = NONE
<1>1. DOMAIN OpenedIn(cs, w) = DOMAIN cs \cup {w}
  BY DEF OpenedIn
<1>2. \A n \in DOMAIN cs : OpenedIn(cs, w)[n] = cs[n]
  BY DEF OpenedIn
<1>3. w \notin DOMAIN cs =>
          OpenedIn(cs, w)[w] = [doc |-> NONE, bundles |-> {}, after |-> DOMAIN cs]
  BY DEF OpenedIn
<1>4. \A n \in DOMAIN cs \cup {w} : OpenedIn(cs, w)[n] \in CacheRecords
  BY <1>2, <1>3 DEF IsCaches, CacheRecords
<1>5. OpenedIn(cs, w) \in [DOMAIN cs \cup {w} -> CacheRecords]
  BY <1>4 DEF OpenedIn
<1> QED
  BY <1>1, <1>2, <1>3, <1>5 DEF IsCaches

(* A stored document replaces the one of its cache and touches no bundle. *)
LEMMA StoringDocument ==
    ASSUME NEW cs, IsCaches(cs), NEW w \in Builds, NEW build \in Builds
    PROVE  /\ Keeps(cs, PutDocument(cs, w, build))
           /\ DOMAIN PutDocument(cs, w, build) = DOMAIN cs \cup {w}
           /\ \A n \in DOMAIN cs : n # w => PutDocument(cs, w, build)[n] = cs[n]
           /\ PutDocument(cs, w, build)[w].doc = build
<1> DEFINE open == OpenedIn(cs, w)
           put  == PutDocument(cs, w, build)
<1>1. IsCaches(open) /\ DOMAIN open = DOMAIN cs \cup {w}
      /\ \A n \in DOMAIN cs : open[n] = cs[n]
  BY Opening
<1>2. put = [open EXCEPT ![w].doc = build]
  BY DEF PutDocument
<1> HIDE DEF open, put
<1>3. DOMAIN put = DOMAIN cs \cup {w}
  BY <1>1, <1>2
<1>4. \A n \in DOMAIN cs : n # w => put[n] = cs[n]
  BY <1>1, <1>2
<1>5. put[w] = [open[w] EXCEPT !.doc = build] /\ open[w] \in CacheRecords
  BY <1>1, <1>2 DEF IsCaches
<1>6. put[w] \in CacheRecords /\ put[w].doc = build /\ put[w].bundles = open[w].bundles
  BY <1>5 DEF CacheRecords
<1>7. put \in [DOMAIN open -> CacheRecords]
  BY <1>1, <1>2, <1>6 DEF IsCaches
<1>8. IsCaches(put)
  BY <1>1, <1>3, <1>7 DEF IsCaches
<1>9. \A n \in DOMAIN cs : cs[n].bundles \subseteq put[n].bundles
  BY <1>1, <1>4, <1>6
<1> QED
  BY <1>3, <1>4, <1>6, <1>8, <1>9 DEF Keeps, put

(* A stored bundle joins those of its cache and touches no document. *)
LEMMA StoringBundle ==
    ASSUME NEW cs, IsCaches(cs), NEW w \in Builds, NEW build \in Builds
    PROVE  /\ Keeps(cs, PutBundle(cs, w, build))
           /\ DOMAIN PutBundle(cs, w, build) = DOMAIN cs \cup {w}
           /\ \A n \in DOMAIN cs : PutBundle(cs, w, build)[n].doc = cs[n].doc
           /\ w \notin DOMAIN cs => PutBundle(cs, w, build)[w].doc = NONE
           /\ build \in PutBundle(cs, w, build)[w].bundles
<1> DEFINE open == OpenedIn(cs, w)
           put  == PutBundle(cs, w, build)
<1>1. /\ IsCaches(open) /\ DOMAIN open = DOMAIN cs \cup {w}
      /\ \A n \in DOMAIN cs : open[n] = cs[n]
      /\ w \notin DOMAIN cs => open[w].doc = NONE
  BY Opening
<1>2. put = [open EXCEPT ![w].bundles = @ \cup {build}]
  BY DEF PutBundle
<1> HIDE DEF open, put
<1>3. DOMAIN put = DOMAIN cs \cup {w}
  BY <1>1, <1>2
<1>4. \A n \in DOMAIN cs : n # w => put[n] = cs[n]
  BY <1>1, <1>2
<1>5. put[w] = [open[w] EXCEPT !.bundles = open[w].bundles \cup {build}] /\ open[w] \in CacheRecords
  BY <1>1, <1>2 DEF IsCaches
<1>6. /\ put[w] \in CacheRecords /\ put[w].doc = open[w].doc
      /\ put[w].bundles = open[w].bundles \cup {build}
  BY <1>5 DEF CacheRecords
<1>7. put \in [DOMAIN open -> CacheRecords]
  BY <1>1, <1>2, <1>6 DEF IsCaches
<1>8. IsCaches(put)
  BY <1>1, <1>3, <1>7 DEF IsCaches
<1>9. \A n \in DOMAIN cs : cs[n].bundles \subseteq put[n].bundles /\ put[n].doc = cs[n].doc
  BY <1>1, <1>4, <1>6
<1> QED
  BY <1>1, <1>3, <1>6, <1>8, <1>9 DEF Keeps, put

LEMMA StoredNames ==
    ASSUME NEW cs, IsCaches(cs), NEW w \in Builds, NEW build \in Builds
    PROVE  /\ DOMAIN OpenedIn(cs, w) = DOMAIN cs \cup {w}
           /\ DOMAIN PutDocument(cs, w, build) = DOMAIN cs \cup {w}
           /\ DOMAIN PutBundle(cs, w, build) = DOMAIN cs \cup {w}
<1>1. DOMAIN OpenedIn(cs, w) = DOMAIN cs \cup {w}
  BY Opening
<1>2. DOMAIN PutDocument(cs, w, build) = DOMAIN cs \cup {w}
  BY StoringDocument
<1>3. DOMAIN PutBundle(cs, w, build) = DOMAIN cs \cup {w}
  BY StoringBundle
<1> QED
  BY <1>1, <1>2, <1>3

(* Dropping the stale caches leaves the others as they are. *)
LEMMA Dropping ==
    ASSUME NEW cs, IsCaches(cs), NEW kept
    PROVE  /\ IsCaches(OnlyIn(cs, kept))
           /\ DOMAIN OnlyIn(cs, kept) = DOMAIN cs \cap kept
           /\ \A n \in DOMAIN cs \cap kept :
                  OnlyIn(cs, kept)[n].doc = cs[n].doc /\ OnlyIn(cs, kept)[n].bundles = cs[n].bundles
<1>1. DOMAIN OnlyIn(cs, kept) = DOMAIN cs \cap kept
  BY DEF OnlyIn
<1>2. ASSUME NEW n \in DOMAIN cs \cap kept
      PROVE  /\ OnlyIn(cs, kept)[n] \in CacheRecords
             /\ OnlyIn(cs, kept)[n].doc = cs[n].doc /\ OnlyIn(cs, kept)[n].bundles = cs[n].bundles
  <2>1. OnlyIn(cs, kept)[n] = [cs[n] EXCEPT !.after = cs[n].after \cap kept]
    BY DEF OnlyIn
  <2>2. cs[n] \in CacheRecords
    BY DEF IsCaches
  <2> QED
    BY <2>1, <2>2 DEF CacheRecords
<1>3. OnlyIn(cs, kept) \in [DOMAIN cs \cap kept -> CacheRecords]
  BY <1>2 DEF OnlyIn
<1> QED
  BY <1>1, <1>2, <1>3 DEF IsCaches
-----------------------------------------------------------------------------
(* What activate keeps. *)

(* A set of builds with a member has a newest one: the least of the numbers *)
(* that no member exceeds.                                                  *)
LEMMA NewestBuild ==
    ASSUME NEW S \in SUBSET Builds, S # {}
    PROVE  \E n \in S : \A m \in S : m <= n
<1> DEFINE Bounds == {k \in Nat : \A m \in S : m <= k}
<1>1. MaxBuild \in Nat /\ S \subseteq Nat /\ \A m \in S : m <= MaxBuild
  BY ShellAssumption DEF Builds
<1>2. MaxBuild \in Bounds /\ Bounds \subseteq Nat
  BY <1>1
<1>3. PICK k \in Bounds : \A j \in Bounds : <<j, k>> \notin OpToRel(<, Nat)
  <2>1. IsWellFoundedOn(OpToRel(<, Nat), Nat)
    BY NatLessThanWellFounded
  <2> HIDE DEF Bounds
  <2> QED
    BY <1>2, <2>1, WFMin
<1>4. k \in Nat /\ \A m \in S : m <= k
  OBVIOUS
<1>5. \A j \in Bounds : ~(j < k)
  BY <1>2, <1>3, <1>4 DEF OpToRel
<1>6. CASE k \in S
  BY <1>4, <1>6
<1>7. CASE k \notin S
  <2>1. \A m \in S : m < k /\ m \in Nat
    BY <1>1, <1>4, <1>7
  <2>2. k - 1 \in Nat /\ k - 1 < k
    BY <1>4, <2>1
  <2>3. \A m \in S : m <= k - 1
    BY <1>4, <2>1
  <2>4. k - 1 \in Bounds
    BY <2>2, <2>3
  <2> QED
    BY <1>5, <2>2, <2>4
<1> QED
  BY <1>6, <1>7

(* The cache of the worker itself stays, and the newest of the others.     *)
LEMMA NewestIsKept ==
    ASSUME NEW names \in SUBSET Builds, NEW w \in Builds, NEW n \in names \ {w}
    PROVE  (n \in KeptBy(w, names)) <=> (\A m \in names \ {w} : m <= n)
<1> DEFINE newer == {m \in names \ {w} : m > n}
<1>1. IsFiniteSet(Builds)
  BY FS_Interval, ShellAssumption DEF Builds
<1>2. IsFiniteSet(newer)
  BY <1>1, FS_Subset
<1>3. Cardinality(newer) \in Nat /\ (Cardinality(newer) = 0 <=> newer = {})
  BY <1>2, FS_CardinalityType, FS_EmptySet
<1>4. n \in KeptBy(w, names) <=> Cardinality(newer) < 1
  BY DEF KeptBy, GenerationsKept
<1>5. n \in Nat /\ names \subseteq Nat
  BY ShellAssumption DEF Builds
<1>6. newer = {} <=> \A m \in names \ {w} : m <= n
  <2>1. \A m \in names \ {w} : m > n <=> ~(m <= n)
    BY <1>5
  <2> QED
    BY <2>1
<1> QED
  BY <1>3, <1>4, <1>6

LEMMA OwnIsKeptToo == ASSUME NEW names, NEW w PROVE w \in KeptBy(w, names)
BY DEF KeptBy
-----------------------------------------------------------------------------
(* Type correctness. *)

LEMMA NumbersAreNumbers ==
    Builds \subseteq Nat /\ MaxBuild \in Nat /\ MaxLoads \in Nat /\ MaxOutages \in Nat
      /\ MaxQuits \in Nat
BY ShellAssumption DEF Builds

LEMMA BuildsAreOrdered ==
    \A a, b \in Builds :
        /\ a <= a
        /\ a < b => a <= b /\ a # b
        /\ a <= b /\ b <= a => a = b
        /\ \A c \in Builds : a <= b => (b <= c => a <= c) /\ (b < c => a < c)
BY NumbersAreNumbers

LEMMA NoneIsNothing == NONE \notin Builds /\ NONE \notin Pages /\ NONE \notin Installations
BY ShellAssumption

LEMMA TypeInit == Init => TypeOK
<1> SUFFICES ASSUME Init PROVE TypeOK
  OBVIOUS
<1>1. deployed \in Builds /\ online \in BOOLEAN
  BY ShellAssumption DEF Init, Builds
<1>2. DOMAIN caches \subseteq Builds /\ caches \in [DOMAIN caches -> CacheRecords]
  BY DEF Init
<1>3. loads \in 0..MaxLoads /\ outages \in 0..MaxOutages /\ quits \in 0..MaxQuits
  BY NumbersAreNumbers DEF Init
<1> QED
  BY <1>1, <1>2, <1>3 DEF Init, TypeOK

(* What the answer to a navigation makes of a page that waited for it.     *)
LEMMA PageGot ==
    ASSUME TypeOK, NEW t \in Tabs, tab[t] # NONE, NEW build \in Builds \cup {NONE}, Got(t, build)
    PROVE  /\ tab' \in [Tabs -> Pages \cup {NONE}]
           /\ tab'[t] # NONE
           /\ build = NONE => tab'[t].stage = "blank"
           /\ build # NONE => tab'[t].stage = "loading" /\ tab'[t].build = build
           /\ tab'[t].by = tab[t].by /\ tab'[t].claims = tab[t].claims
           /\ \A u \in Tabs : u # t => tab'[u] = tab[u]
<1>1. tab[t] \in Pages /\ tab \in [Tabs -> Pages \cup {NONE}]
  BY DEF TypeOK
<1>2. [tab[t] EXCEPT !.stage = "blank"] \in Pages
  BY <1>1 DEF Pages
<1>3. build \in Builds => [tab[t] EXCEPT !.stage = "loading", !.build = build] \in Pages
  BY <1>1 DEF Pages
<1>4. tab' = [tab EXCEPT ![t] =
          IF build = NONE THEN [tab[t] EXCEPT !.stage = "blank"]
          ELSE [tab[t] EXCEPT !.stage = "loading", !.build = build]]
  BY DEF Got
<1>5. CASE build = NONE
  <2>1. tab'[t] = [tab[t] EXCEPT !.stage = "blank"]
    BY <1>1, <1>4, <1>5
  <2> QED
    BY <1>1, <1>2, <1>4, <1>5, <2>1, NoneIsNothing DEF Pages
<1>6. CASE build # NONE
  <2>1. tab'[t] = [tab[t] EXCEPT !.stage = "loading", !.build = build]
    BY <1>1, <1>4, <1>6
  <2> QED
    BY <1>1, <1>3, <1>4, <1>6, <2>1, NoneIsNothing DEF Pages
<1> QED
  BY <1>5, <1>6

LEMMA PageRuns ==
    ASSUME TypeOK, NEW t \in Tabs, tab[t] # NONE, Runs(t)
    PROVE  /\ tab' \in [Tabs -> Pages \cup {NONE}]
           /\ tab'[t] # NONE
           /\ tab'[t].stage = "running" /\ tab'[t].had = (tab[t].by # NONE)
           /\ tab'[t].build = tab[t].build
           /\ tab'[t].by = tab[t].by /\ tab'[t].claims = tab[t].claims
           /\ \A u \in Tabs : u # t => tab'[u] = tab[u]
<1>1. tab[t] \in Pages /\ tab \in [Tabs -> Pages \cup {NONE}]
  BY DEF TypeOK
<1>2. [tab[t] EXCEPT !.stage = "running", !.had = (tab[t].by # NONE)] \in Pages
  BY <1>1 DEF Pages
<1>3. tab' = [tab EXCEPT ![t] = [tab[t] EXCEPT !.stage = "running", !.had = (tab[t].by # NONE)]]
  BY DEF Runs
<1>4. tab'[t] = [tab[t] EXCEPT !.stage = "running", !.had = (tab[t].by # NONE)]
  BY <1>1, <1>3
<1> QED
  BY <1>1, <1>2, <1>3, <1>4, NoneIsNothing DEF Pages

LEMMA PageFails ==
    ASSUME TypeOK, NEW t \in Tabs, tab[t] # NONE, tab' = [tab EXCEPT ![t].stage = "blank"]
    PROVE  /\ tab' \in [Tabs -> Pages \cup {NONE}]
           /\ tab'[t] # NONE /\ tab'[t].stage = "blank"
           /\ tab'[t].by = tab[t].by /\ tab'[t].claims = tab[t].claims
           /\ \A u \in Tabs : u # t => tab'[u] = tab[u]
<1>1. tab[t] \in Pages /\ tab \in [Tabs -> Pages \cup {NONE}]
  BY DEF TypeOK
<1>2. tab'[t] = [tab[t] EXCEPT !.stage = "blank"]
  BY <1>1
<1>3. tab'[t] \in Pages /\ tab'[t].stage = "blank"
      /\ tab'[t].by = tab[t].by /\ tab'[t].claims = tab[t].claims
  BY <1>1, <1>2 DEF Pages
<1> QED
  BY <1>1, <1>3, NoneIsNothing

(* A takeover: every page is claimed, and one that waits for its document  *)
(* still gets it from the worker it asked.                                 *)
LEMMA PageClaimed ==
    ASSUME TypeOK, Activate, NEW t \in Tabs, tab[t] # NONE
    PROVE  /\ tab'[t] \in Pages
           /\ tab'[t].stage = tab[t].stage /\ tab'[t].build = tab[t].build
           /\ tab'[t].had = tab[t].had
           /\ tab[t].stage = "asked" => tab'[t].by = tab[t].by
           /\ tab[t].stage # "asked" => tab'[t].by = installing.build
           /\ tab'[t].claims = IF tab[t].claims < 2 THEN tab[t].claims + 1 ELSE tab[t].claims
<1> DEFINE page == tab[t]
           by     == IF page.stage = "asked" THEN page.by ELSE installing.build
           banner == page.banner \/ (page.stage = "running" /\ page.had)
           claims == IF page.claims < 2 THEN page.claims + 1 ELSE page.claims
<1>1. tab'[t] = [page EXCEPT !.by = by, !.banner = banner, !.claims = claims]
  BY DEF Activate
<1>2. page \in Pages
  BY DEF TypeOK
<1>3. by \in Builds \cup {NONE}
  BY <1>2 DEF Activate, Installs, TypeOK, Installations, Pages
<1>4. page.claims \in 0..2
  BY <1>2 DEF Pages
<1>5. claims \in 0..2
  BY <1>4
<1>6. banner \in BOOLEAN
  BY <1>2 DEF Pages
<1> HIDE DEF by, banner, claims, page
<1>7. /\ tab'[t] \in Pages /\ tab'[t].by = by /\ tab'[t].claims = claims
      /\ tab'[t].stage = page.stage /\ tab'[t].build = page.build /\ tab'[t].had = page.had
  BY <1>1, <1>2, <1>3, <1>5, <1>6 DEF Pages
<1> QED
  BY <1>7 DEF by, claims, page

LEMMA TypeStep == TypeOK /\ Shapes /\ [Next]_vars => TypeOK'
<1> SUFFICES ASSUME TypeOK, Shapes, [Next]_vars PROVE TypeOK'
  OBVIOUS
<1> USE NumbersAreNumbers
<1>c. IsCaches(caches)
  BY DEF TypeOK, IsCaches
<1>h. failed \subseteq Builds /\ inherited \subseteq Builds /\ broken \subseteq Builds
  BY DEF TypeOK
<1>1. CASE Deploy
  <2>1. deployed + 1 \in Builds
    BY <1>1 DEF Deploy, TypeOK, Builds
  <2> QED
    BY <1>1, <2>1 DEF Deploy, TypeOK
<1>2. CASE Drop
  <2>1. outages + 1 \in 0..MaxOutages
    BY <1>2 DEF Drop, TypeOK
  <2> QED
    BY <1>2, <2>1 DEF Drop, TypeOK
<1>3. CASE Recover
  BY <1>3 DEF Recover, TypeOK
<1>4. CASE Quit
  <2>1. quits + 1 \in 0..MaxQuits
    BY <1>4 DEF Quit, TypeOK
  <2>2. Unfinished \subseteq Builds
    <3>1. {a.build : a \in adding} \subseteq Builds
      BY DEF TypeOK
    <3>2. ASSUME NEW t \in Tabs, tab[t] # NONE, tab[t].stage = "loading"
          PROVE  tab[t].build \in Builds
      BY <3>2 DEF TypeOK, Pages, Shapes
    <3>3. Installs("adding") => installing.doc \in Builds
      BY DEF TypeOK, Installs, Installations, Shapes
    <3> QED
      BY <3>1, <3>2, <3>3 DEF Unfinished
  <2> QED
    BY <1>4, <1>h, <2>1, <2>2 DEF Quit, TypeOK, Installations
<1>5. ASSUME NEW t \in Tabs, Navigate(t) PROVE TypeOK'
  <2>1. loads + 1 \in 0..MaxLoads
    BY <1>5 DEF Navigate, TypeOK
  <2>2. [stage |-> "asked", build |-> NONE, by |-> active, had |-> FALSE, banner |-> FALSE,
         claims |-> 0] \in Pages
    BY DEF TypeOK, Pages
  <2> QED
    BY <1>5, <2>1, <2>2 DEF Navigate, TypeOK
<1>6. ASSUME NEW t \in Tabs, PlainDocument(t) PROVE TypeOK'
  <2>1. Got(t, IF online THEN deployed ELSE NONE) /\ tab[t] # NONE
    BY <1>6 DEF PlainDocument
  <2>2. (IF online THEN deployed ELSE NONE) \in Builds \cup {NONE}
    BY DEF TypeOK
  <2>3. tab' \in [Tabs -> Pages \cup {NONE}]
    BY <2>1, <2>2, PageGot
  <2> QED
    BY <1>6, <2>3 DEF PlainDocument, TypeOK, worldVars
<1>7. ASSUME NEW t \in Tabs, FreshDocument(t) PROVE TypeOK'
  <2>1. tab' \in [Tabs -> Pages \cup {NONE}]
    BY <1>7, PageGot DEF FreshDocument, TypeOK
  <2>2. tab[t].by \in Builds /\ deployed \in Builds
    BY <1>7 DEF FreshDocument, TypeOK, Pages
  <2>3. IsCaches(caches')
    BY <1>7, <1>c, <2>2, StoringDocument DEF FreshDocument, Keeps
  <2>4. adding' \subseteq [cache: Builds, build: Builds] /\ precached' \subseteq Builds
    BY <1>7, <2>2 DEF FreshDocument, TypeOK
  <2> QED
    BY <1>7, <2>1, <2>3, <2>4 DEF FreshDocument, TypeOK, worldVars, IsCaches
<1>8. ASSUME NEW t \in Tabs, CachedDocument(t) PROVE TypeOK'
  <2>1. tab' \in [Tabs -> Pages \cup {NONE}]
    BY <1>8, PageGot DEF CachedDocument
  <2> QED
    BY <1>8, <2>1 DEF CachedDocument, TypeOK, worldVars
<1>9. ASSUME NEW a \in adding, Added(a) PROVE TypeOK'
  <2>1. a.cache \in Builds /\ a.build \in Builds
    BY DEF TypeOK
  <2>3. IsCaches(PutBundle(caches, a.cache, a.build))
    BY <1>c, <2>1, StoringBundle DEF Keeps
  <2>2. IsCaches(caches') /\ failed' \subseteq Builds
    BY <1>9, <1>c, <1>h, <2>1, <2>3 DEF Added
  <2> QED
    BY <1>9, <1>h, <2>2 DEF Added, TypeOK, worldVars, IsCaches
<1>10. ASSUME NEW t \in Tabs, Bundle(t) PROVE TypeOK'
  <2>p. tab[t] # NONE /\ tab[t] \in Pages /\ tab[t].stage = "loading"
    BY <1>10 DEF Bundle, TypeOK
  <2>n. tab[t].build \in Builds /\ tab[t].by \in Builds \cup {NONE}
    BY <2>p DEF Pages, Shapes
  <2>1. tab' \in [Tabs -> Pages \cup {NONE}]
    <3>1. CASE Runs(t)
      BY <2>p, <3>1, PageRuns
    <3>2. CASE tab' = [tab EXCEPT ![t].stage = "blank"]
      BY <2>p, <3>2, PageFails
    <3> QED
      BY <1>10, <3>1, <3>2 DEF Bundle
  <2>2. IsCaches(caches') /\ failed' \subseteq Builds /\ inherited' \subseteq Builds
    <3> DEFINE hit == tab[t].by # NONE /\ HasBundle(tab[t].build)
    <3>1. tab[t].by # NONE => IsCaches(PutBundle(caches, tab[t].by, tab[t].build))
      BY <1>c, <2>n, StoringBundle DEF Keeps
    <3>2. CASE hit
      BY <1>10, <1>c, <1>h, <2>n, <3>2 DEF Bundle
    <3>3. CASE ~hit /\ Served(tab[t].build)
      BY <1>10, <1>c, <1>h, <3>1, <3>3 DEF Bundle
    <3>4. CASE ~hit /\ ~Served(tab[t].build)
      BY <1>10, <1>c, <1>h, <2>n, <3>4 DEF Bundle
    <3> QED
      BY <3>2, <3>3, <3>4
  <2> QED
    BY <1>10, <1>h, <2>1, <2>2 DEF Bundle, TypeOK, worldVars, IsCaches
<1>11. ASSUME NEW t \in Tabs, FindUpdate(t) PROVE TypeOK'
  <2>1. installing' \in Installations
    BY <1>11 DEF FindUpdate, TypeOK, Installations
  <2> QED
    BY <1>11, <2>1 DEF FindUpdate, TypeOK, worldVars
<1>12. CASE InstallDocument
  <2>1. installing \in Installations
    BY <1>12 DEF InstallDocument, Installs, TypeOK
  <2>2. installing.build \in Builds /\ deployed \in Builds
    BY <2>1 DEF Installations, TypeOK
  <2>3. IsCaches(caches')
    <3>1. IsCaches(PutDocument(caches, installing.build, deployed))
      BY <1>c, <2>2, StoringDocument DEF Keeps
    <3>2. IsCaches(OpenedIn(caches, installing.build))
      BY <1>c, <2>2, Opening
    <3> QED
      BY <1>12, <3>1, <3>2 DEF InstallDocument
  <2>4. installing' \in Installations
    <3>1. CASE Fetched
      BY <2>1, <2>2, <3>1 DEF Fetched, Installations
    <3>2. CASE GaveUp
      BY <2>1, <3>2 DEF GaveUp, Installations
    <3> QED
      BY <1>12, <3>1, <3>2 DEF InstallDocument
  <2> QED
    BY <1>12, <1>h, <2>2, <2>3, <2>4 DEF InstallDocument, TypeOK, worldVars, IsCaches
<1>13. CASE InstallBundle
  <2>1. installing \in Installations /\ installing.stage = "adding"
    BY <1>13 DEF InstallBundle, Installs, TypeOK
  <2>2. installing.build \in Builds /\ installing.doc \in Builds
    BY <1>13, <2>1 DEF Installations, Shapes, InstallBundle
  <2>3. IsCaches(caches') /\ failed' \subseteq Builds /\ broken' \subseteq Builds
    <3>1. IsCaches(PutBundle(caches, installing.build, installing.doc))
      BY <1>c, <2>2, StoringBundle DEF Keeps
    <3> QED
      BY <1>13, <1>c, <1>h, <2>2, <3>1 DEF InstallBundle
  <2>4. installing' \in Installations
    BY <1>13, <2>1 DEF InstallBundle, Installations
  <2> QED
    BY <1>13, <1>h, <2>2, <2>3, <2>4 DEF InstallBundle, TypeOK, worldVars, IsCaches
<1>14. CASE Activate
  <2>1. tab' \in [Tabs -> Pages \cup {NONE}]
    <3>1. ASSUME NEW t \in Tabs PROVE tab'[t] \in Pages \cup {NONE}
      BY <1>14, PageClaimed DEF Activate
    <3> QED
      BY <1>14, <3>1 DEF Activate
  <2>2. IsCaches(caches')
    BY <1>14, <1>c, Dropping DEF Activate
  <2>3. active' \in Builds
    BY <1>14 DEF Activate, Installs, TypeOK, Installations
  <2> QED
    BY <1>14, <2>1, <2>2, <2>3 DEF Activate, TypeOK, worldVars, IsCaches
<1>15. ASSUME NEW w \in Builds, StopWorker(w) PROVE TypeOK'
  BY <1>15 DEF StopWorker, TypeOK, worldVars
<1>16. CASE UNCHANGED vars
  BY <1>16 DEF vars, worldVars, TypeOK
<1> QED
  BY <1>1, <1>2, <1>3, <1>4, <1>5, <1>6, <1>7, <1>8, <1>9, <1>10, <1>11, <1>12, <1>13, <1>14,
     <1>15, <1>16 DEF Next, WorkerStep

LEMMA ShapesInit == Init => Shapes
BY DEF Init, Shapes, Installs

LEMMA ShapesStep == TypeOK /\ Shapes /\ [Next]_vars => Shapes'
<1> SUFFICES ASSUME TypeOK, Shapes, [Next]_vars PROVE Shapes'
  OBVIOUS
<1>1. ASSUME UNCHANGED <<installing, tab>> PROVE Shapes'
  BY <1>1 DEF Shapes, Installs
<1>2. CASE Quit
  BY <1>2 DEF Quit, Shapes, Installs
<1>4. ASSUME NEW t \in Tabs, Navigate(t) PROVE Shapes'
  <2>1. tab'[t].stage = "asked"
    BY <1>4 DEF Navigate, TypeOK
  <2> QED
    BY <1>4, <2>1 DEF Navigate, Shapes, Installs, TypeOK
<1>5. ASSUME NEW t \in Tabs, NEW build \in Builds \cup {NONE}, tab[t] # NONE, Got(t, build),
             UNCHANGED installing
      PROVE  Shapes'
  <2>1. tab[t] \in Pages
    BY <1>5 DEF TypeOK
  <2>2. tab'[t].stage = "loading" => tab'[t].build # NONE
    BY <1>5, <2>1, PageGot, NoneIsNothing DEF Pages
  <2>3. tab'[t].stage # "running"
    BY <1>5, <2>1, PageGot DEF Pages
  <2> QED
    BY <1>5, <2>2, <2>3, PageGot DEF Shapes, Installs
<1>6. ASSUME NEW t \in Tabs, PlainDocument(t) PROVE Shapes'
  <2>1. (IF online THEN deployed ELSE NONE) \in Builds \cup {NONE}
    BY DEF TypeOK
  <2> QED
    BY <1>5, <1>6, <2>1 DEF PlainDocument
<1>7. ASSUME NEW t \in Tabs, FreshDocument(t) PROVE Shapes'
  BY <1>5, <1>7 DEF FreshDocument, TypeOK
<1>8. ASSUME NEW t \in Tabs, CachedDocument(t) PROVE Shapes'
  BY <1>5, <1>8 DEF CachedDocument
<1>9. ASSUME NEW t \in Tabs, Bundle(t) PROVE Shapes'
  <2>1. tab[t] # NONE /\ tab[t] \in Pages /\ tab[t].stage = "loading" /\ tab[t].build # NONE
    BY <1>9 DEF Bundle, TypeOK, Shapes
  <2>2. CASE Runs(t)
    <3>1. tab'[t].build # NONE
      BY <2>1, <2>2, PageRuns DEF Pages
    <3> QED
      BY <1>9, <2>1, <2>2, <3>1, PageRuns DEF Bundle, Shapes, Installs
  <2>3. CASE tab' = [tab EXCEPT ![t].stage = "blank"]
    <3>1. tab'[t].stage = "blank" /\ \A v \in Tabs : v # t => tab'[v] = tab[v]
      BY <2>1, <2>3, PageFails
    <3> QED
      BY <1>9, <3>1 DEF Bundle, Shapes, Installs
  <2> QED
    BY <1>9, <2>2, <2>3 DEF Bundle
<1>10. ASSUME NEW t \in Tabs, FindUpdate(t) PROVE Shapes'
  BY <1>10 DEF FindUpdate, Shapes, Installs
<1>11. CASE InstallDocument
  <2>1. installing \in Installations
    BY <1>11 DEF InstallDocument, Installs, TypeOK
  <2>2. installing'.stage = "adding" => installing'.doc # NONE
    BY <1>11, <2>1, NoneIsNothing
    DEF InstallDocument, Installations, Fetched, GaveUp, TypeOK
  <2> QED
    BY <1>11, <2>2 DEF InstallDocument, Shapes, Installs
<1>12. CASE InstallBundle
  <2>1. installing \in Installations
    BY <1>12 DEF InstallBundle, Installs, TypeOK
  <2>2. installing'.stage = "installed"
    BY <1>12, <2>1 DEF InstallBundle, Installations
  <2> QED
    BY <1>12, <2>2 DEF InstallBundle, Shapes, Installs
<1>13. CASE Activate
  <2>1. ASSUME NEW t \in Tabs, tab'[t] # NONE
        PROVE  tab[t] # NONE /\ tab'[t].stage = tab[t].stage /\ tab'[t].build = tab[t].build
    <3>1. tab[t] # NONE
      BY <1>13, <2>1 DEF Activate
    <3> QED
      BY <1>13, <3>1, PageClaimed
  <2> QED
    BY <1>13, <2>1 DEF Activate, Shapes, Installs
<1>14. ASSUME Deploy \/ Drop \/ Recover \/ (\E a \in adding : Added(a))
              \/ (\E w \in Builds : StopWorker(w)) \/ UNCHANGED vars
       PROVE  Shapes'
  BY <1>1, <1>14 DEF Deploy, Drop, Recover, Added, StopWorker, vars
<1> QED
  BY <1>2, <1>4, <1>6, <1>7, <1>8, <1>9, <1>10, <1>11, <1>12, <1>13, <1>14 DEF Next, WorkerStep
-----------------------------------------------------------------------------
(* The ages of workers, caches and pages. *)

LEMMA AgesInit == Init => Ages /\ Newer
BY DEF Init, Ages, AgesOK, Newer, NewerIsBroken

(* A page keeps its worker until the next takeover, and what a cache gets  *)
(* from it goes into the cache of a worker that is no newer than the       *)
(* active one.                                                             *)
LEMMA AgesOfPage ==
    ASSUME TypeOK, Ages, NEW t \in Tabs,
           UNCHANGED <<deployed, active, installing>>,
           tab[t] # NONE, tab'[t] # NONE => tab'[t].by = tab[t].by /\ tab'[t].claims = tab[t].claims,
           \A u \in Tabs : u # t => tab'[u] = tab[u],
           \A n \in DOMAIN caches' : n \in DOMAIN caches \/ (tab[t].by # NONE /\ n = tab[t].by),
           \A a \in adding' : a \in adding \/ (tab[t].by # NONE /\ a.cache = tab[t].by)
    PROVE  Ages'
<1>1. /\ active \in Builds \cup {NONE} /\ deployed \in Builds
      /\ installing # NONE => installing.build \in Builds
      /\ tab[t].by \in Builds \cup {NONE}
  BY DEF TypeOK, Pages, Installations
<1>2. active # NONE => active <= deployed /\ (installing # NONE => active < installing.build)
  BY DEF Ages, AgesOK
<1>3. tab[t].by # NONE => active # NONE /\ tab[t].by <= active
  BY DEF Ages, AgesOK
<1>4. tab[t].by # NONE => /\ tab[t].by <= deployed
                          /\ installing # NONE => tab[t].by <= installing.build
  BY <1>1, <1>2, <1>3, BuildsAreOrdered
<1>5. \A n \in DOMAIN caches' : n <= deployed /\ (installing # NONE => n <= installing.build)
  BY <1>4 DEF Ages, AgesOK
<1>6. \A a \in adding' : active # NONE /\ a.cache <= active
  BY <1>3 DEF Ages, AgesOK
<1>7. ASSUME NEW u \in Tabs, tab'[u] # NONE
      PROVE  /\ tab'[u].by # NONE => active # NONE /\ tab'[u].by <= active
             /\ tab'[u].claims = 0 => tab'[u].by = active
  BY <1>7 DEF Ages, AgesOK
<1> QED
  BY <1>2, <1>5, <1>6, <1>7 DEF Ages, AgesOK

LEMMA AgesStep == TypeOK /\ Shapes /\ Ages /\ [Next]_vars => Ages'
<1> SUFFICES ASSUME TypeOK, Shapes, Ages, [Next]_vars PROVE Ages'
  OBVIOUS
<1>c. IsCaches(caches)
  BY DEF TypeOK, IsCaches
<1>t. deployed \in Nat /\ DOMAIN caches \subseteq Nat /\ (active # NONE => active \in Nat)
  BY NumbersAreNumbers DEF TypeOK
<1>1. CASE Deploy
  <2>1. \A n \in Nat : n <= deployed => n <= deployed + 1
    BY <1>t
  <2>2. installing # NONE => installing.build \in Nat
    BY NumbersAreNumbers DEF TypeOK, Installations
  <2> QED
    BY <1>1, <1>t, <2>1, <2>2 DEF Deploy, Ages, AgesOK
<1>2. CASE Drop \/ Recover \/ (\E w \in Builds : StopWorker(w)) \/ UNCHANGED vars
  BY <1>2 DEF Drop, Recover, StopWorker, vars, worldVars, Ages, AgesOK
<1>3. CASE Quit
  BY <1>3 DEF Quit, Ages, AgesOK
<1>4. ASSUME NEW t \in Tabs, Navigate(t) PROVE Ages'
  <2>1. tab'[t].by = active /\ \A u \in Tabs : u # t => tab'[u] = tab[u]
    BY <1>4 DEF Navigate, TypeOK
  <2> QED
    BY <1>4, <1>t, <2>1 DEF Navigate, Ages, AgesOK
<1>5. ASSUME NEW t \in Tabs, PlainDocument(t) PROVE Ages'
  <2>1. (IF online THEN deployed ELSE NONE) \in Builds \cup {NONE}
    BY DEF TypeOK
  <2> QED
    BY <1>5, <2>1, PageGot, AgesOfPage DEF PlainDocument, worldVars
<1>6. ASSUME NEW t \in Tabs, FreshDocument(t) PROVE Ages'
  <2>1. tab[t].by \in Builds /\ deployed \in Builds
    BY <1>6 DEF FreshDocument, TypeOK, Pages
  <2>2. DOMAIN caches' = DOMAIN caches \cup {tab[t].by}
    BY <1>6, <1>c, <2>1, StoredNames DEF FreshDocument
  <2>3. \A a \in adding' : a \in adding \/ a.cache = tab[t].by
    BY <1>6 DEF FreshDocument
  <2> QED
    BY <1>6, <2>1, <2>2, <2>3, PageGot, AgesOfPage DEF FreshDocument, worldVars
<1>7. ASSUME NEW t \in Tabs, CachedDocument(t) PROVE Ages'
  BY <1>7, PageGot, AgesOfPage DEF CachedDocument, worldVars
<1>8. ASSUME NEW a \in adding, Added(a) PROVE Ages'
  <2>1. a.cache \in Builds /\ a.build \in Builds
    BY DEF TypeOK
  <2>6. DOMAIN PutBundle(caches, a.cache, a.build) = DOMAIN caches \cup {a.cache}
    BY <1>c, <2>1, StoredNames
  <2>2. DOMAIN caches' \subseteq DOMAIN caches \cup {a.cache}
    BY <1>8, <2>6 DEF Added
  <2>3. active # NONE /\ a.cache <= active /\ active <= deployed
        /\ (installing # NONE => active < installing.build)
    BY DEF Ages, AgesOK
  <2>4. /\ installing # NONE => installing.build \in Builds
        /\ active # NONE => active \in Builds
        /\ deployed \in Builds
    BY DEF TypeOK, Installations
  <2>5. a.cache <= deployed /\ (installing # NONE => a.cache <= installing.build)
    BY <2>1, <2>3, <2>4, BuildsAreOrdered
  <2> QED
    BY <1>8, <2>2, <2>5 DEF Added, worldVars, Ages, AgesOK
<1>9. ASSUME NEW t \in Tabs, Bundle(t) PROVE Ages'
  <2>1. tab[t] # NONE /\ tab[t] \in Pages /\ tab[t].build \in Builds
    BY <1>9 DEF Bundle, TypeOK, Pages, Shapes
  <2>2. /\ tab'[t] # NONE /\ tab'[t].by = tab[t].by /\ tab'[t].claims = tab[t].claims
        /\ \A u \in Tabs : u # t => tab'[u] = tab[u]
    BY <1>9, <2>1, PageRuns, PageFails DEF Bundle
  <2>3. tab[t].by # NONE =>
            DOMAIN PutBundle(caches, tab[t].by, tab[t].build) = DOMAIN caches \cup {tab[t].by}
    BY <1>c, <2>1, StoredNames DEF Pages
  <2>4. \A n \in DOMAIN caches' : n \in DOMAIN caches \/ (tab[t].by # NONE /\ n = tab[t].by)
    BY <1>9, <2>3 DEF Bundle
  <2>5. adding' = adding /\ UNCHANGED <<deployed, active, installing>>
    BY <1>9 DEF Bundle, worldVars
  <2> QED
    BY <2>1, <2>2, <2>4, <2>5, AgesOfPage
<1>10. ASSUME NEW t \in Tabs, FindUpdate(t) PROVE Ages'
  <2>1. installing'.build = deployed /\ (active # NONE => active < deployed) /\ installing = NONE
    BY <1>10, <1>t DEF FindUpdate, Ages, AgesOK
  <2> QED
    BY <1>10, <1>t, <2>1 DEF FindUpdate, worldVars, Ages, AgesOK
<1>11. CASE InstallDocument
  <2>1. installing # NONE /\ installing \in Installations
    BY <1>11 DEF InstallDocument, Installs, TypeOK
  <2>2. installing.build \in Builds /\ deployed \in Builds
    BY <2>1 DEF Installations, TypeOK
  <2>3. DOMAIN caches' = DOMAIN caches \cup {installing.build}
    <3>1. /\ DOMAIN OpenedIn(caches, installing.build) = DOMAIN caches \cup {installing.build}
          /\ DOMAIN PutDocument(caches, installing.build, deployed)
               = DOMAIN caches \cup {installing.build}
      BY <1>c, <2>2, StoredNames
    <3> QED
      BY <1>11, <3>1 DEF InstallDocument
  <2>4. installing'.build = installing.build
    BY <1>11, <2>1 DEF InstallDocument, Installations, Fetched, GaveUp
  <2>5. installing.build <= installing.build
    BY <2>2, BuildsAreOrdered
  <2> QED
    BY <1>11, <2>1, <2>3, <2>4, <2>5 DEF InstallDocument, worldVars, Ages, AgesOK
<1>12. CASE InstallBundle
  <2>1. installing # NONE /\ installing \in Installations /\ installing.stage = "adding"
    BY <1>12 DEF InstallBundle, Installs, TypeOK
  <2>2. installing.build \in Builds /\ installing.doc \in Builds
    BY <1>12, <2>1 DEF InstallBundle, Installations, Shapes
  <2>3. DOMAIN PutBundle(caches, installing.build, installing.doc)
          = DOMAIN caches \cup {installing.build}
    BY <1>c, <2>2, StoredNames
  <2>4. DOMAIN caches' \subseteq DOMAIN caches \cup {installing.build}
    BY <1>12, <2>3 DEF InstallBundle
  <2>5. installing'.build = installing.build
    BY <1>12, <2>1 DEF InstallBundle, Installations
  <2>6. installing.build <= installing.build
    BY <2>2, BuildsAreOrdered
  <2> QED
    BY <1>12, <2>1, <2>4, <2>5, <2>6 DEF InstallBundle, worldVars, Ages, AgesOK
<1>13. CASE Activate
  <2>1. installing # NONE /\ installing.build \in Nat /\ active' = installing.build
    BY <1>13, NumbersAreNumbers DEF Activate, Installs, TypeOK, Installations
  <2>2. DOMAIN caches' \subseteq DOMAIN caches
    BY <1>13, <1>c, Dropping DEF Activate
  <2>3. \A a \in adding : a.cache <= installing.build
    BY <1>t, <2>1, NumbersAreNumbers DEF Ages, AgesOK, TypeOK
  <2>4. ASSUME NEW t \in Tabs, tab'[t] # NONE
        PROVE  /\ tab'[t].by # NONE => tab'[t].by <= active'
               /\ tab'[t].claims # 0
    <3>1. tab[t] # NONE
      BY <1>13, <2>4 DEF Activate
    <3>2. tab[t] \in Pages
      BY <3>1 DEF TypeOK
    <3>3. tab[t].by # NONE => tab[t].by <= installing.build
      <4>1. tab[t].by \in Builds \cup {NONE} /\ active \in Builds \cup {NONE}
            /\ installing.build \in Builds
        BY <1>13, <3>2 DEF Pages, Activate, Installs, TypeOK, Installations
      <4>2. tab[t].by # NONE => tab[t].by <= active /\ active < installing.build /\ active # NONE
        BY <2>1, <3>1 DEF Ages, AgesOK
      <4> QED
        BY <4>1, <4>2, BuildsAreOrdered
    <3>4. tab[t].claims \in 0..2
      BY <3>2 DEF Pages
    <3>5. tab'[t].claims # 0
      BY <1>13, <3>1, <3>4, PageClaimed
    <3> QED
      BY <1>13, <2>1, <3>1, <3>3, <3>5, PageClaimed
  <2>5. installing' = NONE /\ active' # NONE /\ adding' = adding /\ deployed' = deployed
    BY <1>13, NoneIsNothing DEF Activate, Installs, TypeOK, Installations, worldVars
  <2> QED
    BY <2>1, <2>2, <2>3, <2>4, <2>5 DEF Ages, AgesOK
<1> QED
  BY <1>1, <1>2, <1>3, <1>4, <1>5, <1>6, <1>7, <1>8, <1>9, <1>10, <1>11, <1>12, <1>13
  DEF Next, WorkerStep

(* Which caches a step may add.                                            *)
LEMMA NewNames ==
    ASSUME TypeOK, Shapes, Ages, [Next]_vars, NEW n \in DOMAIN caches', n \notin DOMAIN caches
    PROVE  (active # NONE /\ n <= active) \/ (installing # NONE /\ n = installing.build)
<1>c. IsCaches(caches)
  BY DEF TypeOK, IsCaches
<1>1. ASSUME NEW t \in Tabs, FreshDocument(t) PROVE active # NONE /\ n <= active
  <2>1. tab[t] # NONE /\ tab[t].by # NONE /\ tab[t].by \in Builds /\ deployed \in Builds
    BY <1>1 DEF FreshDocument, TypeOK, Pages
  <2>2. DOMAIN PutDocument(caches, tab[t].by, deployed) = DOMAIN caches \cup {tab[t].by}
    BY <1>c, <2>1, StoredNames
  <2>3. n = tab[t].by
    BY <1>1, <2>2 DEF FreshDocument
  <2> QED
    BY <2>1, <2>3 DEF Ages, AgesOK
<1>2. ASSUME NEW t \in Tabs, Bundle(t) PROVE active # NONE /\ n <= active
  <2>1. tab[t] # NONE /\ tab[t] \in Pages /\ tab[t].build \in Builds
    BY <1>2 DEF Bundle, TypeOK, Pages, Shapes
  <2>2. tab[t].by # NONE =>
            DOMAIN PutBundle(caches, tab[t].by, tab[t].build) = DOMAIN caches \cup {tab[t].by}
    BY <1>c, <2>1, StoredNames DEF Pages
  <2>3. tab[t].by # NONE /\ n = tab[t].by
    BY <1>2, <2>2 DEF Bundle
  <2> QED
    BY <2>1, <2>3 DEF Ages, AgesOK
<1>3. ASSUME NEW a \in adding, Added(a) PROVE active # NONE /\ n <= active
  <2>1. a.cache \in Builds /\ a.build \in Builds
    BY DEF TypeOK
  <2>2. DOMAIN PutBundle(caches, a.cache, a.build) = DOMAIN caches \cup {a.cache}
    BY <1>c, <2>1, StoredNames
  <2>3. n = a.cache
    BY <1>3, <2>2 DEF Added
  <2> QED
    BY <2>3 DEF Ages, AgesOK
<1>4. CASE InstallDocument
  <2>1. installing # NONE /\ installing.build \in Builds /\ deployed \in Builds
    BY <1>4 DEF InstallDocument, Installs, TypeOK, Installations
  <2>2. /\ DOMAIN OpenedIn(caches, installing.build) = DOMAIN caches \cup {installing.build}
        /\ DOMAIN PutDocument(caches, installing.build, deployed)
             = DOMAIN caches \cup {installing.build}
    BY <1>c, <2>1, StoredNames
  <2> QED
    BY <1>4, <2>1, <2>2 DEF InstallDocument
<1>5. CASE InstallBundle
  <2>1. installing # NONE /\ installing.build \in Builds /\ installing.doc \in Builds
    BY <1>5 DEF InstallBundle, Installs, TypeOK, Installations, Shapes
  <2>2. DOMAIN PutBundle(caches, installing.build, installing.doc)
          = DOMAIN caches \cup {installing.build}
    BY <1>c, <2>1, StoredNames
  <2> QED
    BY <1>5, <2>1, <2>2 DEF InstallBundle
<1>6. CASE Activate
  <2>1. DOMAIN caches' \subseteq DOMAIN caches
    BY <1>6, <1>c, Dropping DEF Activate
  <2> QED
    BY <2>1
<1>7. ASSUME UNCHANGED caches PROVE FALSE
  BY <1>7
<1> QED
  BY <1>1, <1>2, <1>3, <1>4, <1>5, <1>6, <1>7
  DEF Next, WorkerStep, Deploy, Drop, Recover, Quit, Navigate, PlainDocument, CachedDocument,
      FindUpdate, StopWorker, vars

LEMMA NewerStep == TypeOK /\ Shapes /\ Ages /\ Newer /\ [Next]_vars => Newer'
<1> SUFFICES ASSUME TypeOK, Shapes, Ages, Newer, [Next]_vars, NEW n \in DOMAIN caches'
             PROVE  \/ active' # NONE /\ n <= active'
                    \/ n \in broken'
                    \/ installing' # NONE /\ n = installing'.build
  BY DEF Newer, NewerIsBroken
<1>1. \/ active # NONE /\ n <= active
      \/ n \in broken
      \/ installing # NONE /\ n = installing.build
  BY NewNames DEF Newer, NewerIsBroken
<1>2. CASE Quit
  BY <1>1, <1>2 DEF Quit
<1>3. CASE Activate
  <2>1. active' = installing.build /\ installing # NONE /\ installing \in Installations
        /\ broken' = broken
    BY <1>3 DEF Activate, Installs, TypeOK
  <2>2. IsCaches(caches)
    BY DEF TypeOK, IsCaches
  <2>3. DOMAIN caches' = DOMAIN caches \cap KeptBy(installing.build, DOMAIN caches)
    BY <1>3, <2>2, Dropping DEF Activate
  <2>4. n \in DOMAIN caches
    BY <2>3
  <2>5. installing.build \in Builds /\ installing.build # NONE
    BY <2>1, NoneIsNothing DEF Installations
  <2> QED
    BY <2>1, <2>4, <2>5 DEF Ages, AgesOK
<1>4. CASE InstallDocument
  <2>1. installing # NONE /\ installing \in Installations
    BY <1>4 DEF InstallDocument, Installs, TypeOK
  <2>2. installing' # NONE /\ installing'.build = installing.build
    <3>1. CASE Fetched
      <4>1. installing' = [installing EXCEPT !.stage = "adding", !.doc = deployed]
            /\ deployed \in Builds
        BY <3>1 DEF Fetched, TypeOK
      <4>2. installing' \in Installations /\ installing'.build = installing.build
        BY <2>1, <4>1 DEF Installations
      <4> QED
        BY <4>2, NoneIsNothing
    <3>2. CASE GaveUp
      <4>1. installing' \in Installations /\ installing'.build = installing.build
        BY <2>1, <3>2 DEF GaveUp, Installations
      <4> QED
        BY <4>1, NoneIsNothing
    <3> QED
      BY <1>4, <3>1, <3>2 DEF InstallDocument
  <2> QED
    BY <1>1, <1>4, <2>2 DEF InstallDocument
<1>5. CASE InstallBundle
  <2>1. installing # NONE /\ installing \in Installations
    BY <1>5 DEF InstallBundle, Installs, TypeOK
  <2>2. installing' = [installing EXCEPT !.stage = "installed"]
    BY <1>5 DEF InstallBundle
  <2>3. installing' \in Installations /\ installing'.build = installing.build
    BY <2>1, <2>2 DEF Installations
  <2> QED
    BY <1>1, <1>5, <2>3, NoneIsNothing DEF InstallBundle
<1>6. ASSUME NEW t \in Tabs, FindUpdate(t) PROVE active' = active /\ broken' = broken /\ installing = NONE
  BY <1>6 DEF FindUpdate
<1>7. ASSUME UNCHANGED <<active, installing, broken>>
      PROVE  \/ active' # NONE /\ n <= active'
             \/ n \in broken'
             \/ installing' # NONE /\ n = installing'.build
  BY <1>1, <1>7
<1> QED
  BY <1>1, <1>2, <1>3, <1>4, <1>5, <1>6, <1>7
  DEF Next, WorkerStep, Deploy, Drop, Recover, Navigate, PlainDocument, FreshDocument,
      CachedDocument, Bundle, Added, StopWorker, vars, worldVars
-----------------------------------------------------------------------------
(* Stored documents and their bundles. *)

LEMMA DocumentsInit == Init => Documents
BY DEF Init, Documents, DocumentsOK

(* What only keeps caches and what is under way keeps a bundle in reach.   *)
LEMMA Carried ==
    ASSUME NEW cs, NEW next, Keeps(cs, next),
           NEW add, NEW nextAdd, add \subseteq nextAdd,
           NEW tb, NEW nextTb,
           \A t \in Tabs : tb[t] # NONE /\ tb[t].stage = "loading" => nextTb[t] = tb[t],
           NEW inst, NEW nextInst, inst # NONE /\ inst.stage = "adding" => nextInst = inst,
           NEW gone, NEW nextGone, gone \subseteq nextGone,
           NEW n, NEW build, InReach(cs, add, tb, inst, gone, n, build)
    PROVE  InReach(next, nextAdd, nextTb, nextInst, nextGone, n, build)
<1>1. LaterBundle(cs, n, build) => LaterBundle(next, n, build)
  BY DEF LaterBundle, Keeps
<1>2. LaterAdded(add, n, build) => LaterAdded(nextAdd, n, build)
  BY DEF LaterAdded
<1>3. LaterPage(tb, n, build) => LaterPage(nextTb, n, build)
  BY DEF LaterPage
<1>4. LaterInstalled(inst, n, build) => LaterInstalled(nextInst, n, build)
  BY DEF LaterInstalled
<1> QED
  BY <1>1, <1>2, <1>3, <1>4 DEF InReach

ReachedNow(n, build) == InReach(caches, adding, tab, installing, failed \cup inherited, n, build)

ReachedNext(n, build) ==
    InReach(caches', adding', tab', installing', failed' \cup inherited', n, build)

LEMMA AllReached ==
    ASSUME \A n \in DOMAIN caches' : caches'[n].doc # NONE => ReachedNext(n, caches'[n].doc)
    PROVE  Documents'
BY DEF ReachedNext, Documents, DocumentsOK

LEMMA WasReached ==
    ASSUME Documents, NEW n \in DOMAIN caches, caches[n].doc # NONE
    PROVE  ReachedNow(n, caches[n].doc)
BY DEF ReachedNow, Documents, DocumentsOK

LEMMA StaysReached ==
    ASSUME Keeps(caches, caches'), adding \subseteq adding',
           \A t \in Tabs : tab[t] # NONE /\ tab[t].stage = "loading" => tab'[t] = tab[t],
           installing # NONE /\ installing.stage = "adding" => installing' = installing,
           failed \cup inherited \subseteq failed' \cup inherited',
           NEW n, NEW build, ReachedNow(n, build)
    PROVE  ReachedNext(n, build)
BY Carried DEF ReachedNow, ReachedNext

(* A step that leaves caches and documents alone, and whatever is on its   *)
(* way to a bundle.                                                        *)
LEMMA DocumentsUntouched ==
    ASSUME TypeOK, Documents, UNCHANGED <<caches, adding, installing, failed, inherited>>,
           \A t \in Tabs : tab[t] # NONE /\ tab[t].stage = "loading" => tab'[t] = tab[t]
    PROVE  Documents'
<1>1. Keeps(caches, caches')
  BY DEF Keeps, IsCaches, TypeOK
<1>2. ASSUME NEW n \in DOMAIN caches', caches'[n].doc # NONE
      PROVE  ReachedNext(n, caches'[n].doc)
  <2>1. ReachedNow(n, caches[n].doc)
    BY <1>2, WasReached
  <2> QED
    BY <1>1, <2>1, StaysReached
<1> QED
  BY <1>2, AllReached

LEMMA StoredInCaches ==
    ASSUME TypeOK
    PROVE  \A w, build \in Builds :
               /\ Keeps(caches, PutDocument(caches, w, build))
               /\ DOMAIN PutDocument(caches, w, build) = DOMAIN caches \cup {w}
               /\ \A n \in DOMAIN caches : n # w => PutDocument(caches, w, build)[n] = caches[n]
               /\ PutDocument(caches, w, build)[w].doc = build
               /\ Keeps(caches, PutBundle(caches, w, build))
               /\ DOMAIN PutBundle(caches, w, build) = DOMAIN caches \cup {w}
               /\ \A n \in DOMAIN caches : PutBundle(caches, w, build)[n].doc = caches[n].doc
               /\ w \notin DOMAIN caches => PutBundle(caches, w, build)[w].doc = NONE
               /\ build \in PutBundle(caches, w, build)[w].bundles
<1>1. IsCaches(caches)
  BY DEF TypeOK, IsCaches
<1>2. TAKE w \in Builds, build \in Builds
<1>3. /\ Keeps(caches, PutDocument(caches, w, build))
      /\ DOMAIN PutDocument(caches, w, build) = DOMAIN caches \cup {w}
      /\ \A n \in DOMAIN caches : n # w => PutDocument(caches, w, build)[n] = caches[n]
      /\ PutDocument(caches, w, build)[w].doc = build
  BY <1>1, <1>2, StoringDocument
<1>4. /\ Keeps(caches, PutBundle(caches, w, build))
      /\ DOMAIN PutBundle(caches, w, build) = DOMAIN caches \cup {w}
      /\ \A n \in DOMAIN caches : PutBundle(caches, w, build)[n].doc = caches[n].doc
      /\ w \notin DOMAIN caches => PutBundle(caches, w, build)[w].doc = NONE
      /\ build \in PutBundle(caches, w, build)[w].bundles
  BY <1>1, <1>2, StoringBundle
<1> QED
  BY <1>3, <1>4

LEMMA DocumentsFresh ==
    ASSUME TypeOK, Documents, NEW t \in Tabs, FreshDocument(t)
    PROVE  Documents'
<1> DEFINE w   == tab[t].by
           put == PutDocument(caches, w, deployed)
<1>1. tab[t] # NONE /\ tab[t].stage = "asked" /\ w # NONE /\ w \in Builds /\ deployed \in Builds
  BY DEF FreshDocument, TypeOK, Pages
<1>2. IsCaches(caches)
  BY DEF TypeOK, IsCaches
<1>3. caches' = put
  BY DEF FreshDocument
<1>4. /\ tab'[t] # NONE /\ tab'[t].stage = "loading" /\ tab'[t].build = deployed /\ tab'[t].by = w
      /\ \A u \in Tabs : u # t => tab'[u] = tab[u]
  BY <1>1, PageGot, NoneIsNothing DEF FreshDocument
<1>5. /\ Keeps(caches, put) /\ DOMAIN put = DOMAIN caches \cup {w}
      /\ \A n \in DOMAIN caches : n # w => put[n] = caches[n]
      /\ put[w].doc = deployed
  BY <1>1, StoredInCaches
<1>6. adding \subseteq adding' /\ UNCHANGED <<installing, failed, inherited>>
  BY DEF FreshDocument
<1> HIDE DEF w, put
<1>7. ASSUME NEW n \in DOMAIN caches', caches'[n].doc # NONE
      PROVE  ReachedNext(n, caches'[n].doc)
  <2>1. CASE n = w
    <3>1. LaterPage(tab', w, deployed)
      BY <1>1, <1>4, BuildsAreOrdered DEF LaterPage
    <3> QED
      BY <1>3, <1>5, <2>1, <3>1 DEF ReachedNext, InReach
  <2>2. CASE n # w
    <3>1. n \in DOMAIN caches /\ caches'[n].doc = caches[n].doc
      BY <1>3, <1>5, <2>2
    <3>2. ReachedNow(n, caches[n].doc)
      BY <1>7, <3>1, WasReached
    <3>3. \A u \in Tabs : tab[u] # NONE /\ tab[u].stage = "loading" => tab'[u] = tab[u]
      BY <1>1, <1>4
    <3> QED
      BY <1>3, <1>5, <1>6, <3>1, <3>2, <3>3, StaysReached
  <2> QED
    BY <2>1, <2>2
<1> QED
  BY <1>7, AllReached

(* A bundle that arrives goes into a cache as new as the documents that    *)
(* waited for it.                                                          *)
LEMMA BundleArrives ==
    ASSUME TypeOK, Documents, NEW w \in Builds, NEW build \in Builds,
           caches' = PutBundle(caches, w, build),
           failed \cup inherited \subseteq failed' \cup inherited',
           \A a \in adding : a \in adding' \/ (a.build = build /\ a.cache = w),
           \A t \in Tabs : tab[t] # NONE /\ tab[t].stage = "loading" =>
               tab'[t] = tab[t] \/ (tab[t].build = build /\ tab[t].by = w),
           installing # NONE /\ installing.stage = "adding" =>
               installing' = installing \/ (installing.doc = build /\ installing.build = w)
    PROVE  Documents'
<1> DEFINE put == PutBundle(caches, w, build)
<1>1. /\ Keeps(caches, put) /\ DOMAIN put = DOMAIN caches \cup {w}
      /\ \A n \in DOMAIN caches : put[n].doc = caches[n].doc
      /\ w \notin DOMAIN caches => put[w].doc = NONE
      /\ build \in put[w].bundles
  BY StoredInCaches
<1>2. caches' = put
  OBVIOUS
<1> HIDE DEF put
<1>3. ASSUME NEW n \in DOMAIN caches', caches'[n].doc # NONE
      PROVE  ReachedNext(n, caches'[n].doc)
  <2>1. n \in DOMAIN caches /\ caches'[n].doc = caches[n].doc
    BY <1>1, <1>2, <1>3
  <2> DEFINE d == caches[n].doc
  <2>2. ReachedNow(n, d)
    BY <1>3, <2>1, WasReached
  <2> HIDE DEF d
  <2>3. CASE LaterBundle(caches, n, d)
    <3>1. LaterBundle(caches', n, d)
      BY <1>1, <1>2, <2>3 DEF LaterBundle, Keeps
    <3> QED
      BY <2>1, <3>1 DEF ReachedNext, InReach, d
  <2>4. CASE d = build /\ w >= n
    <3>1. LaterBundle(caches', n, d)
      BY <1>1, <1>2, <2>4 DEF LaterBundle
    <3> QED
      BY <2>1, <3>1 DEF ReachedNext, InReach, d
  <2>5. CASE LaterAdded(adding, n, d)
    <3>1. LaterAdded(adding', n, d) \/ (d = build /\ w >= n)
      BY <2>5 DEF LaterAdded
    <3> QED
      BY <2>1, <2>4, <3>1 DEF ReachedNext, InReach, d
  <2>6. CASE LaterPage(tab, n, d)
    <3>1. LaterPage(tab', n, d) \/ (d = build /\ w >= n)
      BY <2>6 DEF LaterPage
    <3> QED
      BY <2>1, <2>4, <3>1 DEF ReachedNext, InReach, d
  <2>7. CASE LaterInstalled(installing, n, d)
    <3>1. LaterInstalled(installing', n, d) \/ (d = build /\ w >= n)
      BY <2>7 DEF LaterInstalled
    <3> QED
      BY <2>1, <2>4, <3>1 DEF ReachedNext, InReach, d
  <2>8. CASE d \in failed \cup inherited
    BY <2>1, <2>8 DEF ReachedNext, InReach, d
  <2> QED
    BY <2>2, <2>3, <2>5, <2>6, <2>7, <2>8 DEF ReachedNow, InReach
<1> QED
  BY <1>3, AllReached

(* A bundle that is out of reach is noted.                                 *)
LEMMA BundleMissing ==
    ASSUME TypeOK, Documents, NEW build, caches' = caches, build \in failed' \cup inherited',
           failed \cup inherited \subseteq failed' \cup inherited',
           \A a \in adding : a \in adding' \/ a.build = build,
           \A t \in Tabs : tab[t] # NONE /\ tab[t].stage = "loading" =>
               tab'[t] = tab[t] \/ tab[t].build = build,
           installing # NONE /\ installing.stage = "adding" =>
               installing' = installing \/ installing.doc = build
    PROVE  Documents'
<1>1. ASSUME NEW n \in DOMAIN caches', caches'[n].doc # NONE
      PROVE  ReachedNext(n, caches'[n].doc)
  <2> DEFINE d == caches[n].doc
  <2>1. ReachedNow(n, d) /\ caches'[n].doc = d
    BY <1>1, WasReached
  <2> HIDE DEF d
  <2>2. LaterBundle(caches, n, d) => LaterBundle(caches', n, d)
    BY DEF LaterBundle
  <2>3. LaterAdded(adding, n, d) => LaterAdded(adding', n, d) \/ d = build
    BY DEF LaterAdded
  <2>4. LaterPage(tab, n, d) => LaterPage(tab', n, d) \/ d = build
    BY DEF LaterPage
  <2>5. LaterInstalled(installing, n, d) => LaterInstalled(installing', n, d) \/ d = build
    BY DEF LaterInstalled
  <2> QED
    BY <2>1, <2>2, <2>3, <2>4, <2>5 DEF ReachedNow, ReachedNext, InReach
<1> QED
  BY <1>1, AllReached

LEMMA DocumentsBundle ==
    ASSUME TypeOK, Shapes, Documents, NEW t \in Tabs, Bundle(t)
    PROVE  Documents'
<1> DEFINE w     == tab[t].by
           build == tab[t].build
           hit   == w # NONE /\ HasBundle(build)
<1>1. tab[t] # NONE /\ tab[t].stage = "loading" /\ w \in Builds \cup {NONE} /\ build \in Builds
  BY DEF Bundle, TypeOK, Pages, Shapes
<1>2. adding' = adding /\ installing' = installing
  BY DEF Bundle
<1>3. \A u \in Tabs : u # t => tab'[u] = tab[u]
  BY <1>1, PageRuns, PageFails DEF Bundle
<1>4. \A u \in Tabs : tab'[u] = tab[u] \/ (tab[u].build = build /\ tab[u].by = w)
  BY <1>3
<1>5. CASE hit
  <2>1. /\ caches' = caches /\ failed' = failed /\ w # NONE
        /\ inherited' = IF Owns(w, build) THEN inherited ELSE inherited \cup {build}
    BY <1>5 DEF Bundle
  <2>2. CASE Owns(w, build)
    <3> HIDE DEF w, build, hit
    <3>1. w \in DOMAIN caches /\ build \in caches[w].bundles
      BY <2>2 DEF Owns
    <3>2. ASSUME NEW n \in DOMAIN caches', caches'[n].doc # NONE
          PROVE  ReachedNext(n, caches'[n].doc)
      <4> DEFINE d == caches[n].doc
      <4>1. ReachedNow(n, d) /\ caches'[n].doc = d
        BY <2>1, <3>2, WasReached
      <4> HIDE DEF d
      <4>2. LaterBundle(caches, n, d) => LaterBundle(caches', n, d)
        BY <2>1
      <4>3. LaterPage(tab, n, d) => LaterPage(tab', n, d) \/ (d = build /\ w >= n)
        BY <1>4 DEF LaterPage
      <4>4. d = build /\ w >= n => LaterBundle(caches', n, d)
        BY <2>1, <3>1 DEF LaterBundle
      <4>5. inherited' = inherited
        BY <2>1, <2>2
      <4> QED
        BY <1>2, <2>1, <4>1, <4>2, <4>3, <4>4, <4>5 DEF ReachedNow, ReachedNext, InReach
    <3> QED
      BY <3>2, AllReached
  <2>3. CASE ~Owns(w, build)
    <3>1. build \in failed' \cup inherited' /\ failed \cup inherited \subseteq failed' \cup inherited'
      BY <2>1, <2>3
    <3> HIDE DEF w, build, hit
    <3> QED
      BY <1>1, <1>2, <1>4, <2>1, <3>1, BundleMissing
  <2> QED
    BY <2>2, <2>3
<1>6. CASE ~hit /\ Served(build)
  <2>1. UNCHANGED <<failed, inherited>>
    BY <1>6 DEF Bundle
  <2>2. CASE w = NONE
    <3>1. caches' = caches
      BY <1>6, <2>2 DEF Bundle
    <3>2. ASSUME NEW n \in DOMAIN caches', caches'[n].doc # NONE
          PROVE  ReachedNext(n, caches'[n].doc)
      <4> DEFINE d == caches[n].doc
      <4>1. ReachedNow(n, d) /\ caches'[n].doc = d
        BY <3>1, <3>2, WasReached
      <4> HIDE DEF d
      <4>2. LaterPage(tab, n, d) => LaterPage(tab', n, d)
        BY <1>3, <2>2 DEF LaterPage
      <4> QED
        BY <1>2, <2>1, <3>1, <4>1, <4>2 DEF ReachedNow, ReachedNext, InReach
    <3> QED
      BY <3>2, AllReached
  <2>3. CASE w # NONE
    <3>1. caches' = PutBundle(caches, w, build) /\ w \in Builds
      BY <1>1, <1>6, <2>3 DEF Bundle
    <3> HIDE DEF w, build, hit
    <3> QED
      BY <1>1, <1>2, <1>4, <2>1, <3>1, BundleArrives
  <2> QED
    BY <2>2, <2>3
<1>7. CASE ~hit /\ ~Served(build)
  <2>1. caches' = caches /\ failed' = failed \cup {build} /\ inherited' = inherited
    BY <1>7 DEF Bundle
  <2> HIDE DEF w, build, hit
  <2> QED
    BY <1>1, <1>2, <1>4, <2>1, BundleMissing
<1> QED
  BY <1>5, <1>6, <1>7

LEMMA DocumentsQuit ==
    ASSUME TypeOK, Documents, Quit
    PROVE  Documents'
<1>1. caches' = caches /\ inherited' = inherited /\ failed' = failed \cup Unfinished
  BY DEF Quit
<1>2. ASSUME NEW n \in DOMAIN caches', caches'[n].doc # NONE
      PROVE  ReachedNext(n, caches'[n].doc)
  <2> DEFINE d == caches[n].doc
  <2>1. ReachedNow(n, d) /\ caches'[n].doc = d
    BY <1>1, <1>2, WasReached
  <2> HIDE DEF d
  <2>2. LaterAdded(adding, n, d) => d \in Unfinished
    BY DEF LaterAdded, Unfinished
  <2>3. LaterPage(tab, n, d) => d \in Unfinished
    BY DEF LaterPage, Unfinished
  <2>4. LaterInstalled(installing, n, d) => d \in Unfinished
    BY DEF LaterInstalled, Unfinished, Installs
  <2> QED
    BY <1>1, <2>1, <2>2, <2>3, <2>4 DEF ReachedNow, ReachedNext, InReach
<1> QED
  BY <1>2, AllReached

LEMMA DocumentsInstalled ==
    ASSUME TypeOK, Documents, InstallDocument
    PROVE  Documents'
<1> DEFINE w == installing.build
<1>1. /\ installing # NONE /\ installing.stage = "fetching" /\ installing \in Installations
      /\ w \in Builds /\ deployed \in Builds
  BY DEF InstallDocument, Installs, TypeOK, Installations
<1>2. adding' = adding /\ tab' = tab /\ failed' = failed /\ inherited' = inherited
  BY DEF InstallDocument
<1>3. ASSUME Keeps(caches, caches'), NEW n \in DOMAIN caches, caches'[n].doc = caches[n].doc,
             caches'[n].doc # NONE
      PROVE  ReachedNext(n, caches'[n].doc)
  <2>1. ReachedNow(n, caches[n].doc)
    BY <1>3, WasReached
  <2> QED
    BY <1>1, <1>2, <1>3, <2>1, StaysReached
<1>4. CASE online
  <2>1. caches' = PutDocument(caches, w, deployed) /\ Fetched
    BY <1>4 DEF InstallDocument
  <2>2. /\ Keeps(caches, caches') /\ DOMAIN caches' = DOMAIN caches \cup {w}
        /\ \A n \in DOMAIN caches : n # w => caches'[n] = caches[n]
        /\ caches'[w].doc = deployed
    BY <1>1, <2>1, StoredInCaches
  <2>3. /\ installing' \in Installations /\ installing'.stage = "adding"
        /\ installing'.doc = deployed /\ installing'.build = w
    BY <1>1, <2>1 DEF Fetched, Installations
  <2>4. LaterInstalled(installing', w, deployed)
    BY <1>1, <2>3, NoneIsNothing, BuildsAreOrdered DEF LaterInstalled
  <2>5. ReachedNext(w, deployed)
    BY <2>4 DEF ReachedNext, InReach
  <2>6. ASSUME NEW n \in DOMAIN caches', caches'[n].doc # NONE
        PROVE  ReachedNext(n, caches'[n].doc)
    BY <1>3, <2>2, <2>5, <2>6
  <2> QED
    BY <2>6, AllReached
<1>5. CASE ~online
  <2>1. caches' = OpenedIn(caches, w)
    BY <1>5 DEF InstallDocument
  <2>2. IsCaches(caches)
    BY DEF TypeOK, IsCaches
  <2>3. /\ IsCaches(caches') /\ DOMAIN caches' = DOMAIN caches \cup {w}
        /\ \A n \in DOMAIN caches : caches'[n] = caches[n]
        /\ w \notin DOMAIN caches => caches'[w].doc = NONE
    BY <1>1, <2>1, <2>2, Opening
  <2>4. Keeps(caches, caches')
    BY <2>3 DEF Keeps
  <2>5. ASSUME NEW n \in DOMAIN caches', caches'[n].doc # NONE
        PROVE  ReachedNext(n, caches'[n].doc)
    BY <1>3, <2>3, <2>4, <2>5
  <2> QED
    BY <2>5, AllReached
<1> QED
  BY <1>4, <1>5

(* Of the caches that a takeover keeps, one is its own and the other is    *)
(* the newest of the rest: whatever is at least as new as a kept cache is  *)
(* kept.                                                                   *)
LEMMA NewerIsKept ==
    ASSUME NEW names \in SUBSET Builds, NEW w \in Builds,
           NEW n \in names, n \in KeptBy(w, names), \A m \in names : m <= w,
           NEW k \in names, k >= n
    PROVE  k \in KeptBy(w, names)
<1>1. CASE k = w
  BY <1>1, OwnIsKeptToo
<1>2. CASE k # w
  <2>1. n # w
    BY <1>2, NumbersAreNumbers
  <2>2. \A m \in names \ {w} : m <= n
    BY <2>1, NewestIsKept
  <2>3. \A m \in names \ {w} : m <= k
    BY <2>2, NumbersAreNumbers
  <2> QED
    BY <1>2, <2>3, NewestIsKept
<1> QED
  BY <1>1, <1>2

LEMMA DocumentsActivate ==
    ASSUME TypeOK, Ages, Documents, Activate
    PROVE  Documents'
<1> DEFINE w     == installing.build
           names == DOMAIN caches
           kept  == KeptBy(w, names)
<1>1. installing # NONE /\ installing.stage = "installed" /\ w \in Builds
  BY DEF Activate, Installs, TypeOK, Installations
<1>2. IsCaches(caches) /\ names \in SUBSET Builds
  BY DEF TypeOK, IsCaches
<1>3. caches' = OnlyIn(caches, kept) /\ adding' = adding /\ failed' = failed /\ inherited' = inherited
  BY DEF Activate
<1>4. \A n \in names : n <= w
  BY <1>1 DEF Ages, AgesOK
<1> HIDE DEF w, kept
<1>5. /\ DOMAIN caches' = names \cap kept
      /\ \A n \in names \cap kept :
             caches'[n].doc = caches[n].doc /\ caches'[n].bundles = caches[n].bundles
  BY <1>2, <1>3, Dropping
<1>6. ASSUME NEW n \in DOMAIN caches', caches'[n].doc # NONE
      PROVE  ReachedNext(n, caches'[n].doc)
  <2> DEFINE d == caches[n].doc
  <2>1. ReachedNow(n, d) /\ caches'[n].doc = d /\ n \in names /\ n \in kept
    BY <1>5, <1>6, WasReached
  <2> HIDE DEF d
  <2>2. CASE LaterBundle(caches, n, d)
    <3>1. PICK k \in names : k >= n /\ d \in caches[k].bundles
      BY <2>2 DEF LaterBundle
    <3>2. k \in kept
      BY <1>1, <1>2, <1>4, <2>1, <3>1, NewerIsKept DEF kept
    <3>3. LaterBundle(caches', n, d)
      BY <1>5, <3>1, <3>2 DEF LaterBundle
    <3> QED
      BY <2>1, <3>3 DEF ReachedNext, InReach
  <2>3. CASE LaterAdded(adding, n, d)
    BY <1>3, <2>1, <2>3 DEF ReachedNext, InReach
  <2>4. CASE LaterPage(tab, n, d)
    <3>1. PICK t \in Tabs : tab[t] # NONE /\ tab[t].stage = "loading" /\ tab[t].build = d
      BY <2>4 DEF LaterPage
    <3>2. tab'[t] \in Pages /\ tab'[t].stage = "loading" /\ tab'[t].build = d /\ tab'[t].by = w
      BY <3>1, PageClaimed DEF w
    <3>3. LaterPage(tab', n, d)
      BY <1>1, <1>4, <2>1, <3>2, NoneIsNothing, NumbersAreNumbers DEF LaterPage
    <3> QED
      BY <2>1, <3>3 DEF ReachedNext, InReach
  <2>5. ~LaterInstalled(installing, n, d)
    BY <1>1 DEF LaterInstalled
  <2>6. CASE d \in failed \cup inherited
    BY <1>3, <2>1, <2>6 DEF ReachedNext, InReach
  <2> QED
    BY <2>1, <2>2, <2>3, <2>4, <2>5, <2>6 DEF ReachedNow, InReach
<1> QED
  BY <1>6, AllReached

LEMMA DocumentsStep == TypeOK /\ Shapes /\ Ages /\ Documents /\ [Next]_vars => Documents'
<1> SUFFICES ASSUME TypeOK, Shapes, Ages, Documents, [Next]_vars PROVE Documents'
  OBVIOUS
<1>1. CASE Deploy \/ Drop \/ Recover \/ (\E w \in Builds : StopWorker(w)) \/ UNCHANGED vars
  BY <1>1, DocumentsUntouched DEF Deploy, Drop, Recover, StopWorker, vars
<1>2. ASSUME NEW t \in Tabs, Navigate(t) PROVE Documents'
  <2>1. tab[t] # NONE => tab[t].stage # "loading"
    BY <1>2 DEF Navigate
  <2>2. \A u \in Tabs : u # t => tab'[u] = tab[u]
    BY <1>2 DEF Navigate, TypeOK
  <2> QED
    BY <1>2, <2>1, <2>2, DocumentsUntouched DEF Navigate
<1>3. ASSUME NEW t \in Tabs, PlainDocument(t) PROVE Documents'
  <2>1. (IF online THEN deployed ELSE NONE) \in Builds \cup {NONE}
    BY DEF TypeOK
  <2>2. tab[t].stage # "loading" /\ \A u \in Tabs : u # t => tab'[u] = tab[u]
    BY <1>3, <2>1, PageGot DEF PlainDocument
  <2> QED
    BY <1>3, <2>2, DocumentsUntouched DEF PlainDocument
<1>4. ASSUME NEW t \in Tabs, CachedDocument(t) PROVE Documents'
  <2>1. tab[t].stage # "loading" /\ \A u \in Tabs : u # t => tab'[u] = tab[u]
    BY <1>4, PageGot DEF CachedDocument
  <2> QED
    BY <1>4, <2>1, DocumentsUntouched DEF CachedDocument
<1>5. ASSUME NEW t \in Tabs, FindUpdate(t) PROVE Documents'
  <2>1. installing = NONE /\ tab' = tab
    BY <1>5 DEF FindUpdate
  <2>2. ASSUME NEW n \in DOMAIN caches', caches'[n].doc # NONE
        PROVE  ReachedNext(n, caches'[n].doc)
    <3> DEFINE d == caches[n].doc
    <3>1. ReachedNow(n, d) /\ caches'[n].doc = d
      BY <1>5, <2>2, WasReached DEF FindUpdate
    <3> HIDE DEF d
    <3>2. ~LaterInstalled(installing, n, d)
      BY <2>1 DEF LaterInstalled
    <3> QED
      BY <1>5, <3>1, <3>2 DEF FindUpdate, ReachedNow, ReachedNext, InReach
  <2> QED
    BY <2>2, AllReached
<1>6. ASSUME NEW a \in adding, Added(a) PROVE Documents'
  <2>1. a.cache \in Builds /\ a.build \in Builds
    BY DEF TypeOK
  <2>2. tab' = tab /\ installing' = installing /\ inherited' = inherited
        /\ \A b \in adding : b \in adding' \/ b = a
    BY <1>6 DEF Added
  <2>3. CASE Served(a.build)
    <3>1. caches' = PutBundle(caches, a.cache, a.build) /\ failed' = failed
      BY <1>6, <2>3 DEF Added
    <3> QED
      BY <2>1, <2>2, <3>1, BundleArrives
  <2>4. CASE ~Served(a.build)
    <3>1. caches' = caches /\ failed' = failed \cup {a.build}
      BY <1>6, <2>4 DEF Added
    <3> QED
      BY <2>2, <3>1, BundleMissing
  <2> QED
    BY <2>3, <2>4
<1>7. CASE InstallBundle
  <2>1. installing # NONE /\ installing.build \in Builds /\ installing.doc \in Builds
    BY <1>7 DEF InstallBundle, Installs, TypeOK, Installations, Shapes
  <2>2. tab' = tab /\ adding' = adding /\ inherited' = inherited
    BY <1>7 DEF InstallBundle
  <2>3. CASE Served(installing.doc)
    <3>1. caches' = PutBundle(caches, installing.build, installing.doc) /\ failed' = failed
      BY <1>7, <2>3 DEF InstallBundle
    <3> QED
      BY <2>1, <2>2, <3>1, BundleArrives
  <2>4. CASE ~Served(installing.doc)
    <3>1. caches' = caches /\ failed' = failed \cup {installing.doc}
      BY <1>7, <2>4 DEF InstallBundle
    <3> QED
      BY <2>2, <3>1, BundleMissing
  <2> QED
    BY <2>3, <2>4
<1> QED
  BY <1>1, <1>2, <1>3, <1>4, <1>5, <1>6, <1>7, DocumentsFresh, DocumentsBundle, DocumentsQuit,
     DocumentsInstalled, DocumentsActivate
  DEF Next, WorkerStep

LEMMA DocumentsEnough == TypeOK /\ Documents => DocumentsHaveBundles
<1> SUFFICES ASSUME TypeOK, Documents, NEW n \in DOMAIN caches, caches[n].doc # NONE
             PROVE  \/ HasBundle(caches[n].doc)
                    \/ caches[n].doc \in failed \cup inherited \cup Unfinished
  BY DEF DocumentsHaveBundles
<1> DEFINE d == caches[n].doc
<1>1. ReachedNow(n, d)
  BY WasReached
<1> HIDE DEF d
<1>2. LaterBundle(caches, n, d) => HasBundle(d)
  BY DEF LaterBundle, HasBundle
<1>3. LaterAdded(adding, n, d) => d \in Unfinished
  BY DEF LaterAdded, Unfinished
<1>4. LaterPage(tab, n, d) => d \in Unfinished
  BY DEF LaterPage, Unfinished
<1>5. LaterInstalled(installing, n, d) => d \in Unfinished
  BY DEF LaterInstalled, Unfinished, Installs
<1>6. HasBundle(d) \/ d \in failed \cup inherited \cup Unfinished
  BY <1>1, <1>2, <1>3, <1>4, <1>5 DEF ReachedNow, InReach
<1> QED
  BY <1>6 DEF d
-----------------------------------------------------------------------------
(* Pages that run, and their bundles. *)

LEMMA PagesInit == Init => PagesHave
BY DEF Init, PagesHave, PageOK

(* What only adds to the caches leaves a page with what it had.            *)
LEMMA PageStays ==
    ASSUME NEW page, NEW act, NEW cs, NEW next, Keeps(cs, next),
           NEW inh, NEW nextInh, inh \subseteq nextInh,
           NEW lost, NEW nextLost, lost \subseteq nextLost,
           PageOK(page, act, cs, inh, lost)
    PROVE  PageOK(page, act, next, nextInh, nextLost)
<1> SUFFICES ASSUME page # NONE, page.stage = "running", page.had, page.build \notin nextInh
             PROVE  /\ page.claims = 0 => act \in DOMAIN next /\ page.build \in next[act].bundles
                    /\ page.claims = 1 =>
                        \/ \E n \in DOMAIN next : page.build \in next[n].bundles
                        \/ DOMAIN next \cap nextLost # {}
  BY DEF PageOK
<1>1. page.build \notin inh
  OBVIOUS
<1>2. CASE page.claims = 0
  <2>1. act \in DOMAIN cs /\ page.build \in cs[act].bundles
    BY <1>1, <1>2 DEF PageOK
  <2> QED
    BY <1>2, <2>1 DEF Keeps
<1>3. CASE page.claims = 1
  <2>1. \/ \E n \in DOMAIN cs : page.build \in cs[n].bundles
        \/ DOMAIN cs \cap lost # {}
    BY <1>1, <1>3 DEF PageOK
  <2> QED
    BY <1>3, <2>1 DEF Keeps
<1> QED
  BY <1>2, <1>3

(* Every step but a takeover keeps the caches.                             *)
LEMMA CachesKept ==
    ASSUME TypeOK, Shapes, [Next]_vars, ~Activate
    PROVE  Keeps(caches, caches')
<1>c. IsCaches(caches)
  BY DEF TypeOK, IsCaches
<1>k. caches' = caches => Keeps(caches, caches')
  BY <1>c DEF Keeps
<1>1. ASSUME NEW t \in Tabs, FreshDocument(t) PROVE Keeps(caches, caches')
  <2>1. tab[t].by \in Builds /\ deployed \in Builds
    BY <1>1 DEF FreshDocument, TypeOK, Pages
  <2>2. Keeps(caches, PutDocument(caches, tab[t].by, deployed))
    BY <2>1, StoredInCaches
  <2> QED
    BY <1>1, <2>2 DEF FreshDocument
<1>2. ASSUME NEW t \in Tabs, Bundle(t) PROVE Keeps(caches, caches')
  <2>1. tab[t].by \in Builds \cup {NONE} /\ tab[t].build \in Builds
    BY <1>2 DEF Bundle, TypeOK, Pages, Shapes
  <2>2. tab[t].by # NONE => Keeps(caches, PutBundle(caches, tab[t].by, tab[t].build))
    BY <2>1, StoredInCaches
  <2> QED
    BY <1>k, <1>2, <2>2 DEF Bundle
<1>3. ASSUME NEW a \in adding, Added(a) PROVE Keeps(caches, caches')
  <2>1. a.cache \in Builds /\ a.build \in Builds
    BY DEF TypeOK
  <2>2. Keeps(caches, PutBundle(caches, a.cache, a.build))
    BY <2>1, StoredInCaches
  <2> QED
    BY <1>k, <1>3, <2>2 DEF Added
<1>4. CASE InstallDocument
  <2>1. installing.build \in Builds /\ deployed \in Builds
    BY <1>4 DEF InstallDocument, Installs, TypeOK, Installations
  <2>2. Keeps(caches, PutDocument(caches, installing.build, deployed))
    BY <2>1, StoredInCaches
  <2>3. /\ IsCaches(OpenedIn(caches, installing.build))
        /\ DOMAIN OpenedIn(caches, installing.build) = DOMAIN caches \cup {installing.build}
        /\ \A n \in DOMAIN caches : OpenedIn(caches, installing.build)[n] = caches[n]
    BY <1>c, <2>1, Opening
  <2>4. Keeps(caches, OpenedIn(caches, installing.build))
    BY <2>3 DEF Keeps
  <2> QED
    BY <1>4, <2>2, <2>4 DEF InstallDocument
<1>5. CASE InstallBundle
  <2>1. installing.build \in Builds /\ installing.doc \in Builds
    BY <1>5 DEF InstallBundle, Installs, TypeOK, Installations, Shapes
  <2>2. Keeps(caches, PutBundle(caches, installing.build, installing.doc))
    BY <2>1, StoredInCaches
  <2> QED
    BY <1>k, <1>5, <2>2 DEF InstallBundle
<1> QED
  BY <1>k, <1>1, <1>2, <1>3, <1>4, <1>5
  DEF Next, WorkerStep, Deploy, Drop, Recover, Quit, Navigate, PlainDocument, CachedDocument,
      FindUpdate, StopWorker, vars

LEMMA PagesBundle ==
    ASSUME TypeOK, Shapes, Ages, PagesHave, NEW t \in Tabs, Bundle(t)
    PROVE  PagesHave'
<1> DEFINE w     == tab[t].by
           build == tab[t].build
           hit   == w # NONE /\ HasBundle(build)
<1>1. tab[t] # NONE /\ tab[t] \in Pages /\ w \in Builds \cup {NONE} /\ build \in Builds
  BY DEF Bundle, TypeOK, Pages, Shapes
<1>2. active' = active /\ broken' = broken /\ inherited \subseteq inherited'
  BY DEF Bundle
<1>3. Keeps(caches, caches')
  <2>1. w # NONE => Keeps(caches, PutBundle(caches, w, build))
    BY <1>1, StoredInCaches
  <2>2. caches' = caches => Keeps(caches, caches')
    BY DEF TypeOK, IsCaches, Keeps
  <2> QED
    BY <2>1, <2>2 DEF Bundle
<1>4. ASSUME NEW u \in Tabs, u # t PROVE PageOK(tab'[u], active', caches', inherited', broken')
  <2>1. tab'[u] = tab[u]
    BY <1>1, <1>4, PageRuns, PageFails DEF Bundle
  <2>2. PageOK(tab[u], active, caches, inherited, broken)
    BY DEF PagesHave
  <2> QED
    BY <1>2, <1>3, <2>1, <2>2, PageStays
<1>5. PageOK(tab'[t], active', caches', inherited', broken')
  <2>1. CASE ~hit /\ ~Served(build)
    <3>1. tab'[t].stage = "blank"
      BY <1>1, <2>1, PageFails DEF Bundle
    <3> QED
      BY <3>1 DEF PageOK
  <2>2. CASE hit \/ Served(build)
    <3>1. Runs(t)
      BY <2>2 DEF Bundle
    <3>2. /\ tab'[t].had = (w # NONE) /\ tab'[t].build = build /\ tab'[t].claims = tab[t].claims
          /\ tab'[t].stage = "running"
      BY <1>1, <3>1, PageRuns
    <3>3. w # NONE /\ build \notin inherited' => w \in DOMAIN caches' /\ build \in caches'[w].bundles
      <4>1. CASE hit
        <5>1. caches' = caches /\ (Owns(w, build) \/ build \in inherited')
          BY <4>1 DEF Bundle
        <5> QED
          BY <5>1 DEF Owns
      <4>2. CASE ~hit /\ Served(build) /\ w # NONE
        <5>1. caches' = PutBundle(caches, w, build) /\ w \in Builds
          BY <1>1, <4>2 DEF Bundle
        <5>2. DOMAIN PutBundle(caches, w, build) = DOMAIN caches \cup {w}
              /\ build \in PutBundle(caches, w, build)[w].bundles
          <6> HIDE DEF w, build, hit
          <6> QED
            BY <1>1, <5>1, StoredInCaches
        <5> QED
          BY <5>1, <5>2
      <4> HIDE DEF w, build, hit
      <4> QED
        BY <2>2, <4>1, <4>2
    <3>4. tab[t].claims = 0 => w = active
      BY <1>1 DEF Ages, AgesOK
    <3> HIDE DEF w, build, hit
    <3> QED
      BY <1>2, <3>2, <3>3, <3>4 DEF PageOK
  <2> QED
    BY <2>1, <2>2
<1> QED
  BY <1>4, <1>5 DEF PagesHave

(* A takeover: of the caches that stay one belonged to the worker of the   *)
(* page, unless one of an installation that missed something has come in   *)
(* between.                                                                *)
LEMMA PagesActivate ==
    ASSUME TypeOK, Ages, Newer, PagesHave, Activate
    PROVE  PagesHave'
<1> DEFINE w     == installing.build
           names == DOMAIN caches
           kept  == KeptBy(w, names)
<1>1. installing # NONE /\ w \in Builds
  BY DEF Activate, Installs, TypeOK, Installations
<1>2. IsCaches(caches) /\ names \in SUBSET Builds
  BY DEF TypeOK, IsCaches
<1>3. caches' = OnlyIn(caches, kept) /\ inherited' = inherited /\ broken' = broken
  BY DEF Activate
<1> HIDE DEF kept
<1>4. /\ DOMAIN caches' = names \cap kept
      /\ \A n \in names \cap kept : caches'[n].bundles = caches[n].bundles
  BY <1>2, <1>3, Dropping
<1>5. ASSUME active # NONE, active \in names, DOMAIN caches' \cap broken = {}
      PROVE  active \in kept
  <2>1. active < w /\ active \in Builds
    BY <1>1, <1>2, <1>5 DEF Ages, AgesOK
  <2>2. active \in names \ {w}
    BY <1>1, <1>5, <2>1, BuildsAreOrdered
  <2>3. PICK n \in names \ {w} : \A m \in names \ {w} : m <= n
    BY <1>2, <2>2, NewestBuild
  <2>4. n \in kept
    BY <1>1, <1>2, <2>3, NewestIsKept DEF kept
  <2>5. n \notin broken
    BY <1>4, <1>5, <2>3, <2>4
  <2>6. n <= active
    BY <2>3, <2>5 DEF Newer, NewerIsBroken
  <2>7. n = active
    <3>1. n \in Builds /\ active <= n
      BY <1>2, <2>2, <2>3
    <3> QED
      BY <2>1, <2>6, <3>1, BuildsAreOrdered
  <2> QED
    BY <2>4, <2>7
<1>6. ASSUME NEW t \in Tabs, tab'[t] # NONE, tab'[t].stage = "running", tab'[t].had,
             tab'[t].build \notin inherited'
      PROVE  /\ tab'[t].claims # 0
             /\ tab'[t].claims = 1 =>
                 \/ \E n \in DOMAIN caches' : tab'[t].build \in caches'[n].bundles
                 \/ DOMAIN caches' \cap broken' # {}
  <2>1. tab[t] # NONE
    BY <1>6 DEF Activate
  <2>2. tab[t] \in Pages /\ tab[t].claims \in 0..2
    BY <2>1 DEF TypeOK, Pages
  <2>3. /\ tab[t].stage = "running" /\ tab[t].had /\ tab'[t].build = tab[t].build
        /\ tab'[t].claims = IF tab[t].claims < 2 THEN tab[t].claims + 1 ELSE tab[t].claims
    BY <1>6, <2>1, PageClaimed
  <2>4. tab'[t].claims # 0 /\ (tab'[t].claims = 1 => tab[t].claims = 0)
    BY <2>2, <2>3
  <2>5. ASSUME tab[t].claims = 0, DOMAIN caches' \cap broken = {}
        PROVE  \E n \in DOMAIN caches' : tab'[t].build \in caches'[n].bundles
    <3>1. PageOK(tab[t], active, caches, inherited, broken)
      BY DEF PagesHave
    <3>2. active \in names /\ tab[t].build \in caches[active].bundles
      BY <1>3, <1>6, <2>1, <2>3, <2>5, <3>1 DEF PageOK
    <3>3. active # NONE
      BY <1>2, <3>2, NoneIsNothing
    <3>4. active \in kept
      BY <1>5, <2>5, <3>2, <3>3
    <3> QED
      BY <1>4, <2>3, <3>2, <3>4
  <2> QED
    BY <1>3, <2>4, <2>5
<1> QED
  BY <1>6 DEF PagesHave, PageOK

LEMMA PagesStep == TypeOK /\ Shapes /\ Ages /\ Newer /\ PagesHave /\ [Next]_vars => PagesHave'
<1> SUFFICES ASSUME TypeOK, Shapes, Ages, Newer, PagesHave, [Next]_vars PROVE PagesHave'
  OBVIOUS
<1>1. ASSUME ~Activate, active' = active, inherited \subseteq inherited', broken \subseteq broken',
             \A u \in Tabs :
                 tab'[u] = tab[u] \/ (tab'[u] # NONE => tab'[u].stage # "running")
      PROVE  PagesHave'
  <2>1. ASSUME NEW u \in Tabs PROVE PageOK(tab'[u], active', caches', inherited', broken')
    <3>1. CASE tab'[u] = tab[u]
      <4>1. PageOK(tab[u], active, caches, inherited, broken)
        BY DEF PagesHave
      <4>2. Keeps(caches, caches')
        BY <1>1, CachesKept
      <4> QED
        BY <1>1, <3>1, <4>1, <4>2, PageStays
    <3>2. CASE tab'[u] # NONE => tab'[u].stage # "running"
      BY <3>2 DEF PageOK
    <3> QED
      BY <1>1, <3>1, <3>2
  <2> QED
    BY <2>1 DEF PagesHave
<1>2. CASE Activate
  BY <1>2, PagesActivate
<1>3. ASSUME NEW t \in Tabs, Bundle(t) PROVE PagesHave'
  BY <1>3, PagesBundle
<1>4. CASE Quit
  BY <1>4 DEF Quit, PagesHave, PageOK
<1>5. ASSUME NEW t \in Tabs, Navigate(t) PROVE active' = active /\ inherited' = inherited
          /\ broken' = broken /\ \A u \in Tabs : tab'[u] = tab[u] \/ tab'[u].stage # "running"
  BY <1>5 DEF Navigate, TypeOK
<1>6. ASSUME NEW t \in Tabs, PlainDocument(t) \/ FreshDocument(t) \/ CachedDocument(t)
      PROVE  active' = active /\ inherited' = inherited
          /\ broken' = broken /\ \A u \in Tabs : tab'[u] = tab[u] \/ tab'[u].stage # "running"
  <2>1. deployed \in Builds /\ (IF online THEN deployed ELSE NONE) \in Builds \cup {NONE}
    BY DEF TypeOK
  <2>2. PICK build \in Builds \cup {NONE} : Got(t, build) /\ tab[t] # NONE
    BY <1>6, <2>1 DEF PlainDocument, FreshDocument, CachedDocument
  <2>3. \A u \in Tabs : tab'[u] = tab[u] \/ tab'[u].stage # "running"
    BY <2>2, PageGot
  <2> QED
    BY <1>6, <2>3 DEF PlainDocument, FreshDocument, CachedDocument
<1>7. ASSUME Deploy \/ Drop \/ Recover \/ (\E t \in Tabs : FindUpdate(t)) \/ InstallDocument
               \/ InstallBundle \/ (\E a \in adding : Added(a)) \/ (\E w \in Builds : StopWorker(w))
               \/ UNCHANGED vars
      PROVE  active' = active /\ inherited' = inherited /\ broken \subseteq broken' /\ tab' = tab
  BY <1>7 DEF Deploy, Drop, Recover, FindUpdate, InstallDocument, InstallBundle, Added, StopWorker,
              vars
<1> QED
  BY <1>1, <1>2, <1>3, <1>4, <1>5, <1>6, <1>7 DEF Next, WorkerStep

LEMMA PagesEnough == TypeOK /\ PagesHave => OldPageKeepsItsBundle
<1> SUFFICES ASSUME PagesHave, NEW t \in Tabs, tab[t] # NONE, tab[t].stage = "running", tab[t].had,
                    tab[t].claims <= 1, tab[t].build \notin inherited,
                    DOMAIN caches \cap broken = {}, TypeOK
             PROVE  HasBundle(tab[t].build)
  BY DEF OldPageKeepsItsBundle
<1>1. PageOK(tab[t], active, caches, inherited, broken)
  BY DEF PagesHave
<1>2. tab[t].claims \in 0..2
  BY DEF TypeOK, Pages
<1>3. tab[t].claims = 0 \/ tab[t].claims = 1
  BY <1>2
<1> QED
  BY <1>1, <1>3 DEF PageOK, HasBundle
-----------------------------------------------------------------------------
LEMMA InvInit == Init => Inv
BY TypeInit, ShapesInit, AgesInit, DocumentsInit, PagesInit DEF Inv

LEMMA InvStep == Inv /\ [Next]_vars => Inv'
BY TypeStep, ShapesStep, AgesStep, NewerStep, DocumentsStep, PagesStep DEF Inv

LEMMA InvAlways == Spec => []Inv
<1>1. Init => Inv
  BY InvInit
<1>2. Inv /\ [Next]_vars => Inv'
  BY InvStep
<1> QED
  BY <1>1, <1>2, PTL DEF Spec

(* Builds, caches, workers and pages stay what they are meant to be.       *)
THEOREM ShellTypeCorrect == Spec => []TypeOK
<1>1. Inv => TypeOK
  BY DEF Inv
<1> QED
  BY <1>1, InvAlways, PTL

(* A stored document has its bundle in a cache, or on its way into one,    *)
(* unless the bundle was out of reach when it was asked for, or a page had *)
(* it from the cache of another generation.                                *)
THEOREM DocumentsKeepBundles == Spec => []DocumentsHaveBundles
<1>1. Inv => DocumentsHaveBundles
  BY DocumentsEnough DEF Inv
<1> QED
  BY <1>1, InvAlways, PTL

(* A page of the build before has its bundle after a takeover, between     *)
(* workers that were installed whole.                                      *)
THEOREM OldPagesKept == Spec => []OldPageKeepsItsBundle
<1>1. Inv => OldPageKeepsItsBundle
  BY PagesEnough DEF Inv
<1> QED
  BY <1>1, InvAlways, PTL
=============================================================================
