----------------------------- MODULE ShellCache -----------------------------
(***************************************************************************)
(* The app shell offline: the service worker of apps/web (src/sw), its     *)
(* registration and the banner of a new version (src/pwa), against a       *)
(* server that deploys builds and a network that comes and goes.           *)
(*                                                                         *)
(* A build is a number.  Its document names one bundle, and the server     *)
(* has the document and the bundle of the build it deploys and no other.   *)
(* A worker is named by the build that its script came with.  The menu,    *)
(* which the worker also caches, is left out.                              *)
(*                                                                         *)
(* The browser's part (what controls a page, when a worker is installed,   *)
(* activated and stopped) is modelled from how the code uses it.           *)
(***************************************************************************)
EXTENDS Naturals, FiniteSets

CONSTANTS
    Tabs,
    MaxBuild,       \* bound on the builds deployed
    MaxLoads,       \* bound on the navigations
    MaxOutages,     \* bound on the outages of the network
    MaxQuits,       \* bound on the times the browser is closed
    NONE            \* no worker, no page

Builds == 1..MaxBuild

GenerationsKept == 2

VARIABLES
    deployed, online,
    caches,         \* CacheStorage: by name, document, bundles and the caches it came after
    active,         \* the worker that is active, or NONE
    installing,     \* the worker that is being installed, or NONE
    precached,      \* workers that take their shell for precached (shellPrecached)
    adding,         \* the bundles that a navigation left precaching: cache and build
    tab,            \* per tab, its page
    loads, outages, quits,
    failed,         \* history: builds whose bundle was out of reach when it was asked for
    inherited,      \* history: builds whose bundle a worker had from a cache not its own
    broken          \* history: workers whose installation missed something

worldVars == <<deployed, online, loads, outages, quits>>
vars == <<worldVars, caches, active, installing, precached, adding, tab, failed, inherited,
          broken>>

CacheRecords == [doc: Builds \cup {NONE}, bundles: SUBSET Builds, after: SUBSET Builds]

Pages == [stage: {"asked", "loading", "running", "blank"}, build: Builds \cup {NONE},
          by: Builds \cup {NONE}, had: BOOLEAN, banner: BOOLEAN, claims: 0..2]

Installations == [build: Builds, stage: {"fetching", "adding", "installed"},
                  doc: Builds \cup {NONE}]

ASSUME ShellAssumption ==
    /\ MaxBuild \in Nat \ {0} /\ {MaxLoads, MaxOutages, MaxQuits} \subseteq Nat
    /\ NONE \notin Builds \cup Pages \cup Installations

Init ==
    /\ deployed = 1 /\ online = TRUE
    /\ caches = [n \in {} |-> NONE]
    /\ active = NONE /\ installing = NONE
    /\ precached = {} /\ adding = {}
    /\ tab = [t \in Tabs |-> NONE]
    /\ loads = 0 /\ outages = 0 /\ quits = 0
    /\ failed = {} /\ inherited = {} /\ broken = {}
-----------------------------------------------------------------------------
(* CacheStorage. *)

OpenedIn(cs, w) ==
    [n \in DOMAIN cs \cup {w} |->
        IF n \in DOMAIN cs THEN cs[n] ELSE [doc |-> NONE, bundles |-> {}, after |-> DOMAIN cs]]

PutDocument(cs, w, build) == [OpenedIn(cs, w) EXCEPT ![w].doc = build]

PutBundle(cs, w, build) == [OpenedIn(cs, w) EXCEPT ![w].bundles = @ \cup {build}]

OnlyIn(cs, kept) ==
    [n \in DOMAIN cs \cap kept |-> [cs[n] EXCEPT !.after = cs[n].after \cap kept]]

(* caches.match: the caches are searched in the order they were created. *)
Holding(cs) == {n \in DOMAIN cs : cs[n].doc # NONE}

IsFirstDocument(cs, build) ==
    \/ Holding(cs) = {} /\ build = NONE
    \/ \E n \in Holding(cs) : cs[n].after \cap Holding(cs) = {} /\ build = cs[n].doc

HasBundle(build) == \E n \in DOMAIN caches : build \in caches[n].bundles

Owns(w, build) == w \in DOMAIN caches /\ build \in caches[w].bundles

Served(build) == online /\ build = deployed

(* Faulty variant of KeptBy: activate keeps the cache of its own build and no other. *)
OwnIsKept(w, names) == {w}

(* staleCaches(): the own cache and the newest of the others stay. *)
KeptBy(w, names) ==
    LET others == names \ {w}
    IN {w} \cup {n \in others : Cardinality({m \in others : m > n}) < GenerationsKept - 1}
-----------------------------------------------------------------------------
(* The server and the network. *)

Deploy ==
    /\ deployed < MaxBuild
    /\ deployed' = deployed + 1
    /\ UNCHANGED <<online, loads, outages, quits, caches, active, installing, precached, adding,
                   tab, failed, inherited, broken>>

Drop ==
    /\ online /\ outages < MaxOutages
    /\ online' = FALSE
    /\ outages' = outages + 1
    /\ UNCHANGED <<deployed, loads, quits, caches, active, installing, precached, adding, tab,
                   failed, inherited, broken>>

Recover ==
    /\ ~online
    /\ online' = TRUE
    /\ UNCHANGED <<deployed, loads, outages, quits, caches, active, installing, precached, adding,
                   tab, failed, inherited, broken>>
-----------------------------------------------------------------------------
(* A page is loaded. *)

(* The operator opens a tab, or reloads it. *)
Navigate(t) ==
    /\ loads < MaxLoads
    /\ loads' = loads + 1
    /\ tab[t] # NONE => tab[t].stage \in {"running", "blank"}
    /\ tab' = [tab EXCEPT ![t] =
            [stage |-> "asked", build |-> NONE, by |-> active, had |-> FALSE, banner |-> FALSE,
             claims |-> 0]]
    /\ UNCHANGED <<deployed, online, outages, quits, caches, active, installing, precached, adding,
                   failed, inherited, broken>>

Got(t, build) ==
    tab' = [tab EXCEPT ![t] =
        IF build = NONE THEN [@ EXCEPT !.stage = "blank"]
        ELSE [@ EXCEPT !.stage = "loading", !.build = build]]

(* Without a worker the document comes from the server or not at all. *)
PlainDocument(t) ==
    /\ tab[t] # NONE /\ tab[t].stage = "asked" /\ tab[t].by = NONE
    /\ Got(t, IF online THEN deployed ELSE NONE)
    /\ UNCHANGED <<worldVars, caches, active, installing, precached, adding, failed, inherited, broken>>

(* networkFirstShell(): the answer is stored, and with the first one a     *)
(* worker without a shell precaches what the document names.               *)
FreshDocument(t) ==
    /\ tab[t] # NONE /\ tab[t].stage = "asked" /\ tab[t].by # NONE
    /\ online
    /\ LET w == tab[t].by IN
        /\ caches' = PutDocument(caches, w, deployed)
        /\ precached' = precached \cup {w}
        /\ adding' = IF w \in precached THEN adding
                     ELSE adding \cup {[cache |-> w, build |-> deployed]}
    /\ Got(t, deployed)
    /\ UNCHANGED <<worldVars, active, installing, failed, inherited, broken>>

CachedDocument(t) ==
    /\ tab[t] # NONE /\ tab[t].stage = "asked" /\ tab[t].by # NONE
    /\ ~online
    /\ \E build \in Builds \cup {NONE} : IsFirstDocument(caches, build) /\ Got(t, build)
    /\ UNCHANGED <<worldVars, caches, active, installing, precached, adding, failed, inherited, broken>>

(* The background precache of a navigation ends. *)
Added(a) ==
    /\ a \in adding
    /\ adding' = adding \ {a}
    /\ \/ /\ Served(a.build)
          /\ caches' = PutBundle(caches, a.cache, a.build)
          /\ UNCHANGED failed
       \/ /\ ~Served(a.build)
          /\ failed' = failed \cup {a.build}
          /\ UNCHANGED caches
    /\ UNCHANGED <<worldVars, active, installing, precached, tab, inherited, broken>>

Runs(t) == tab' = [tab EXCEPT ![t] = [@ EXCEPT !.stage = "running", !.had = (tab[t].by # NONE)]]

(* The page asks for its bundle: cacheFirst() of the worker that controls  *)
(* it by now, or the server.  A hit is not copied into the cache of that   *)
(* worker.  A bundle that runs registers the worker.                       *)
Bundle(t) ==
    /\ tab[t] # NONE /\ tab[t].stage = "loading"
    /\ LET page == tab[t]
           hit  == page.by # NONE /\ HasBundle(page.build)
       IN \/ /\ hit
             /\ Runs(t)
             /\ inherited' = IF Owns(page.by, page.build) THEN inherited
                             ELSE inherited \cup {page.build}
             /\ UNCHANGED <<caches, failed>>
          \/ /\ ~hit /\ Served(page.build)
             /\ Runs(t)
             /\ caches' = IF page.by = NONE THEN caches
                          ELSE PutBundle(caches, page.by, page.build)
             /\ UNCHANGED <<failed, inherited>>
          \/ /\ ~hit /\ ~Served(page.build)
             /\ tab' = [tab EXCEPT ![t].stage = "blank"]
             /\ failed' = failed \cup {page.build}
             /\ UNCHANGED <<caches, inherited>>
    /\ UNCHANGED <<worldVars, active, installing, precached, adding, broken>>
-----------------------------------------------------------------------------
(* The life of a worker. *)

(* register() and update(), or the browser on its own schedule, find a     *)
(* script that is not the one of the newest worker.                        *)
FindUpdate(t) ==
    /\ online
    /\ tab[t] # NONE /\ tab[t].stage = "running"
    /\ installing = NONE /\ active # deployed
    /\ installing' = [build |-> deployed, stage |-> "fetching", doc |-> NONE]
    /\ UNCHANGED <<worldVars, caches, active, precached, adding, tab, failed, inherited, broken>>

Installs(stage) == installing # NONE /\ installing.stage = stage

(* Faulty variant of GaveUp: the installation fails with the document it could not fetch. *)
Stuck == UNCHANGED installing

(* tryPrecacheShell() swallows what went wrong. *)
GaveUp == installing' = [installing EXCEPT !.stage = "installed"]

(* Faulty variant of Fetched: what the document names is left to the pages that ask for it. *)
FetchedAlone == installing' = [installing EXCEPT !.stage = "installed", !.doc = deployed]

Fetched == installing' = [installing EXCEPT !.stage = "adding", !.doc = deployed]

(* precacheShell() up to the document, for whatever build is deployed by now. *)
InstallDocument ==
    /\ Installs("fetching")
    /\ LET w == installing.build IN
        \/ /\ online
           /\ caches' = PutDocument(caches, w, deployed)
           /\ Fetched
           /\ UNCHANGED broken
        \/ /\ ~online
           /\ caches' = OpenedIn(caches, w)
           /\ GaveUp
           /\ broken' = broken \cup {w}
    /\ UNCHANGED <<worldVars, active, precached, adding, tab, failed, inherited>>

(* precacheAssets() settles, whether or not it got the bundle. *)
InstallBundle ==
    /\ Installs("adding")
    /\ LET w == installing.build IN
        /\ \/ /\ Served(installing.doc)
              /\ caches' = PutBundle(caches, w, installing.doc)
              /\ UNCHANGED <<failed, broken>>
           \/ /\ ~Served(installing.doc)
              /\ failed' = failed \cup {installing.doc}
              /\ broken' = broken \cup {w}
              /\ UNCHANGED caches
        /\ precached' = precached \cup {w}
    /\ installing' = [installing EXCEPT !.stage = "installed"]
    /\ UNCHANGED <<worldVars, active, adding, tab, inherited>>

(* skipWaiting() makes it active at once: the stale caches go, and every   *)
(* page is claimed (onControllerChange).                                   *)
Activate ==
    /\ Installs("installed")
    /\ LET w    == installing.build
           kept == KeptBy(w, DOMAIN caches)
       IN /\ active' = w
          /\ caches' = OnlyIn(caches, kept)
          /\ tab' = [t \in Tabs |->
                IF tab[t] = NONE THEN NONE
                ELSE [tab[t] EXCEPT
                    !.by = IF tab[t].stage = "asked" THEN @ ELSE w,
                    !.banner = @ \/ (tab[t].stage = "running" /\ tab[t].had),
                    !.claims = IF @ < 2 THEN @ + 1 ELSE @]]
    /\ installing' = NONE
    /\ UNCHANGED <<worldVars, precached, adding, failed, inherited, broken>>

(* The browser stops a worker with nothing to do: its memory is gone. *)
StopWorker(w) ==
    /\ w \in precached
    /\ ~\E a \in adding : a.cache = w
    /\ installing # NONE => installing.build # w
    /\ precached' = precached \ {w}
    /\ UNCHANGED <<worldVars, caches, active, installing, adding, tab, failed, inherited, broken>>

Unfinished ==
    {a.build : a \in adding}
    \cup {tab[t].build : t \in {u \in Tabs : tab[u] # NONE /\ tab[u].stage = "loading"}}
    \cup (IF Installs("adding") THEN {installing.doc} ELSE {})

(* The browser is closed, whatever is under way. *)
Quit ==
    /\ quits < MaxQuits
    /\ quits' = quits + 1
    /\ tab' = [t \in Tabs |-> NONE]
    /\ installing' = NONE
    /\ precached' = {}
    /\ adding' = {}
    /\ failed' = failed \cup Unfinished
    /\ broken' = broken \cup (IF installing = NONE THEN {} ELSE {installing.build})
    /\ UNCHANGED <<deployed, online, loads, outages, caches, active, inherited>>
-----------------------------------------------------------------------------
WorkerStep == InstallDocument \/ InstallBundle \/ Activate

Next ==
    \/ Deploy \/ Drop \/ Recover \/ Quit
    \/ \E t \in Tabs :
        \/ Navigate(t) \/ PlainDocument(t) \/ FreshDocument(t) \/ CachedDocument(t)
        \/ Bundle(t) \/ FindUpdate(t)
    \/ \E a \in adding : Added(a)
    \/ WorkerStep
    \/ \E w \in Builds : StopWorker(w)

(* The browser goes on with an installation it has begun. *)
Spec == Init /\ [][Next]_vars /\ WF_vars(WorkerStep)
-----------------------------------------------------------------------------
TypeOK ==
    /\ deployed \in Builds /\ online \in BOOLEAN
    /\ DOMAIN caches \subseteq Builds /\ caches \in [DOMAIN caches -> CacheRecords]
    /\ active \in Builds \cup {NONE}
    /\ installing \in Installations \cup {NONE}
    /\ precached \subseteq Builds
    /\ adding \subseteq [cache: Builds, build: Builds]
    /\ tab \in [Tabs -> Pages \cup {NONE}]
    /\ loads \in 0..MaxLoads /\ outages \in 0..MaxOutages /\ quits \in 0..MaxQuits
    /\ {failed, inherited, broken} \subseteq SUBSET Builds

(* No document is stored whose bundle is in no cache, "a blank app" at the *)
(* next offline reload, unless the network or the browser went away, or    *)
(* the build was replaced, between the two (service-worker.ts              *)
(* precacheShell, networkFirstShell) - or a page had the bundle from the   *)
(* cache of another generation, which is not kept as long.                 *)
DocumentsHaveBundles ==
    \A n \in DOMAIN caches :
        caches[n].doc # NONE =>
            HasBundle(caches[n].doc) \/ caches[n].doc \in failed \cup inherited \cup Unfinished

(* A page that still runs the build before can get what belongs to it when *)
(* a new worker has taken over: caches are kept for one generation         *)
(* (service-worker.ts GENERATIONS_KEPT).  That is so between workers that  *)
(* were installed whole, of a bundle that their own caches had.            *)
OldPageKeepsItsBundle ==
    \A t \in Tabs :
        /\ tab[t] # NONE /\ tab[t].stage = "running" /\ tab[t].had
        /\ tab[t].claims <= 1
        /\ tab[t].build \notin inherited
        /\ DOMAIN caches \cap broken = {}
        => HasBundle(tab[t].build)

(* "One generation of slack is enough because a page can only be one build *)
(* behind" (service-worker.ts:42-43): it takes a bundle from the cache of  *)
(* another generation to be as good as one of its own.                     *)
OneGenerationIsEnough ==
    \A n \in DOMAIN caches :
        caches[n].doc # NONE =>
            HasBundle(caches[n].doc) \/ caches[n].doc \in failed \cup Unfinished

(* A worker that begins to install takes over, network or not: "nothing    *)
(* here may fail the installation" (service-worker.ts precacheShell).      *)
InstallationEnds == [](installing # NONE => <>(installing = NONE))

(* A reload without a network gets "the last good document": not one of an *)
(* older build than a page that ran before (service-worker.ts              *)
(* networkFirstShell).                                                     *)
NeverRollsBack ==
    [][\A t \in Tabs :
        tab[t] # NONE /\ tab[t].stage = "asked" /\ tab'[t] # NONE /\ tab'[t].stage = "loading"
            => \A n \in DOMAIN caches : caches[n].doc # NONE => tab'[t].build >= caches[n].doc]_vars
=============================================================================
