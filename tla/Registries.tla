----------------------------- MODULE Registries -----------------------------
(***************************************************************************)
(* The three project-local files that name things: the project marker, the *)
(* Actor registry and the Run catalog.  A command loads a file, checks and *)
(* changes its copy, and replaces the file; no lock is held in between.    *)
(* Only the bootstrap of the first Actor is created exclusively.           *)
(***************************************************************************)
EXTENDS Naturals, FiniteSets, FiniteSetsExt

CONSTANTS
    Clients, Subjects, Runs,
    MaxActors        \* bound

ASSUME RegistryBounds == MaxActors \in Nat

VARIABLES
    marker,          \* project identity on disk, 0 if none
    registry,        \* the Actor registry on disk
    catalog,         \* Runs listed, and the project the catalog belongs to
    read,            \* per client, what its command loaded
    attributed,      \* Actors that recorded human actions name
    minted           \* Actor identifiers handed out

vars == <<marker, registry, catalog, read, attributed, minted>>

ActorIds == 1..MaxActors
Actor == [id : ActorIds, kind : {"human", "system"}, by : 0..MaxActors]
ActorRegistry == [project : Nat, actors : SUBSET Actor,
                  subjects : [Subjects -> 0..MaxActors], local : 0..MaxActors, boot : 0..MaxActors]
Empty(p) == [project |-> p, actors |-> {}, subjects |-> [s \in Subjects |-> 0],
             local |-> 0, boot |-> 0]
Ids(r) == {a.id : a \in r.actors}
Humans(r) == {a.id : a \in {b \in r.actors : b.kind = "human"}}

\* What every load and every write validates.
Valid(r) ==
    /\ Cardinality(Ids(r)) = Cardinality(r.actors)
    /\ \A s \in Subjects : r.subjects[s] \in Ids(r) \cup {0}
    /\ r.local \in Humans(r) \cup {0}
    /\ IF r.boot = 0 THEN r = Empty(r.project)
       ELSE [id |-> r.boot, kind |-> "human", by |-> 0] \in r.actors

Idle == [of |-> "idle"]
Reads(x, f) == [of |-> f, copy |-> x]

Init ==
    /\ marker = 0
    /\ registry = Empty(0)          \* project 0: the file does not exist
    /\ catalog = [project |-> 0, runs |-> {}]
    /\ read = [c \in Clients |-> Idle]
    /\ attributed = {} /\ minted = 0

-----------------------------------------------------------------------------
(* The project marker *)

Missing(c) ==
    /\ read[c] = Idle /\ marker = 0
    /\ read' = [read EXCEPT ![c] = Reads(0, "marker")]
    /\ UNCHANGED <<marker, registry, catalog, attributed, minted>>

\* The marker is replaced, not created exclusively: the last creator wins.
CreateMarker(c) ==
    /\ read[c].of = "marker"
    /\ marker' = marker + 1
    /\ read' = [read EXCEPT ![c] = Idle]
    /\ UNCHANGED <<registry, catalog, attributed, minted>>

-----------------------------------------------------------------------------
(* Actors *)

\* A missing registry reads as an empty one; another project's is refused.
Load(c) ==
    /\ read[c] = Idle /\ marker # 0
    /\ registry.project \in {0, marker}
    /\ read' = [read EXCEPT ![c] = Reads([registry EXCEPT !.project = marker], "actors")]
    /\ UNCHANGED <<marker, registry, catalog, attributed, minted>>

\* os.link fails if the file appeared since the load.
WriteFirst(c, r) ==
    /\ Valid(r)
    /\ registry' = IF registry.project = 0 THEN r ELSE registry
    /\ read' = [read EXCEPT ![c] = Idle]

Write(c, r) ==
    /\ Valid(r)
    /\ registry' = r
    /\ read' = [read EXCEPT ![c] = Idle]

Others == <<marker, catalog, attributed>>
Copy(c) == read[c].copy
First(c) == [Copy(c) EXCEPT !.actors = {[id |-> minted', kind |-> "human", by |-> 0]},
                            !.local = minted', !.boot = minted']
Registering(c) == read[c].of = "actors" /\ Copy(c).boot # 0

\* Mutant (AttributionResolves): an action is attributed to an Actor whose
\* bootstrap was refused.
BootstrapRegardless(c) ==
    /\ read[c].of = "actors" /\ Copy(c).boot = 0 /\ minted < MaxActors
    /\ minted' = minted + 1
    /\ WriteFirst(c, First(c))
    /\ attributed' \in {attributed, attributed \cup {minted'}}
    /\ UNCHANGED <<marker, catalog>>

\* Of the user's own accord, or for the action of a local human not yet there.
Bootstrap(c) ==
    /\ read[c].of = "actors" /\ Copy(c).boot = 0 /\ minted < MaxActors
    /\ minted' = minted + 1
    /\ WriteFirst(c, First(c))
    /\ attributed' \in {attributed, attributed \cup ({minted'} \cap Ids(registry'))}
    /\ UNCHANGED <<marker, catalog>>

CreateActor(c) ==
    /\ Registering(c)
    /\ minted < MaxActors
    /\ minted' = minted + 1
    /\ \E k \in {"human", "system"}, by \in Ids(Copy(c)) :
         Write(c, [Copy(c) EXCEPT !.actors = @ \cup {[id |-> minted', kind |-> k, by |-> by]}])
    /\ UNCHANGED Others

SelectLocal(c) ==
    /\ Registering(c)
    /\ \E a \in Humans(Copy(c)) : Write(c, [Copy(c) EXCEPT !.local = a])
    /\ UNCHANGED <<Others, minted>>

\* Mutant (RegistriesStand): a subject that is linked is linked again.
Relink(c) ==
    /\ Registering(c)
    /\ \E s \in Subjects, a \in Ids(Copy(c)) : Write(c, [Copy(c) EXCEPT !.subjects[s] = a])
    /\ UNCHANGED <<Others, minted>>

Link(c) ==
    /\ Registering(c)
    /\ \E s \in Subjects, a \in Ids(Copy(c)) :
         /\ Copy(c).subjects[s] = 0
         /\ Write(c, [Copy(c) EXCEPT !.subjects[s] = a])
    /\ UNCHANGED <<Others, minted>>

Unlink(c) ==
    /\ Registering(c)
    /\ \E s \in Subjects :
         /\ Copy(c).subjects[s] # 0
         /\ Write(c, [Copy(c) EXCEPT !.subjects[s] = 0])
    /\ UNCHANGED <<Others, minted>>

\* A rename leaves the identity alone, and still writes the whole registry.
Rename(c) ==
    /\ Registering(c)
    /\ Write(c, Copy(c))
    /\ UNCHANGED <<Others, minted>>

\* A human action names an Actor that is human now: the given or the local one.
ResolveHuman ==
    /\ registry.project = marker
    /\ \E a \in Humans(registry) : attributed' = attributed \cup {a}
    /\ UNCHANGED <<marker, registry, catalog, read, minted>>

-----------------------------------------------------------------------------
(* The Run catalog *)

LoadCatalog(c) ==
    /\ read[c] = Idle /\ marker # 0
    /\ catalog.project \in {0, marker}
    /\ read' = [read EXCEPT ![c] = Reads([catalog EXCEPT !.project = marker], "catalog")]
    /\ UNCHANGED <<marker, registry, catalog, attributed, minted>>

\* A Run that is listed already is left as it is.
RegisterRun(c) ==
    /\ read[c].of = "catalog"
    /\ \E r \in Runs :
         catalog' = IF r \in Copy(c).runs THEN catalog
                    ELSE [Copy(c) EXCEPT !.runs = @ \cup {r}]
    /\ read' = [read EXCEPT ![c] = Idle]
    /\ UNCHANGED <<marker, registry, attributed, minted>>

GiveUp(c) ==
    /\ read[c] # Idle
    /\ read' = [read EXCEPT ![c] = Idle]
    /\ UNCHANGED <<marker, registry, catalog, attributed, minted>>

Next ==
    \/ \E c \in Clients :
         \/ Missing(c) \/ CreateMarker(c) \/ Load(c) \/ Bootstrap(c) \/ CreateActor(c)
         \/ SelectLocal(c) \/ Link(c) \/ Unlink(c) \/ Rename(c)
         \/ LoadCatalog(c) \/ RegisterRun(c) \/ GiveUp(c)
    \/ ResolveHuman

Spec == Init /\ [][Next]_vars

-----------------------------------------------------------------------------
(* Properties *)

\* Whatever is lost between a load and a write, the registry on disk is valid.
TypeOK ==
    /\ registry \in ActorRegistry /\ Valid(registry)
    /\ catalog.runs \subseteq Runs /\ attributed \subseteq ActorIds

\* The command of c on file f ends with this step.
Ends(c, f) == read[c].of = f /\ read'[c] = Idle

\* An action is recorded for someone the registry knows, also when its own
\* bootstrap loses a race; and only a command that loaded the registry before an
\* Actor was added takes the Actor from it again, never the first one.
AttributionResolves ==
    [][/\ attributed' \ attributed \subseteq Ids(registry')
       /\ \A a \in Ids(registry) \ Ids(registry') :
             /\ a # registry.boot
             /\ \E c \in Clients : Ends(c, "actors") /\ a \notin Ids(Copy(c))]_vars

\* The bootstrap happens once: of two that race, one is refused, and no later
\* write, however stale its copy, names another first Actor.
BootstrapOnce == [][registry.boot # 0 => registry'.boot = registry.boot]_vars

\* Of what a command loaded and nobody changed meanwhile, it leaves every Actor
\* and gives no linked subject to another; it changes one subject or adds one
\* Actor.  Nobody else writes.
LinksStand ==
    [][/\ registry' # registry => \E c \in Clients : Ends(c, "actors")
       /\ \A c \in Clients : Ends(c, "actors") =>
            LET kept == {s \in Subjects : Copy(c).subjects[s] = registry.subjects[s]}
                turned == {s \in kept : registry'.subjects[s] # registry.subjects[s]}
            IN  /\ \A s \in turned : 0 \in {registry.subjects[s], registry'.subjects[s]}
                /\ Ids(Copy(c)) \cap Ids(registry) \subseteq Ids(registry')
                /\ Cardinality(turned)
                   + Cardinality(Ids(registry') \ (Ids(registry) \cup Ids(Copy(c)))) <= 1]_vars

\* A listed Run is lost only to a command that loaded the catalog before.
RegistrationsStand ==
    [][\A r \in catalog.runs \ catalog'.runs :
          \E c \in Clients : Ends(c, "catalog") /\ r \notin Copy(c).runs]_vars

\* The identity changes only as long as a client that found no marker has still
\* to write one.
OneProject ==
    [][marker # 0 /\ marker' # marker => \E c \in Clients : Ends(c, "marker")]_vars

\* What two overlapping commands may take from each other, and no more: the first
\* Actor stands whatever races, a link, an Actor or a listed Run until a command
\* ends that had loaded the file before, the project's identity until the first
\* clients are done.
RegistriesStand == BootstrapOnce /\ LinksStand /\ RegistrationsStand /\ OneProject

\* No command takes back another's change (violated: a copy is stale when written).
NothingTakenBack ==
    [][/\ \A s \in Subjects : registry.subjects[s] # 0 =>
             registry'.subjects[s] \in {0, registry.subjects[s]}
       /\ Ids(registry) \subseteq Ids(registry')
       /\ catalog.runs \subseteq catalog'.runs]_vars

\* A project keeps the identity its first client was given (violated: two first
\* clients both find no marker).
OneIdentity == [][marker # 0 => marker' = marker]_vars
=============================================================================
