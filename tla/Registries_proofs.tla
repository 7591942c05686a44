-------------------------- MODULE Registries_proofs ---------------------------
(***************************************************************************)
(* Proofs about Registries, for any number of clients, subjects and Runs,  *)
(* and for commands that overlap in any way.  What stands in between is    *)
(* CopyInv: a copy that has a first Actor has the registry's, and a file   *)
(* that is there has one.                                                  *)
(***************************************************************************)
EXTENDS Registries, FiniteSetTheorems, TLAPS

CatalogFiles == [project : Nat, runs : SUBSET Runs]

CopyOf(f) == CASE f = "marker" -> {0}
               [] f = "actors" -> ActorRegistry
               [] f = "catalog" -> CatalogFiles

ReadTyped(x) ==
    \/ x = Idle
    \/ \E f \in {"marker", "actors", "catalog"} : \E y \in CopyOf(f) : x = Reads(y, f)

TypeInv ==
    /\ marker \in Nat /\ minted \in 0..MaxActors
    /\ registry \in ActorRegistry /\ Valid(registry)
    /\ catalog \in CatalogFiles
    /\ DOMAIN read = Clients /\ \A c \in Clients : ReadTyped(read[c])
    /\ attributed \subseteq ActorIds

-----------------------------------------------------------------------------

LEMMA EmptyTyped == ASSUME NEW p \in Nat PROVE Empty(p) \in ActorRegistry
  BY RegistryBounds, SMT DEF Empty, ActorRegistry

LEMMA EmptyValid == ASSUME NEW p \in Nat PROVE Valid(Empty(p))
<1>1. Ids(Empty(p)) = {} /\ Empty(p).actors = {}
  BY SMT DEF Empty, Ids
<1> QED BY <1>1, SMT DEF Valid, Empty

LEMMA InitType == Init => TypeInv
<1> SUFFICES ASSUME Init PROVE TypeInv OBVIOUS
<1>1. registry \in ActorRegistry /\ Valid(registry)
  BY EmptyTyped, EmptyValid, 0 \in Nat DEF Init
<1>2. marker \in Nat /\ minted \in 0..MaxActors /\ catalog \in CatalogFiles
  BY RegistryBounds, SMT DEF Init, CatalogFiles
<1>3. DOMAIN read = Clients /\ (\A c \in Clients : ReadTyped(read[c])) /\ attributed = {}
  BY Zenon DEF Init, ReadTyped
<1> QED BY <1>1, <1>2, <1>3, Zenon DEF TypeInv

LEMMA ReadStep ==
  ASSUME TypeInv, NEW c \in Clients, NEW x, ReadTyped(x), read' = [read EXCEPT ![c] = x]
  PROVE  DOMAIN read' = Clients /\ \A d \in Clients : ReadTyped(read'[d])
  BY SMT DEF TypeInv

\* What an amending command reads and what it may write.
LEMMA CopyTyped ==
  ASSUME TypeInv, NEW c \in Clients, read[c].of = "actors" PROVE Copy(c) \in ActorRegistry
<1>0. read[c] # Idle
  BY SMT DEF Idle
<1>1. PICK f \in {"marker", "actors", "catalog"} : \E y \in CopyOf(f) : read[c] = Reads(y, f)
  BY <1>0, Zenon DEF TypeInv, ReadTyped
<1>2. read[c].of = f /\ read[c].copy \in CopyOf(f)
  BY <1>1, SMT DEF Reads
<1> QED BY <1>2, SMT DEF CopyOf, Copy

LEMMA CatalogTyped ==
  ASSUME TypeInv, NEW c \in Clients, read[c].of = "catalog" PROVE Copy(c) \in CatalogFiles
<1>0. read[c] # Idle
  BY SMT DEF Idle
<1>1. PICK f \in {"marker", "actors", "catalog"} : \E y \in CopyOf(f) : read[c] = Reads(y, f)
  BY <1>0, Zenon DEF TypeInv, ReadTyped
<1>2. read[c].of = f /\ read[c].copy \in CopyOf(f)
  BY <1>1, SMT DEF Reads
<1> QED BY <1>2, SMT DEF CopyOf, Copy
\* A command of c writes registry' and is done, as Write and WriteFirst say.
LEMMA WriteStep ==
  ASSUME TypeInv, NEW c \in Clients, NEW r \in ActorRegistry, Write(c, r) \/ WriteFirst(c, r),
         UNCHANGED <<marker, catalog>>, minted' \in 0..MaxActors, attributed' \subseteq ActorIds
  PROVE  TypeInv'
<1>1. registry' \in ActorRegistry /\ Valid(registry')
  BY Zenon DEF Write, WriteFirst, TypeInv
<1>2. read' = [read EXCEPT ![c] = Idle]
  BY DEF Write, WriteFirst
<1>3. DOMAIN read' = Clients /\ \A d \in Clients : ReadTyped(read'[d])
  BY <1>2, ReadStep DEF ReadTyped
<1> QED BY <1>1, <1>3, Zenon DEF TypeInv

\* The registries that commands make of what they read are registries.
LEMMA FirstTyped ==
  ASSUME NEW q \in ActorRegistry, NEW m \in ActorIds
  PROVE  LET r == [q EXCEPT !.actors = {[id |-> m, kind |-> "human", by |-> 0]},
                            !.local = m, !.boot = m]
         IN  r \in ActorRegistry /\ r.project = q.project /\ r.boot # 0
<1> DEFINE first == [id |-> m, kind |-> "human", by |-> 0]
           a == [q EXCEPT !.actors = {first}]
           b == [a EXCEPT !.local = m]
<1>1. first \in Actor /\ m \in 0..MaxActors /\ m # 0
  BY RegistryBounds, SMT DEF Actor, ActorIds
<1>2. a \in ActorRegistry /\ a.project = q.project
  BY <1>1, SMT DEF ActorRegistry
<1>3. b \in ActorRegistry /\ b.project = q.project
  <2> HIDE DEF a
  <2> QED BY <1>1, <1>2, SMT DEF ActorRegistry
<1>4. [b EXCEPT !.boot = m] \in ActorRegistry /\ [b EXCEPT !.boot = m].project = q.project
      /\ [b EXCEPT !.boot = m].boot # 0
  <2> HIDE DEF b
  <2> QED BY <1>1, <1>3, SMT DEF ActorRegistry
<1> QED BY <1>4

LEMMA AddTyped ==
  ASSUME NEW q \in ActorRegistry, NEW m \in ActorIds, NEW k \in {"human", "system"}, NEW by \in Ids(q)
  PROVE  LET r == [q EXCEPT !.actors = @ \cup {[id |-> m, kind |-> k, by |-> by]}]
         IN  /\ r \in ActorRegistry /\ r.actors = q.actors \cup {[id |-> m, kind |-> k, by |-> by]}
             /\ r.subjects = q.subjects /\ r.boot = q.boot /\ r.project = q.project
<1>1. by \in ActorIds
  BY SMT DEF Ids, ActorRegistry, Actor
<1>2. [id |-> m, kind |-> k, by |-> by] \in Actor
  BY <1>1, SMT DEF Actor, ActorIds
<1> QED BY <1>2, SMT DEF ActorRegistry

LEMMA SelectTyped ==
  ASSUME NEW q \in ActorRegistry, NEW a \in Humans(q)
  PROVE  LET r == [q EXCEPT !.local = a]
         IN  /\ r \in ActorRegistry /\ r.actors = q.actors
             /\ r.subjects = q.subjects /\ r.boot = q.boot /\ r.project = q.project
<1>1. a \in 0..MaxActors
  BY SMT DEF Humans, ActorRegistry, Actor, ActorIds
<1> QED BY <1>1, SMT DEF ActorRegistry

LEMMA LinkTyped ==
  ASSUME NEW q \in ActorRegistry, NEW s \in Subjects, NEW a, a = 0 \/ a \in Ids(q)
  PROVE  LET r == [q EXCEPT !.subjects[s] = a]
         IN  /\ r \in ActorRegistry /\ r.actors = q.actors
             /\ r.subjects = [q.subjects EXCEPT ![s] = a] /\ r.boot = q.boot /\ r.project = q.project
<1>1. a \in 0..MaxActors
  BY RegistryBounds, SMT DEF Ids, ActorRegistry, Actor, ActorIds
<1> QED BY <1>1, SMT DEF ActorRegistry
LEMMA ActorsType ==
  ASSUME TypeInv, NEW c \in Clients,
         \/ Bootstrap(c) \/ CreateActor(c) \/ SelectLocal(c) \/ Link(c) \/ Unlink(c) \/ Rename(c)
  PROVE  TypeInv'
<1> USE DEF Others
<1>0. Copy(c) \in ActorRegistry
  BY CopyTyped DEF Bootstrap, Registering, CreateActor, SelectLocal, Link, Unlink, Rename
<1>1. ASSUME minted < MaxActors, minted' = minted + 1
      PROVE  minted' \in 0..MaxActors /\ minted' \in ActorIds
  BY <1>1, RegistryBounds, SMT DEF TypeInv, ActorIds
<1>2. CASE Bootstrap(c)
  <2>1. minted' \in 0..MaxActors /\ minted' \in ActorIds
    BY <1>1, <1>2 DEF Bootstrap
  <2>2. First(c) \in ActorRegistry
    BY <1>0, <2>1, FirstTyped DEF First
  <2>3. attributed' \subseteq ActorIds
    BY <1>2, <2>1, SMT DEF Bootstrap, TypeInv
  <2> QED BY <1>2, <2>1, <2>2, <2>3, WriteStep, Zenon DEF Bootstrap
<1>3. CASE CreateActor(c)
  <2>1. minted' \in 0..MaxActors /\ minted' \in ActorIds
    BY <1>1, <1>3 DEF CreateActor
  <2>2. attributed' \subseteq ActorIds
    BY <1>3 DEF CreateActor, TypeInv
  <2>3. PICK k \in {"human", "system"}, by \in Ids(Copy(c)) :
           Write(c, [Copy(c) EXCEPT !.actors = @ \cup {[id |-> minted', kind |-> k, by |-> by]}])
    BY <1>3 DEF CreateActor
  <2> QED BY <1>0, <1>3, <2>1, <2>2, <2>3, AddTyped, WriteStep, Zenon DEF CreateActor
<1>4. CASE SelectLocal(c) \/ Link(c) \/ Unlink(c) \/ Rename(c)
  <2>1. minted' \in 0..MaxActors /\ attributed' \subseteq ActorIds /\ UNCHANGED <<marker, catalog>>
    BY <1>4 DEF SelectLocal, Link, Unlink, Rename, TypeInv
  <2>2. CASE SelectLocal(c)
    BY <1>0, <2>1, <2>2, SelectTyped, WriteStep, Zenon DEF SelectLocal
  <2>3. CASE Link(c) \/ Unlink(c)
    BY <1>0, <2>1, <2>3, LinkTyped, WriteStep, Zenon DEF Link, Unlink
  <2>4. CASE Rename(c)
    BY <1>0, <2>1, <2>4, WriteStep, Zenon DEF Rename
  <2> QED BY <1>4, <2>2, <2>3, <2>4
<1> QED BY <1>2, <1>3, <1>4

LEMMA LoadsType ==
  ASSUME TypeInv, NEW c \in Clients,
         \/ Missing(c) \/ CreateMarker(c) \/ Load(c) \/ LoadCatalog(c) \/ RegisterRun(c) \/ GiveUp(c)
  PROVE  TypeInv'
<1>1. PICK x : ReadTyped(x) /\ read' = [read EXCEPT ![c] = x]
  <2>1. CASE CreateMarker(c) \/ RegisterRun(c) \/ GiveUp(c)
    BY <2>1, Zenon DEF CreateMarker, RegisterRun, GiveUp, ReadTyped
  <2>2. CASE Missing(c)
    BY <2>2, Zenon DEF Missing, ReadTyped, CopyOf
  <2>3. CASE Load(c)
    <3>1. [registry EXCEPT !.project = marker] \in CopyOf("actors")
      BY SMT DEF TypeInv, ActorRegistry, CopyOf
    <3> QED BY <2>3, <3>1, Zenon DEF Load, ReadTyped
  <2>4. CASE LoadCatalog(c)
    <3>1. [catalog EXCEPT !.project = marker] \in CopyOf("catalog")
      BY SMT DEF TypeInv, CopyOf, CatalogFiles
    <3> QED BY <2>4, <3>1, Zenon DEF LoadCatalog, ReadTyped
  <2> QED BY <2>1, <2>2, <2>3, <2>4
<1>2. DOMAIN read' = Clients /\ \A d \in Clients : ReadTyped(read'[d])
  BY <1>1, ReadStep
<1>3. UNCHANGED <<registry, attributed, minted>>
  BY DEF Missing, CreateMarker, Load, LoadCatalog, RegisterRun, GiveUp
<1>4. marker' \in Nat /\ catalog' \in CatalogFiles
  <2>1. CASE RegisterRun(c)
    <3>1. read[c].of = "catalog" BY <2>1 DEF RegisterRun
    <3>2. Copy(c) \in CatalogFiles BY <3>1, CatalogTyped
    <3> QED BY <2>1, <3>2, SMT DEF RegisterRun, TypeInv, CatalogFiles
  <2>2. CASE CreateMarker(c)
    BY <2>2, SMT DEF CreateMarker, TypeInv
  <2>3. CASE Missing(c) \/ Load(c) \/ LoadCatalog(c) \/ GiveUp(c)
    BY <2>3 DEF Missing, Load, LoadCatalog, GiveUp, TypeInv
  <2> QED BY <2>1, <2>2, <2>3
<1> QED BY <1>2, <1>3, <1>4, Zenon DEF TypeInv

LEMMA NextType == TypeInv /\ [Next]_vars => TypeInv'
<1> SUFFICES ASSUME TypeInv, [Next]_vars PROVE TypeInv' OBVIOUS
<1>1. CASE UNCHANGED vars
  BY <1>1, Zenon DEF vars, TypeInv
<1>2. CASE ResolveHuman
  <2>1. attributed' \subseteq ActorIds
    BY <1>2, SMT DEF ResolveHuman, Humans, TypeInv, ActorRegistry, Actor
  <2> QED BY <1>2, <2>1, Zenon DEF ResolveHuman, TypeInv
<1> QED BY <1>1, <1>2, ActorsType, LoadsType, Zenon DEF Next

LEMMA TypeAlways == Spec => []TypeInv
  BY InitType, NextType, PTL DEF Spec

-----------------------------------------------------------------------------
(* What commands leave of each other *)

CopyInv ==
    /\ IF registry.project = 0 THEN registry = Empty(0) ELSE registry.boot # 0
    /\ \A c \in Clients : read[c].of = "actors" =>
          /\ marker # 0 /\ Copy(c).project # 0
          /\ Copy(c).boot \in {0, registry.boot}

\* One link made or ended, or one Actor added, from registry q to r.
OneChange(q, r) ==
    /\ \A s \in Subjects : q.subjects[s] # r.subjects[s] => 0 \in {q.subjects[s], r.subjects[s]}
    /\ Ids(q) \subseteq Ids(r)
    /\ \/ /\ \A s \in Subjects : q.subjects[s] = r.subjects[s]
          /\ \E x : Ids(r) \subseteq Ids(q) \cup {x}
       \/ /\ Ids(r) \subseteq Ids(q)
          /\ \E t \in Subjects : \A s \in Subjects : q.subjects[s] # r.subjects[s] => s = t

\* The bodies of AttributionResolves, LinksStand and RegistriesStand.
Attributes ==
    /\ attributed' \ attributed \subseteq Ids(registry')
    /\ \A a \in Ids(registry) \ Ids(registry') :
          /\ a # registry.boot
          /\ \E c \in Clients : Ends(c, "actors") /\ a \notin Ids(Copy(c))

Turned(c) == {s \in {t \in Subjects : Copy(c).subjects[t] = registry.subjects[t]} :
                 registry'.subjects[s] # registry.subjects[s]}
Added(c) == Ids(registry') \ (Ids(registry) \cup Ids(Copy(c)))

Kept(c) ==
    /\ \A s \in Turned(c) : 0 \in {registry.subjects[s], registry'.subjects[s]}
    /\ Ids(Copy(c)) \cap Ids(registry) \subseteq Ids(registry')
    /\ Cardinality(Turned(c)) + Cardinality(Added(c)) <= 1

Links ==
    /\ registry' # registry => \E c \in Clients : Ends(c, "actors")
    /\ \A c \in Clients : Ends(c, "actors") => Kept(c)

Stands ==
    /\ registry.boot # 0 => registry'.boot = registry.boot
    /\ Links
    /\ \A r \in catalog.runs \ catalog'.runs :
          \E c \in Clients : Ends(c, "catalog") /\ r \notin Copy(c).runs
    /\ marker # 0 /\ marker' # marker => \E c \in Clients : Ends(c, "marker")

Steps == CopyInv' /\ Attributes /\ Stands

LEMMA Few == ASSUME NEW S, NEW T, NEW x, \/ (S = {} /\ T \subseteq {x})
                                        \/ (T = {} /\ S \subseteq {x})
             PROVE  Cardinality(S) + Cardinality(T) <= 1
<1>1. Cardinality({}) = 0 BY FS_EmptySet, Zenon
<1>2. Cardinality({x}) = 1 BY FS_Singleton, Zenon
<1>3. S \in {{}, {x}} /\ T \in {{}, {x}} /\ ({} \in {S, T})
  BY Zenon
<1>4. CASE S = {} /\ T = {} BY <1>1, <1>4
<1>5. CASE S = {} /\ T = {x} BY <1>1, <1>2, <1>5
<1>6. CASE S = {x} /\ T = {} BY <1>1, <1>2, <1>6
<1> QED BY <1>3, <1>4, <1>5, <1>6, Zenon

LEMMA NoChange == ASSUME NEW q, NEW r, r.actors = q.actors, r.subjects = q.subjects
                  PROVE  OneChange(q, r)
<1>1. Ids(r) = Ids(q) BY DEF Ids
<1> QED BY <1>1, Zenon DEF OneChange

LEMMA SubjectChange ==
  ASSUME NEW q \in ActorRegistry, NEW r, r.actors = q.actors, NEW s \in Subjects, NEW a,
         r.subjects = [q.subjects EXCEPT ![s] = a], q.subjects[s] = 0 \/ a = 0
  PROVE  OneChange(q, r)
<1>1. Ids(r) = Ids(q) BY DEF Ids
<1>2. \A t \in Subjects : q.subjects[t] # r.subjects[t] => t = s
  BY SMT DEF ActorRegistry
<1>3. r.subjects[s] = a
  BY SMT DEF ActorRegistry
<1>4. \A t \in Subjects : q.subjects[t] # r.subjects[t] => 0 \in {q.subjects[t], r.subjects[t]}
  BY <1>2, <1>3, Zenon
<1> QED BY <1>1, <1>2, <1>4, Zenon DEF OneChange

LEMMA ActorAdded ==
  ASSUME NEW q \in ActorRegistry, NEW r, NEW x, r.actors = q.actors \cup {x},
         r.subjects = q.subjects
  PROVE  OneChange(q, r)
<1>1. Ids(r) = Ids(q) \cup {x.id}
  BY SMT DEF Ids
<1> QED BY <1>1, Zenon DEF OneChange

\* One change to the copy is at most one change to what nobody else changed.
LEMMA ChangeKeeps ==
  ASSUME NEW c \in Clients, OneChange(Copy(c), registry') PROVE Kept(c)
<1>1. \A s \in Turned(c) : /\ s \in Subjects /\ Copy(c).subjects[s] = registry.subjects[s]
                           /\ Copy(c).subjects[s] # registry'.subjects[s]
  BY Zenon DEF Turned
<1>2. \A s \in Turned(c) : 0 \in {registry.subjects[s], registry'.subjects[s]}
  BY <1>1, Zenon DEF OneChange
<1>3. Ids(Copy(c)) \cap Ids(registry) \subseteq Ids(registry')
  BY Zenon DEF OneChange
<1>4. Cardinality(Turned(c)) + Cardinality(Added(c)) <= 1
  <2>1. ASSUME NEW x, \A s \in Subjects : Copy(c).subjects[s] = registry'.subjects[s],
               Ids(registry') \subseteq Ids(Copy(c)) \cup {x}
        PROVE  Cardinality(Turned(c)) + Cardinality(Added(c)) <= 1
    <3>1. Turned(c) = {} BY <1>1, <2>1, Zenon
    <3>2. Added(c) \subseteq {x} BY <2>1, Zenon DEF Added
    <3> QED BY <3>1, <3>2, Few, Zenon
  <2>2. ASSUME Ids(registry') \subseteq Ids(Copy(c)), NEW t \in Subjects,
               \A s \in Subjects : Copy(c).subjects[s] # registry'.subjects[s] => s = t
        PROVE  Cardinality(Turned(c)) + Cardinality(Added(c)) <= 1
    <3>1. Turned(c) \subseteq {t} BY <1>1, <2>2, Zenon
    <3>2. Added(c) = {} BY <2>2, Zenon DEF Added
    <3> QED BY <3>1, <3>2, Few, Zenon
  <2> QED BY <2>1, <2>2, Zenon DEF OneChange
<1> QED BY <1>2, <1>3, <1>4 DEF Kept

\* Nothing written is nothing lost.
LEMMA SameKeeps == ASSUME NEW c \in Clients, registry' = registry PROVE Kept(c)
<1>1. Turned(c) = {} /\ Added(c) = {}
  BY Zenon DEF Turned, Added
<1>2. Cardinality(Turned(c)) + Cardinality(Added(c)) <= 1
  BY <1>1, Few, Zenon
<1> QED BY <1>1, <1>2, Zenon DEF Kept

LEMMA IdleNow == ASSUME TypeInv, NEW c \in Clients, read' = [read EXCEPT ![c] = Idle]
                 PROVE  /\ read'[c] = Idle /\ read'[c].of = "idle"
                        /\ \A d \in Clients \ {c} : read'[d] = read[d]
  BY SMT DEF TypeInv, Idle

\* A command in progress ends only by its own step.
LEMMA OnlyItsOwn ==
  ASSUME NEW c \in Clients, \A d \in Clients \ {c} : read'[d] = read[d], NEW d \in Clients,
         NEW f \in {"marker", "actors", "catalog"}, Ends(d, f)
  PROVE  d = c
<1>1. read[d] = read'[d] => read[d].of = "idle"
  BY SMT DEF Ends, Idle
<1> QED BY <1>1, SMT DEF Ends

\* The first Actor of a valid registry is among its Actors.
LEMMA BootThere == ASSUME NEW r, Valid(r), r.boot # 0 PROVE r.boot \in Ids(r)
  BY SMT DEF Valid, Ids

\* A command of c that changes its copy and writes it over the file.
LEMMA AmendSteps ==
  ASSUME TypeInv, TypeInv', CopyInv, NEW c \in Clients, Registering(c),
         NEW r, Write(c, r), r.project = Copy(c).project, r.boot = Copy(c).boot,
         OneChange(Copy(c), r), UNCHANGED <<marker, catalog, attributed>>
  PROVE  Steps
<1>1. /\ Copy(c).boot # 0 /\ Copy(c).boot = registry.boot /\ Copy(c).project # 0
      /\ registry' = r /\ registry'.boot = registry.boot /\ registry'.project # 0
      /\ read' = [read EXCEPT ![c] = Idle] /\ read[c].of = "actors"
  BY DEF Registering, CopyInv, Write
<1>2. /\ read'[c] = Idle /\ read'[c].of = "idle"
      /\ \A d \in Clients \ {c} : read'[d] = read[d]
  BY <1>1, IdleNow, Zenon
<1>3. \A d \in Clients \ {c} : Copy(d)' = Copy(d)
  BY <1>2, Zenon DEF Copy
<1>4. CopyInv'
  BY <1>1, <1>2, <1>3, SMT DEF CopyInv
<1>5. Ends(c, "actors")
  BY <1>1, <1>2 DEF Ends
<1>6. Attributes
  <2>1. registry'.boot \in Ids(registry')
    BY <1>1, BootThere, Zenon DEF TypeInv
  <2>2. Ids(Copy(c)) \subseteq Ids(registry')
    BY <1>1, Zenon DEF OneChange
  <2> QED BY <1>1, <1>5, <2>1, <2>2, Zenon DEF Attributes
<1>7. Links
  <2>1. Kept(c) BY <1>1, ChangeKeeps, Zenon
  <2> QED BY <1>2, <1>5, <2>1, OnlyItsOwn, Zenon DEF Links
<1>8. Stands
  BY <1>1, <1>7, Zenon DEF Stands
<1> QED BY <1>4, <1>6, <1>8 DEF Steps

LEMMA ActorsSteps ==
  ASSUME TypeInv, TypeInv', CopyInv, NEW c \in Clients,
         CreateActor(c) \/ SelectLocal(c) \/ Link(c) \/ Unlink(c) \/ Rename(c)
  PROVE  Steps
<1> USE DEF Others
<1>0. Copy(c) \in ActorRegistry /\ Registering(c)
  BY CopyTyped DEF Registering, CreateActor, SelectLocal, Link, Unlink, Rename
<1>1. CASE CreateActor(c)
  <2>1. minted' \in ActorIds
    BY <1>1, RegistryBounds, SMT DEF CreateActor, TypeInv, ActorIds
  <2>2. PICK k \in {"human", "system"}, by \in Ids(Copy(c)) :
           Write(c, [Copy(c) EXCEPT !.actors = @ \cup {[id |-> minted', kind |-> k, by |-> by]}])
    BY <1>1 DEF CreateActor
  <2> DEFINE r == [Copy(c) EXCEPT !.actors = @ \cup {[id |-> minted', kind |-> k, by |-> by]}]
  <2>3. /\ r.actors = Copy(c).actors \cup {[id |-> minted', kind |-> k, by |-> by]}
        /\ r.subjects = Copy(c).subjects /\ r.boot = Copy(c).boot /\ r.project = Copy(c).project
    BY <1>0, SMT DEF ActorRegistry
  <2>4. Write(c, r) BY <2>2
  <2> HIDE DEF r
  <2>5. OneChange(Copy(c), r)
    BY <1>0, <2>3, ActorAdded, Zenon
  <2> QED BY <1>0, <1>1, <2>3, <2>4, <2>5, AmendSteps, Zenon DEF CreateActor
<1>2. CASE SelectLocal(c)
  <2>1. PICK a \in Humans(Copy(c)) : Write(c, [Copy(c) EXCEPT !.local = a])
    BY <1>2 DEF SelectLocal
  <2> DEFINE r == [Copy(c) EXCEPT !.local = a]
  <2>2. /\ r.actors = Copy(c).actors /\ r.subjects = Copy(c).subjects
        /\ r.boot = Copy(c).boot /\ r.project = Copy(c).project
    BY <1>0, SelectTyped, Zenon
  <2>3. OneChange(Copy(c), r)
    BY <2>2, NoChange, Zenon
  <2>4. Write(c, r) BY <2>1
  <2> HIDE DEF r
  <2> QED BY <1>0, <1>2, <2>2, <2>3, <2>4, AmendSteps, Zenon DEF SelectLocal
<1>3. CASE Link(c) \/ Unlink(c)
  <2>1. PICK s \in Subjects, a \in Ids(Copy(c)) \cup {0} :
           /\ Copy(c).subjects[s] = 0 \/ a = 0
           /\ Write(c, [Copy(c) EXCEPT !.subjects[s] = a])
    BY <1>3, Zenon DEF Link, Unlink
  <2> DEFINE r == [Copy(c) EXCEPT !.subjects[s] = a]
  <2>2. /\ r.actors = Copy(c).actors /\ r.subjects = [Copy(c).subjects EXCEPT ![s] = a]
        /\ r.boot = Copy(c).boot /\ r.project = Copy(c).project
    BY <1>0, SMT DEF ActorRegistry
  <2>3. Write(c, r) /\ (Copy(c).subjects[s] = 0 \/ a = 0) BY <2>1
  <2> HIDE DEF r
  <2>4. OneChange(Copy(c), r)
    <3>1. ASSUME NEW q \in ActorRegistry, q = Copy(c) PROVE OneChange(q, r)
      <4>1. q.subjects[s] = 0 \/ a = 0 BY <2>3, <3>1
      <4>2. r.actors = q.actors /\ r.subjects = [q.subjects EXCEPT ![s] = a] BY <2>2, <3>1
      <4> QED BY <4>1, <4>2, SubjectChange
    <3> QED BY <1>0, <3>1
  <2>5. UNCHANGED <<marker, catalog, attributed>> BY <1>3 DEF Link, Unlink
  <2> QED BY <1>0, <2>2, <2>3, <2>4, <2>5, AmendSteps, Zenon
<1>4. CASE Rename(c)
  <2>1. OneChange(Copy(c), Copy(c)) BY NoChange, Zenon
  <2> QED BY <1>0, <1>4, <2>1, AmendSteps, Zenon DEF Rename
<1> QED BY <1>1, <1>2, <1>3, <1>4

\* Two bootstraps may race: the second finds the file and writes nothing.
LEMMA BootstrapSteps ==
  ASSUME TypeInv, TypeInv', CopyInv, NEW c \in Clients, Bootstrap(c) PROVE Steps
<1>1. Copy(c) \in ActorRegistry /\ minted' \in ActorIds
  BY CopyTyped, RegistryBounds, SMT DEF Bootstrap, TypeInv, ActorIds
<1>2. /\ read[c].of = "actors" /\ marker # 0 /\ Copy(c).project # 0
      /\ read' = [read EXCEPT ![c] = Idle] /\ UNCHANGED <<marker, catalog>>
      /\ registry' = IF registry.project = 0 THEN First(c) ELSE registry
  BY Zenon DEF Bootstrap, WriteFirst, CopyInv
<1>3. /\ read'[c] = Idle /\ read'[c].of = "idle"
      /\ \A d \in Clients \ {c} : read'[d] = read[d]
  BY <1>2, IdleNow, Zenon
<1>4. \A d \in Clients \ {c} : Copy(d)' = Copy(d)
  BY <1>3, Zenon DEF Copy
<1>5. Ends(c, "actors")
  BY <1>2, <1>3 DEF Ends
<1>6. attributed' \ attributed \subseteq Ids(registry')
  BY Zenon DEF Bootstrap
<1>7. ASSUME Kept(c), registry.boot # 0 => registry'.boot = registry.boot
      PROVE  Stands
  <2>1. Links
    BY <1>3, <1>5, <1>7, OnlyItsOwn, Zenon DEF Links
  <2> QED BY <1>2, <1>7, <2>1, Zenon DEF Stands
<1>8. CASE registry.project # 0
  <2>1. registry' = registry BY <1>2, <1>8
  <2>2. CopyInv'
    BY <1>2, <1>3, <1>4, <2>1, SMT DEF CopyInv
  <2>3. Attributes BY <1>6, <2>1, Zenon DEF Attributes
  <2> QED BY <1>7, <2>1, <2>2, <2>3, SameKeeps, Zenon DEF Steps
<1>9. CASE registry.project = 0
  <2>1. First(c).project = Copy(c).project /\ First(c).boot # 0
    BY <1>1, FirstTyped, Zenon DEF First
  <2>2. /\ registry' = First(c) /\ registry = Empty(0)
        /\ registry.boot = 0 /\ Ids(registry) = {}
    BY <1>2, <1>9, SMT DEF CopyInv, Empty, Ids
  <2>3. CopyInv'
    BY <1>2, <1>3, <1>4, <2>1, <2>2, SMT DEF CopyInv
  <2>4. Attributes BY <1>6, <2>2, Zenon DEF Attributes
  <2>5. Kept(c)
    <3>1. First(c).subjects = Copy(c).subjects
      BY <1>1, SMT DEF First, ActorRegistry
    <3>2. First(c).actors = {[id |-> minted', kind |-> "human", by |-> 0]}
      BY <1>1, SMT DEF First, ActorRegistry
    <3>3. Ids(First(c)) = {minted'}
      BY <3>2, SMT DEF Ids
    <3>4. Turned(c) = {} /\ Added(c) \subseteq {minted'}
      BY <2>2, <3>1, <3>3, Zenon DEF Turned, Added
    <3>5. Cardinality(Turned(c)) + Cardinality(Added(c)) <= 1
      BY <3>4, Few, Zenon
    <3> QED BY <2>2, <3>4, <3>5, Zenon DEF Kept
  <2> QED BY <1>7, <2>2, <2>3, <2>4, <2>5, Zenon DEF Steps
<1> QED BY <1>8, <1>9

\* What a load reads has the first Actor of the file.
LEMMA LoadSteps ==
  ASSUME TypeInv, CopyInv, NEW c \in Clients, Missing(c) \/ Load(c) \/ LoadCatalog(c)
  PROVE  Steps
<1>1. UNCHANGED <<marker, registry, catalog, attributed>> /\ read[c] = Idle
  BY DEF Missing, Load, LoadCatalog
<1>2. PICK x : read' = [read EXCEPT ![c] = x]
  BY Zenon DEF Missing, Load, LoadCatalog
<1>3. read'[c] = x /\ \A d \in Clients \ {c} : read'[d] = read[d]
  BY <1>2, SMT DEF TypeInv
<1>4. \A d \in Clients \ {c} : Copy(d)' = Copy(d)
  BY <1>3, Zenon DEF Copy
<1>5. Attributes BY <1>1, Zenon DEF Attributes
<1>6. Stands
  <2>1. Links BY <1>1, SameKeeps, Zenon DEF Links
  <2> QED BY <1>1, <2>1, Zenon DEF Stands
<1>7. read'[c].of = "actors" =>
         marker # 0 /\ Copy(c)'.project # 0 /\ Copy(c)'.boot = registry.boot
  <2>1. CASE Missing(c) \/ LoadCatalog(c)
    BY <2>1, SMT DEF Missing, LoadCatalog, Reads, TypeInv
  <2>2. CASE Load(c)
    <3>1. Copy(c)' = [registry EXCEPT !.project = marker] /\ marker # 0
      BY <2>2, SMT DEF Load, Reads, TypeInv, Copy
    <3> QED BY <3>1, SMT DEF TypeInv, ActorRegistry
  <2> QED BY <2>1, <2>2
<1>8. CopyInv'
  BY <1>1, <1>3, <1>4, <1>7, SMT DEF CopyInv
<1> QED BY <1>5, <1>6, <1>8 DEF Steps

LEMMA EndSteps ==
  ASSUME TypeInv, CopyInv, NEW c \in Clients, CreateMarker(c) \/ RegisterRun(c) \/ GiveUp(c)
  PROVE  Steps
<1>1. UNCHANGED <<registry, attributed>> /\ read' = [read EXCEPT ![c] = Idle]
  BY DEF CreateMarker, RegisterRun, GiveUp
<1>2. /\ read'[c] = Idle /\ read'[c].of = "idle"
      /\ \A d \in Clients \ {c} : read'[d] = read[d]
  BY <1>1, IdleNow, Zenon
<1>3. \A d \in Clients \ {c} : Copy(d)' = Copy(d)
  BY <1>2, Zenon DEF Copy
<1>4. Attributes BY <1>1, Zenon DEF Attributes
<1>5. Links BY <1>1, SameKeeps, Zenon DEF Links
<1>6. marker # 0 => marker' # 0
  BY SMT DEF CreateMarker, RegisterRun, GiveUp, TypeInv
<1>7. CopyInv'
  BY <1>1, <1>2, <1>3, <1>6, SMT DEF CopyInv
<1>8. Stands
  <2>1. CASE CreateMarker(c)
    <3>1. Ends(c, "marker") /\ catalog' = catalog
      BY <1>2, <2>1 DEF CreateMarker, Ends
    <3> QED BY <1>1, <1>5, <3>1, Zenon DEF Stands
  <2>2. CASE RegisterRun(c)
    <3>1. Ends(c, "catalog") /\ marker' = marker
      BY <1>2, <2>2 DEF RegisterRun, Ends
    <3>2. Copy(c) \in CatalogFiles
      BY <2>2, CatalogTyped DEF RegisterRun
    <3>3. catalog' = catalog \/ Copy(c).runs \subseteq catalog'.runs
      BY <2>2, <3>2, SMT DEF RegisterRun, CatalogFiles
    <3> QED BY <1>1, <1>5, <3>1, <3>3, Zenon DEF Stands
  <2>3. CASE GiveUp(c)
    BY <1>1, <1>5, <2>3, Zenon DEF GiveUp, Stands
  <2> QED BY <2>1, <2>2, <2>3
<1> QED BY <1>4, <1>7, <1>8 DEF Steps

LEMMA NextSteps == ASSUME TypeInv, TypeInv', CopyInv, [Next]_vars PROVE Steps
<1>1. CASE UNCHANGED vars
  <2>1. Links BY <1>1, SameKeeps, Zenon DEF Links, vars
  <2>2. CopyInv' BY <1>1, Zenon DEF vars, CopyInv, Copy
  <2> QED BY <1>1, <2>1, <2>2, Zenon DEF Steps, Attributes, Stands, vars
<1>2. CASE ResolveHuman
  <2>1. UNCHANGED <<marker, registry, catalog, read>> BY <1>2 DEF ResolveHuman
  <2>2. Links BY <2>1, SameKeeps, Zenon DEF Links
  <2>3. attributed' \ attributed \subseteq Ids(registry')
    BY <1>2, SMT DEF ResolveHuman, Humans, Ids
  <2>4. CopyInv' BY <2>1, Zenon DEF CopyInv, Copy
  <2> QED BY <2>1, <2>2, <2>3, <2>4, Zenon DEF Steps, Attributes, Stands
<1> QED BY <1>1, <1>2, ActorsSteps, BootstrapSteps, LoadSteps, EndSteps, Zenon DEF Next

-----------------------------------------------------------------------------

\* Whatever is lost between a load and a write, the registry on disk is valid and
\* the next load accepts it (actors.py).
THEOREM TypeCorrect == Spec => []TypeOK
<1>1. TypeInv => TypeOK
  BY SMT DEF TypeInv, TypeOK, CatalogFiles
<1> QED BY <1>1, TypeAlways, PTL

LEMMA CopyAlways == Spec => []CopyInv
<1>1. Init => CopyInv
  BY SMT DEF Init, CopyInv, Empty, Idle
<1>2. TypeInv /\ TypeInv' /\ CopyInv /\ [Next]_vars => CopyInv'
  BY NextSteps DEF Steps
<1> QED BY <1>1, <1>2, TypeAlways, PTL DEF Spec

\* However commands overlap, an action is recorded for someone the registry
\* knows, and an Actor, never the first one, is taken from it only by a command
\* that had loaded it before the Actor was added (actors.py:515, identity.py).
THEOREM AttributionCorrect == Spec => AttributionResolves
<1>1. TypeInv /\ TypeInv' /\ CopyInv /\ [Next]_vars =>
      [/\ attributed' \ attributed \subseteq Ids(registry')
       /\ \A a \in Ids(registry) \ Ids(registry') :
             /\ a # registry.boot
             /\ \E c \in Clients : Ends(c, "actors") /\ a \notin Ids(Copy(c))]_vars
  BY NextSteps, Zenon DEF Steps, Attributes
<1> QED BY <1>1, TypeAlways, CopyAlways, PTL DEF Spec, AttributionResolves

\* However commands overlap, the first Actor stands, and a link, an Actor, a
\* listed Run or the project's identity is lost only to a command that loaded
\* the file before (actors.py, identity.py).
THEOREM RegistriesCorrect == Spec => RegistriesStand
<1>1. TypeInv /\ TypeInv' /\ CopyInv /\ [Next]_vars => Stands
  BY NextSteps DEF Steps
<1>2. Stands => (registry.boot # 0 => registry'.boot = registry.boot)
  BY DEF Stands
<1>3. Stands =>
      [/\ registry' # registry => \E c \in Clients : Ends(c, "actors")
       /\ \A c \in Clients : Ends(c, "actors") =>
            LET kept == {s \in Subjects : Copy(c).subjects[s] = registry.subjects[s]}
                turned == {s \in kept : registry'.subjects[s] # registry.subjects[s]}
            IN  /\ \A s \in turned : 0 \in {registry.subjects[s], registry'.subjects[s]}
                /\ Ids(Copy(c)) \cap Ids(registry) \subseteq Ids(registry')
                /\ Cardinality(turned)
                   + Cardinality(Ids(registry') \ (Ids(registry) \cup Ids(Copy(c)))) <= 1]_vars
  BY Zenon DEF Stands, Links, Kept, Turned, Added
<1>4. Stands => [\A r \in catalog.runs \ catalog'.runs :
                    \E c \in Clients : Ends(c, "catalog") /\ r \notin Copy(c).runs]_vars
  BY DEF Stands
<1>5. Stands => [marker # 0 /\ marker' # marker => \E c \in Clients : Ends(c, "marker")]_vars
  BY DEF Stands
<1>6. Spec => BootstrapOnce
  BY <1>1, <1>2, TypeAlways, CopyAlways, PTL DEF Spec, BootstrapOnce
<1>7. Spec => LinksStand
  BY <1>1, <1>3, TypeAlways, CopyAlways, PTL DEF Spec, LinksStand
<1>8. Spec => RegistrationsStand
  BY <1>1, <1>4, TypeAlways, CopyAlways, PTL DEF Spec, RegistrationsStand
<1>9. Spec => OneProject
  BY <1>1, <1>5, TypeAlways, CopyAlways, PTL DEF Spec, OneProject
<1> QED BY <1>6, <1>7, <1>8, <1>9 DEF RegistriesStand
===============================================================================
