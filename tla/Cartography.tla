------------------------------ MODULE Cartography ------------------------------
(***************************************************************************)
(* The map of a project: immutable revisions in one file that names the    *)
(* current one, a Markdown rendering of a revision, and a status file that *)
(* says which revision was rendered.  A refresh reads the current          *)
(* revision, decides which identities continue, carries the records that   *)
(* humans and governing artifacts stand behind, and publishes.  Every file *)
(* is replaced atomically; nothing locks the three of them, or a read and  *)
(* the write that follows it, together.                                    *)
(***************************************************************************)
EXTENDS Naturals, FiniteSets, SequencesExt

CONSTANTS
    Clients,         \* processes that use the library
    MaxRevisions,    \* revision identities are 1..MaxRevisions
    MaxEntities,     \* entity identities are 1..MaxEntities
    OwnPrefix        \* bound: TRUE leaves records whose identifier is of their kind

ASSUME MapBounds ==
    /\ MaxRevisions \in Nat \ {0} /\ MaxEntities \in Nat
    /\ OwnPrefix \in BOOLEAN

VARIABLES
    store,           \* map.json: the current revision's identity, and each revision
    markdown,        \* map.md: the identity of the revision it shows, 0 if none
    status,          \* projection.json: a revision's identity and its freshness
    minted,          \* entity identities handed out so far
    draft,           \* per client, where its publication is
    alone            \* history variable: no two publications have overlapped

mapVars == <<store, markdown, status, minted, draft, alone>>

RevisionIds == 1..MaxRevisions

\* An identifier is one name per prefix; nothing ties the prefix to the kind.
Kinds == {"claim", "constraint"}
Records == {r \in [kind : Kinds, id : Kinds, authority : {"derived", "protected"}] :
              OwnPrefix => r.id = r.kind}

Revisions == [entities : SUBSET (1..MaxEntities), records : SUBSET Records]

Absent == [entities |-> {}, records |-> {}, absent |-> TRUE]

\* What model_validate demands of a stored revision.
Valid(r) == \A x, y \in r.records : x.id = y.id => x = y

Published == {i \in RevisionIds : store.revisions[i] # Absent}
Current == store.revisions[store.current]
Loads(s) == s.current # 0 /\ \A i \in RevisionIds : s.revisions[i] # Absent => Valid(s.revisions[i])

AtRest == [at |-> "idle"]

MapInit ==
    /\ store = [current |-> 0, revisions |-> [i \in RevisionIds |-> Absent]]
    /\ markdown = 0
    /\ status = [of |-> 0, fresh |-> "unknown"]
    /\ minted = 0
    /\ draft = [c \in Clients |-> AtRest]
    /\ alone = TRUE

-----------------------------------------------------------------------------
(* Identities across a refresh *)

\* Two extracted concepts at most; a claim comes with evidence, weak or strong.
Candidates(prior) ==
    UNION {[1..n -> [claims : SUBSET prior, strong : BOOLEAN]] : n \in 0..2}

\* Mutant (IdentitiesAccounted): competing claims of one identity all succeed.
ContinuesCompeting(cs, i) == cs[i].strong /\ Cardinality(cs[i].claims) = 1

\* The only identity it claims, claimed by nobody else, on more than a path.
Continues(cs, i) ==
    /\ cs[i].strong
    /\ \E p \in cs[i].claims :
         cs[i].claims = {p} /\ \A j \in DOMAIN cs \ {i} : p \notin cs[j].claims

New(cs) == {i \in DOMAIN cs : ~Continues(cs, i)}

\* New identities are handed out in the order of the candidates.
Identity(cs, i) ==
    IF Continues(cs, i) THEN CHOOSE p \in cs[i].claims : TRUE
                        ELSE minted + Cardinality({j \in New(cs) : j <= i})

Outcome(cs, i) ==
    CASE Continues(cs, i)                                      -> "preserved"
      [] cs[i].claims = {}                                     -> "new"
      [] Cardinality(cs[i].claims) > 1                         -> "merged"
      [] \E j \in DOMAIN cs \ {i} : cs[i].claims \cap cs[j].claims # {} -> "split"
      [] OTHER                                                 -> "ambiguous"

Reconcile(prior, cs) ==
    [prior |-> prior,
     found |-> [i \in DOMAIN cs |-> [id |-> Identity(cs, i), outcome |-> Outcome(cs, i),
                                     links |-> IF Continues(cs, i) THEN {} ELSE cs[i].claims]],
     deleted |-> prior \ UNION {cs[i].claims : i \in DOMAIN cs}]

\* Mutant (MapStands): what is generated afresh replaces what it repeats.
GeneratedWins(prior, generated) ==
    generated \cup {r \in prior : /\ r.authority = "protected"
                                  /\ \A g \in generated : <<g.kind, g.id>> # <<r.kind, r.id>>}

\* Per kind, protected records are carried and generated ones give way.
Preserve(prior, generated) ==
    LET protected == {r \in prior : r.authority = "protected"}
    IN  protected \cup {g \in generated :
                          \A r \in protected : <<g.kind, g.id>> # <<r.kind, r.id>>}

-----------------------------------------------------------------------------
(* A client *)

\* on is what the revision was made from.
Publishing(i, r, on) == [at |-> "read", id |-> i, is |-> r, on |-> on]

\* A publication that starts beside another one overlaps it.
Starts(c) ==
    /\ draft[c] = AtRest
    /\ alone' = (alone /\ \A d \in Clients : draft[d] = AtRest)

\* Every revision gets an identity nobody has used; names are taken in order.
Unused(i) ==
    LET taken == Published \cup {draft[c].id : c \in {k \in Clients : draft[k] # AtRest}}
    IN  i \notin taken /\ \A j \in RevisionIds \ taken : i <= j

Valids == {S \in SUBSET Records : Valid([records |-> S])}

\* What a new revision starts from: the current one, or nothing.
Base == IF store.current = 0 THEN [entities |-> {}, records |-> {}] ELSE Current

\* load, reconcile_entities: the report accounts for the revision just read.
Refresh(c) ==
    /\ Starts(c) /\ (store.current # 0 => Loads(store))
    /\ \E i \in RevisionIds, cs \in Candidates(Base.entities) :
         /\ Unused(i)
         /\ minted + Cardinality(New(cs)) <= MaxEntities
         /\ minted' = minted + Cardinality(New(cs))
         /\ draft' = [draft EXCEPT ![c] = [at |-> "reconciled", id |-> i, on |-> Base.records,
                                           report |-> Reconcile(Base.entities, cs)]]
    /\ UNCHANGED <<store, markdown, status>>

\* assemble_generated_refresh: only derived records are generated, and the
\* assembled copy is not validated again.
Assembled(c) ==
    /\ draft[c].at = "reconciled"
    /\ \E g \in Valids :
         /\ \A r \in g : r.authority = "derived"
         /\ LET found == draft[c].report.found
                r == [entities |-> {found[i].id : i \in DOMAIN found},
                      records |-> Preserve(draft[c].on, g)]
            IN  draft' = [draft EXCEPT ![c] = Publishing(draft[c].id, r, draft[c].on)]
    /\ UNCHANGED <<store, markdown, status, minted, alone>>

\* A human's revision: what is there, and a record that has his name on it.
Attribute(c) ==
    /\ Starts(c) /\ (store.current # 0 => Loads(store))
    /\ \E i \in RevisionIds, x \in Records :
         /\ Unused(i) /\ x.authority = "protected"
         /\ Valid([records |-> Base.records \cup {x}])
         /\ draft' = [draft EXCEPT ![c] = Publishing(i, [Base EXCEPT !.records = @ \cup {x}], Base.records)]
    /\ UNCHANGED <<store, markdown, status, minted>>

\* A revision that is published already is handed in again, as it is or changed.
Republish(c) ==
    /\ Starts(c)
    /\ \E i \in Published : \E S \in {{}, store.revisions[i].records} :
         draft' = [draft EXCEPT ![c] = Publishing(i, [store.revisions[i] EXCEPT !.records = S], S)]
    /\ UNCHANGED <<store, markdown, status, minted>>

NoConflict(c) == store.revisions[draft[c].id] = Absent

\* publish, first half: the store is read and checked for the identity.
ReadStore(c) ==
    /\ draft[c].at = "read"
    /\ store.current # 0 => Loads(store)
    /\ NoConflict(c)
    /\ draft' = [draft EXCEPT ![c] = [at |-> "write", id |-> @.id, is |-> @.is,
                                       on |-> @.on, seen |-> store.revisions]]
    /\ UNCHANGED <<store, markdown, status, minted, alone>>

Render(c) == draft' = [draft EXCEPT ![c] = [at |-> "render", id |-> @.id]]

\* The current revision, handed in unchanged, is only rendered again.
AlreadyCurrent(c) ==
    /\ draft[c].at = "read" /\ Loads(store)
    /\ draft[c].id = store.current /\ draft[c].is = Current
    /\ Render(c)
    /\ UNCHANGED <<store, markdown, status, minted, alone>>

Refused(c) ==
    /\ draft[c].at = "read" /\ store.current # 0
    /\ Loads(store) => /\ store.revisions[draft[c].id] # Absent
                       /\ ~(draft[c].id = store.current /\ draft[c].is = Current)
    /\ draft' = [draft EXCEPT ![c] = AtRest]
    /\ UNCHANGED <<store, markdown, status, minted, alone>>

\* A record names an Actor the registry does not know.
UnknownActor(c) ==
    /\ draft[c].at = "read" /\ \E r \in draft[c].is.records : r.authority = "protected"
    /\ draft' = [draft EXCEPT ![c] = AtRest]
    /\ UNCHANGED <<store, markdown, status, minted, alone>>

\* publish, second half: one file, replaced as a whole.
WriteStore(c) ==
    /\ draft[c].at = "write"
    /\ store' = [current |-> draft[c].id,
                 revisions |-> [draft[c].seen EXCEPT ![draft[c].id] = draft[c].is]]
    /\ Render(c)
    /\ UNCHANGED <<markdown, status, minted, alone>>

\* Mutant (FreshIsShown): the status is written first.
StatusFirst(c) ==
    /\ draft[c].at = "render"
    /\ status' = [of |-> draft[c].id, fresh |-> "current"]
    /\ draft' = [draft EXCEPT ![c].at = "status"]
    /\ UNCHANGED <<store, markdown, minted, alone>>

WriteMarkdown(c) ==
    /\ draft[c].at = "render"
    /\ markdown' = draft[c].id
    /\ draft' = [draft EXCEPT ![c].at = "status"]
    /\ UNCHANGED <<store, status, minted, alone>>

WriteStatus(c) ==
    /\ draft[c].at = "status"
    /\ status' = [of |-> draft[c].id, fresh |-> "current"]
    /\ draft' = [draft EXCEPT ![c] = AtRest]
    /\ UNCHANGED <<store, markdown, minted, alone>>

\* Either write of the projection raised: the revision stands, marked stale.
MarkStale(c) ==
    /\ draft[c].at \in {"render", "status"}
    /\ status' = [of |-> draft[c].id, fresh |-> "stale"]
    /\ draft' = [draft EXCEPT ![c] = AtRest]
    /\ UNCHANGED <<store, markdown, minted, alone>>

PublicationDies(c) ==
    /\ draft[c] # AtRest
    /\ draft' = [draft EXCEPT ![c] = AtRest]
    /\ UNCHANGED <<store, markdown, status, minted, alone>>

MapNext ==
    \E c \in Clients :
      \/ Refresh(c) \/ Assembled(c) \/ Attribute(c) \/ Republish(c)
      \/ ReadStore(c) \/ AlreadyCurrent(c) \/ Refused(c) \/ UnknownActor(c) \/ WriteStore(c)
      \/ WriteMarkdown(c) \/ WriteStatus(c) \/ MarkStale(c) \/ PublicationDies(c)

\* Clients differ in nothing but what they do.
ClientSymmetry == Permutations(Clients)

MapSpec == MapInit /\ [][MapNext]_mapVars

\* status_for: what a query of revision i reports of the rendering.
StatusFor(i) ==
    CASE status.of = 0 -> "unknown"
      [] status.of # 0 /\ status.of # i -> "stale"
      [] OTHER -> status.fresh

-----------------------------------------------------------------------------
(* Properties *)

\* The files and the clients hold what they should; a published revision has
\* published entities only.
MapTypeOK ==
    /\ store \in [current : 0..MaxRevisions, revisions : [RevisionIds -> Revisions \cup {Absent}]]
    /\ store.current # 0 => store.current \in Published
    /\ markdown \in Published \cup {0}
    /\ status \in [of : Published \cup {0}, fresh : {"current", "stale", "unknown"}]
    /\ \A i \in Published : store.revisions[i].entities \subseteq 1..minted

\* What publish wrote, load reads (violated: an assembled refresh is not validated).
StoreLoads == store.current # 0 => Loads(store)

\* A published revision is unreadable only where records of two kinds bear one
\* identifier: no refresh or assertion ever stores two of one kind under one name.
LoadsUnlessKindsClash ==
    \A i \in Published :
        (\A x, y \in store.revisions[i].records : x.id = y.id => x.kind = y.kind)
            => Valid(store.revisions[i])

\* As long as no two publications have overlapped, a query of the current map
\* never calls a rendering current that shows another revision, whoever died where.
FreshIsShown ==
    alone /\ store.current # 0 /\ StatusFor(store.current) = "current" => markdown = store.current

Protected(records) == {r \in records : r.authority = "protected"}
Publishes(c) == draft[c].at = "write" /\ draft'[c].at = "render"

\* What a human or a governing artifact stands behind leaves the current map
\* only by a publication that was made without it.
ProtectedStand ==
    [][\A c \in Clients : Publishes(c) /\ store.current # 0 =>
         Protected(Current.records) \cap draft[c].on \subseteq Current'.records]_mapVars

\* A published revision is changed or lost only by a publication that read the
\* store before it was there, and by nothing but a publication.
RevisionsStand ==
    [][\A i \in Published : store'.revisions[i] # store.revisions[i] =>
         \E c \in Clients : Publishes(c) /\ draft[c].seen[i] # store.revisions[i]]_mapVars

\* One refresh's report accounts for every earlier identity once (continued,
\* linked or deleted), and gives no two concepts one identity.
IdentitiesAccounted ==
    \A c \in Clients : draft[c].at = "reconciled" =>
        LET found == draft[c].report.found
            kept == {found[i].id : i \in DOMAIN found} \cap draft[c].report.prior
            linked == UNION {found[i].links : i \in DOMAIN found}
        IN  /\ IsInjective([i \in DOMAIN found |-> found[i].id])
            /\ draft[c].report.prior = kept \cup linked \cup draft[c].report.deleted
            /\ kept \cap linked = {} /\ (kept \cup linked) \cap draft[c].report.deleted = {}

\* No revision's rendering is called current unless it is shown (violated for
\* an older revision after a crash, for any with two clients).
AnyFreshIsShown == \A i \in Published : StatusFor(i) = "current" => markdown = i

\* What two overlapping refreshes may take from each other, and no more: protected
\* records and published revisions stay but for a publication that began before them.
MapStands == ProtectedStand /\ RevisionsStand

\* No refresh drops what is protected (violated: two refreshes overlap).
NoProtectedLost ==
    [][store.current # 0 /\ store'.current # store.current =>
         Protected(Current.records) \subseteq Current'.records]_mapVars
=============================================================================
