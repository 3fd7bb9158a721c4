------------------------------ MODULE Individuals ------------------------------
(***************************************************************************)
(* The assertion graph: individuals with their rdf_type edges, the facts   *)
(* that join them, the extraction that writes them chunk by chunk, the     *)
(* merging of near duplicates, the curator's verdicts and the instance     *)
(* checks (services/abox_extraction.py, abox_canonicalize.py,              *)
(* abox_validation.py, db/individuals_repo.py).                            *)
(*                                                                         *)
(* The extraction awaits the language model between chunks, and the        *)
(* endpoints run in threads: between two calls of the database anything    *)
(* else may run.  A class is the word that names it in its ontology.       *)
(***************************************************************************)
EXTENDS Naturals, Sequences, FiniteSets

CONSTANTS
    Handlers,   \* extractions and requests that may be under way together
    ClassTerms, \* the live classes: [home, word]
    Names,      \* labels of individuals
    Near,       \* pairs of names of which the similarity passes min_score
    Excerpts,   \* the chunks: the names that each has verbatim
    Readings,   \* answers of the language model: [mentions, statements]
    Requests,   \* extractions asked for: [homes, guided, scoped]
    Relevant,   \* the classes that the competency questions refer to
    Seeded, SeededFacts,  \* what an earlier extraction has written
    MaxActs,    \* bound: operations begun
    MaxDeaths   \* bound: operations cut short and expiries that fail unnoticed

VARIABLES
    people,   \* ontology_individuals; the index is the _key
    typings,  \* rdf_type edges
    facts,    \* individual_assertion edges
    task,     \* task[h]: the operation handler h is in the middle of
    unions,   \* history: the merges begun, as [keep, drop, alike]
    refused,  \* history: the individuals rejected
    acts, deaths

abox == <<people, typings, facts>>
past == <<unions, refused>>
aboxVars == <<people, typings, facts, task, unions, refused, acts, deaths>>

\* The empty one named: TLAPS knows of no literal that it is in STRING.
Text == STRING \cup {""}
Term == [home : Text, word : Text]
Mentions == Seq([name : Text, word : Text])
Statements == Seq(Text \X Text)
Request == [homes : Seq(Text), guided : BOOLEAN, scoped : BOOLEAN]

\* An extraction is asked for at least one ontology.
ASSUME AboxAssumption ==
    /\ ClassTerms \subseteq Term /\ Names \subseteq Text /\ Excerpts \in Seq(SUBSET Text)
    /\ Readings \subseteq [mentions : Mentions, statements : Statements]
    /\ Requests \subseteq {r \in Request : r.homes # <<>>}
    /\ Seeded \in Seq([name : Text, class : ClassTerms, span : BOOLEAN])
    /\ SeededFacts \in Seq((DOMAIN Seeded) \X (DOMAIN Seeded))
    /\ MaxActs \in Nat /\ MaxDeaths \in Nat

NoTerm == [home |-> "", word |-> ""]
IdleTask == [pc |-> "idle", kind |-> "", request |-> [homes |-> <<>>, guided |-> TRUE, scoped |-> FALSE],
             chunk |-> 0, mentions |-> <<>>, statements |-> <<>>, canon |-> {}, local |-> {},
             pairs |-> {}, keep |-> 0, drop |-> 0, gone |-> {}, edges |-> {}, edge |-> 0,
             prov |-> <<>>, from |-> {}, name |-> "", class |-> NoTerm]

Alive(rows) == {k \in DOMAIN rows : rows[k].live}
TypesOf(i) == {k \in Alive(typings) : typings[k].of = i}
FactsOf(i) == {k \in Alive(facts) : i \in {facts[k].from, facts[k].to}}

Become(h, t) == task' = [task EXCEPT ![h] = t]
Rest(h) == Become(h, IdleTask)
Free(h) == task[h].pc = "idle" /\ acts < MaxActs
Commence(h, t) ==
    /\ acts' = acts + 1
    /\ Become(h, t)
    /\ UNCHANGED deaths

\* expire_entity: a write that fails is logged, and the operation goes on.
Ends(rows, k, after) ==
    \/ after = [rows EXCEPT ![k].live = FALSE] /\ UNCHANGED deaths
    \/ after = rows /\ deaths < MaxDeaths /\ deaths' = deaths + 1

Individual(home, name, prov) ==
    [home |-> home, name |-> name, prov |-> prov, from |-> {}, status |-> "new", live |-> TRUE]
Typing(i, class) == [of |-> i, class |-> class, live |-> TRUE]
\* root: the fact that this one continues, itself for a fact that was extracted.
Fact(home, from, to, span, cross, root) ==
    [home |-> home, from |-> from, to |-> to, span |-> span, cross |-> cross, root |-> root, live |-> TRUE]

AboxInit ==
    /\ people = [k \in DOMAIN Seeded |->
                    Individual(Seeded[k].class.home, Seeded[k].name, <<[chunk |-> 0, span |-> Seeded[k].span]>>)]
    /\ typings = [k \in DOMAIN Seeded |-> Typing(k, Seeded[k].class)]
    /\ facts = [k \in DOMAIN SeededFacts |->
                   LET f == SeededFacts[k] IN
                   Fact(people[f[1]].home, f[1], f[2], TRUE, people[f[1]].home # people[f[2]].home, k)]
    /\ task = [h \in Handlers |-> IdleTask]
    /\ unions = {} /\ refused = {}
    /\ acts = 0 /\ deaths = 0

-----------------------------------------------------------------------------
(* Extraction, of one ontology or of several: the first that has a class of *)
(* that word owns it.                                                       *)

OwnerOf(homes, word) ==
    LET owners == {i \in DOMAIN homes : [home |-> homes[i], word |-> word] \in ClassTerms}
    IN IF owners = {} THEN NoTerm
       ELSE [home |-> homes[CHOOSE i \in owners : \A j \in owners : i <= j], word |-> word]

HomeOf(homes, class) == IF class = NoTerm THEN homes[1] ELSE class.home

\* Scoped to nothing is not scoped.
Kept(request, class) ==
    /\ request.guided => class # NoTerm
    /\ request.scoped /\ Relevant # {} => class \in Relevant

BeginExtract(h) ==
    /\ Free(h)
    /\ \E request \in Requests : Commence(h, [IdleTask EXCEPT !.pc = "chunk", !.request = request])
    /\ UNCHANGED <<abox, past>>

\* Also a call that fails or an answer that does not parse: no mentions.
ReadChunk(h) ==
    /\ task[h].pc = "chunk"
    /\ IF task[h].chunk = Len(Excerpts) THEN Rest(h)
       ELSE \E reading \in Readings :
            Become(h, [task[h] EXCEPT !.pc = "mention", !.chunk = @ + 1, !.local = {},
                          !.mentions = reading.mentions, !.statements = reading.statements])
    /\ UNCHANGED <<abox, past, acts, deaths>>

\* Of two mentions of one name in a chunk the last counts.
Learn(local, name, i, span) == {l \in local : l.name # name} \cup {[name |-> name, of |-> i, span |-> span]}

CreateIndividual(h) ==
    LET t == task[h]
        m == Head(t.mentions)
        class == OwnerOf(t.request.homes, m.word)
        home == HomeOf(t.request.homes, class)
        span == m.name \in Excerpts[t.chunk]
        known == {c \in t.canon : c.class = class /\ c.name = m.name}
        rest == [t EXCEPT !.mentions = Tail(@)]
    IN /\ t.pc = "mention" /\ t.mentions # <<>>
       /\ \/ ~Kept(t.request, class) /\ Become(h, rest) /\ UNCHANGED people
          \/ /\ Kept(t.request, class)
             /\ \E c \in known : Become(h, [rest EXCEPT !.local = Learn(@, m.name, c.of, span)])
             /\ UNCHANGED people
          \/ /\ Kept(t.request, class) /\ known = {}
             /\ people' = Append(people, Individual(home, m.name, <<[chunk |-> t.chunk, span |-> span]>>))
             /\ LET i == Len(people') IN
                Become(h, [rest EXCEPT !.pc = "type", !.drop = i, !.class = class,
                              !.canon = @ \cup {[class |-> class, name |-> m.name, of |-> i]},
                              !.local = Learn(@, m.name, i, span)])
       /\ UNCHANGED <<typings, facts, past, acts, deaths>>

TypeIndividual(h) ==
    /\ task[h].pc = "type"
    /\ typings' = Append(typings, Typing(task[h].drop, task[h].class))
    /\ Become(h, [task[h] EXCEPT !.pc = "mention", !.drop = 0, !.class = NoTerm])
    /\ UNCHANGED <<people, facts, past, acts, deaths>>

\* Only a statement about two that the chunk has mentioned.
AddFact(h) ==
    LET t == task[h]
        s == Head(t.statements)
        ends == {p \in t.local \X t.local : p[1].name = s[1] /\ p[2].name = s[2]}
    IN /\ t.pc = "mention" /\ t.mentions = <<>>
       /\ \/ t.statements = <<>> /\ Become(h, [t EXCEPT !.pc = "chunk"]) /\ UNCHANGED facts
          \/ /\ t.statements # <<>>
             /\ Become(h, [t EXCEPT !.statements = Tail(@)])
             /\ IF ends = {} THEN UNCHANGED facts
                ELSE \E p \in ends :
                     LET a == p[1].of  b == p[2].of IN
                     facts' = Append(facts, Fact(people[a].home, a, b, p[1].span \/ p[2].span,
                                                 people[a].home # people[b].home, Len(facts) + 1))
       /\ UNCHANGED <<people, typings, past, acts, deaths>>

-----------------------------------------------------------------------------
(* Canonicalisation.                                                        *)

Rank(i) == Len(people[i].prov)
Alike(a, b) == people[a].name = people[b].name \/ {people[a].name, people[b].name} \in Near
\* rdf_type edges come in any order; the first is read.
Sorts ==
    LET many == {i \in Alive(people) : Cardinality(TypesOf(i)) > 1}
        firsts == {f \in [many -> Alive(typings)] : \A i \in many : f[i] \in TypesOf(i)}
    IN {[i \in Alive(people) |->
            IF i \in many THEN typings[f[i]].class
            ELSE IF TypesOf(i) = {} THEN NoTerm ELSE (CHOOSE t \in {typings[k] : k \in TypesOf(i)} : TRUE).class] :
        f \in firsts}

\* Of two with as many sources the one of the smaller key is kept.
Duplicates(home, sort) ==
    {[keep |-> p[1], drop |-> p[2]] :
        p \in {q \in Alive(people) \X Alive(people) :
                  /\ q[1] # q[2] /\ people[q[1]].home = home /\ people[q[2]].home = home
                  /\ sort[q[1]] = sort[q[2]] /\ Alike(q[1], q[2])
                  /\ \/ Rank(q[1]) > Rank(q[2])
                     \/ Rank(q[1]) = Rank(q[2]) /\ q[1] < q[2]}}

BeginCanonicalize(h) ==
    /\ Free(h)
    /\ \E home \in {c.home : c \in ClassTerms}, sort \in Sorts :
          /\ Duplicates(home, sort) # {}
          /\ Commence(h, [IdleTask EXCEPT !.pc = "next", !.kind = "merge", !.pairs = Duplicates(home, sort),
                             !.class = [home |-> home, word |-> ""]])
    /\ UNCHANGED <<abox, past>>

\* Equal names score highest; merge_individuals begins with a read.
NextPair(h) ==
    LET t == task[h]
        fit == {p \in t.pairs : {p.keep, p.drop} \cap t.gone = {}}
        same == {p \in fit : people[p.keep].name = people[p.drop].name}
    IN /\ t.pc = "next"
       /\ IF fit = {} THEN Rest(h) /\ UNCHANGED unions
          ELSE \E p \in (IF same = {} THEN fit ELSE same) :
               /\ Become(h, [t EXCEPT !.pc = IF FactsOf(p.drop) = {} THEN "union" ELSE "move",
                                !.pairs = fit \ {p}, !.keep = p.keep, !.drop = p.drop,
                                !.edges = FactsOf(p.drop)])
               /\ unions' = unions \cup {[keep |-> p.keep, drop |-> p.drop, alike |->
                     \E j \in TypesOf(p.keep), k \in TypesOf(p.drop) : typings[j].class = typings[k].class]}
       /\ UNCHANGED <<abox, refused, acts, deaths>>

\* A fact between the two is not written again.
Reassigned(f, t) ==
    LET at(i) == IF i = t.drop THEN t.keep ELSE i
    IN IF at(facts[f].from) = at(facts[f].to) THEN facts
       ELSE Append(facts, Fact(t.class.home, at(facts[f].from), at(facts[f].to), facts[f].span, FALSE, facts[f].root))

AddMoved(h) ==
    /\ task[h].pc = "move"
    /\ \E f \in task[h].edges :
          /\ facts' = Reassigned(f, task[h])
          /\ Become(h, [task[h] EXCEPT !.pc = "expire", !.edge = f, !.edges = @ \ {f}])
    /\ UNCHANGED <<people, typings, past, acts, deaths>>

ExpireMoved(h) ==
    /\ task[h].pc = "expire"
    /\ Ends(facts, task[h].edge, facts')
    /\ Become(h, [task[h] EXCEPT !.pc = IF task[h].edges = {} THEN "union" ELSE "move", !.edge = 0])
    /\ UNCHANGED <<people, typings, past, acts>>

ReadSources(h) ==
    LET t == task[h] IN
    /\ t.pc = "union"
    /\ Become(h, [t EXCEPT !.pc = "unite", !.prov = people[t.keep].prov \o people[t.drop].prov,
                     !.from = people[t.keep].from \cup {t.drop}])
    /\ UNCHANGED <<abox, past, acts, deaths>>

Unite(h) ==
    LET t == task[h] IN
    /\ t.pc = "unite"
    /\ people' = [people EXCEPT ![t.keep].prov = t.prov, ![t.keep].from = t.from]
    /\ Become(h, [t EXCEPT !.pc = "types", !.prov = <<>>, !.from = {}])
    /\ UNCHANGED <<typings, facts, past, acts, deaths>>

-----------------------------------------------------------------------------
(* Curation.  What is not live is answered with 404.                        *)

BeginCurate(h) ==
    /\ Free(h)
    /\ \E i \in Alive(people), kind \in {"approve", "reject"} :
          Commence(h, [IdleTask EXCEPT !.pc = kind, !.kind = kind, !.drop = i])
    /\ UNCHANGED <<abox, past>>

\* No name, or no class: that part is left as it is.
BeginEdit(h) ==
    /\ Free(h)
    /\ \E i \in Alive(people), name \in Names \cup {""}, class \in ClassTerms \cup {NoTerm} :
          /\ name # "" \/ class # NoTerm
          /\ Commence(h, [IdleTask EXCEPT !.pc = "relabel", !.kind = "edit", !.drop = i,
                             !.name = name, !.class = class])
    /\ UNCHANGED <<abox, past>>

SetStatus(h) ==
    LET t == task[h] IN
    /\ t.pc \in {"approve", "reject"}
    /\ people' = [people EXCEPT ![t.drop].status = IF t.pc = "approve" THEN "approved" ELSE "rejected"]
    /\ refused' = IF t.pc = "approve" THEN refused ELSE refused \cup {t.drop}
    /\ IF t.pc = "approve" THEN Rest(h) ELSE Become(h, [t EXCEPT !.pc = "types"])
    /\ UNCHANGED <<typings, facts, unions, acts, deaths>>

Relabel(h) ==
    LET t == task[h] IN
    /\ t.pc = "relabel"
    /\ people' = IF t.name = "" THEN people ELSE [people EXCEPT ![t.drop].name = t.name]
    /\ IF t.class = NoTerm THEN Rest(h) ELSE Become(h, [t EXCEPT !.pc = "types"])
    /\ UNCHANGED <<typings, facts, past, acts, deaths>>

AfterTypes(t) == CASE t.kind = "merge" -> "drop" [] t.kind = "reject" -> "facts" [] OTHER -> "retype"

\* The keys of the live edges, then the edges one by one.
ReadTypes(h) ==
    LET t == task[h]
        found == TypesOf(t.drop) IN
    /\ t.pc = "types"
    /\ Become(h, [t EXCEPT !.edges = found, !.pc = IF found = {} THEN AfterTypes(t) ELSE "untype"])
    /\ UNCHANGED <<abox, past, acts, deaths>>

Untype(h) ==
    LET t == task[h] IN
    /\ t.pc = "untype"
    /\ \E k \in t.edges :
          /\ Ends(typings, k, typings')
          /\ Become(h, [t EXCEPT !.edges = @ \ {k}, !.pc = IF t.edges = {k} THEN AfterTypes(t) ELSE "untype"])
    /\ UNCHANGED <<people, facts, past, acts>>

\* The class is taken as it is given.
Retype(h) ==
    /\ task[h].pc = "retype"
    /\ typings' = Append(typings, Typing(task[h].drop, task[h].class))
    /\ Rest(h)
    /\ UNCHANGED <<people, facts, past, acts, deaths>>

ReadFacts(h) ==
    LET found == FactsOf(task[h].drop) IN
    /\ task[h].pc = "facts"
    /\ Become(h, [task[h] EXCEPT !.edges = found, !.pc = IF found = {} THEN "drop" ELSE "retract"])
    /\ UNCHANGED <<abox, past, acts, deaths>>

Retract(h) ==
    LET t == task[h] IN
    /\ t.pc = "retract"
    /\ \E f \in t.edges :
          /\ Ends(facts, f, facts')
          /\ Become(h, [t EXCEPT !.edges = @ \ {f}, !.pc = IF t.edges = {f} THEN "drop" ELSE "retract"])
    /\ UNCHANGED <<people, typings, past, acts>>

\* Mutant: what a curator has approved is not expired.
DropUnapproved(h) ==
    LET t == task[h] IN
    /\ t.pc = "drop"
    /\ people' = [people EXCEPT ![t.drop].live = @ /\ people[t.drop].status = "approved"]
    /\ IF t.kind = "reject" THEN Rest(h)
       ELSE Become(h, [t EXCEPT !.pc = "next", !.gone = @ \cup {t.drop}, !.keep = 0, !.drop = 0])
    /\ UNCHANGED <<typings, facts, past, acts, deaths>>

\* Mutant: the facts left at the individual are expired with it.
DropCascades(h) ==
    LET t == task[h] IN
    /\ t.pc = "drop"
    /\ people' = [people EXCEPT ![t.drop].live = FALSE]
    /\ facts' = [f \in DOMAIN facts |-> [facts[f] EXCEPT !.live = @ /\ f \notin FactsOf(t.drop)]]
    /\ IF t.kind = "reject" THEN Rest(h)
       ELSE Become(h, [t EXCEPT !.pc = "next", !.gone = @ \cup {t.drop}, !.keep = 0, !.drop = 0])
    /\ UNCHANGED <<typings, past, acts, deaths>>

DropIndividual(h) ==
    LET t == task[h] IN
    /\ t.pc = "drop"
    /\ Ends(people, t.drop, people')
    /\ IF t.kind = "reject" THEN Rest(h)
       ELSE Become(h, [t EXCEPT !.pc = "next", !.gone = @ \cup {t.drop}, !.keep = 0, !.drop = 0])
    /\ UNCHANGED <<typings, facts, past, acts>>

\* A failed call of the database or the death of the process: nothing undone.
Dies(h) ==
    /\ task[h].pc # "idle" /\ deaths < MaxDeaths
    /\ deaths' = deaths + 1
    /\ Rest(h)
    /\ UNCHANGED <<abox, past, acts>>

AboxNext == \E h \in Handlers :
    \/ BeginExtract(h) \/ ReadChunk(h) \/ CreateIndividual(h) \/ TypeIndividual(h) \/ AddFact(h)
    \/ BeginCanonicalize(h) \/ NextPair(h) \/ AddMoved(h) \/ ExpireMoved(h) \/ ReadSources(h) \/ Unite(h)
    \/ BeginCurate(h) \/ BeginEdit(h) \/ SetStatus(h) \/ Relabel(h) \/ ReadTypes(h) \/ Untype(h) \/ Retype(h)
    \/ ReadFacts(h) \/ Retract(h) \/ DropIndividual(h)
    \/ Dies(h)

AboxSpec == AboxInit /\ [][AboxNext]_aboxVars

-----------------------------------------------------------------------------
(* What the endpoints answer about an ontology.                             *)

Mine(home) == {i \in Alive(people) : people[i].home = home}
Grounded(i) == \E n \in DOMAIN people[i].prov : people[i].prov[n].span

\* validate_abox; bounds: the cardinalities [class, min, max] declared.
Ungrounded(home) == {i \in Mine(home) : ~Grounded(i)}
Dangling(home) == {k \in Alive(typings) : people[typings[k].of].home = home /\ typings[k].class \notin ClassTerms}
OutOfBounds(bounds) ==
    {b \in bounds \X Alive(typings) :
        /\ typings[b[2]].class = b[1].class /\ people[typings[b[2]].of].live
        /\ LET n == Cardinality({f \in Alive(facts) : facts[f].from = typings[b[2]].of})
           IN n < b[1].min \/ n > b[1].max}

\* compute_abox_metrics, as counts.
AboxMetrics(home, bounds) ==
    LET mine == Mine(home)
        stated == {f \in Alive(facts) : facts[f].home = home}
    IN [individuals |-> Cardinality(mine), typed |-> Cardinality({i \in mine : TypesOf(i) # {}}),
        grounded |-> Cardinality({i \in mine : Grounded(i)}),
        assertions |-> Cardinality(stated), spanned |-> Cardinality({f \in stated : facts[f].span}),
        merged |-> Cardinality({i \in mine : people[i].from # {}}),
        violations |-> Cardinality(Dangling(home)) + Cardinality(OutOfBounds(bounds))]

CountByClass(class) ==
    Cardinality({k \in Alive(typings) : typings[k].class = class /\ typings[k].of \in Mine(class.home)})

\* get_instance_graph, below its cap: only facts between two that are shown.
InstanceGraph(home, wanted) ==
    LET shown == {k \in Alive(typings) : typings[k].class \in wanted /\ typings[k].of \in Mine(home)}
        nodes == {typings[k].of : k \in shown}
    IN [individuals |-> nodes, types |-> shown,
        assertions |-> {f \in Alive(facts) : {facts[f].from, facts[f].to} \subseteq nodes}]

-----------------------------------------------------------------------------
(***************************************************************************)
(* Properties.                                                             *)
(***************************************************************************)
Stage == {"idle", "chunk", "mention", "type", "next", "move", "expire", "union", "unite", "approve",
          "reject", "relabel", "types", "untype", "retype", "facts", "retract", "drop"}
Kind == {"", "merge", "approve", "reject", "edit"}
Canons == SUBSET [class : Term, name : Text, of : Nat]
Locals == SUBSET [name : Text, of : Nat, span : BOOLEAN]
PairSets == SUBSET [keep : Nat, drop : Nat]
Keys == SUBSET Nat
Sources == Seq([chunk : Nat, span : BOOLEAN])
Task == [pc : Stage, kind : Kind, request : Request, chunk : Nat, mentions : Mentions, statements : Statements,
         canon : Canons, local : Locals, pairs : PairSets, keep : Nat, drop : Nat, gone : Keys,
         edges : Keys, edge : Nat, prov : Sources, from : Keys, name : Text, class : Term]

IndividualRow == [home : Text, name : Text, prov : Sources, from : Keys,
                  status : {"new", "approved", "rejected"}, live : BOOLEAN]
TypingRow == [of : Nat, class : Term, live : BOOLEAN]
FactRow == [home : Text, from : Nat, to : Nat, span : BOOLEAN, cross : BOOLEAN, root : Nat, live : BOOLEAN]
Union == [keep : Nat, drop : Nat, alike : BOOLEAN]

AboxTypeOK ==
    /\ people \in Seq(IndividualRow) /\ typings \in Seq(TypingRow) /\ facts \in Seq(FactRow)
    /\ task \in [Handlers -> Task]
    /\ unions \subseteq Union /\ refused \subseteq Nat
    /\ acts \in Nat /\ deaths \in Nat

\* The facts that continue f, and the merges that closed one of them.
Continued(f) == {g \in DOMAIN facts : facts[g].root = facts[f].root}
Closed(f) ==
    \/ facts[f].from = facts[f].to
    \/ \E u \in unions : {u.keep, u.drop} = {facts[f].from, facts[f].to}

(* merge_individuals adds a fact at the survivor before it expires the old  *)
(* one: whoever dies, and whoever merges at the same time, a fact that was  *)
(* extracted stays stated, until a curator rejects one of the individuals   *)
(* it was about or a merge makes the two of them one.                       *)
FactsSurvive ==
    \A f \in DOMAIN facts :
        \E g \in Continued(f) :
            facts[g].live \/ Closed(g) \/ {facts[g].from, facts[g].to} \cap refused # {}

(* create_individual, _retype_individual: unless an operation was cut short *)
(* or an expiry has failed unnoticed, a live individual on which no handler *)
(* is at work has a type, however the retypings and merges of several       *)
(* handlers run into each other.                                            *)
TypedWhenQuiet ==
    deaths = 0 => \A i \in Alive(people) :
        (\A h \in Handlers : task[h].drop # i) => TypesOf(i) # {}
=============================================================================
