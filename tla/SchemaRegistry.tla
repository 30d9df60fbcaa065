--------------------------- MODULE SchemaRegistry ---------------------------
(***************************************************************************)
(* How an application's declarations become a schema, and what the schema  *)
(* then lets a typed write put in a row (packages/schema).                 *)
(*                                                                         *)
(* defineEntity and defineRelationship check one declaration at a time;    *)
(* defineSchema expands each collaborative-text field into a generated     *)
(* document entity and a relationship to it, and registers everything.     *)
(* The checks that make the result consistent are spread over all three,   *)
(* so a name refused by one is only safe if the others cannot produce it.  *)
(*                                                                         *)
(* A name is the sequence of its segments between "__", so the generated   *)
(* name text_document__<parent>__<field> is ambiguous here exactly where   *)
(* it is ambiguous in the code.  The keys of the maps handed to            *)
(* defineSchema are taken to be the entities' own names.                   *)
(***************************************************************************)
EXTENDS Naturals, Sequences, FiniteSets, SequencesExt, TLC

CONSTANTS
  Decls,     \* what an application may hand to defineEntity
  Links,     \* the (source, target, accessor) triples it may relate
  Payloads,  \* what it may hand to create and patch: field -> value
  Filters,   \* the filters it may query with: sequences of groups
  MaxWrites  \* bound on the writes to the row

VARIABLES
  defs,      \* the entity definitions, in declaration order
  rels,      \* the relationship definitions, in declaration order
  schema,    \* the registry defineSchema seeded, or NoSchema
  subject,   \* the entity the row is of, or NoName
  row,       \* the row's stored fields: field -> value; absent when unset
  loose,     \* the fields that hold a value a write outside the typed verbs stored
  writes

srVars == <<defs, rels, schema, subject, row, loose, writes>>

NoSchema == [entities |-> <<>>, links |-> <<>>, ready |-> FALSE]
NoName   == <<>>

(***************************************************************************)
(* Reserved names.                                                         *)
(***************************************************************************)
SystemEntityNames == {<<"group">>, <<"groupMember">>, <<"entityGroup">>, <<"relationship">>}

DocPrefix == "text_document"

HasDerivedDocPrefix(name) == Len(name) > 1 /\ name[1] = DocPrefix

EntityNameAvailable(name) == ~HasDerivedDocPrefix(name) /\ name \notin SystemEntityNames

MembershipName == <<"groups">>

FieldNamesAvailable(fields) == MembershipName \notin DOMAIN fields

AccessorNameAvailable(as) == as # MembershipName

GeneratedDocEntityName(parent, field) == <<DocPrefix>> \o parent \o field

(***************************************************************************)
(* One declaration.  A field is a record: derived marks a collaborative    *)
(* text (entity and scope are its options, NoName and "" when not given),  *)
(* otherwise type is its TypeBox type, default its default value or        *)
(* NoValue, and nullable says that its schema admits null.                 *)
(***************************************************************************)
NoValue == [type |-> "none", v |-> 0]

HasDefault(f) == f.default.type # "none"

WireFields(fields) == {k \in DOMAIN fields : ~fields[k].derived}

WellFormedFields(fields) ==
  \A k \in DOMAIN fields :
    IF fields[k].derived THEN ~HasDefault(fields[k]) ELSE ~fields[k].nullable

OrElse(given, otherwise) == IF given = "" THEN otherwise ELSE given

BuildEntityDef(name, fields, scope) ==
  LET entityScope == OrElse(scope, "field") IN
  [name    |-> name,
   scope   |-> entityScope,
   fields  |-> [k \in WireFields(fields) |->
                  [type |-> fields[k].type, default |-> fields[k].default]],
   derived |-> [k \in DOMAIN fields \ WireFields(fields) |->
                  [entity |-> fields[k].entity,
                   scope  |-> OrElse(fields[k].scope, entityScope)]]]

DefineEntity(d) ==
  /\ ~schema.ready
  /\ \A i \in DOMAIN defs : defs[i].name # d.name
  /\ EntityNameAvailable(d.name)
  /\ FieldNamesAvailable(d.fields)
  /\ WellFormedFields(d.fields)
  /\ defs' = Append(defs, BuildEntityDef(d.name, d.fields, d.scope))
  /\ UNCHANGED <<rels, schema, subject, row, loose, writes>>

RelationshipDef(source, target, as, kind) ==
  [source |-> source, target |-> target, as |-> as, kind |-> kind]

DefineRelationship(l) ==
  /\ ~schema.ready
  /\ \E i, j \in DOMAIN defs : defs[i].name = l.source /\ defs[j].name = l.target
  /\ AccessorNameAvailable(l.as)
  /\ LET r == RelationshipDef(l.source, l.target, l.as, "plain")
     IN  r \notin Range(rels) /\ rels' = Append(rels, r)
  /\ UNCHANGED <<defs, schema, subject, row, loose, writes>>

(***************************************************************************)
(* defineSchema: expandDerivedFields, then seedRegistry.                   *)
(***************************************************************************)
DocField == [type |-> "runs", default |-> NoValue]

BuildTextDocumentEntity(name, scope) ==
  [name |-> name, scope |-> scope, fields |-> (<<"content">> :> DocField), derived |-> <<>>]

SystemEntity(name) == [name |-> name, scope |-> "field", fields |-> <<>>, derived |-> <<>>]

\* The derived fields in the order the loops visit them.
DerivedFields(es) ==
  FlattenSeq([i \in DOMAIN es |->
    LET fs == SetToSeq(DOMAIN es[i].derived)
    IN  [j \in DOMAIN fs |-> [entity |-> es[i], field |-> fs[j]]]])

DocNameOf(f) ==
  LET marker == f.entity.derived[f.field]
  IN  IF marker.entity = NoName THEN GeneratedDocEntityName(f.entity.name, f.field)
      ELSE marker.entity

\* Two derived fields may not expand to one generated name.
OwnerClash(acc, f) ==
  /\ f.entity.derived[f.field].entity = NoName
  /\ DocNameOf(f) \in DOMAIN acc.owners
  /\ acc.owners[DocNameOf(f)] # <<f.entity.name, f.field>>

ExpandField(acc, f) ==
  LET marker   == f.entity.derived[f.field]
      explicit == marker.entity # NoName
      docName  == DocNameOf(f)
      held     == docName \in DOMAIN acc.entities
  IN  IF \/ acc.failed
         \/ \E r \in Range(acc.rels) : r.source = f.entity.name /\ r.as = f.field
         \/ explicit /\ ~EntityNameAvailable(marker.entity)
         \/ OwnerClash(acc, f)
         \/ held /\ acc.entities[docName].scope # marker.scope
         \/ ~AccessorNameAvailable(f.field)
      THEN [acc EXCEPT !.failed = TRUE]
      ELSE [failed   |-> FALSE,
            owners   |-> IF explicit THEN acc.owners
                         ELSE (docName :> <<f.entity.name, f.field>>) @@ acc.owners,
            entities |-> IF held THEN acc.entities
                         ELSE (docName :> BuildTextDocumentEntity(docName, marker.scope))
                                @@ acc.entities,
            rels     |-> Append(acc.rels, RelationshipDef(f.entity.name, docName, f.field,
                                                          "collaborative-text"))]

ExpandDerivedFields(es) ==
  FoldLeft(ExpandField,
           [failed   |-> FALSE,
            owners   |-> <<>>,
            entities |-> [n \in {es[i].name : i \in DOMAIN es} |->
                            es[CHOOSE i \in DOMAIN es : es[i].name = n]],
            rels     |-> rels],
           DerivedFields(es))

\* Each user entity is registered over the system ones, by name; a later
\* registration of a name replaces an earlier one.
SeedEntities(entities) == entities @@ [n \in SystemEntityNames |-> SystemEntity(n)]

EntitiesAvailable(entities) ==
  \A n \in DOMAIN entities : HasDerivedDocPrefix(n) \/ EntityNameAvailable(n)

EndpointsRegistered(r, entities) == {r.source, r.target} \subseteq DOMAIN entities

\* The registry keys a relationship by (source, accessor): the last one wins.
RegisterRelationship(links, r) == (<<r.source, r.as>> :> r) @@ links

SeedLinks(table) == FoldLeft(RegisterRelationship, <<>>, table)

DefineSchema(chosen) ==
  LET es       == SelectSeq(defs, LAMBDA d : d.name \in chosen)
      expanded == ExpandDerivedFields(es)
      entities == SeedEntities(expanded.entities)
  IN  /\ ~schema.ready
      /\ ~expanded.failed
      /\ EntitiesAvailable(expanded.entities)
      /\ \A r \in Range(expanded.rels) :
           EndpointsRegistered(r, entities) /\ AccessorNameAvailable(r.as)
      /\ schema' = [entities |-> entities, links |-> SeedLinks(expanded.rels), ready |-> TRUE]
      /\ UNCHANGED <<defs, rels, subject, row, loose, writes>>

(***************************************************************************)
(* Typed writes: create and patch validate a payload against the entity's  *)
(* shape.  unset is no value: it is left out of the check and, on a        *)
(* create, satisfies a required field; null is always refused.             *)
(***************************************************************************)
Present(f) == {k \in DOMAIN f : f[k].type # "unset"}

\* A map value once the entries marked unset are left out.
StripUnsetEntries(value) ==
  IF value.type # "map" THEN value
  ELSE [value EXCEPT !.v = [k \in Present(value.v) |-> value.v[k]]]

FitsType(type, value) ==
  IF type = "flags"
  THEN value.type = "map" /\ \A k \in DOMAIN value.v : value.v[k].type = "string"
  ELSE value.type = type

ValidPayload(def, payload, partial) ==
  /\ DOMAIN payload \subseteq DOMAIN def.fields
  /\ \A k \in Present(payload) :
       FitsType(def.fields[k].type, StripUnsetEntries(payload[k]))
  /\ partial \/ \A k \in DOMAIN def.fields : HasDefault(def.fields[k]) \/ k \in DOMAIN payload

\* What the stored fields become: unset clears, a map merges entry by entry.
Stored(before, payload) ==
  LET cleared == {k \in DOMAIN payload : payload[k].type = "unset"}
      merged(k) ==
        IF payload[k].type # "map" THEN payload[k]
        ELSE LET held == IF k \in DOMAIN before /\ before[k].type = "map"
                         THEN before[k].v ELSE <<>>
                 gone == DOMAIN payload[k].v \ Present(payload[k].v)
                 all  == StripUnsetEntries(payload[k]).v @@ held
             IN  [type |-> "map", v |-> [e \in DOMAIN all \ gone |-> all[e]]]
  IN  [k \in (DOMAIN before \cup DOMAIN payload) \ cleared |->
         IF k \in DOMAIN payload THEN merged(k) ELSE before[k]]

\* A patch replaces what an untyped write stored, but a map is merged into what it finds.
StillLoose(payload) ==
  {k \in loose : k \notin DOMAIN payload \/ payload[k].type = "map"}

Create(name, payload) ==
  /\ schema.ready /\ subject = NoName /\ writes < MaxWrites
  /\ name \in DOMAIN schema.entities \ SystemEntityNames
  /\ ValidPayload(schema.entities[name], payload, FALSE)
  /\ subject' = name
  /\ row' = Stored(<<>>, payload)
  /\ writes' = writes + 1
  /\ UNCHANGED <<defs, rels, schema, loose>>

\* Mutant: a patch is checked for its field names only, as an action on the wire is.
PatchUnchecked(payload) ==
  /\ subject # NoName /\ writes < MaxWrites
  /\ DOMAIN payload \subseteq DOMAIN schema.entities[subject].fields
  /\ row' = Stored(row, payload)
  /\ loose' = StillLoose(payload)
  /\ writes' = writes + 1
  /\ UNCHANGED <<defs, rels, schema, subject>>

Patch(payload) ==
  /\ subject # NoName /\ writes < MaxWrites
  /\ ValidPayload(schema.entities[subject], payload, TRUE)
  /\ row' = Stored(row, payload)
  /\ loose' = StillLoose(payload)
  /\ writes' = writes + 1
  /\ UNCHANGED <<defs, rels, schema, subject>>

\* An action handed to client.write() directly is checked for its field
\* names only: the wire envelope carries no types.
ValidAction(fields) == DOMAIN fields \subseteq DOMAIN schema.entities[subject].fields

Write(fields) ==
  /\ subject # NoName /\ writes < MaxWrites
  /\ \A k \in DOMAIN fields : fields[k].type \notin {"null", "unset"}
  /\ ValidAction(fields)
  /\ row' = Stored(row, fields)
  /\ loose' = loose \cup DOMAIN fields
  /\ writes' = writes + 1
  /\ UNCHANGED <<defs, rels, schema, subject>>

(***************************************************************************)
(* Reading the row back, and the filters that select it.                   *)
(***************************************************************************)
ReadDefault(field) == schema.entities[subject].fields[field].default

Projected(field) == IF field \in DOMAIN row THEN row[field] ELSE ReadDefault(field)

ValidFilter(filter) ==
  \A i \in DOMAIN filter : DOMAIN filter[i] \subseteq DOMAIN schema.entities[subject].fields

FilterWarnings(filter) ==
  LET named(isNull) == UNION {{k \in DOMAIN filter[i] : (filter[i][k].type = "null") = isNull}
                                : i \in DOMAIN filter}
  IN  {k \in named(FALSE) \ named(TRUE) : HasDefault(schema.entities[subject].fields[k])}

SrInit ==
  /\ defs = <<>> /\ rels = <<>>
  /\ schema = NoSchema
  /\ subject = NoName /\ row = <<>> /\ loose = {} /\ writes = 0

SrNext ==
  \/ \E d \in Decls : DefineEntity(d)
  \/ \E l \in Links : DefineRelationship(l)
  \/ \E chosen \in SUBSET {defs[i].name : i \in DOMAIN defs} : DefineSchema(chosen)
  \/ \E name \in DOMAIN schema.entities, p \in Payloads : Create(name, p)
  \/ \E p \in Payloads : Patch(p) \/ Write(p)

SrSpec == SrInit /\ [][SrNext]_srVars

(***************************************************************************)
(* Properties.                                                             *)
(***************************************************************************)
\* Every accessor of a finished schema leads to an entity it registered.
EndpointsResolve ==
  \A key \in DOMAIN schema.links :
    /\ {schema.links[key].source, schema.links[key].target} \subseteq DOMAIN schema.entities
    /\ schema.links[key].as # MembershipName

\* A collaborative-text field keeps its own accessor, and what it leads to
\* has the conflict scope the field declares.
BodiesReached ==
  \A n \in DOMAIN schema.entities : \A f \in DOMAIN schema.entities[n].derived :
    /\ <<n, f>> \in DOMAIN schema.links
    /\ schema.links[<<n, f>>].kind = "collaborative-text"
    /\ schema.entities[schema.links[<<n, f>>].target].scope
         = schema.entities[n].derived[f].scope

\* A generated document belongs to one field.
BodiesDistinct ==
  \A n, m \in DOMAIN schema.entities :
    \A f \in DOMAIN schema.entities[n].derived, g \in DOMAIN schema.entities[m].derived :
      /\ <<n, f>> # <<m, g>>
      /\ schema.entities[n].derived[f].entity = NoName
      => schema.links[<<n, f>>].target # schema.links[<<m, g>>].target

\* The system entities are the SDK's own.
SystemEntitiesKept ==
  \A n \in SystemEntityNames : schema.entities[n] = SystemEntity(n)

(* A schema that defineSchema accepts is whole, whatever the application   *)
(* declared and in whatever order: every accessor resolves, every derived  *)
(* body has its relationship and a document of its scope that no other     *)
(* field's generated name aliases, and no system entity was replaced       *)
(* (schema.ts expandDerivedFields and seedRegistry).                       *)
SchemaResolves ==
  schema.ready => EndpointsResolve /\ BodiesReached /\ BodiesDistinct /\ SystemEntitiesKept

\* A stored value fits its field's type, unless an untyped write stored it.
StoredFits ==
  \A k \in DOMAIN row :
    /\ k \in DOMAIN schema.entities[subject].fields
    /\ k \notin loose => FitsType(schema.entities[subject].fields[k].type, row[k])

\* The row reads as a match: every term of some group agrees with what a
\* reader sees.
ReadsAsMatch(filter) ==
  \E i \in DOMAIN filter : \A k \in DOMAIN filter[i] :
    filter[i][k].type # "null" /\ Projected(k) = filter[i][k]

\* The filter selects the row: it looks at stored values only.
Selects(filter) ==
  \/ filter = <<>>
  \/ \E i \in DOMAIN filter : \A k \in DOMAIN filter[i] :
       IF filter[i][k].type = "null" THEN k \notin DOMAIN row
       ELSE k \in DOMAIN row /\ row[k] = filter[i][k]

HasNullTerm(filter) ==
  \E i \in DOMAIN filter : \E k \in DOMAIN filter[i] : filter[i][k].type = "null"

(* However creates, patches and clears follow one another, a row holds     *)
(* only declared fields with values of their type, so what a reader sees   *)
(* is its shape; and a filter without a null term that passes over a row   *)
(* which reads as a match always earns a warning naming an absent field    *)
(* (entity-registry.ts validatePayload, filterWarnings).                   *)
RowsReadAsDeclared ==
  subject # NoName =>
    /\ StoredFits
    /\ \A filter \in Filters :
         ValidFilter(filter) /\ ~HasNullTerm(filter) /\ ReadsAsMatch(filter) /\ ~Selects(filter)
           => \E k \in FilterWarnings(filter) : k \notin DOMAIN row
=============================================================================
