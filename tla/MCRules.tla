------------------------------ MODULE MCRules ------------------------------
(* The modules of the rules that every peer must agree on, side by side, one at a  *)
(* time: `part` names the one that runs, and the variables of the others rest.     *)
EXTENDS TextDocument, TLC

CONSTANTS None, Me     \* of Requests: no id, the actor

VARIABLES part,   \* the module that runs
  ask, given, answer, start, view, request, sent, defs, rels, schema, subject, row,
  loose, writes

\* Every buffered patch against a window of two missed actions, every merge of three map
\* values of two keys, and every three losing writes over four subjects.
Decide == INSTANCE ConflictPass WITH
  Keys <- {"k1", "k2"}, Subjects <- {"s1", "s2", "s3", "s4"}, Scalar <- "title",
  Table <- "content", MaxLosers <- 3

\* Every request of up to two Updates, and another request after it.
Ask == INSTANCE Requests WITH MaxUpdates <- 2, MaxRequests <- 1

\* Entities whose generated document names can clash, explicit documents of both scopes,
\* and each refused shape.
Unstated == [type |-> "none", v |-> 0]
Nulled   == [type |-> "null", v |-> 0]
LeftOut  == [type |-> "unset", v |-> 0]

Wire(type, default, nullable) ==
  [derived |-> FALSE, type |-> type, default |-> default, nullable |-> nullable,
   entity |-> <<>>, scope |-> ""]

Body(entity, scope, default) ==
  [derived |-> TRUE, type |-> "never", default |-> default, nullable |-> FALSE,
   entity |-> entity, scope |-> scope]

S(n) == [type |-> "string", v |-> n]
N(n) == [type |-> "number", v |-> n]
M(f) == [type |-> "map", v |-> f]

Decl(name, scope, fields) == [name |-> name, scope |-> scope, fields |-> fields]

MCDecls ==
  {Decl(<<"a">>, "", (<<"r">> :> Wire("string", Unstated, FALSE))
                       @@ (<<"d">> :> Wire("string", S(1), FALSE))
                       @@ (<<"m">> :> Wire("flags", Unstated, FALSE))
                       @@ (<<"x", "y">> :> Body(<<>>, "", Unstated))),
   Decl(<<"a", "x">>, "", <<"y">> :> Body(<<>>, "", Unstated)),
   Decl(<<"b">>, "entity", <<"n">> :> Body(<<"doc">>, "", Unstated)),
   Decl(<<"c">>, "field", <<"n">> :> Body(<<"doc">>, "", Unstated)),
   Decl(<<"e">>, "", <<"n">> :> Body(<<"group">>, "", Unstated)),
   Decl(<<"group">>, "", <<>>),
   Decl(<<"text_document", "a">>, "", <<>>),
   Decl(<<"f">>, "", <<"groups">> :> Wire("string", Unstated, FALSE)),
   Decl(<<"g">>, "", <<"z">> :> Wire("string", Unstated, TRUE)),
   Decl(<<"h">>, "", <<"z">> :> Body(<<>>, "", S(1)))}

MCLinks ==
  {[source |-> s, target |-> t, as |-> as]
     : s \in {<<"a">>}, t \in {<<"b">>, <<"c">>}, as \in {<<"x", "y">>, <<"w">>, <<"groups">>}}

MCPayloads ==
  {<<"r">> :> S(1), <<"r">> :> N(1), <<"r">> :> LeftOut, <<"r">> :> Nulled,
   <<"d">> :> S(2), <<"d">> :> LeftOut, <<"q">> :> S(1),
   (<<"r">> :> LeftOut) @@ (<<"m">> :> M("k" :> S(1))),
   (<<"r">> :> S(2)) @@ (<<"m">> :> LeftOut),
   <<"m">> :> M("l" :> S(1)), <<"m">> :> M("k" :> LeftOut),
   <<"m">> :> M("k" :> Nulled), <<"m">> :> M("k" :> N(1))}

MCFilters ==
  {<<>>, <<(<<"d">> :> S(1))>>, <<(<<"d">> :> Nulled)>>, <<(<<"q">> :> S(1))>>,
   <<(<<"d">> :> S(1)), (<<"d">> :> Nulled)>>,
   <<(<<"r">> :> S(1)) @@ (<<"d">> :> S(1)), (<<"r">> :> S(2))>>}

Declare == INSTANCE SchemaRegistry WITH
  Decls <- MCDecls, Links <- MCLinks, Payloads <- MCPayloads, Filters <- MCFilters,
  MaxWrites <- 3

textVars == <<peer, changes, log>>
decisionVars == <<ask, given, answer>>
requestVars == <<start, view, request, sent>>
schemaVars == <<defs, rels, schema, subject, row, loose, writes>>
allVars == <<part, textVars, decisionVars, requestVars, schemaVars>>

Off == "off"
textOff ==
  /\ peer = Off /\ changes = Off /\ log = Off
decisionOff ==
  /\ ask = Off /\ given = Off /\ answer = Off
requestOff ==
  /\ start = Off /\ view = Off /\ request = Off /\ sent = Off
schemaOff ==
  /\ defs = Off /\ rels = Off /\ schema = Off /\ subject = Off /\ row = Off
  /\ loose = Off /\ writes = Off

SumInit ==
  \/ part = "text" /\ Init /\ decisionOff /\ requestOff /\ schemaOff
  \/ part = "decisions" /\ Decide!Init /\ textOff /\ requestOff /\ schemaOff
  \/ part = "requests" /\ Ask!RqInit /\ textOff /\ decisionOff /\ schemaOff
  \/ part = "schema" /\ Declare!SrInit /\ textOff /\ decisionOff /\ requestOff

SumNext ==
  \/ part = "text" /\ Next /\ UNCHANGED <<part, decisionVars, requestVars, schemaVars>>
  \/ part = "decisions" /\ Decide!Next
     /\ UNCHANGED <<part, textVars, requestVars, schemaVars>>
  \/ part = "requests" /\ Ask!RqNext
     /\ UNCHANGED <<part, textVars, decisionVars, schemaVars>>
  \/ part = "schema" /\ Declare!SrNext
     /\ UNCHANGED <<part, textVars, decisionVars, requestVars>>

SumSpec == SumInit /\ [][SumNext]_allVars

-----------------------------------------------------------------------------
\* The position index covers the tree, an author keeps the text it typed, and whoever
\* receives its actions has its runs.
DocumentsHold ==
  part = "text" => IndexCoversTree /\ AuthorKeepsText /\ ReceiversHaveRuns

\* A write that lost is reported, the verdict agrees with the merge, sharding a map does
\* not change its merge, and losing writes that share a subject are resolved together.
DecisionsAgree ==
  part = "decisions" =>
    /\ Decide!LossIsReported /\ Decide!VerdictIsMerge
    /\ Decide!ShardedMergeConverges /\ Decide!GroupsAreConnected

\* What the server accepts leaves nothing without a group or a capable member and stays
\* within the actor's grants; the client's own pass refuses only what the server refuses.
RequestsAreGuarded ==
  part = "requests" =>
    /\ Ask!NothingOrphaned /\ Ask!NoReachBeyondGrant
    /\ Ask!PassNeverOverRefuses /\ Ask!CanAgrees

\* A schema resolves every name it lets an application declare, and rows written through
\* the typed verbs read as declared.
SchemasHold == part = "schema" => Declare!SchemaResolves /\ Declare!RowsReadAsDeclared
=============================================================================
