----------------------------- MODULE HTTPRoutes -----------------------------
(***************************************************************************)
(* The routes of an HTTP server (server/http/server.py), the forms of the  *)
(* Thing Description made from them (server/http/services.py) and how a    *)
(* request at a route is dispatched (server/http/handlers.py).             *)
(*                                                                         *)
(* Properties, actions and events (objects) are routed by hand, of a Thing *)
(* or of a class whose Thing comes later, and all the others when their    *)
(* Thing is added.  Tornado serves a path by its oldest rule.              *)
(***************************************************************************)
EXTENDS Naturals, Sequences, SequencesExt, FiniteSets

CONSTANTS
    Things, ClassOf,     \* [Things -> classes]
    Members,             \* [classes -> sequence of their objects]
    Kind,                \* [objects -> {"property", "action", "event"}]
    DefinedIn,           \* [objects -> classes] class in whose body it stands
    ReadOnly, Observable, \* sets of properties
    ByHand,              \* [object, at, how, methods] a user may route
    ThingModel,          \* the action get_thing_model, a member of all
    MaxByHand, None

Objects == DOMAIN Kind
Methods == {"GET", "POST", "PUT", "DELETE", "PATCH"}
OwnObjects(t) == ToSet(Members[ClassOf[t]])

RoutesAssumption ==
    /\ DOMAIN ClassOf = Things /\ None \notin Things /\ MaxByHand \in Nat
    /\ Kind \in [Objects -> {"property", "action", "event"}] /\ Kind[ThingModel] = "action"
    /\ Objects \cap {"by-hand", "properties", "description"} = {}
    /\ \A t \in Things : Members[ClassOf[t]] \in Seq(Objects) /\ ThingModel \in OwnObjects(t)
    /\ \A t \in Things, o \in Objects : DefinedIn[o] = ClassOf[t] => o \in OwnObjects(t)
    /\ \A h \in ByHand : h.object \in Objects /\ h.methods \subseteq Methods

VARIABLES
    rules,      \* Tornado's rules, oldest first
    pending,    \* rules of a class, until one of its Things is added
    things,     \* the Things the server serves
    broken,     \* Things that add_thing() raised for
    byHand      \* history: calls of add_property(), add_action(), add_event()

vars == <<rules, pending, things, broken, byHand>>

(* The path of a rule follows the ID of its Thing; a rule in waiting has   *)
(* thing None.                                                             *)
Rule(path, object, handler, methods, thing) ==
    [path |-> path, object |-> object, handler |-> handler, methods |-> methods, thing |-> thing]

TypeOK ==
    /\ \A r \in ToSet(rules) : r.thing \in Things
    /\ \A r \in ToSet(rules) \cup ToSet(pending) :
         /\ r.object \in Objects \cup {"description", "properties"}
         /\ r.methods \subseteq Methods
         /\ r.handler \in {"property", "action", "event", "description", "properties"}
    /\ \A r \in ToSet(pending) : r.thing = None
    /\ things \subseteq Things /\ broken \subseteq Things /\ byHand \in 0..MaxByHand

Init == rules = <<>> /\ pending = <<>> /\ things = {} /\ broken = {} /\ byHand = 0

(***************************************************************************)
(* add_property(), add_action(), add_event() by hand.                      *)
(***************************************************************************)
\* The methods of a property are for reading, writing and deleting.
PropertyMethods == {{"GET"}, {"GET", "PUT"}, {"GET", "POST"},
                    {"GET", "PUT", "DELETE"}, {"GET", "POST", "DELETE"}}

Accepted(o, how, methods) ==
    CASE how = "property" -> Kind[o] = "property" /\ methods \in PropertyMethods
      [] how = "action" -> Kind[o] = "action"
      [] how = "event" -> (Kind[o] = "event" \/ o \in Observable) /\ methods = {"GET"}

\* add_rule(): an affordance of a Thing is routed below the Thing's ID, one of
\* a class waits.
AddRule(r) ==
    IF r.thing = None THEN pending' = Append(pending, r) /\ UNCHANGED rules
    ELSE rules' = Append(rules, r) /\ UNCHANGED pending

RouteByHand(o, at, how, methods, thing) ==
    /\ byHand < MaxByHand /\ byHand' = byHand + 1
    /\ Accepted(o, how, methods)
    /\ thing # None => o \in OwnObjects(thing)
    /\ AddRule(Rule(<<"by-hand", at>>, o, how, methods, thing))
    /\ UNCHANGED <<things, broken>>

\* What is routed by hand fits: one object has a path, and is given a handler
\* of its kind, which has the methods.
HandRoutesFit ==
    /\ \A h, k \in ByHand : h.at = k.at => h.object = k.object
    /\ \A h \in ByHand : h.how = Kind[h.object] /\ (h.how = "action" => "PATCH" \notin h.methods)

(***************************************************************************)
(* add_thing()                                                             *)
(***************************************************************************)
\* What is in S, in the order of s.
Chosen(s, S) == FlattenSeq([i \in DOMAIN s |-> IF s[i] \in S THEN <<s[i]>> ELSE <<>>])

\* Mutant: rules of other classes are taken as well.
ResolveAllRules(t) == ToSet(pending)

\* _resolve_rules(): the rules of the Thing's class, but not those of objects
\* that the class inherits, become rules of the Thing.
ResolveRules(t) == {r \in ToSet(pending) : DefinedIn[r.object] = ClassOf[t]}

StillPending(t) == Chosen(pending, ToSet(pending) \ ResolveRules(t))
Resolved(t) ==
    LET mine == Chosen(pending, ResolveRules(t))
    IN rules \o [i \in DOMAIN mine |-> [mine[i] EXCEPT !.thing = t]]

HasRule(s, t, o) == \E r \in ToSet(s) : r.object = o /\ r.thing = t

\* `in self` compares with the rules in waiting as well: InteractionMetadata's
\* __eq__ raises for one of the same kind, which has no thing_id yet.
Unequal(s, o) == \E r \in ToSet(s) : Kind[r.object] = Kind[o]

\* adapt_route(): names differ after it if they did before.
ChangeEvent(path) == Append(path, "change-event")
DefaultRules(t, o) ==
    CASE o = ThingModel -> <<>>
      [] o # ThingModel /\ Kind[o] = "property" ->
           LET methods == IF o \in ReadOnly THEN {"GET"} ELSE {"GET", "PUT"}
               own == Rule(<<o>>, o, "property", methods, t)
               changes == Rule(ChangeEvent(<<o>>), o, "event", {"GET"}, t)
           IN IF o \in Observable THEN <<own, changes>> ELSE <<own>>
      [] o # ThingModel /\ Kind[o] = "action" -> <<Rule(<<o>>, o, "action", {"POST"}, t)>>
      [] OTHER -> <<Rule(<<o>>, o, "event", {"GET"}, t)>>

OfKind(t, k) == Chosen(Members[ClassOf[t]], {o \in Objects : Kind[o] = k})
InOrderOfKind(t) == OfKind(t, "property") \o OfKind(t, "action") \o OfKind(t, "event")

\* add_interaction_affordances(): it raises at the first object that has no
\* rule and is compared with a rule in waiting.
Raises(t, o) == ~HasRule(Resolved(t), t, o) /\ Unequal(StillPending(t), o)
Added(t) ==
    LET os == InOrderOfKind(t)
    IN FlattenSeq([i \in DOMAIN os |->
          IF HasRule(Resolved(t), t, os[i]) \/ \E j \in 1..i : Raises(t, os[j]) THEN <<>>
          ELSE DefaultRules(t, os[i])])

\* The Thing Model, the Thing Description and all the properties at once.
AddResources(t) ==
    <<Rule(<<"resources", "wot-tm">>, ThingModel, "action", {"GET"}, t),
      Rule(<<"resources", "wot-td">>, "description", "description", {"GET"}, t),
      Rule(<<"properties">>, "properties", "properties", {"GET", "PUT", "PATCH"}, t)>>

AddThing(t) ==
    /\ t \notin things \cup broken
    /\ pending' = StillPending(t)
    /\ \/ /\ \E o \in OwnObjects(t) : Raises(t, o)
          /\ rules' = Resolved(t) \o Added(t)
          /\ broken' = broken \cup {t} /\ UNCHANGED things
       \/ /\ ~\E o \in OwnObjects(t) : Raises(t, o)
          /\ rules' = Resolved(t) \o Added(t) \o AddResources(t)
          /\ things' = things \cup {t} /\ UNCHANGED broken
    /\ UNCHANGED byHand

Next ==
    \/ \E h \in ByHand, t \in Things \cup {None} : RouteByHand(h.object, h.at, h.how, h.methods, t)
    \/ \E t \in Things : AddThing(t)

Spec == Init /\ [][Next]_vars

(***************************************************************************)
(* The Thing Description: add_properties(), add_actions(), add_events(),   *)
(* add_top_level_forms().                                                  *)
(***************************************************************************)
Form(t, path, method, op, o) == [thing |-> t, path |-> path, method |-> method, op |-> op, object |-> o]

\* get_href_for_affordance() and get_injected_dependencies(): the oldest rule.
RuleOf(t, o) == {i \in DOMAIN rules : rules[i].object = o /\ rules[i].thing = t}
OldestRule(t, o) == rules[CHOOSE i \in RuleOf(t, o) : \A j \in RuleOf(t, o) : i <= j]

PropertyForms(t, o, r) ==
    {Form(t, r.path, m, IF m = "GET" THEN "read" ELSE "write", o) :
        m \in {m \in r.methods \ {"DELETE"} : o \in ReadOnly => m = "GET"}}

FormsOf(t, o) ==
    LET r == OldestRule(t, o) IN
    IF RuleOf(t, o) = {} THEN {}     \* get_href_for_affordance() raises
    ELSE CASE Kind[o] = "property" ->
                PropertyForms(t, o, r) \cup
                  IF o \notin Observable THEN {}
                  ELSE {Form(t, ChangeEvent(r.path), "GET", "subscribe", o)}
           [] Kind[o] = "action" -> {Form(t, r.path, m, "invoke", o) : m \in r.methods}
           [] Kind[o] = "event" -> {Form(t, r.path, m, "subscribe", o) : m \in r.methods}

TopLevelForms(t) ==
    {Form(t, <<"properties">>, m, IF m = "GET" THEN "read" ELSE "write", "properties") :
        m \in {"GET", "PUT", "PATCH"}}

Description(t) == TopLevelForms(t) \cup UNION {FormsOf(t, o) : o \in OwnObjects(t)}

(***************************************************************************)
(* What a request does: the methods the handlers have, is_method_allowed() *)
(* and the operation they run.                                             *)
(***************************************************************************)
Runs(r, method) ==
    CASE r.handler = "event" -> IF method = "GET" THEN "subscribe" ELSE "refused"
      [] r.handler = "description" -> IF method = "GET" THEN "describe" ELSE "refused"
      [] method \notin r.methods -> "refused"
      [] r.handler = "properties" -> IF method = "GET" THEN "read" ELSE "write"
      [] r.handler \in {"property", "action"} /\ method = "PATCH" -> "refused"
      [] r.handler = "action" -> "invoke"
      [] r.handler = "property" ->
           CASE method = "GET" -> "read" [] method = "DELETE" -> "delete" [] OTHER -> "write"

RulesAt(t, path) == {i \in DOMAIN rules : rules[i].thing = t /\ rules[i].path = path}

Answered(f) ==
    LET at == RulesAt(f.thing, f.path)
        r == rules[CHOOSE i \in at : \A j \in at : i <= j] IN
    at # {} /\ r.object = f.object /\ Runs(r, f.method) = f.op

(***************************************************************************)
(* Properties.                                                             *)
(***************************************************************************)
RoutedByHand(t, o) == \E i \in RuleOf(t, o) : rules[i].path[1] = "by-hand"

\* What a Thing Description offers is served: the path and the method of each
\* form reach a handler that runs the form's operation on the form's object,
\* whatever was routed by hand before or after, for Things and for classes
\* (services.py:77).  Forms of change events are spared for a property that is
\* routed by hand: nobody adds its route (server.py:575).
FormsAreServed ==
    \A t \in things : \A f \in Description(t) :
        Answered(f) \/ (f.op = "subscribe" /\ Kind[f.object] = "property" /\ RoutedByHand(t, f.object))

\* Once a Thing is served every object of it has a route, and only its own
\* objects have one below its ID, although rules of classes waited for it
\* (server.py:688).
OwnObjectsRouted ==
    /\ \A t \in things : \A o \in OwnObjects(t) : RuleOf(t, o) # {}
    /\ \A r \in ToSet(rules) : r.object \in
         OwnObjects(r.thing) \cup {"description", "properties"}

\* Adding a Thing works whatever was routed before.  Not so while a rule of
\* another class waits: the comparison with it raises (metadata.py:563).
EveryThingIsAdded == broken = {}

\* A path that is routed again is served by the new rule ("this method will
\* replace existing rules", server.py:458).  Tornado takes the oldest.
NewestRuleServes ==
    \A i, j \in DOMAIN rules :
        i < j /\ rules[i].thing = rules[j].thing /\ rules[i].path = rules[j].path => rules[i] = rules[j]

\* Everything the Thing Description offers, change events of properties that
\* were routed by hand too.
EveryFormIsServed == \A t \in things : \A f \in Description(t) : Answered(f)
=============================================================================
