------------------------- MODULE SerializerRegistry -------------------------
(***************************************************************************)
(* The registries of adapters (injection.py): serializers, imported when   *)
(* they are first asked for, found by name, by content type or by the      *)
(* object whose data they encode; schema validators and storage backends,  *)
(* of which the one registered last is to be preferred.  What is sent      *)
(* carries a content type that the receiver looks its serializer up with.  *)
(***************************************************************************)
EXTENDS Naturals, Sequences, SequencesExt

CONSTANTS
    Modules,        \* [names -> formats] built-in serializers, "default" too
    Registered,     \* content_type_names at the start: pairs <<format, name>>
    Registrations,  \* pairs <<format, name>> for register()
    Objects,        \* names of properties, actions and events
    Things, ClassOf, \* [Things -> classes]
    Threads,
    Validators,     \* names of schema validators
    MaxRegistrations,
    Flags,          \* pairs <<flag, name>> for StorageBackends.register()
    None

\* The content type of a format is written like the format itself.
Formats == Range(Modules) \cup {r[1] : r \in Registrations}
Names == DOMAIN Modules \cup {r[2] : r \in Registrations}
Owners == Things \cup Range(ClassOf)

RegistryAssumption ==
    /\ {"default", "json"} \subseteq DOMAIN Modules /\ Modules["default"] = "json" /\ Modules["json"] = "json"
    /\ <<"json", "json">> \in Registered
    /\ Registered \subseteq {<<Modules[n], n>> : n \in DOMAIN Modules}
    /\ DOMAIN ClassOf = Things /\ MaxRegistrations \in Nat /\ None \notin Names \cup Formats

\* No name is given to serializers of two content types: install() replaces
\* what the name stood for, and the content type found by it decodes no more.
OneFormatEach ==
    LET given == Registrations \cup {<<Modules[n], n>> : n \in DOMAIN Modules} IN
    \A r, q \in given : r[2] = q[2] => r[1] = q[1]

VARIABLES
    attribute,  \* serializer found under each name, None before the import
    imports,    \* the name each thread is importing, None for none
    typeNames,  \* content_type_names
    serializerOf, \* object_serializer_map: formats
    typeOf,     \* object_content_type_map
    touched,    \* history: something was registered since the last reset()
    registrations, \* their number, for the bound
    sent,       \* what was encoded last, how, and the label it got
    predicates, \* validators, those asked last first
    flags,      \* flags of storage backends, those asked last first
    order       \* history: validators and backends in order of registration

precedence == <<predicates, flags, order>>
vars == <<attribute, imports, typeNames, serializerOf, typeOf, touched, registrations, sent, precedence>>

Keys == Objects \cup Owners
Nothing == [k \in Owners \X Keys |-> None]
Pristine == [f \in Formats |->
    IF \E n \in Names : <<f, n>> \in Registered THEN CHOOSE n \in Names : <<f, n>> \in Registered
    ELSE None]

Payloads == [by : {"reply", "event", "push"}, object : Objects, format : Formats, label : Formats]

TypeOK ==
    /\ attribute \in [Names -> Formats \cup {None}]
    /\ imports \in [Threads -> Names \cup {None}]
    /\ typeNames \in [Formats -> Names \cup {None}]
    /\ {serializerOf, typeOf} \subseteq [Owners \X Keys -> Formats \cup {None}]
    /\ touched \in BOOLEAN /\ registrations \in 0..MaxRegistrations
    /\ sent \in Payloads \cup {None}
    /\ predicates \in Seq(Validators) /\ flags \in Seq(Flags)
    /\ order \in Seq(Validators) \X Seq(Flags)

Init ==
    /\ attribute = [n \in Names |-> None] /\ imports = [t \in Threads |-> None]
    /\ typeNames = Pristine /\ serializerOf = Nothing /\ typeOf = Nothing
    /\ touched = FALSE /\ registrations = 0 /\ sent = None
    /\ predicates = <<>> /\ flags = <<>> /\ order = <<<<>>, <<>>>>

(***************************************************************************)
(* Serializers by name.                                                    *)
(***************************************************************************)
\* Asking for a name that no attribute has yet imports the module...
Import(t, n) ==
    /\ n \in DOMAIN Modules /\ attribute[n] = None /\ imports[t] = None
    /\ imports' = [imports EXCEPT ![t] = n]
    /\ UNCHANGED <<attribute, typeNames, serializerOf, typeOf, touched, registrations, sent,
                   precedence>>

\* ... and makes what it found the attribute, whatever is there by now.
Install(t) ==
    /\ imports[t] # None
    /\ attribute' = [attribute EXCEPT ![imports[t]] = Modules[imports[t]]]
    /\ imports' = [imports EXCEPT ![t] = None]
    /\ UNCHANGED <<typeNames, serializerOf, typeOf, touched, registrations, sent, precedence>>

\* What a name gives, after the import if need be; None is an AttributeError.
Named(n) ==
    IF attribute[n] # None \/ n \notin DOMAIN Modules THEN attribute[n] ELSE Modules[n]

Counted == registrations < MaxRegistrations /\ registrations' = registrations + 1

\* register(): a content type that is there is refused unless `override`.
Register(f, n, override) ==
    /\ <<f, n>> \in Registrations /\ (typeNames[f] = None \/ override)
    /\ typeNames' = [typeNames EXCEPT ![f] = n]
    /\ attribute' = [attribute EXCEPT ![n] = f] /\ Counted /\ touched' = TRUE
    /\ UNCHANGED <<imports, serializerOf, typeOf, sent, precedence>>

\* reset(): all maps, the attributes, and the tables as they were.
\* Mutant: the table of content types is left.
ResetMapsOnly ==
    /\ serializerOf' = Nothing /\ typeOf' = Nothing /\ attribute' = [n \in Names |-> None]
    /\ touched' = FALSE /\ sent' = None /\ UNCHANGED <<typeNames, imports, registrations, precedence>>

Reset ==
    /\ serializerOf' = Nothing /\ typeOf' = Nothing /\ typeNames' = Pristine
    /\ attribute' = [n \in Names |-> None] /\ touched' = FALSE /\ sent' = None
    /\ UNCHANGED <<imports, registrations, precedence>>

(***************************************************************************)
(* Serializers by object: of the Thing, else of its class, else the        *)
(* default.  An existing serializer may be registered, or a content type.  *)
(***************************************************************************)
RegisterForObject(w, o, f) ==
    /\ typeNames[f] # None /\ serializerOf' = [serializerOf EXCEPT ![<<w, o>>] = f]
    /\ Counted /\ touched' = TRUE
    /\ UNCHANGED <<attribute, imports, typeNames, typeOf, sent, precedence>>

RegisterContentType(w, o, f) ==
    /\ typeOf' = [typeOf EXCEPT ![<<w, o>>] = f] /\ Counted /\ touched' = TRUE
    /\ UNCHANGED <<attribute, imports, typeNames, serializerOf, sent, precedence>>

\* content_types.get(): None for a content type nobody registered.
OfType(f) == IF typeNames[f] = None THEN None ELSE Named(typeNames[f])

ForObject(thing, o) ==
    LET found(w) == serializerOf[<<w, o>>] # None \/ typeOf[<<w, o>>] # None
        of(w) == IF serializerOf[<<w, o>>] # None THEN serializerOf[<<w, o>>]
                 ELSE OfType(typeOf[<<w, o>>])
    IN  IF found(thing) THEN of(thing)
        ELSE IF found(ClassOf[thing]) THEN of(ClassOf[thing]) ELSE Named("default")

\* This one looks at content types only.
ContentTypeForObject(thing, o) ==
    IF typeOf[<<thing, o>>] # None THEN typeOf[<<thing, o>>]
    ELSE IF typeOf[<<ClassOf[thing], o>>] # None THEN typeOf[<<ClassOf[thing], o>>]
    ELSE Named("default")

(***************************************************************************)
(* What is sent: replies, events over HTTP and MQTT, events over ZMQ.      *)
(***************************************************************************)
\* A payload that is given a serializer and no content type is called JSON.
Label(by, thing, o) == IF by = "event" THEN "json" ELSE ForObject(thing, o)

Send(by, thing, o) ==
    LET f == ForObject(thing, o) IN
    /\ f # None
    /\ sent' = [by |-> by, object |-> o, format |-> f, label |-> Label(by, thing, o)]
    /\ UNCHANGED <<attribute, imports, typeNames, serializerOf, typeOf, touched, registrations,
                   precedence>>

(***************************************************************************)
(* Validators and backends.  The lists begin with the one asked last.      *)
(***************************************************************************)
\* A key of a dict is there once.
Without(s, gone) ==
    IF \E i \in DOMAIN s : s[i] \in gone THEN RemoveAt(s, CHOOSE i \in DOMAIN s : s[i] \in gone) ELSE s

RegisterValidator(v) ==
    /\ Counted /\ predicates' = Append(Without(predicates, {v}), v)
    /\ order' = <<Append(Without(order[1], {v}), v), order[2]>>
    /\ UNCHANGED <<attribute, imports, typeNames, serializerOf, typeOf, touched, sent, flags>>

\* The flag of the backend's name is taken out, not the one registered; a
\* flag that is there keeps its place.
RegisterBackend(r) ==
    LET kept == Without(flags, {x \in Flags : x[1] = r[2]}) IN
    /\ Counted /\ flags' = IF \E i \in DOMAIN kept : kept[i][1] = r[1]
                THEN [i \in DOMAIN kept |-> IF kept[i][1] = r[1] THEN r ELSE kept[i]]
                ELSE Append(kept, r)
    /\ order' = <<order[1], Append(Without(order[2], {x \in Flags : x[1] = r[1]}), r)>>
    /\ UNCHANGED <<attribute, imports, typeNames, serializerOf, typeOf, touched, sent, predicates>>

Next ==
    \/ \E t \in Threads : Install(t) \/ \E n \in Names : Import(t, n)
    \/ \E r \in Registrations, override \in BOOLEAN : Register(r[1], r[2], override)
    \/ Reset
    \/ \E w \in Owners, f \in Formats :
         \/ \E o \in Objects : RegisterForObject(w, o, f) \/ RegisterContentType(w, o, f)
         \/ RegisterForObject(w, w, f)  \* a serializer for a Thing or its class
    \/ \E by \in {"reply", "event", "push"}, thing \in Things, o \in Objects : Send(by, thing, o)
    \/ \E v \in Validators : RegisterValidator(v)
    \/ \E r \in Flags : RegisterBackend(r)

Spec == Init /\ [][Next]_vars

(***************************************************************************)
(* Properties.                                                             *)
(***************************************************************************)
Decodes(p) == OfType(p.label) = p.format

\* A reply, and an event over HTTP or MQTT, is decoded with the serializer it
\* was encoded with, whatever was registered for the object, its Thing or its
\* class, and while serializers are still imported
\* (format_return_value(), operations.py:360; pubsub.py:291).
LabelDecodes == sent # None /\ sent.by # "event" => Decodes(sent)

\* So is an event over ZMQ: a registered serializer serves "automatic
\* deserialization on client side" (injection.py:491).
EventsDecode == sent # None /\ sent.by = "event" => Decodes(sent)

\* After reset() the registry is as it was imported, also when a thread was in
\* the middle of an import (forget_adapters(), injection.py:110).
PristineAfterReset ==
    ~touched => /\ typeNames = Pristine
                /\ \A n \in Names : attribute[n] # None => n \in DOMAIN Modules /\ attribute[n] = Modules[n]

\* "A validator registered later is selected for a schema in preference to one
\* registered earlier" (injection.py:157).
LaterPreferred == predicates = order[1]

\* The same of storage backends, which are also asked in reverse
\* (injection.py:953); not so for a flag that is registered again (:933).
LaterBackendPreferred == flags = order[2]

\* The serializer a Thing is created with is the "default serializer to be
\* used for serializing and deserializing data" (thing.py:115).
ThingSerializerIsUsed ==
    \A thing \in Things, o \in Objects :
        serializerOf[<<thing, thing>>] # None /\ serializerOf[<<thing, o>>] = None
        => ForObject(thing, o) = serializerOf[<<thing, thing>>]
=============================================================================
