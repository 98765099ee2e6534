--------------------------- MODULE PropertyTables ---------------------------
(***************************************************************************)
(* Properties stored in a database (storage/sqlalchemydb.py and            *)
(* storage/mongodb.py), also of several Things in one database.  A row     *)
(* holds an encoded value; the serializer that encodes may be another one  *)
(* when the process is started again.  SQL rows are labelled with a        *)
(* content type, are selected and written in two steps of a session, and   *)
(* can be collected in a batch; MongoDB updates one document at a time.    *)
(***************************************************************************)
EXTENDS Naturals, FiniteSets, FiniteSetsExt

CONSTANTS
    Backend,        \* "sql" or "mongo"
    Things, IdOf,   \* [Things -> IDs]
    Properties,
    PropertiesOf,   \* [Things -> sets of properties]
    CommitOnly,     \* db_commit without db_persist: stored, never loaded
    Values, Default,
    Encodings,      \* what the serializers may be: [Properties -> formats]
    KnownFormats,   \* the sets of formats that may be registered
    Nested,         \* a batch may be begun within a batch
    MaxStarts, MaxWrites,
    None

TablesAssumption ==
    /\ Backend \in {"sql", "mongo"} /\ DOMAIN IdOf = Things /\ Default \in Values
    /\ PropertiesOf \in [Things -> SUBSET Properties] /\ CommitOnly \subseteq Properties
    /\ Encodings \subseteq [Properties -> UNION KnownFormats] /\ {MaxStarts, MaxWrites} \subseteq Nat
    /\ None \notin Values /\ None \notin [Properties -> Values \cup {None}]

Formats == UNION KnownFormats
NoValues == [p \in Properties |-> None]

VARIABLES
    rows,       \* set of rows
    serializer, \* for_object() of each property, in this process
    known,      \* formats registered as content types in this process
    value,      \* values of each Thing, None for a Thing that is not created
    session,    \* what the thread of each Thing is doing
    batch,      \* values collected by batch_db_commit, None outside of one
    written,    \* history: value each write that returned left in the database
    broken,     \* history: Things the creation or a write of which raised
    starts, writes

process == <<serializer, known, starts>>
vars == <<rows, process, value, session, batch, written, broken, writes>>

\* Rows are found by ID and class in SQL, by ID in MongoDB.
Key(t) == IF Backend = "sql" THEN t ELSE IdOf[t]
Keys == {Key(t) : t \in Things}
Rows == [key : Keys, name : Properties, value : Values, format : Formats]
Idle == [at |-> "idle", todo |-> {}, found |-> {}, each |-> FALSE]

TypeOK ==
    /\ rows \subseteq Rows
    /\ serializer \in Encodings /\ known \in KnownFormats
    /\ value \in [Things -> [Properties -> Values \cup {None}] \cup {None}]
    /\ \A t \in Things : session[t].at \in {"idle", "selected"} /\ session[t].todo \subseteq Properties
    /\ batch \in [Things -> [Properties -> Values \cup {None}] \cup {None}]
    /\ written \in [Keys \X Properties -> Values \cup {None}]
    /\ broken \subseteq Things /\ starts \in 0..MaxStarts /\ writes \in 0..MaxWrites

Init ==
    /\ rows = {} /\ serializer \in Encodings /\ known \in KnownFormats
    /\ value = [t \in Things |-> None] /\ session = [t \in Things |-> Idle]
    /\ batch = [t \in Things |-> None]
    /\ written = [k \in Keys \X Properties |-> None]
    /\ broken = {} /\ starts = 0 /\ writes = 0

Of(t) == {r \in rows : r.key = Key(t)}
Named(t, p) == {r \in Of(t) : r.name = p}

\* The serializer for a row: of its content type if that is registered, else
\* of the property.  MongoDB has no content types.
ForRow(r) == IF Backend = "sql" /\ r.format \in known THEN r.format ELSE serializer[r.name]
Decodes(r) == ForRow(r) = r.format

(***************************************************************************)
(* Creation: what is missing is inserted, the others are loaded.           *)
(***************************************************************************)
Row(t, p, v) == [key |-> Key(t), name |-> p, value |-> v, format |-> serializer[p]]

\* In SQL the column of the name is unique, whoever the row belongs to.
Clash(t, new) == Backend = "sql" /\ \E r \in rows \ Of(t), n \in new : r.name = n

Loaded(t) == PropertiesOf[t] \ CommitOnly
Missing(t) == {p \in Loaded(t) : Named(t, p) = {}}

Create(t) ==
    /\ value[t] = None /\ t \notin broken
    /\ (\A r \in Of(t) : Decodes(r)) /\ ~Clash(t, Missing(t))
    /\ rows' = rows \cup {Row(t, p, Default) : p \in Missing(t)}
    /\ value' = [value EXCEPT ![t] = [p \in Properties |->
                    IF p \in Loaded(t) \ Missing(t) THEN (CHOOSE r \in Named(t, p) : TRUE).value ELSE Default]]
    /\ written' = [k \in DOMAIN written |->
                    IF k[1] = Key(t) /\ k[2] \in Missing(t) THEN Default ELSE written[k]]
    /\ UNCHANGED <<process, session, batch, broken, writes>>

\* A row that does not decode, or the name of another Thing's row, raises.
CreateRaises(t) ==
    /\ value[t] = None /\ t \notin broken
    /\ ~((\A r \in Of(t) : Decodes(r)) /\ ~Clash(t, Missing(t)))
    /\ broken' = broken \cup {t}
    /\ UNCHANGED <<rows, process, value, session, batch, written, writes>>

(***************************************************************************)
(* Writes.  The value is set, then stored.                                 *)
(***************************************************************************)
Select(t, names, each) == session' = [session EXCEPT ![t] =
    [at |-> "selected", todo |-> names, found |-> {p \in names : Named(t, p) # {}}, each |-> each]]

Write(t, p, v) ==
    /\ value[t] # None /\ session[t] = Idle /\ writes < MaxWrites /\ writes' = writes + 1
    /\ value' = [value EXCEPT ![t][p] = v]
    /\ IF batch[t] # None
       THEN batch' = [batch EXCEPT ![t][p] = v] /\ UNCHANGED session
       ELSE Select(t, {p}, FALSE) /\ UNCHANGED batch
    /\ UNCHANGED <<rows, process, written, broken>>

\* A row that is there keeps its serializer, in SQL; the others are new.
Stored(t, p) ==
    LET old == Named(t, p)  v == value[t][p] IN
    IF p \in session[t].found /\ old # {}
    THEN {[Row(t, p, v) EXCEPT !.format = IF Backend = "sql" THEN ForRow(r) ELSE @] : r \in old}
    ELSE {Row(t, p, v)}

\* One commit of what the session selected, or one for each name.
Batches(t) == IF session[t].each THEN {{p} : p \in session[t].todo} ELSE {session[t].todo}
Fails(t, now) == Clash(t, now \ session[t].found)
After(t, now) == IF session[t].todo = now THEN Idle ELSE [session[t] EXCEPT !.todo = @ \ now]

Commit(t) ==
    /\ session[t].at = "selected"
    /\ \E now \in Batches(t) :
         /\ ~Fails(t, now)
         /\ rows' = {r \in rows : r.key # Key(t) \/ r.name \notin now}
                    \cup UNION {Stored(t, p) : p \in now}
         /\ written' = [k \in DOMAIN written |->
                          IF k[1] = Key(t) /\ k[2] \in now THEN value[t][k[2]] ELSE written[k]]
         /\ session' = [session EXCEPT ![t] = After(t, now)]
    /\ UNCHANGED <<process, value, batch, broken, writes>>

CommitRaises(t) ==
    /\ session[t].at = "selected"
    /\ \E now \in Batches(t) :
         /\ Fails(t, now)
         /\ session' = [session EXCEPT ![t] = After(t, now)] /\ broken' = broken \cup {t}
    /\ UNCHANGED <<rows, process, value, batch, written, writes>>

(***************************************************************************)
(* batch_db_commit, of SQL: writes of a thread are collected and stored    *)
(* with one commit, one by one if the block raised.  A second one within   *)
(* begins with nothing.                                                    *)
(***************************************************************************)
EnterBatch(t) ==
    /\ Backend = "sql" /\ value[t] # None /\ session[t] = Idle
    /\ batch[t] = None \/ Nested
    /\ batch' = [batch EXCEPT ![t] = NoValues]
    /\ UNCHANGED <<rows, process, value, session, written, broken, writes>>

\* Mutant: what was collected is dropped when the block raised.
LeaveBatchDropping(t, raised) ==
    /\ batch[t] # None /\ session[t] = Idle /\ batch' = [batch EXCEPT ![t] = None]
    /\ LET names == {p \in Properties : batch[t][p] # None} IN
         IF names = {} \/ raised THEN UNCHANGED session ELSE Select(t, names, raised)
    /\ UNCHANGED <<rows, process, value, written, broken, writes>>

LeaveBatch(t, raised) ==
    LET names == {p \in Properties : batch[t][p] # None} IN
    /\ batch[t] # None /\ session[t] = Idle
    /\ batch' = [batch EXCEPT ![t] = None]
    /\ IF names = {} THEN UNCHANGED session ELSE Select(t, names, raised)
    /\ UNCHANGED <<rows, process, value, written, broken, writes>>

(***************************************************************************)
(* The process is started again, with other serializers perhaps.           *)
(***************************************************************************)
Restart ==
    /\ starts < MaxStarts /\ starts' = starts + 1
    /\ serializer' \in Encodings /\ known' \in KnownFormats
    /\ value' = [t \in Things |-> None] /\ session' = [t \in Things |-> Idle]
    /\ batch' = [t \in Things |-> None] /\ broken' = {}
    /\ UNCHANGED <<rows, written, writes>>

Next ==
    \/ \E t \in Things :
         \/ Create(t) \/ CreateRaises(t) \/ Commit(t) \/ CommitRaises(t)
         \/ EnterBatch(t) \/ \E raised \in BOOLEAN : LeaveBatch(t, raised)
         \/ \E p \in PropertiesOf[t], v \in Values : Write(t, p, v)
    \/ Restart

Spec == Init /\ [][Next]_vars

(***************************************************************************)
(* Properties.                                                             *)
(***************************************************************************)
\* There is one row for a name and Thing ("multiple properties with same name
\* found ... Impossible actually", sqlalchemydb.py:204), and it is the value of
\* the last write that was stored, whatever process encoded it.
RowsAreLastStored ==
    \A k \in DOMAIN written :
        LET found == {r \in rows : r.key = k[1] /\ r.name = k[2]} IN
        /\ Cardinality(found) = IF written[k] = None THEN 0 ELSE 1
        /\ \A r \in found : r.value = written[k]

\* A Thing that has no write under way holds what its rows hold: what was
\* loaded, stored alone or collected in a batch.  Not so after a write that
\* raised, and for two Things with the rows of one ID in MongoDB.
QuietIsStored ==
    \A t \in Things : \A p \in Loaded(t) :
        /\ value[t] # None /\ session[t] = Idle /\ batch[t] = None /\ t \notin broken
        /\ \A u \in Things \ {t} : Key(u) # Key(t)
        => written[<<Key(t), p>>] = value[t][p]

\* The row of a property that does not decode is skipped ("could not
\* deserialize property ..., skipping this property", meta.py:644).
OtherRowsLoad == \A t \in Things : (\E r \in Of(t) : Decodes(r)) => t \notin broken

\* Things with an ID and a class of their own can share a database; in SQL not
\* if they have a property of one name (models.py:41).
ThingsShare == \A t \in Things : value[t] = None => ~Clash(t, Missing(t))
=============================================================================
