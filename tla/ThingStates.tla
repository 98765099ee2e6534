---------------------------- MODULE ThingStates ----------------------------
(***************************************************************************)
(* The state machine of a Thing (core/state_machine.py) and the operations *)
(* it guards: actions (core/actions.py), writes of one property            *)
(* (core/property.py) and of several (core/meta.py).                       *)
(*                                                                         *)
(* set_state() assigns, pushes a change event of the property `state`, and *)
(* calls the callbacks of the state it left and of the one it entered; a   *)
(* callback may call set_state() again or raise.  Each thread has a stack  *)
(* of such calls.  There is one Thing of each class; the descriptors of    *)
(* properties and actions belong to the classes and are shared with the    *)
(* subclasses that inherit them.                                           *)
(***************************************************************************)
EXTENDS Naturals, Sequences, SequencesExt, FiniteSets

CONSTANTS
    Classes,        \* classes of Things, one Thing each
    Threads,
    ServedBy,       \* [Threads -> Classes] the Thing a thread works on
    Objects,        \* properties and actions with a descriptor
    States,
    InitialState,
    Machines,       \* [Classes -> [Objects -> SUBSET States]] {} for not listed
    Machineless,    \* classes with state_machine = None
    PlainEnum,      \* the states are members of an Enum that is no StrEnum
    OnEnter, OnExit, \* [States -> States \cup {"nothing", "fragile"}] callbacks
    Unchecked,      \* writeMultipleProperties is among the operations
    MaxMoves,
    None

StatesAssumption ==
    /\ ServedBy \in [Threads -> Classes]
    /\ InitialState \in States /\ None \notin States
    /\ Machines \in [Classes -> [Objects -> SUBSET States]]
    /\ {OnEnter, OnExit} \subseteq [States -> States \cup {"nothing", "fragile"}]
    /\ Machineless \subseteq Classes /\ MaxMoves \in Nat
    /\ {PlainEnum, Unchecked} \subseteq BOOLEAN

\* The queued scheduler runs the operations of a Thing in one thread.
OneThreadEach == \A t, u \in Threads : ServedBy[t] = ServedBy[u] => t = u

VARIABLES
    created,    \* Things that were created
    listed,     \* descriptor.state of each object, None for any state
    kept,       \* _state_machine_state, None before the first transition
    stack,      \* each thread's calls of set_state(), innermost first
    news,       \* change events of the property `state`
    trail,      \* history: the states entered, in order
    entered, left,  \* history: the callbacks that were called
    wrote,      \* history: [thing, object, state] of each property write
    failed,     \* history: a call of set_state() raised
    moves

vars == <<created, listed, kept, stack, news, trail, entered, left, wrote, failed, moves>>
history == <<trail, entered, left, failed>>
Frames == [to : States \cup {"unknown"}, from : States \cup {None},
           at : {"compare", "assign", "push", "exit", "enter", "return"}]

TypeOK ==
    /\ created \subseteq Classes
    /\ listed \in [Objects -> (SUBSET States) \cup {None}]
    /\ kept \in [Classes -> States \cup {None}]
    /\ stack \in [Threads -> Seq(Frames)]
    /\ {trail, entered, left} \subseteq [Classes -> Seq(States)]
    /\ news \in [Classes -> Seq(States \cup {None})]
    /\ wrote \subseteq [thing : Classes, object : Objects, state : States]
    /\ failed \subseteq Classes /\ moves \in 0..MaxMoves

Init ==
    /\ created = {} /\ listed = [o \in Objects |-> None]
    /\ kept = [c \in Classes |-> None] /\ stack = [t \in Threads |-> <<>>]
    /\ news = [c \in Classes |-> <<>>] /\ trail = news /\ entered = news /\ left = news
    /\ wrote = {} /\ failed = {} /\ moves = 0

\* The state a reader of the code would say the Thing is in.
StateOf(c) == IF kept[c] = None THEN InitialState ELSE kept[c]

\* get_state() returns the initial state as it was given: a member of a plain
\* Enum equals none of the names that the machine and set_state() work with.
Nameless(c) == kept[c] = None /\ PlainEnum
CurrentState(c) == IF Nameless(c) THEN None ELSE StateOf(c)

(***************************************************************************)
(* Creation: validate() of the class's machine extends the shared          *)
(* descriptors.                                                            *)
(***************************************************************************)
Create(c) ==
    /\ c \notin created
    /\ created' = created \cup {c}
    /\ listed' = [o \in Objects |->
         IF c \in Machineless \/ Machines[c][o] = {} THEN listed[o]
         ELSE Machines[c][o] \cup IF listed[o] = None THEN {} ELSE listed[o]]
    /\ UNCHANGED <<kept, stack, news, history, wrote, moves>>

(***************************************************************************)
(* Operations.  A Thing without a machine refuses what a list guards.      *)
(***************************************************************************)
Allowed(c, o) ==
    \/ listed[o] = None
    \/ c \notin Machineless /\ ~Nameless(c) /\ StateOf(c) \in listed[o]

Free(t) == ServedBy[t] \in created /\ stack[t] = <<>>

\* invokeAction: an action whose body is one call of set_state().
InvokeAction(t, o, s) ==
    /\ Free(t) /\ Allowed(ServedBy[t], o) /\ ServedBy[t] \notin Machineless
    /\ moves < MaxMoves /\ moves' = moves + 1
    /\ stack' = [stack EXCEPT ![t] = <<[to |-> s, from |-> None, at |-> "compare"]>>]
    /\ UNCHANGED <<created, listed, kept, news, history, wrote>>

Written(t, o) ==
    LET c == ServedBy[t] IN
    /\ wrote' = wrote \cup {[thing |-> c, object |-> o, state |-> StateOf(c)]}
    /\ UNCHANGED <<created, listed, kept, stack, news, history, moves>>

\* writeProperty goes through external_set(), which asks the state machine.
WriteProperty(t, o) == Free(t) /\ Allowed(ServedBy[t], o) /\ Written(t, o)

\* writeMultipleProperties sets the attribute.
WriteMultiple(t, o) == Unchecked /\ Free(t) /\ Written(t, o)

(***************************************************************************)
(* set_state(), one step for each access to the state and each callback.   *)
(***************************************************************************)
At(t, l) == stack[t] # <<>> /\ Head(stack[t]).at = l
Goto(t, l) == stack' = [stack EXCEPT ![t] = <<[Head(@) EXCEPT !.at = l]>> \o Tail(@)]

\* An exception leaves every call of the stack.
Raise(t) ==
    /\ stack' = [stack EXCEPT ![t] = <<>>]
    /\ failed' = failed \cup {ServedBy[t]}

Compare(t) ==
    LET c == ServedBy[t]  to == Head(stack[t]).to IN
    /\ At(t, "compare")
    /\ \/ to \notin States /\ Raise(t)
       \/ /\ to = StateOf(c) /\ ~Nameless(c)
          /\ Goto(t, "return") /\ UNCHANGED failed
       \/ /\ to \in States /\ (to # StateOf(c) \/ Nameless(c))
          /\ Goto(t, "assign") /\ UNCHANGED failed
    /\ UNCHANGED <<created, listed, kept, news, trail, entered, left, wrote, moves>>

\* `next` and `previous` as set_state() works them out, kept in the frame.
AssignFrom(t, previous) ==
    LET c == ServedBy[t]  to == Head(stack[t]).to IN
    /\ At(t, "assign")
    /\ kept' = [kept EXCEPT ![c] = to]
    /\ trail' = [trail EXCEPT ![c] = Append(@, to)]
    /\ stack' = [stack EXCEPT ![t] =
                   <<[to |-> to, from |-> previous, at |-> "push"]>> \o Tail(@)]
    /\ UNCHANGED <<created, listed, news, entered, left, wrote, failed, moves>>

Assign(t) == AssignFrom(t, CurrentState(ServedBy[t]))

\* Reading the observable property `state` pushes it if it is another than
\* at the last read.
Observed(c) ==
    news' = [news EXCEPT ![c] = IF @ # <<>> /\ Last(@) = CurrentState(c) THEN @
                                ELSE Append(@, CurrentState(c))]

\* readProperty of `state`.
ReadState(t) ==
    /\ Free(t) /\ Observed(ServedBy[t])
    /\ UNCHANGED <<created, listed, kept, stack, history, wrote, moves>>

\* Mutant: the event is left to the next read of the property.
PushLater(t) ==
    /\ At(t, "push") /\ Goto(t, "exit")
    /\ UNCHANGED <<created, listed, kept, news, history, wrote, moves>>

Push(t) ==
    /\ At(t, "push") /\ Goto(t, "exit") /\ Observed(ServedBy[t])
    /\ UNCHANGED <<created, listed, kept, history, wrote, moves>>

\* A callback is called: it returns, raises, or calls set_state().
Call(t, does, next) ==
    \/ does \in {"nothing", "fragile"} /\ Goto(t, next) /\ UNCHANGED <<failed, moves>>
    \/ does = "fragile" /\ Raise(t) /\ UNCHANGED moves
    \/ /\ does \in States
       /\ moves < MaxMoves /\ moves' = moves + 1
       /\ stack' = [stack EXCEPT ![t] =
            <<[to |-> does, from |-> None, at |-> "compare"],
              [Head(@) EXCEPT !.at = next]>> \o Tail(@)]
       /\ UNCHANGED failed

Exit(t) ==
    LET c == ServedBy[t]  s == Head(stack[t]).from IN
    /\ At(t, "exit")
    /\ IF s = None THEN Goto(t, "enter") /\ UNCHANGED <<left, failed, moves>>
       ELSE Call(t, OnExit[s], "enter") /\ left' = [left EXCEPT ![c] = Append(@, s)]
    /\ UNCHANGED <<created, listed, kept, news, trail, entered, wrote>>

Enter(t) ==
    LET c == ServedBy[t]  s == Head(stack[t]).to IN
    /\ At(t, "enter")
    /\ Call(t, OnEnter[s], "return") /\ entered' = [entered EXCEPT ![c] = Append(@, s)]
    /\ UNCHANGED <<created, listed, kept, news, trail, left, wrote>>

Return(t) ==
    /\ At(t, "return") /\ stack' = [stack EXCEPT ![t] = Tail(@)]
    /\ UNCHANGED <<created, listed, kept, news, history, wrote, moves>>

Next ==
    \/ \E c \in Classes : Create(c)
    \/ \E t \in Threads :
         \/ \E o \in Objects : \/ WriteProperty(t, o) \/ WriteMultiple(t, o)
                               \/ \E s \in States \cup {"unknown"} : InvokeAction(t, o, s)
         \/ ReadState(t) \/ Compare(t) \/ Assign(t) \/ Push(t) \/ Exit(t) \/ Enter(t) \/ Return(t)

Spec == Init /\ [][Next]_vars

(***************************************************************************)
(* Properties.                                                             *)
(***************************************************************************)
Quiet(c) == c \notin failed /\ \A t \in Threads : ServedBy[t] = c => stack[t] = <<>>
Times(s, run) == Cardinality({i \in DOMAIN run : run[i] = s})

\* Whatever callbacks set the state in turn, once all calls have returned each
\* state was left by a callback as often as it was left, and entered as often
\* as it was entered (set_state(), state_machine.py:330).
CallbacksMatch ==
    \A c \in Classes : Quiet(c) => \A s \in States :
        /\ Times(s, entered[c]) = Times(s, trail[c])
        /\ Times(s, left[c]) =
             Times(s, <<InitialState>> \o trail[c]) - (IF s = StateOf(c) THEN 1 ELSE 0)

\* The change events of `state` are the states the Thing went through, in
\* their order, although callbacks change the state while another change is
\* under way (state_machine.py:363).
NewsIsTrail ==
    \A c \in Classes : Quiet(c) => news[c] \in {trail[c], <<InitialState>> \o trail[c]}

\* The callbacks that ran last belong to the state the Thing is in.  Not so if
\* an on_exit callback sets the state (state_machine.py:368).
LastEntered ==
    \A c \in Classes : Quiet(c) /\ entered[c] # <<>> => Last(entered[c]) = StateOf(c)

\* A property the machine lists is written in the listed states only
\* ("state of state machine where property write can be executed",
\* property.py:114), whichever operation writes it.
WrittenWhereListed ==
    \A w \in wrote : Machines[w.thing][w.object] # {} => w.state \in Machines[w.thing][w.object]

\* A Thing may always do what its machine lists for the state it is in
\* (state_machine.py:137).
ListedIsAllowed ==
    \A c \in created \ Machineless, o \in Objects :
        StateOf(c) \in Machines[c][o] => Allowed(c, o)

\* What no machine of its class lists is allowed in every state, whatever
\* other classes there are (state_machine.py:205).
UnlistedIsAllowed ==
    \A c \in created, o \in Objects : Machines[c][o] = {} => Allowed(c, o)
=============================================================================
