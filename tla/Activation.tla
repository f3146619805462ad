----------------------------- MODULE Activation -----------------------------
(***************************************************************************)
(* The activation flow of ConfigurationManage (tests/configurationmanage.h *)
(* and .cpp): the platform delivers an activation, the car reports its     *)
(* result, and save_activations_result() turns both into rows of a SQLite  *)
(* file.  No call opens a transaction, so every statement commits alone:   *)
(* todo holds the statements of the current call that are still to run,    *)
(* and a call may end after any of them, by an exception or by a crash.    *)
(* The file survives; todo does not.                                       *)
(***************************************************************************)
EXTENDS Naturals, Sequences, SequencesExt

CONSTANTS Traces,      \* the activation IDs, unique in table activation
          Plan,        \* manyGroups of each: groups of funcsInGroup, with their keys
          Results,     \* manyGroups of the results the car may report, for any trace
          Keys,        \* the values of keys.key
          Funcs,       \* the values of funcsInGroup.funcID
          FuncStates,  \* what a result may say of the state of a function
          MaxRef,      \* bound: no result is saved once a key is counted so often
          None         \* no row, no function

\* A function of a plan: its funcID and its keys.
FuncEntries == [funcID : Funcs, keys : Seq(Keys)]

\* A function of a result: besides its state, what was done with which keys, and
\* whether the state of a key is "ok".  Nothing obliges a result to follow the plan.
FuncResults == [funcID : Funcs, state : FuncStates, action : {"activate", "deactivate"},
                keys : Seq([key : Keys, ok : BOOLEAN])]

ASSUME ActivationAssumption ==
    /\ Plan \in [Traces -> Seq(Seq(FuncEntries))]
    /\ Results \subseteq Seq(Seq(FuncResults))
    /\ MaxRef \in Nat
    /\ None \notin [state : {"inLine", "activated", "deactivate"}, ref : Nat]
    /\ None \notin FuncEntries \union FuncResults

VARIABLES activation,        \* of each trace: no row, res is null, or res is set
          funcsInGroup,      \* rows, by id
          depends,           \* the funcsInGroupID of the rows
          keys,              \* the row of each key
          funcsInGroup_key,  \* the rows, as pairs <<funcsInGroupID, key>>
          todo,              \* the statements the current call has still to run
          counted            \* history: traces whose keys were counted since
                             \* they were last delivered

vars == <<activation, funcsInGroup, depends, keys, funcsInGroup_key, todo, counted>>

KeyRow == [state : {"inLine", "activated", "deactivate"}, ref : Nat]

Statements ==
    [do : {"func", "depends"}, funcID : Funcs]
    \union [do : {"key", "link"}, funcID : Funcs, key : Keys]
    \union [do : {"result"}, trace : Traces]
    \union [do : {"state"}, funcID : Funcs, state : FuncStates]
    \union [do : {"ref"}, trace : Traces, key : Keys, action : {"activate", "deactivate"}]
    \union [do : {"undefined"}]

TypeOK ==
    /\ activation \in [Traces -> {"none", "pending", "submitted"}]
    /\ funcsInGroup \in Seq([funcID : Funcs, state : FuncStates \union {"inLine"}])
    /\ depends \subseteq DOMAIN funcsInGroup
    /\ keys \in [Keys -> KeyRow \union {None}]
    /\ funcsInGroup_key \subseteq (DOMAIN funcsInGroup) \X Keys
    /\ todo \in Seq(Statements)
    /\ counted \subseteq Traces

Init ==
    /\ activation = [a \in Traces |-> "none"]
    /\ funcsInGroup = <<>>
    /\ depends = {}
    /\ keys = [k \in Keys |-> None]
    /\ funcsInGroup_key = {}
    /\ todo = <<>>
    /\ counted = {}

Rows(id) == {i \in DOMAIN funcsInGroup : funcsInGroup[i].funcID = id}

-----------------------------------------------------------------------------
(* The statements of save_activations_result(). *)

\* Mutant: the link is only written along with the row of the key.
RecordKeyOnce(id, k) ==
    IF keys[k] = None THEN << [do |-> "key", funcID |-> id, key |-> k],
                              [do |-> "link", funcID |-> id, key |-> k] >>
                      ELSE <<>>

\* Mutant: the link is written before the row of the key.
RecordLinkFirst(id, k) == << [do |-> "link", funcID |-> id, key |-> k],
                             [do |-> "key", funcID |-> id, key |-> k] >>

RecordKey(id, k) == << [do |-> "key", funcID |-> id, key |-> k],
                       [do |-> "link", funcID |-> id, key |-> k] >>

\* Past the end of a vector anything is read: the call does not get beyond it.
Undefined == << [do |-> "undefined"] >>

RecordFunc(func) ==
    IF func = None THEN Undefined
    ELSE << [do |-> "func", funcID |-> func.funcID], [do |-> "depends", funcID |-> func.funcID] >>
         \o FlattenSeq([m \in DOMAIN func.keys |-> RecordKey(func.funcID, func.keys[m])])

\* The functions the loops over group i get to see.  They take funcs[i], where i
\* numbers the groups, in every turn of j; None stands for what is not there.
Visited(funcs, i) == [j \in DOMAIN funcs |-> IF i \in DOMAIN funcs THEN funcs[i] ELSE None]

\* The same loops run over the groups of the plan and over those of the result.
VisitedFuncs(groups) == FlattenSeq([i \in DOMAIN groups |-> Visited(groups[i], i)])

Recorded(a) ==
    FlattenSeq([n \in DOMAIN VisitedFuncs(Plan[a]) |-> RecordFunc(VisitedFuncs(Plan[a])[n])])

\* What the result says of a function: its state, and of each key that is "ok" what
\* was done with it.
Update(a, func) ==
    IF func = None THEN Undefined
    ELSE << [do |-> "state", funcID |-> func.funcID, state |-> func.state] >>
         \o FlattenSeq([m \in DOMAIN func.keys |->
                IF ~func.keys[m].ok THEN <<>>
                ELSE << [do |-> "ref", trace |-> a, key |-> func.keys[m].key,
                         action |-> func.action] >>])

Updated(a, result) ==
    FlattenSeq([n \in DOMAIN VisitedFuncs(result) |-> Update(a, VisitedFuncs(result)[n])])

\* Mutant: the result is saved when everything else is.
ResultLast(a, result) ==
    Recorded(a) \o Updated(a, result) \o << [do |-> "result", trace |-> a] >>

SaveStatements(a, result) ==
    Recorded(a) \o << [do |-> "result", trace |-> a] >> \o Updated(a, result)

-----------------------------------------------------------------------------
(* The calls. *)

Idle == todo = <<>>

\* update_activations_info(): INSERT OR REPLACE, so that res becomes null again.
Deliver(a) ==
    /\ Idle
    /\ activation' = [activation EXCEPT ![a] = "pending"]
    /\ counted' = counted \ {a}
    /\ UNCHANGED <<funcsInGroup, depends, keys, funcsInGroup_key, todo>>

\* save_activations_result(): throws before it writes if the trace is unknown.
Save(a, result) ==
    /\ Idle
    /\ activation[a] # "none"
    /\ \A k \in Keys : keys[k] # None => keys[k].ref <= MaxRef
    /\ todo' = SaveStatements(a, result)
    /\ UNCHANGED <<activation, funcsInGroup, depends, keys, funcsInGroup_key, counted>>

\* A statement throws or the process dies.
Interrupt ==
    /\ ~Idle
    /\ todo' = <<>>
    /\ UNCHANGED <<activation, funcsInGroup, depends, keys, funcsInGroup_key, counted>>

\* set_func_info(), public for tests: a single statement.
SetFuncInfo(id, state) ==
    /\ Idle
    /\ funcsInGroup' = [i \in DOMAIN funcsInGroup |->
           IF i \in Rows(id) THEN [funcsInGroup[i] EXCEPT !.state = state] ELSE funcsInGroup[i]]
    /\ UNCHANGED <<activation, depends, keys, funcsInGroup_key, todo, counted>>

-----------------------------------------------------------------------------
(* The statements. *)

Runs(kind) == ~Idle /\ Head(todo).do = kind /\ todo' = Tail(todo)

\* Mutant: the function is inserted without a look at the rows there are.
InsertAlways ==
    /\ Runs("func")
    /\ funcsInGroup' = Append(funcsInGroup, [funcID |-> Head(todo).funcID, state |-> "inLine"])
    /\ UNCHANGED <<activation, depends, keys, funcsInGroup_key, counted>>

\* A function that is known only gets a new expiry, and keeps its state.
WriteFunc ==
    /\ Runs("func")
    /\ funcsInGroup' = IF Rows(Head(todo).funcID) # {} THEN funcsInGroup
                       ELSE Append(funcsInGroup,
                                   [funcID |-> Head(todo).funcID, state |-> "inLine"])
    /\ UNCHANGED <<activation, depends, keys, funcsInGroup_key, counted>>

WriteDepends ==
    /\ Runs("depends")
    /\ depends' = depends \union Rows(Head(todo).funcID)
    /\ UNCHANGED <<activation, funcsInGroup, keys, funcsInGroup_key, counted>>

WriteKey ==
    /\ Runs("key")
    /\ keys' = [keys EXCEPT ![Head(todo).key] =
                   IF @ = None THEN [state |-> "inLine", ref |-> 0] ELSE @]
    /\ UNCHANGED <<activation, funcsInGroup, depends, funcsInGroup_key, counted>>

WriteLink ==
    /\ Runs("link")
    /\ funcsInGroup_key' = funcsInGroup_key \union (Rows(Head(todo).funcID) \X {Head(todo).key})
    /\ UNCHANGED <<activation, funcsInGroup, depends, keys, counted>>

WriteResult ==
    /\ Runs("result")
    /\ activation' = [activation EXCEPT ![Head(todo).trace] = "submitted"]
    /\ UNCHANGED <<funcsInGroup, depends, keys, funcsInGroup_key, counted>>

WriteState ==
    /\ Runs("state")
    /\ funcsInGroup' = [i \in DOMAIN funcsInGroup |->
           IF i \in Rows(Head(todo).funcID)
           THEN [funcsInGroup[i] EXCEPT !.state = Head(todo).state]
           ELSE funcsInGroup[i]]
    /\ UNCHANGED <<activation, depends, keys, funcsInGroup_key, counted>>

\* Mutant: the last deactivation forgets the state.
CountedUnlessZero(row, action) ==
    IF action = "activate" THEN [state |-> "activated", ref |-> row.ref + 1]
    ELSE IF row.ref > 1 THEN [state |-> "activated", ref |-> row.ref - 1]
    ELSE [row EXCEPT !.ref = 0]

\* Mutant: nothing keeps the count from going below zero.
CountedBelowZero(row, action) ==
    IF action = "activate" THEN [state |-> "activated", ref |-> row.ref + 1]
    ELSE [state |-> "deactivate", ref |-> row.ref - 1]

\* The row of a key after one more function was activated or deactivated with it.
Counted(row, action) ==
    IF action = "activate" THEN [state |-> "activated", ref |-> row.ref + 1]
    ELSE IF row.ref > 1 THEN [state |-> "activated", ref |-> row.ref - 1]
    ELSE [state |-> "deactivate", ref |-> 0]

\* Of a key without a row nothing is written.
WriteRef ==
    /\ Runs("ref")
    /\ LET s == Head(todo)
       IN  /\ keys' = [keys EXCEPT ![s.key] = IF @ = None THEN None ELSE Counted(@, s.action)]
           /\ counted' = IF keys[s.key] = None THEN counted ELSE counted \union {s.trace}
    /\ UNCHANGED <<activation, funcsInGroup, depends, funcsInGroup_key>>

Statement == \/ WriteFunc \/ WriteDepends \/ WriteKey \/ WriteLink
             \/ WriteResult \/ WriteState \/ WriteRef

Next == \/ \E a \in Traces : Deliver(a)
        \/ \E a \in Traces, result \in Results : Save(a, result)
        \/ \E id \in Funcs, state \in FuncStates : SetFuncInfo(id, state)
        \/ Statement
        \/ Interrupt

Spec == Init /\ [][Next]_vars

-----------------------------------------------------------------------------
(* What must hold, wherever calls were interrupted. *)

\* Check and insert never leave two rows for a function: the SELECT that reads the
\* id of a row back would throw from then on.
OneRowPerFunc ==
    \A i, j \in DOMAIN funcsInGroup :
        funcsInGroup[i].funcID = funcsInGroup[j].funcID => i = j

\* A link always leads to a key that has a row and to a function that some plan
\* gives that key, so that get_abnormal_funcs() can follow it.
LinksResolve ==
    \A link \in funcsInGroup_key :
        /\ keys[link[2]] # None
        /\ \E a \in Traces : \E i \in DOMAIN Plan[a] : \E j \in DOMAIN Plan[a][i] :
              /\ Plan[a][i][j].funcID = funcsInGroup[link[1]].funcID
              /\ \E m \in DOMAIN Plan[a][i][j].keys : Plan[a][i][j].keys[m] = link[2]

\* An activation that get_activations_info() reports as pending has no key counted
\* for it: after an interruption, saving its result again counts nothing twice.
PendingIsNotCounted ==
    \A a \in Traces : activation[a] = "pending" => a \notin counted

\* The functions of a plan that the loops come to.
RecordedFuncs(a) == Range(VisitedFuncs(Plan[a])) \ {None}

\* Once the result of an activation is saved, each function that was recorded is linked to
\* each of its keys, even if an earlier call was interrupted between the row of a key and
\* the link, or the key had its row from another function.
SubmittedIsLinked ==
    \A a \in Traces : activation[a] = "submitted" =>
        \A func \in RecordedFuncs(a) : \A m \in DOMAIN func.keys :
            \E link \in funcsInGroup_key : /\ funcsInGroup[link[1]].funcID = func.funcID
                                           /\ link[2] = func.keys[m]

\* A key is "activated" exactly while some function counts on it.
ActivatedIffCounted ==
    \A k \in Keys : keys[k] # None => (keys[k].state = "activated" <=> keys[k].ref > 0)

\* "Generate the func, key and group information from the data of table activation":
\* once a result is saved, every function of the activation has its row.
SubmittedIsRecorded ==
    \A a \in Traces : activation[a] = "submitted" =>
        \A i \in DOMAIN Plan[a] : \A j \in DOMAIN Plan[a][i] :
            Rows(Plan[a][i][j].funcID) # {}
=============================================================================
