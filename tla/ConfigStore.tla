---------------------------- MODULE ConfigStore ----------------------------
(***************************************************************************)
(* The tables of ConfigurationManage beside the activations: the serial    *)
(* number (global.seed), the accounts with their preferences, and the      *)
(* check lists with their results.                                         *)
(*                                                                         *)
(* Every operation changes its table with one statement, so that a crash   *)
(* or an exception leaves it done or not done.  The tables are in a file   *)
(* and survive a restart, except that create_tables() writes the row of    *)
(* table global anew.  One thread calls.                                   *)
(*                                                                         *)
(* A person is a user of the car, known by a tinyID and an auID that no    *)
(* other person has at the same time.  person records what they last told  *)
(* the store, and issued, last and calls what the program last did.        *)
(***************************************************************************)
EXTENDS Integers, Sequences, SequencesExt, FiniteSetsExt

CONSTANTS Modulus,        \* 1000: how many serial numbers there are
          Persons,        \* the users
          TinyIDs, AuIDs, \* the values of account.tinyID and account.auID
          Data,           \* the values of preference.data
          Traces,         \* the values of checks.trace, which is unique
          MaxTime,        \* bound: the clock, in seconds
          MaxDeliveries,  \* bound: how often a check list is delivered
          None            \* NULL, or nothing yet

ASSUME ConfigStoreAssumption ==
    /\ Modulus \in Nat \ {0}
    /\ MaxTime \in Nat
    /\ MaxDeliveries \in Nat

VARIABLES seed,        \* column seed of the only row of table global
          account,     \* rows by id, which is the order SELECT finds them in
          preference,  \* the data of each account id
          checks,      \* the row of each trace
          now,         \* time(NULL)
          person,      \* history: what each person told the store last
          issued,      \* history: the last serial numbers since the start
          task,        \* the check list the car is working at
          last,        \* history: the trace of the last result
          calls,       \* history: what was reported of it
          deliveries   \* counts the deliveries of check lists

accountVars == <<account, preference, person>>
seedVars    == <<seed, issued>>
checkVars   == <<checks, now, task, last, calls, deliveries>>
vars        == <<accountVars, seedVars, checkVars>>

AccountRow == [tinyID : TinyIDs, auID : AuIDs, state : {0, 1}]

Person == [tinyID : TinyIDs, auID : AuIDs, state : {0, 1}, wish : Data \union {None}]

CheckRow == [answered : BOOLEAN, reported : BOOLEAN, response : BOOLEAN,
             timestamp : 0..MaxTime]

\* NULL is no row, and no entry of a person.
ASSUME NoneAssumption == None \notin CheckRow /\ None \notin Person

TypeOK ==
    /\ seed \in 0..(Modulus - 1)
    /\ account \in Seq(AccountRow)
    /\ preference \in [DOMAIN account -> Data \union {None}]
    /\ checks \in [Traces -> CheckRow \union {None}]
    /\ now \in 0..MaxTime
    /\ person \in [Persons -> Person \union {None}]
    /\ issued \in Seq(0..(Modulus - 1))
    /\ task \in Traces \union {None}
    /\ last \in Traces \union {None}
    /\ calls \subseteq {"reported", "response"}
    /\ deliveries \in 0..MaxDeliveries

Init ==
    /\ seed = 0
    /\ account = <<>>
    /\ preference = <<>>
    /\ checks = [t \in Traces |-> None]
    /\ now = 0
    /\ person = [p \in Persons |-> None]
    /\ issued = <<>>
    /\ task = None
    /\ last = None
    /\ calls = {}
    /\ deliveries = 0

-----------------------------------------------------------------------------
(* The serial number. *)

\* Mutant: the last number is never used.
NextOneShort(n) == (n + 1) % (Modulus - 1)

NextSeed(n) == (n + 1) % Modulus

\* issued keeps as many numbers as there are.
GetSeed ==
    /\ issued' = LET all == Append(issued, seed)
                 IN  IF Len(all) > Modulus THEN Tail(all) ELSE all
    /\ seed' = NextSeed(seed)
    /\ UNCHANGED <<accountVars, checkVars>>

-----------------------------------------------------------------------------
(* Accounts and preferences. *)

\* The ids of the rows in which column c is v ...
RowsWith(c, v) == {id \in DOMAIN account : account[id][c] = v}

\* ... of which a loop over the result keeps the last, or 0 if there is none.
IdOf(c, v) == IF RowsWith(c, v) = {} THEN 0 ELSE Max(RowsWith(c, v))

\* UPDATE account SET c = v WHERE d = w
Updated(c, v, d, w) ==
    [id \in DOMAIN account |->
        IF account[id][d] = w THEN [account[id] EXCEPT ![c] = v] ELSE account[id]]

PreferenceOf(id) == IF id = 0 THEN None ELSE preference[id]

\* No other person goes by v.
Unused(c, v, p) == \A q \in Persons \ {p} : person[q] # None => person[q][c] # v

\* Mutant: a known tinyID is not looked for.
AddRow(row) ==
    /\ account' = Append(account, row)
    /\ preference' = Append(preference, None)

\* A known tinyID keeps its id; REPLACE writes all the other columns.
WriteAccount(row) ==
    LET id == IdOf("tinyID", row.tinyID)
    IN  IF id > 0
          THEN account' = [account EXCEPT ![id] = row] /\ UNCHANGED preference
          ELSE account' = Append(account, row) /\ preference' = Append(preference, None)

AddAccount(p, row) ==
    /\ Unused("tinyID", row.tinyID, p)
    /\ Unused("auID", row.auID, p)
    /\ person[p] # None => person[p].tinyID = row.tinyID
    /\ WriteAccount(row)
    /\ person' = [person EXCEPT ![p] =
          [tinyID |-> row.tinyID, auID |-> row.auID, state |-> row.state,
           wish |-> IF person[p] = None THEN None ELSE person[p].wish]]
    /\ UNCHANGED <<seedVars, checkVars>>

UpdateAuid(p, a) ==
    /\ person[p] # None
    /\ Unused("auID", a, p)
    /\ account' = Updated("auID", a, "tinyID", person[p].tinyID)
    /\ person' = [person EXCEPT ![p].auID = a]
    /\ UNCHANGED <<preference, seedVars, checkVars>>

UpdateTinyid(p, t) ==
    /\ person[p] # None
    /\ Unused("tinyID", t, p)
    /\ account' = Updated("tinyID", t, "auID", person[p].auID)
    /\ person' = [person EXCEPT ![p].tinyID = t]
    /\ UNCHANGED <<preference, seedVars, checkVars>>

UpdateAccountStatus(p, s) ==
    /\ person[p] # None
    /\ account' = Updated("state", s, "tinyID", person[p].tinyID)
    /\ person' = [person EXCEPT ![p].state = s]
    /\ UNCHANGED <<preference, seedVars, checkVars>>

\* The caller takes the id from get_account_by_tinyid().
UpdatePreference(p, d) ==
    /\ person[p] # None
    /\ preference' = [preference EXCEPT ![IdOf("tinyID", person[p].tinyID)] = d]
    /\ person' = [person EXCEPT ![p].wish = d]
    /\ UNCHANGED <<account, seedVars, checkVars>>

-----------------------------------------------------------------------------
(* Check lists. *)

Answered   == {t \in Traces : checks[t] # None /\ checks[t].answered}
Unanswered == {t \in Traces : checks[t] # None /\ ~checks[t].answered}

\* ORDER BY timestamp DESC LIMIT 1 takes any of these.
Newest(S) == {t \in S : \A u \in S : checks[u].timestamp <= checks[t].timestamp}

\* A list that comes again is to be answered again.
UpdateCheckList(t) ==
    /\ deliveries < MaxDeliveries
    /\ checks' = [checks EXCEPT ![t] =
          [answered |-> FALSE, reported |-> FALSE, response |-> FALSE, timestamp |-> now]]
    /\ deliveries' = deliveries + 1
    /\ UNCHANGED <<accountVars, seedVars, now, task, last, calls>>

\* Mutant: the newest list is taken, answered or not.
GetNewestList ==
    /\ Unanswered # {}
    /\ task' \in Newest(Answered \union Unanswered)
    /\ UNCHANGED <<accountVars, seedVars, checks, now, last, calls, deliveries>>

GetCheckList ==
    /\ Unanswered # {}
    /\ task' \in Newest(Unanswered)
    /\ UNCHANGED <<accountVars, seedVars, checks, now, last, calls, deliveries>>

\* Mutant: the time of the list is kept.
SavedInPlace(row) == [row EXCEPT !.answered = TRUE]

Saved(row) == [row EXCEPT !.answered = TRUE, !.timestamp = now]

\* The car may save a result again; a list that was not saved is not updated.
SaveCheckListResult ==
    /\ task # None
    /\ checks' = [checks EXCEPT ![task] = Saved(checks[task])]
    /\ last' = task
    /\ calls' = {}
    /\ UNCHANGED <<accountVars, seedVars, now, task, deliveries>>

\* Both have an empty body.
UpdateCheckReported ==
    /\ last # None
    /\ calls' = calls \union {"reported"}
    /\ UNCHANGED <<accountVars, seedVars, checks, now, task, last, deliveries>>

UpdateCheckResponse ==
    /\ last # None
    /\ calls' = calls \union {"response"}
    /\ UNCHANGED <<accountVars, seedVars, checks, now, task, last, deliveries>>

\* What get_to_fix_check_list() returns.
ToFix == {t \in Answered : ~checks[t].reported \/ ~checks[t].response}

Tick ==
    /\ now < MaxTime
    /\ now' = now + 1
    /\ UNCHANGED <<accountVars, seedVars, checks, task, last, calls, deliveries>>

-----------------------------------------------------------------------------
\* The process dies and starts again: what it had in memory is gone, and
\* create_tables() replaces the row of table global, with the default seed.
Restart ==
    /\ seed' = 0
    /\ issued' = <<>>
    /\ task' = None
    /\ UNCHANGED <<accountVars, checks, now, last, calls, deliveries>>

NextAccount ==
    \E p \in Persons :
        \/ \E row \in AccountRow : AddAccount(p, row)
        \/ \E a \in AuIDs : UpdateAuid(p, a)
        \/ \E t \in TinyIDs : UpdateTinyid(p, t)
        \/ \E s \in {0, 1} : UpdateAccountStatus(p, s)
        \/ \E d \in Data : UpdatePreference(p, d)

NextCheck ==
    \/ \E t \in Traces : UpdateCheckList(t)
    \/ GetCheckList \/ SaveCheckListResult
    \/ UpdateCheckReported \/ UpdateCheckResponse
    \/ Tick

Next == GetSeed \/ NextAccount \/ NextCheck \/ Restart

\* The car asks for check lists while there are any, and is not killed every time
\* between the question and the result.
Fairness == WF_vars(GetCheckList) /\ SF_vars(SaveCheckListResult)

Spec == Init /\ [][Next]_vars /\ Fairness

-----------------------------------------------------------------------------
(* What must hold. *)

\* A serial number does not come again before all the others did, as long as the
\* program runs: get_seed() writes the next one before it returns.
SeedsDoNotRepeat == IsInjective(issued)

LoggedIn == {p \in Persons : person[p] # None /\ person[p].state = 1}

\* Whoever was added, renamed, or added again under a known tinyID finds the preference
\* they last set, under either of their names and after any restart; and the preference
\* of the last account is that of the only person logged in.
PreferencesAreReadBack ==
    \A p \in Persons : person[p] # None =>
        /\ PreferenceOf(IdOf("tinyID", person[p].tinyID)) = person[p].wish
        /\ PreferenceOf(IdOf("auID", person[p].auID)) = person[p].wish
        /\ LoggedIn = {p} => PreferenceOf(IdOf("state", 1)) = person[p].wish

\* get_check_list_result() returns the result that was saved last, or one of the same
\* second, unless that list was delivered anew.
LastResultIsReturned == last \in Answered => last \in Newest(Answered)

\* A check list that is delivered is answered in the end, although the newest list is
\* always asked first, and although the program may die between question and result.
ListIsAnswered == \A t \in Traces : (t \in Unanswered) ~> (t \in Answered)

\* update_check_reported() ("设置点检上报成功") and update_check_response() together take
\* the list last answered off the lists to fix.
ReportedIsFixed == calls = {"reported", "response"} => last \notin ToFix
=============================================================================
