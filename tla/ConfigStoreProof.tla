-------------------------- MODULE ConfigStoreProof --------------------------
(***************************************************************************)
(* What the configuration store returns, for any number of persons, names, *)
(* serial numbers, check lists and deliveries, however long it lives.      *)
(*                                                                         *)
(* The three groups of tables have an inductive invariant each:            *)
(*                                                                         *)
(*  - the serial numbers that were issued are those below seed, in turn;   *)
(*  - the rows of account are those of the persons the store was told of,  *)
(*    one each, with their preferences, and no two share a name;           *)
(*  - no result of a check list is of a time to come.  The query for the   *)
(*    last result orders by a time that save_check_list_result() writes,   *)
(*    so that it needs a clock that is not set back.                       *)
(***************************************************************************)
EXTENDS ConfigStore, SequenceTheorems, TLAPS

-----------------------------------------------------------------------------
(* The serial numbers. *)

\* issued holds the numbers before seed, the latest last: going back from seed, the
\* numbers go down to 0 and on from the highest.
IssuedBefore(back) == IF back <= seed THEN seed - back ELSE seed - back + Modulus

SeedsOK ==
    /\ seed \in 0..(Modulus - 1)
    /\ issued \in Seq(0..(Modulus - 1))
    /\ Len(issued) <= Modulus
    /\ \A j \in 1..Len(issued) : issued[j] = IssuedBefore(Len(issued) + 1 - j)

\* The number after the highest is 0.
LEMMA NextSeedIs ==
    ASSUME NEW n \in 0..(Modulus - 1)
    PROVE  NextSeed(n) = IF n + 1 = Modulus THEN 0 ELSE n + 1
  BY ConfigStoreAssumption DEF NextSeed

\* A number goes to the end; the first goes when there are as many as numbers.
LEMMA SeedIsIssued == ASSUME SeedsOK, GetSeed PROVE SeedsOK'
  <1> DEFINE all == Append(issued, seed)
             n == Len(issued)
  <1>1. /\ Modulus \in Nat \ {0} /\ seed \in 0..(Modulus - 1) /\ n \in Nat /\ n <= Modulus
        /\ issued \in Seq(0..(Modulus - 1))
    BY ConfigStoreAssumption DEF SeedsOK
  <1>2. /\ all \in Seq(0..(Modulus - 1)) /\ Len(all) = n + 1
        /\ \A j \in 1..n : all[j] = issued[j]
        /\ all[n + 1] = seed
    BY <1>1
  <1>3. seed' = (IF seed + 1 = Modulus THEN 0 ELSE seed + 1) /\ seed' \in 0..(Modulus - 1)
    BY <1>1, NextSeedIs DEF GetSeed
  <1>4. \A j \in 1..n : issued[j] = IF n + 1 - j <= seed THEN seed - (n + 1 - j)
                                    ELSE seed - (n + 1 - j) + Modulus
    BY DEF SeedsOK, IssuedBefore
  <1>5. \A j \in 1..(n + 1) : n + 2 - j <= Modulus =>
           all[j] = IF n + 2 - j <= seed' THEN seed' - (n + 2 - j)
                    ELSE seed' - (n + 2 - j) + Modulus
    BY <1>1, <1>2, <1>3, <1>4
  <1> HIDE DEF all, n
  <1>6. CASE n + 1 <= Modulus
    <2>1. issued' = all
      BY <1>1, <1>2, <1>6 DEF GetSeed, all, n
    <2>2. \A j \in 1..(n + 1) : n + 2 - j <= Modulus /\ n + 2 - j = Len(all) + 1 - j
      BY <1>1, <1>2, <1>6
    <2> QED
      BY <1>2, <1>3, <1>5, <1>6, <2>1, <2>2 DEF SeedsOK, IssuedBefore
  <1>7. CASE ~(n + 1 <= Modulus)
    <2>1. n = Modulus /\ issued' = Tail(all) /\ all # <<>>
      BY <1>1, <1>2, <1>7 DEF GetSeed, all, n
    <2>2. /\ issued' \in Seq(0..(Modulus - 1)) /\ Len(issued') = n
          /\ \A j \in 1..n : issued'[j] = all[j + 1]
      BY <1>1, <1>2, <2>1
    <2>3. \A j \in 1..n : /\ j + 1 \in 1..(n + 1)
                          /\ n + 2 - (j + 1) <= Modulus
                          /\ n + 2 - (j + 1) = n + 1 - j
      BY <1>1, <2>1
    <2>4. \A j \in 1..n : issued'[j] = IF n + 1 - j <= seed' THEN seed' - (n + 1 - j)
                                       ELSE seed' - (n + 1 - j) + Modulus
      BY <1>5, <2>2, <2>3
    <2> QED
      BY <1>1, <1>3, <2>1, <2>2, <2>4 DEF SeedsOK, IssuedBefore
  <1> QED
    BY <1>6, <1>7

\* Going back from seed, no number comes twice in Modulus steps.
LEMMA SeedsDiffer == SeedsOK => SeedsDoNotRepeat
  <1> SUFFICES ASSUME SeedsOK, NEW i \in DOMAIN issued, NEW j \in DOMAIN issued,
                      issued[i] = issued[j]
               PROVE  i = j
    BY DEF SeedsDoNotRepeat, IsInjective
  <1>1. /\ DOMAIN issued = 1..Len(issued) /\ Len(issued) \in Nat /\ Len(issued) <= Modulus
        /\ Modulus \in Nat /\ seed \in 0..(Modulus - 1)
    BY ConfigStoreAssumption DEF SeedsOK
  <1> DEFINE b == Len(issued) + 1 - i
             c == Len(issued) + 1 - j
  <1>2. b \in 1..Modulus /\ c \in 1..Modulus /\ (b = c => i = j)
    BY <1>1
  <1>3. issued[i] = IssuedBefore(b) /\ issued[j] = IssuedBefore(c)
    BY <1>1 DEF SeedsOK
  <1> HIDE DEF b, c
  <1>4. IssuedBefore(b) = IssuedBefore(c)
    BY <1>3
  <1>5. b = c
    BY <1>1, <1>2, <1>4 DEF IssuedBefore
  <1> QED
    BY <1>2, <1>5

LEMMA SeedsStart == Init => SeedsOK
  BY ConfigStoreAssumption DEF Init, SeedsOK

\* Only get_seed() and the start of the program touch the seed.
LEMMA SeedStep == ASSUME SeedsOK, [Next]_vars PROVE SeedsOK'
  <1>1. CASE GetSeed
    BY <1>1, SeedIsIssued
  <1>2. CASE Restart
    BY <1>2, ConfigStoreAssumption DEF Restart, SeedsOK
  <1>3. CASE UNCHANGED seedVars
    BY <1>3 DEF seedVars, SeedsOK, IssuedBefore
  <1> QED
    BY <1>1, <1>2, <1>3 DEF Next, NextAccount, NextCheck, vars, AddAccount, UpdateAuid,
       UpdateTinyid, UpdateAccountStatus, UpdatePreference, UpdateCheckList, GetCheckList,
       SaveCheckListResult, UpdateCheckReported, UpdateCheckResponse, Tick

\* No serial number is issued twice within a round of Modulus numbers, for any modulus,
\* while the program runs.
THEOREM SeedsAreDistinct == Spec => []SeedsDoNotRepeat
  BY SeedsStart, SeedStep, SeedsDiffer, PTL DEF Spec

-----------------------------------------------------------------------------
(* The accounts and their preferences. *)

\* The persons the store was told of.
Known == {p \in Persons : person[p] # None}

\* Row id says of p what p last told the store.
Belongs(id, p) ==
    /\ account[id].tinyID = person[p].tinyID
    /\ account[id].auID = person[p].auID
    /\ account[id].state = person[p].state
    /\ preference[id] = person[p].wish

TablesOK ==
    /\ account \in Seq(AccountRow)
    /\ preference \in [DOMAIN account -> Data \union {None}]
    /\ person \in [Persons -> Person \union {None}]

\* The rows of account are those of the persons, one each.
RowForEveryone == \A p \in Known : \E id \in DOMAIN account : Belongs(id, p)
EveryRowIsTaken == \A id \in DOMAIN account : \E p \in Known : Belongs(id, p)
RowsDiffer == \A i, j \in DOMAIN account : account[i].tinyID = account[j].tinyID => i = j

\* Nobody goes by a name of somebody else.
NamesDiffer ==
    \A p, q \in Known : p # q => /\ person[p].tinyID # person[q].tinyID
                                 /\ person[p].auID # person[q].auID

AccountsOK == TablesOK /\ RowForEveryone /\ EveryRowIsTaken /\ RowsDiffer /\ NamesDiffer

\* The row of a person is the only one with its names.
LEMMA RowIsFound ==
    ASSUME AccountsOK, NEW p \in Known, NEW id \in DOMAIN account, Belongs(id, p)
    PROVE  /\ id \in Nat /\ id > 0
           /\ RowsWith("tinyID", person[p].tinyID) = {id}
           /\ RowsWith("auID", person[p].auID) = {id}
           /\ IdOf("tinyID", person[p].tinyID) = id
           /\ IdOf("auID", person[p].auID) = id
  <1>1. id \in Nat /\ id > 0
    BY DEF AccountsOK, TablesOK
  <1>2. \A j \in DOMAIN account : account[j].tinyID = person[p].tinyID => j = id
    BY DEF AccountsOK, RowsDiffer, Belongs
  <1>3. ASSUME NEW j \in DOMAIN account, account[j].auID = person[p].auID PROVE j = id
    <2>1. PICK q \in Known : Belongs(j, q)
      BY DEF AccountsOK, EveryRowIsTaken
    <2>2. q = p
      BY <1>3, <2>1 DEF AccountsOK, NamesDiffer, Belongs
    <2> QED
      BY <1>2, <2>1, <2>2 DEF Belongs
  <1>4. RowsWith("tinyID", person[p].tinyID) = {id} /\ RowsWith("auID", person[p].auID) = {id}
    BY <1>2, <1>3 DEF RowsWith, Belongs
  <1>5. Max({id}) = id
    BY <1>1 DEF Max
  <1> QED
    BY <1>1, <1>4, <1>5 DEF IdOf

\* Nobody has a row under a name that nobody else goes by.
LEMMA NoRowIsFound ==
    ASSUME AccountsOK, NEW p \in Persons, p \notin Known, NEW t, Unused("tinyID", t, p)
    PROVE  (\A j \in DOMAIN account : account[j].tinyID # t) /\ IdOf("tinyID", t) = 0
  <1>1. ASSUME NEW j \in DOMAIN account PROVE account[j].tinyID # t
    <2>1. PICK q \in Known : Belongs(j, q)
      BY DEF AccountsOK, EveryRowIsTaken
    <2> QED
      BY <2>1 DEF Unused, Known, Belongs
  <1>2. RowsWith("tinyID", t) = {}
    BY <1>1 DEF RowsWith
  <1> QED
    BY <1>1, <1>2 DEF IdOf

\* What is read back is what each person last wished.
LEMMA PreferencesAreTheirs == AccountsOK => PreferencesAreReadBack
  <1> SUFFICES ASSUME AccountsOK, NEW p \in Known
               PROVE  /\ PreferenceOf(IdOf("tinyID", person[p].tinyID)) = person[p].wish
                      /\ PreferenceOf(IdOf("auID", person[p].auID)) = person[p].wish
                      /\ LoggedIn = {p} => PreferenceOf(IdOf("state", 1)) = person[p].wish
    BY DEF PreferencesAreReadBack, Known
  <1>1. PICK id \in DOMAIN account : Belongs(id, p)
    BY DEF AccountsOK, RowForEveryone
  <1>2. /\ id \in Nat /\ id > 0
        /\ IdOf("tinyID", person[p].tinyID) = id
        /\ IdOf("auID", person[p].auID) = id
        /\ RowsWith("tinyID", person[p].tinyID) = {id}
    BY <1>1, RowIsFound
  <1>3. PreferenceOf(id) = person[p].wish
    BY <1>1, <1>2 DEF PreferenceOf, Belongs
  <1>4. ASSUME LoggedIn = {p} PROVE IdOf("state", 1) = id
    <2>1. ASSUME NEW j \in DOMAIN account, account[j].state = 1 PROVE j = id
      <3>1. PICK q \in Known : Belongs(j, q)
        BY DEF AccountsOK, EveryRowIsTaken
      <3>2. q \in LoggedIn
        BY <2>1, <3>1 DEF LoggedIn, Known, Belongs
      <3>3. Belongs(j, p)
        BY <1>4, <3>1, <3>2
      <3> QED
        BY <1>1, <3>3 DEF AccountsOK, RowsDiffer, Belongs
    <2>2. person[p].state = 1
      BY <1>4 DEF LoggedIn
    <2>3. RowsWith("state", 1) = {id}
      BY <1>1, <2>1, <2>2 DEF RowsWith, Belongs
    <2>4. Max({id}) = id
      BY <1>2 DEF Max
    <2> QED
      BY <2>3, <2>4 DEF IdOf
  <1> QED
    BY <1>2, <1>3, <1>4

\* The entry of a person whose row is row.
Entry(row, wish) ==
    [tinyID |-> row.tinyID, auID |-> row.auID, state |-> row.state, wish |-> wish]

LEMMA EntryIs ==
    ASSUME NEW row \in AccountRow, NEW wish \in Data \union {None}
    PROVE  /\ Entry(row, wish) \in Person /\ Entry(row, wish) # None
           /\ Entry(row, wish).tinyID = row.tinyID /\ Entry(row, wish).auID = row.auID
           /\ Entry(row, wish).state = row.state /\ Entry(row, wish).wish = wish
  BY NoneAssumption DEF Entry, AccountRow, Person

\* No other person goes by one of the names in row.
NamesAreFree(row, p) ==
    \A q \in Known : q # p => person[q].tinyID # row.tinyID /\ person[q].auID # row.auID

\* The names stay different when p is given free ones.
LEMMA NamesStayDifferent ==
    ASSUME AccountsOK, NEW p \in Persons,
           NEW row \in AccountRow, NEW wish \in Data \union {None},
           person' = [person EXCEPT ![p] = Entry(row, wish)], NamesAreFree(row, p)
    PROVE  /\ person' \in [Persons -> Person \union {None}]
           /\ Known' = Known \union {p}
           /\ person'[p] = Entry(row, wish)
           /\ \A q \in Known : q # p => person'[q] = person[q]
           /\ NamesDiffer'
  <1>1. person \in [Persons -> Person \union {None}]
    BY DEF AccountsOK, TablesOK
  <1>2. /\ Entry(row, wish) \in Person /\ Entry(row, wish) # None
        /\ Entry(row, wish).tinyID = row.tinyID /\ Entry(row, wish).auID = row.auID
    BY EntryIs
  <1>3. /\ person' \in [Persons -> Person \union {None}]
        /\ person'[p] = Entry(row, wish)
        /\ \A q \in Persons : q # p => person'[q] = person[q]
    BY <1>1, <1>2
  <1>4. Known' = Known \union {p} /\ \A q \in Known : q \in Persons
    BY <1>2, <1>3 DEF Known
  <1>5. NamesDiffer'
    BY <1>2, <1>3, <1>4 DEF AccountsOK, NamesDiffer, NamesAreFree
  <1> QED
    BY <1>3, <1>4, <1>5

\* A person may have its own row rewritten.
LEMMA RowIsRewritten ==
    ASSUME AccountsOK, NEW p \in Known, NEW id \in DOMAIN account, Belongs(id, p),
           NEW row \in AccountRow, NEW wish \in Data \union {None},
           account' = [account EXCEPT ![id] = row],
           preference' = [preference EXCEPT ![id] = wish],
           person' = [person EXCEPT ![p] = Entry(row, wish)], NamesAreFree(row, p)
    PROVE  AccountsOK'
  <1>1. p \in Persons
    BY DEF Known
  <1>2. /\ person' \in [Persons -> Person \union {None}]
        /\ Known' = Known
        /\ person'[p] = Entry(row, wish)
        /\ \A q \in Known : q # p => person'[q] = person[q]
        /\ NamesDiffer'
    <2>1. Known' = Known \union {p} /\ Known \union {p} = Known
      BY <1>1, NamesStayDifferent
    <2> QED
      BY <1>1, <2>1, NamesStayDifferent
  <1>3. /\ Entry(row, wish).tinyID = row.tinyID /\ Entry(row, wish).auID = row.auID
        /\ Entry(row, wish).state = row.state /\ Entry(row, wish).wish = wish
    BY EntryIs
  <1>4. /\ account' \in Seq(AccountRow) /\ DOMAIN account' = DOMAIN account
        /\ account'[id] = row
        /\ \A j \in DOMAIN account : j # id => account'[j] = account[j]
    BY DEF AccountsOK, TablesOK
  <1>5. /\ preference' \in [DOMAIN account -> Data \union {None}]
        /\ preference'[id] = wish
        /\ \A j \in DOMAIN account : j # id => preference'[j] = preference[j]
    BY DEF AccountsOK, TablesOK
  <1>6. TablesOK'
    BY <1>2, <1>4, <1>5 DEF TablesOK
  <1>7. Belongs(id, p)'
    BY <1>2, <1>3, <1>4, <1>5 DEF Belongs
  <1>8. \A j \in DOMAIN account, q \in Known : j # id /\ q # p =>
           (Belongs(j, q)' <=> Belongs(j, q))
    BY <1>2, <1>4, <1>5 DEF Belongs
  <1>9. \A j \in DOMAIN account, q \in Known : Belongs(j, q) => (j = id <=> q = p)
    BY DEF AccountsOK, NamesDiffer, RowsDiffer, Belongs
  <1>10. RowForEveryone'
    <2> SUFFICES ASSUME NEW q \in Known PROVE \E j \in DOMAIN account : Belongs(j, q)'
      BY <1>2, <1>4 DEF RowForEveryone
    <2>1. PICK j \in DOMAIN account : Belongs(j, q)
      BY DEF AccountsOK, RowForEveryone
    <2> QED
      BY <2>1, <1>7, <1>8, <1>9
  <1>11. \A j \in DOMAIN account : \E q \in Known : Belongs(j, q)' /\ (q = p => j = id)
    <2> TAKE j \in DOMAIN account
    <2>1. PICK q \in Known : Belongs(j, q)
      BY DEF AccountsOK, EveryRowIsTaken
    <2> QED
      BY <2>1, <1>7, <1>8, <1>9
  <1>12. EveryRowIsTaken'
    BY <1>2, <1>4, <1>11 DEF EveryRowIsTaken
  <1>13. RowsDiffer'
    <2>1. ASSUME NEW j \in DOMAIN account, j # id PROVE account[j].tinyID # row.tinyID
      <3>1. PICK q \in Known : Belongs(j, q)
        BY DEF AccountsOK, EveryRowIsTaken
      <3>2. q # p
        BY <1>9, <2>1, <3>1
      <3> QED
        BY <3>1, <3>2 DEF NamesAreFree, Belongs
    <2> QED
      BY <1>4, <2>1 DEF AccountsOK, RowsDiffer
  <1> QED
    BY <1>2, <1>6, <1>10, <1>12, <1>13 DEF AccountsOK

\* A person the store did not know gets a row of its own.
LEMMA RowIsAdded ==
    ASSUME AccountsOK, NEW p \in Persons, p \notin Known, NEW row \in AccountRow,
           account' = Append(account, row), preference' = Append(preference, None),
           person' = [person EXCEPT ![p] = Entry(row, None)], NamesAreFree(row, p)
    PROVE  AccountsOK'
  <1>0. PICK n \in Nat, new \in Nat : n = Len(account) /\ new = n + 1
    BY DEF AccountsOK, TablesOK
  <1>1. /\ person' \in [Persons -> Person \union {None}]
        /\ Known' = Known \union {p}
        /\ person'[p] = Entry(row, None)
        /\ \A q \in Known : q # p => person'[q] = person[q]
        /\ NamesDiffer'
    BY NamesStayDifferent
  <1>2. /\ Entry(row, None).tinyID = row.tinyID /\ Entry(row, None).auID = row.auID
        /\ Entry(row, None).state = row.state /\ Entry(row, None).wish = None
    BY EntryIs
  <1>3. account \in Seq(AccountRow) /\ DOMAIN account = 1..n
    BY <1>0 DEF AccountsOK, TablesOK
  <1>4. /\ account' \in Seq(AccountRow) /\ DOMAIN account' = 1..new
        /\ account'[new] = row
        /\ \A j \in 1..n : account'[j] = account[j]
    BY <1>0, <1>3
  <1>5. preference \in Seq(Data \union {None}) /\ Len(preference) = n
    BY <1>0, <1>3, SeqDef DEF AccountsOK, TablesOK
  <1>6. /\ preference' \in [1..new -> Data \union {None}]
        /\ preference'[new] = None
        /\ \A j \in 1..n : preference'[j] = preference[j]
    <2>1. preference' \in Seq(Data \union {None}) /\ Len(preference') = new
      BY <1>0, <1>5
    <2>2. \A j \in 1..n : preference'[j] = preference[j]
      BY <1>0, <1>5
    <2>3. preference'[new] = None
      BY <1>0, <1>5
    <2>4. preference' \in [1..new -> Data \union {None}]
      BY <2>1, LenProperties
    <2> QED
      BY <2>2, <2>3, <2>4
  <1>7. TablesOK'
    BY <1>1, <1>4, <1>6 DEF TablesOK
  <1>8. Belongs(new, p)'
    BY <1>1, <1>2, <1>4, <1>6 DEF Belongs
  <1>9. \A j \in 1..n, q \in Known : q # p /\ (Belongs(j, q)' <=> Belongs(j, q))
    BY <1>0, <1>1, <1>4, <1>6 DEF Belongs
  <1>10. 1..new = 1..n \union {new}
    BY <1>0
  <1>11. RowForEveryone'
    <2> SUFFICES ASSUME NEW q \in Known \union {p} PROVE \E j \in 1..new : Belongs(j, q)'
      BY <1>1, <1>4 DEF RowForEveryone
    <2>1. CASE q = p
      BY <1>8, <1>10, <2>1
    <2>2. CASE q # p
      <3>1. PICK j \in 1..n : Belongs(j, q)
        BY <1>3, <2>2 DEF AccountsOK, RowForEveryone
      <3> QED
        BY <1>9, <1>10, <2>2, <3>1
    <2> QED
      BY <2>1, <2>2
  <1>12. EveryRowIsTaken'
    <2> SUFFICES ASSUME NEW j \in 1..new PROVE \E q \in Known \union {p} : Belongs(j, q)'
      BY <1>1, <1>4 DEF EveryRowIsTaken
    <2>1. CASE j = new
      BY <1>8, <2>1
    <2>2. CASE j # new
      <3>1. j \in 1..n
        BY <1>10, <2>2
      <3>2. PICK q \in Known : Belongs(j, q)
        BY <1>3, <3>1 DEF AccountsOK, EveryRowIsTaken
      <3> QED
        BY <1>9, <3>1, <3>2
    <2> QED
      BY <2>1, <2>2
  <1>13. RowsDiffer'
    <2>1. ASSUME NEW j \in 1..n PROVE account[j].tinyID # row.tinyID
      <3>1. PICK q \in Known : Belongs(j, q)
        BY <1>3 DEF AccountsOK, EveryRowIsTaken
      <3> QED
        BY <1>9, <3>1 DEF NamesAreFree, Belongs
    <2>2. \A i, j \in 1..n : account[i].tinyID = account[j].tinyID => i = j
      BY <1>3 DEF AccountsOK, RowsDiffer
    <2> QED
      BY <1>4, <1>10, <2>1, <2>2 DEF RowsDiffer
  <1> QED
    BY <1>1, <1>7, <1>11, <1>12, <1>13 DEF AccountsOK


-----------------------------------------------------------------------------
(* The operations of the accounts. *)

\* What no other person goes by is free.
LEMMA UnusedIsFree ==
    ASSUME NEW p \in Persons, NEW row,
           row.tinyID = person[p].tinyID \/ Unused("tinyID", row.tinyID, p),
           row.auID = person[p].auID \/ Unused("auID", row.auID, p),
           NamesDiffer
    PROVE  p \in Known => NamesAreFree(row, p)
  <1> SUFFICES ASSUME p \in Known, NEW q \in Known, q # p
               PROVE  person[q].tinyID # row.tinyID /\ person[q].auID # row.auID
    BY DEF NamesAreFree
  <1>1. q \in Persons \ {p} /\ person[q] # None
    BY DEF Known
  <1>2. person[q].tinyID # person[p].tinyID /\ person[q].auID # person[p].auID
    BY DEF NamesDiffer
  <1> QED
    BY <1>1, <1>2 DEF Unused

\* A known person has a row, which is all it told the store.
LEMMA PersonHasRow ==
    ASSUME AccountsOK, NEW p \in Known
    PROVE  \E id \in DOMAIN account :
              /\ Belongs(id, p) /\ account[id] \in AccountRow
              /\ preference[id] \in Data \union {None}
              /\ person[p] = Entry(account[id], preference[id])
  <1>1. PICK id \in DOMAIN account : Belongs(id, p)
    BY DEF AccountsOK, RowForEveryone
  <1>2. account[id] \in AccountRow /\ preference[id] \in Data \union {None}
    BY DEF AccountsOK, TablesOK
  <1>3. person[p] \in Person
    BY DEF AccountsOK, TablesOK, Known
  <1>4. person[p] = Entry(account[id], preference[id])
    BY <1>1, <1>3 DEF Entry, Belongs, Person
  <1> QED
    BY <1>1, <1>2, <1>4

\* What is written to the row and to the entry of a person is the same.
LEMMA EntryIsUpdated ==
    ASSUME NEW row \in AccountRow, NEW wish
    PROVE  /\ \A a : [Entry(row, wish) EXCEPT !.auID = a]
                      = Entry([row EXCEPT !.auID = a], wish)
           /\ \A t : [Entry(row, wish) EXCEPT !.tinyID = t]
                      = Entry([row EXCEPT !.tinyID = t], wish)
           /\ \A s : [Entry(row, wish) EXCEPT !.state = s]
                      = Entry([row EXCEPT !.state = s], wish)
           /\ \A d : [Entry(row, wish) EXCEPT !.wish = d] = Entry(row, d)
  BY DEF Entry, AccountRow

LEMMA AccountIsAdded ==
    ASSUME AccountsOK, NEW p \in Persons, NEW row \in AccountRow, AddAccount(p, row)
    PROVE  AccountsOK'
  <1>1. CASE p \in Known
    <2>1. PICK id \in DOMAIN account :
             /\ Belongs(id, p) /\ preference[id] \in Data \union {None}
      BY <1>1, PersonHasRow
    <2>2. person[p] # None /\ row.tinyID = person[p].tinyID
      BY <1>1 DEF AddAccount, Known
    <2>3. id > 0 /\ IdOf("tinyID", row.tinyID) = id
      BY <1>1, <2>1, <2>2, RowIsFound
    <2>4. account' = [account EXCEPT ![id] = row] /\ preference' = preference
      BY <2>3 DEF AddAccount, WriteAccount
    <2>5. preference' = [preference EXCEPT ![id] = preference[id]]
      BY <2>4 DEF AccountsOK, TablesOK
    <2>6. person' = [person EXCEPT ![p] = Entry(row, preference[id])]
      BY <2>1, <2>2 DEF AddAccount, Entry, Belongs
    <2>7. NamesAreFree(row, p)
      BY <1>1, <2>2, UnusedIsFree DEF AddAccount, AccountsOK
    <2> QED
      BY <1>1, <2>1, <2>4, <2>5, <2>6, <2>7, RowIsRewritten
  <1>2. CASE p \notin Known
    <2>1. person[p] = None
      BY <1>2 DEF Known
    <2>2. IdOf("tinyID", row.tinyID) = 0
      BY <1>2, NoRowIsFound DEF AddAccount
    <2>3. account' = Append(account, row) /\ preference' = Append(preference, None)
      BY <2>2 DEF AddAccount, WriteAccount
    <2>4. person' = [person EXCEPT ![p] = Entry(row, None)]
      BY <2>1 DEF AddAccount, Entry
    <2>5. NamesAreFree(row, p)
      BY <2>1 DEF AddAccount, Unused, NamesAreFree, Known
    <2> QED
      BY <1>2, <2>3, <2>4, <2>5, RowIsAdded
  <1> QED
    BY <1>1, <1>2

\* The three updates of a row.
LEMMA AuidIsUpdated ==
    ASSUME AccountsOK, NEW p \in Persons, NEW a \in AuIDs, UpdateAuid(p, a)
    PROVE  AccountsOK'
  <1>1. p \in Known
    BY DEF UpdateAuid, Known
  <1>2. PICK id \in DOMAIN account :
           /\ Belongs(id, p) /\ account[id] \in AccountRow
           /\ preference[id] \in Data \union {None}
           /\ person[p] = Entry(account[id], preference[id])
    BY <1>1, PersonHasRow
  <1> DEFINE row == [account[id] EXCEPT !.auID = a]
  <1>3. row \in AccountRow /\ row.tinyID = person[p].tinyID /\ row.auID = a
    BY <1>2 DEF AccountRow, Belongs
  <1>4. RowsWith("tinyID", person[p].tinyID) = {id}
    BY <1>1, <1>2, RowIsFound
  <1>5. account' = [account EXCEPT ![id] = row]
    <2>1. account \in Seq(AccountRow)
      BY DEF AccountsOK, TablesOK
    <2>2. \A j \in DOMAIN account : account[j].tinyID = person[p].tinyID <=> j = id
      BY <1>4 DEF RowsWith
    <2>3. Updated("auID", a, "tinyID", person[p].tinyID)
             = [j \in DOMAIN account |-> IF j = id THEN row ELSE account[j]]
      BY <2>2 DEF Updated
    <2> QED
      BY <2>1, <2>3 DEF UpdateAuid
  <1>6. preference' = [preference EXCEPT ![id] = preference[id]]
    BY DEF UpdateAuid, AccountsOK, TablesOK
  <1>7. person' = [person EXCEPT ![p] = Entry(row, preference[id])]
    <2>1. [person[p] EXCEPT !.auID = a] = Entry(row, preference[id])
      BY <1>2, EntryIsUpdated
    <2> QED
      BY <2>1 DEF UpdateAuid
  <1>8. NamesAreFree(row, p)
    BY <1>1, <1>3, UnusedIsFree DEF UpdateAuid, AccountsOK
  <1> HIDE DEF row
  <1> QED
    BY <1>1, <1>2, <1>3, <1>5, <1>6, <1>7, <1>8, RowIsRewritten

LEMMA TinyidIsUpdated ==
    ASSUME AccountsOK, NEW p \in Persons, NEW t \in TinyIDs, UpdateTinyid(p, t)
    PROVE  AccountsOK'
  <1>1. p \in Known
    BY DEF UpdateTinyid, Known
  <1>2. PICK id \in DOMAIN account :
           /\ Belongs(id, p) /\ account[id] \in AccountRow
           /\ preference[id] \in Data \union {None}
           /\ person[p] = Entry(account[id], preference[id])
    BY <1>1, PersonHasRow
  <1> DEFINE row == [account[id] EXCEPT !.tinyID = t]
  <1>3. row \in AccountRow /\ row.tinyID = t /\ row.auID = person[p].auID
    BY <1>2 DEF AccountRow, Belongs
  <1>4. RowsWith("auID", person[p].auID) = {id}
    BY <1>1, <1>2, RowIsFound
  <1>5. account' = [account EXCEPT ![id] = row]
    <2>1. account \in Seq(AccountRow)
      BY DEF AccountsOK, TablesOK
    <2>2. \A j \in DOMAIN account : account[j].auID = person[p].auID <=> j = id
      BY <1>4 DEF RowsWith
    <2>3. Updated("tinyID", t, "auID", person[p].auID)
             = [j \in DOMAIN account |-> IF j = id THEN row ELSE account[j]]
      BY <2>2 DEF Updated
    <2> QED
      BY <2>1, <2>3 DEF UpdateTinyid
  <1>6. preference' = [preference EXCEPT ![id] = preference[id]]
    BY DEF UpdateTinyid, AccountsOK, TablesOK
  <1>7. person' = [person EXCEPT ![p] = Entry(row, preference[id])]
    <2>1. [person[p] EXCEPT !.tinyID = t] = Entry(row, preference[id])
      BY <1>2, EntryIsUpdated
    <2> QED
      BY <2>1 DEF UpdateTinyid
  <1>8. NamesAreFree(row, p)
    BY <1>1, <1>3, UnusedIsFree DEF UpdateTinyid, AccountsOK
  <1> HIDE DEF row
  <1> QED
    BY <1>1, <1>2, <1>3, <1>5, <1>6, <1>7, <1>8, RowIsRewritten

LEMMA StatusIsUpdated ==
    ASSUME AccountsOK, NEW p \in Persons, NEW s \in {0, 1}, UpdateAccountStatus(p, s)
    PROVE  AccountsOK'
  <1>1. p \in Known
    BY DEF UpdateAccountStatus, Known
  <1>2. PICK id \in DOMAIN account :
           /\ Belongs(id, p) /\ account[id] \in AccountRow
           /\ preference[id] \in Data \union {None}
           /\ person[p] = Entry(account[id], preference[id])
    BY <1>1, PersonHasRow
  <1> DEFINE row == [account[id] EXCEPT !.state = s]
  <1>3. row \in AccountRow /\ row.tinyID = person[p].tinyID /\ row.auID = person[p].auID
    BY <1>2 DEF AccountRow, Belongs
  <1>4. RowsWith("tinyID", person[p].tinyID) = {id}
    BY <1>1, <1>2, RowIsFound
  <1>5. account' = [account EXCEPT ![id] = row]
    <2>1. account \in Seq(AccountRow)
      BY DEF AccountsOK, TablesOK
    <2>2. \A j \in DOMAIN account : account[j].tinyID = person[p].tinyID <=> j = id
      BY <1>4 DEF RowsWith
    <2>3. Updated("state", s, "tinyID", person[p].tinyID)
             = [j \in DOMAIN account |-> IF j = id THEN row ELSE account[j]]
      BY <2>2 DEF Updated
    <2> QED
      BY <2>1, <2>3 DEF UpdateAccountStatus
  <1>6. preference' = [preference EXCEPT ![id] = preference[id]]
    BY DEF UpdateAccountStatus, AccountsOK, TablesOK
  <1>7. person' = [person EXCEPT ![p] = Entry(row, preference[id])]
    <2>1. [person[p] EXCEPT !.state = s] = Entry(row, preference[id])
      BY <1>2, EntryIsUpdated
    <2> QED
      BY <2>1 DEF UpdateAccountStatus
  <1>8. NamesAreFree(row, p)
    BY <1>1, <1>3, UnusedIsFree DEF AccountsOK
  <1> HIDE DEF row
  <1> QED
    BY <1>1, <1>2, <1>3, <1>5, <1>6, <1>7, <1>8, RowIsRewritten

LEMMA PreferenceIsUpdated ==
    ASSUME AccountsOK, NEW p \in Persons, NEW d \in Data, UpdatePreference(p, d)
    PROVE  AccountsOK'
  <1>1. p \in Known
    BY DEF UpdatePreference, Known
  <1>2. PICK id \in DOMAIN account :
           /\ Belongs(id, p) /\ account[id] \in AccountRow
           /\ person[p] = Entry(account[id], preference[id])
    BY <1>1, PersonHasRow
  <1> DEFINE row == account[id]
  <1>3. row.tinyID = person[p].tinyID /\ row.auID = person[p].auID
    BY <1>2 DEF Belongs
  <1>4. account' = [account EXCEPT ![id] = row]
    BY DEF UpdatePreference, AccountsOK, TablesOK
  <1>5. preference' = [preference EXCEPT ![id] = d]
    BY <1>1, <1>2, RowIsFound DEF UpdatePreference
  <1>6. person' = [person EXCEPT ![p] = Entry(row, d)]
    <2>1. [person[p] EXCEPT !.wish = d] = Entry(row, d)
      BY <1>2, EntryIsUpdated
    <2> QED
      BY <2>1 DEF UpdatePreference
  <1>7. NamesAreFree(row, p)
    BY <1>1, <1>3, UnusedIsFree DEF AccountsOK
  <1> HIDE DEF row
  <1>8. row \in AccountRow
    BY <1>2 DEF row
  <1> QED
    BY <1>1, <1>2, <1>4, <1>5, <1>6, <1>7, <1>8, RowIsRewritten

LEMMA AccountsStart == Init => AccountsOK
  BY DEF Init, AccountsOK, TablesOK, RowForEveryone, EveryRowIsTaken, RowsDiffer,
     NamesDiffer, Known

LEMMA AccountStep == ASSUME AccountsOK, [Next]_vars PROVE AccountsOK'
  <1>1. CASE NextAccount
    BY <1>1, AccountIsAdded, AuidIsUpdated, TinyidIsUpdated, StatusIsUpdated,
       PreferenceIsUpdated DEF NextAccount
  <1>2. CASE UNCHANGED accountVars
    BY <1>2 DEF accountVars, AccountsOK, TablesOK, RowForEveryone, EveryRowIsTaken,
       RowsDiffer, NamesDiffer, Known, Belongs
  <1> QED
    BY <1>1, <1>2 DEF Next, NextCheck, vars, GetSeed, UpdateCheckList, GetCheckList,
       SaveCheckListResult, UpdateCheckReported, UpdateCheckResponse, Tick, Restart

\* Whatever persons, names and wishes there are, and in whatever order the accounts were
\* added, renamed and added again, each person finds the preference it set last.
THEOREM PreferencesAreFound == Spec => []PreferencesAreReadBack
  BY AccountsStart, AccountStep, PreferencesAreTheirs, PTL DEF Spec

-----------------------------------------------------------------------------
(* The check lists. *)

ChecksOK ==
    /\ checks \in [Traces -> CheckRow \union {None}]
    /\ now \in 0..MaxTime
    /\ task # None => task \in Traces /\ checks[task] # None
    /\ last # None => last \in Traces

\* No result is of a time to come.
NotFromTheFuture == \A t \in Answered : checks[t].timestamp <= now

ResultsOK == ChecksOK /\ NotFromTheFuture /\ LastResultIsReturned

LEMMA ResultsStart == Init => ResultsOK
  <1> SUFFICES ASSUME Init PROVE ResultsOK
    OBVIOUS
  <1>1. ChecksOK
    BY ConfigStoreAssumption DEF Init, ChecksOK
  <1>2. Answered = {}
    BY DEF Init, Answered
  <1> QED
    BY <1>1, <1>2 DEF NotFromTheFuture, LastResultIsReturned, ResultsOK

\* The invariant speaks of nothing that the other operations change.
LEMMA OthersKeepResults ==
    ASSUME ResultsOK, UNCHANGED checks, UNCHANGED last, now' \in 0..MaxTime, now <= now',
           task' = task \/ task' = None \/ task' \in Unanswered
    PROVE  ResultsOK'
  <1>1. ChecksOK'
    BY DEF ResultsOK, ChecksOK, Unanswered
  <1>2. Answered' = Answered /\ Answered \subseteq Traces
    BY DEF Answered
  <1>3. \A t \in Answered : checks[t].timestamp \in Nat
    BY DEF ResultsOK, ChecksOK, Answered, CheckRow
  <1>4. NotFromTheFuture'
    BY <1>2, <1>3, ConfigStoreAssumption DEF ResultsOK, ChecksOK, NotFromTheFuture
  <1>5. LastResultIsReturned'
    BY <1>2 DEF ResultsOK, LastResultIsReturned, Newest
  <1> QED
    BY <1>1, <1>4, <1>5 DEF ResultsOK

\* A list that comes again is not answered, and the other rows stay.
LEMMA DeliveryKeepsResults ==
    ASSUME ResultsOK, NEW t \in Traces, UpdateCheckList(t)
    PROVE  ResultsOK'
  <1> DEFINE row == [answered |-> FALSE, reported |-> FALSE, response |-> FALSE,
                     timestamp |-> now]
  <1>a. row \in CheckRow
    BY DEF ResultsOK, ChecksOK, CheckRow
  <1>b. /\ checks' = [checks EXCEPT ![t] = row]
        /\ now' = now /\ task' = task /\ last' = last
    BY DEF UpdateCheckList
  <1>1. ChecksOK'
    <2> HIDE DEF row
    <2> QED
      BY <1>a, <1>b, NoneAssumption DEF ResultsOK, ChecksOK
  <1>2. Answered' = Answered \ {t}
    BY DEF ResultsOK, ChecksOK, UpdateCheckList, Answered
  <1>3. \A u \in Answered' : checks'[u] = checks[u]
    BY <1>2 DEF ResultsOK, ChecksOK, UpdateCheckList, Answered
  <1>4. NotFromTheFuture'
    BY <1>2, <1>3 DEF ResultsOK, NotFromTheFuture, UpdateCheckList
  <1>5. LastResultIsReturned'
    BY <1>2, <1>3 DEF ResultsOK, LastResultIsReturned, Newest, UpdateCheckList
  <1> QED
    BY <1>1, <1>4, <1>5 DEF ResultsOK

\* A result that is saved is of the present second, and no other is of a later one.
LEMMA SavingKeepsResults == ASSUME ResultsOK, SaveCheckListResult PROVE ResultsOK'
  <1>1. task \in Traces /\ checks[task] \in CheckRow
    BY DEF ResultsOK, ChecksOK, SaveCheckListResult
  <1>2. Saved(checks[task]) \in CheckRow
        /\ Saved(checks[task]).answered /\ Saved(checks[task]).timestamp = now
    BY <1>1 DEF ResultsOK, ChecksOK, Saved, CheckRow
  <1>3. /\ checks'[task] = Saved(checks[task])
        /\ \A u \in Traces \ {task} : checks'[u] = checks[u]
        /\ last' = task /\ now' = now /\ task' = task
    BY <1>1 DEF ResultsOK, ChecksOK, SaveCheckListResult
  <1>4. ChecksOK'
    BY <1>1, <1>2, <1>3, NoneAssumption DEF ResultsOK, ChecksOK, SaveCheckListResult
  <1>5. Answered' = Answered \union {task}
    BY <1>1, <1>2, <1>3, NoneAssumption DEF Answered
  <1>6. \A u \in Answered' : checks'[u].timestamp <= now
    BY <1>2, <1>3, <1>5 DEF ResultsOK, ChecksOK, NotFromTheFuture, Answered
  <1>7. NotFromTheFuture'
    BY <1>3, <1>6 DEF NotFromTheFuture
  <1>8. LastResultIsReturned'
    BY <1>2, <1>3, <1>5, <1>6 DEF LastResultIsReturned, Newest
  <1> QED
    BY <1>4, <1>7, <1>8 DEF ResultsOK

LEMMA ResultStep == ASSUME ResultsOK, [Next]_vars PROVE ResultsOK'
  <1> USE DEF ResultsOK, ChecksOK
  <1>1. CASE GetSeed
    BY <1>1, OthersKeepResults DEF GetSeed, checkVars
  <1>2. CASE NextAccount
    BY <1>2, OthersKeepResults DEF NextAccount, AddAccount, UpdateAuid, UpdateTinyid,
       UpdateAccountStatus, UpdatePreference, checkVars
  <1>3. CASE \E t \in Traces : UpdateCheckList(t)
    BY <1>3, DeliveryKeepsResults
  <1>4. CASE GetCheckList
    <2>1. task' \in Unanswered
      BY <1>4 DEF GetCheckList, Newest
    <2> QED
      BY <1>4, <2>1, OthersKeepResults DEF GetCheckList
  <1>5. CASE SaveCheckListResult
    BY <1>5, SavingKeepsResults
  <1>6. CASE UpdateCheckReported \/ UpdateCheckResponse
    BY <1>6, OthersKeepResults DEF UpdateCheckReported, UpdateCheckResponse
  <1>7. CASE Tick
    BY <1>7, OthersKeepResults, ConfigStoreAssumption DEF Tick
  <1>8. CASE Restart
    BY <1>8, OthersKeepResults DEF Restart
  <1>9. CASE UNCHANGED vars
    BY <1>9, OthersKeepResults DEF vars, checkVars
  <1> QED
    BY <1>1, <1>2, <1>3, <1>4, <1>5, <1>6, <1>7, <1>8, <1>9 DEF Next, NextCheck

\* Whatever was delivered, saved and delivered again, and however often the program was
\* restarted, the newest result is the one that save_check_list_result() wrote last.
THEOREM LastSavedIsReturned == Spec => []LastResultIsReturned
  <1>1. ResultsOK /\ [Next]_vars => ResultsOK'
    BY ResultStep
  <1>2. ResultsOK => LastResultIsReturned
    BY DEF ResultsOK
  <1> QED
    BY <1>1, <1>2, ResultsStart, PTL DEF Spec

-----------------------------------------------------------------------------
CountsOK == calls \subseteq {"reported", "response"} /\ deliveries \in 0..MaxDeliveries

LEMMA CountStep == ASSUME CountsOK, [Next]_vars PROVE CountsOK'
  <1>1. CASE \E t \in Traces : UpdateCheckList(t)
    BY <1>1, ConfigStoreAssumption DEF UpdateCheckList, CountsOK
  <1>2. CASE SaveCheckListResult \/ UpdateCheckReported \/ UpdateCheckResponse
    BY <1>2 DEF SaveCheckListResult, UpdateCheckReported, UpdateCheckResponse, CountsOK
  <1>3. CASE UNCHANGED <<calls, deliveries>>
    BY <1>3 DEF CountsOK
  <1> QED
    BY <1>1, <1>2, <1>3 DEF Next, NextAccount, NextCheck, vars, checkVars, AddAccount,
       UpdateAuid, UpdateTinyid, UpdateAccountStatus, UpdatePreference, GetSeed,
       GetCheckList, Tick, Restart

\* The tables and what the program remembers stay what their columns and types say.
THEOREM TypeCorrect == Spec => []TypeOK
  <1> DEFINE AllOK == SeedsOK /\ AccountsOK /\ ResultsOK /\ CountsOK
  <1>1. Init => AllOK
    BY ResultsStart, SeedsStart, AccountsStart, ConfigStoreAssumption DEF Init, CountsOK
  <1>2. AllOK /\ [Next]_vars => AllOK'
    BY SeedStep, AccountStep, ResultStep, CountStep
  <1>3. AllOK => TypeOK
    BY DEF TypeOK, SeedsOK, AccountsOK, TablesOK, ResultsOK, ChecksOK, CountsOK
  <1> QED
    BY <1>1, <1>2, <1>3, PTL DEF Spec
=============================================================================
