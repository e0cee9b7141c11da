----------------------------- MODULE AccountsProofs -----------------------------
(***************************************************************************)
(* Proofs about Accounts: unique user names, updates that stick, and who   *)
(* becomes or makes an administrator, for any accounts, requests and edits.*)
(* At the end the theorems of RefreshTokensProofs are those of the run.    *)
(***************************************************************************)
EXTENDS MCAccounts, TLAPS

\* The columns of a body, and what a body without ADMIN's claim lacks.
EditOf(b, role) ==
  /\ DOMAIN b \subseteq Columns
  /\ "role" \in DOMAIN b => b.role \in Roles \cup {None}
  /\ "isActive" \in DOMAIN b => b.isActive \in BOOLEAN \cup {None}
  /\ "password" \in DOMAIN b => b.password \in Passwords \cup {None}
  /\ role # "ADMIN" => "role" \notin DOMAIN b /\ "isActive" \notin DOMAIN b

\* What a request knows goes with how far it has come.
LocalOK(r) ==
  /\ pc[r] \in Inserting \cup {"counting"} => body[r] \in Accounts
  /\ pc[r] \in {"signing", "reading", "writing", "removing"} => target[r] \in Ids
  /\ pc[r] \in {"signing", "writing"} => row[r] \in Accounts
  /\ pc[r] \in {"reading", "writing"} => EditOf(body[r], claim[r])

ShapeInv ==
  /\ users \in [Ids -> Accounts \cup {NoAccount}]
  /\ intended \in [Ids -> Accounts \cup {NoAccount}]
  /\ tokens \subseteq [sub : Ids, role : Roles]
  /\ pc \in [Requests -> AccountStates]
  /\ claim \in [Requests -> Roles \cup {None}]
  /\ target \in [Requests -> Ids \cup {None}]
  /\ row \in [Requests -> Accounts \cup {NoAccount}]
  /\ DOMAIN body = Requests

\* An account was intended; with it the columns nobody wrote over.
IntendedInv == \A i \in Ids : Exists(i) => intended[i] \in Accounts

\* Whoever is about to create the first administrator found no account, and
\* none of those there before can come back.
BootstrapInv == \A r \in Requests : pc[r] = "bootstrapping" => \A i \in Seeded : ~Exists(i)

IInv ==
  /\ ShapeInv /\ (\A r \in Requests : LocalOK(r))
  /\ NamesDiffer /\ IntendedInv /\ UpdatesStick /\ BootstrapInv

-----------------------------------------------------------------------------
LEMMA NewAccountIsAccount ==
  ASSUME NEW n \in Names, NEW role \in Roles, NEW p \in Passwords
  PROVE  NewAccount(n, role, p) \in Accounts
BY DEF NewAccount, Accounts

LEMMA NoAccountIsNone == NoAccount \notin Accounts
BY NoneAssumption DEF NoAccount, Accounts

LEMMA AccountsInit == Init => IInv
<1> SUFFICES ASSUME Init PROVE IInv
  OBVIOUS
<1>1. PICK seeds \in {{}, Seeded}, name \in [Seeded -> Names], p \in Passwords :
        /\ \A i, j \in Seeded : name[i] = name[j] => i = j
        /\ users = [i \in Ids |-> IF i \in seeds THEN NewAccount(name[i], SeedRole[i], p)
                                  ELSE NoAccount]
  BY DEF Init
<1>2. \A i \in Seeded : NewAccount(name[i], SeedRole[i], p) \in Accounts
  BY NewAccountIsAccount, SeedAssumption
<1>3. users \in [Ids -> Accounts \cup {NoAccount}]
  BY <1>1, <1>2
<1>4. tokens \subseteq [sub : Ids, role : Roles]
  <2>1. \A i \in Ids : Exists(i) => users[i].role \in Roles
    BY <1>3 DEF Exists, Accounts
  <2>2. QED
    BY <2>1 DEF Init, Claims
<1>5. ShapeInv
  BY <1>3, <1>4 DEF Init, ShapeInv, AccountStates
<1>6. \A r \in Requests : LocalOK(r)
  BY DEF Init, LocalOK, Inserting
<1>7. NamesDiffer
  <2>1. \A i \in Ids : Exists(i) => i \in Seeded /\ i \in seeds /\ users[i].username = name[i]
    BY <1>1 DEF Exists, NewAccount
  <2>2. \A i \in Ids : ~Exists(i) => users[i].username = None
    BY DEF Exists, NoAccount
  <2>3. \A i \in Seeded : name[i] # None
    BY NoneAssumption
  <2>4. QED
    BY <1>1, <2>1, <2>2, <2>3 DEF NamesDiffer
<1>8. IntendedInv /\ UpdatesStick /\ BootstrapInv
  BY <1>3 DEF Init, IntendedInv, UpdatesStick, BootstrapInv, Exists
<1>9. QED
  BY <1>5, <1>6, <1>7, <1>8 DEF IInv

\* The guards leave of an edit what its sender may change.
LEMMA SafeDtoIsEdit ==
  ASSUME NEW t \in [sub : Ids, role : Roles], NEW e \in Edits
  PROVE  EditOf(SafeDto(t, e), t.role)
<1>1. e \in [role : Roles \cup {None}, isActive : BOOLEAN \cup {None},
             password : Passwords \cup {None}]
  BY EditsAssumption
<1>2. DOMAIN e = {"role", "isActive", "password"}
  BY <1>1
<1>3. DOMAIN SafeDto(t, e) = IF t.role = "ADMIN" THEN DOMAIN e ELSE DOMAIN e \ Protected
  BY DEF SafeDto
<1>4. \A f \in DOMAIN SafeDto(t, e) : SafeDto(t, e)[f] = e[f]
  BY DEF SafeDto
<1>5. QED
  BY <1>1, <1>2, <1>3, <1>4 DEF EditOf, Protected, Columns

\* What writing an edit does to the row and to what was intended of it.
Written(r) ==
  LET i == target[r]
      new == Applied(row[r], body[r]) IN
  /\ i \in Ids /\ Exists(i) /\ users[i] \in Accounts
  /\ \A j \in Ids : j # i => users'[j] = users[j] /\ intended'[j] = intended[j]
  /\ users'[i] \in Accounts
  /\ users'[i].username = users[i].username
  /\ users'[i].role = Or(new.role, users[i].role)
  /\ users'[i].isActive = Or(new.isActive, users[i].isActive)
  /\ users'[i].password = Or(new.password, users[i].password)
  /\ users' \in [Ids -> Accounts \cup {NoAccount}]

LEMMA WriteUserWrites ==
  ASSUME ShapeInv, NEW r \in Requests, LocalOK(r), WriteUser(r), Exists(target[r])
  PROVE  Written(r)
<1> DEFINE i == target[r]
           new == Applied(row[r], body[r])
<1>1. i \in Ids /\ users[i] \in Accounts /\ row[r] \in Accounts /\ EditOf(body[r], claim[r])
  BY DEF WriteUser, LocalOK, ShapeInv, Exists
<1>2. /\ Or(new.role, users[i].role) \in Roles
      /\ Or(new.isActive, users[i].isActive) \in BOOLEAN
      /\ Or(new.password, users[i].password) \in Passwords
  <2>1. /\ new.role = IF "role" \in DOMAIN body[r] THEN body[r].role ELSE row[r].role
        /\ new.isActive = IF "isActive" \in DOMAIN body[r] THEN body[r].isActive ELSE row[r].isActive
        /\ new.password = IF "password" \in DOMAIN body[r] THEN body[r].password ELSE row[r].password
    BY DEF Applied, Columns
  <2>2. /\ row[r].role \in Roles /\ row[r].isActive \in BOOLEAN /\ row[r].password \in Passwords
        /\ users[i].role \in Roles /\ users[i].isActive \in BOOLEAN /\ users[i].password \in Passwords
    BY <1>1 DEF Accounts
  <2>3. /\ new.role \in Roles \cup {None} /\ new.isActive \in BOOLEAN \cup {None}
        /\ new.password \in Passwords \cup {None}
    BY <1>1, <2>1, <2>2 DEF EditOf
  <2>4. QED
    BY <2>2, <2>3 DEF Or
<1>3. users' = [users EXCEPT ![i] = Merged(users[i], new)]
  BY <1>1 DEF WriteUser
<1>4. /\ users'[i] = [username |-> users[i].username, role |-> Or(new.role, users[i].role),
                     isActive |-> Or(new.isActive, users[i].isActive),
                     password |-> Or(new.password, users[i].password),
                     hashed |-> users[i].hashed /\ new.password = None]
      /\ \A j \in Ids : j # i => users'[j] = users[j]
  BY <1>1, <1>3 DEF ShapeInv, Accounts, Merged
<1>5. users'[i] \in Accounts
  <2>1. users[i].username \in Names
    BY <1>1 DEF Accounts
  <2>2. (users[i].hashed /\ new.password = None) \in BOOLEAN
    OBVIOUS
  <2>3. QED
    BY <1>2, <1>4, <2>1, <2>2 DEF Accounts
<1>6. users' \in [Ids -> Accounts \cup {NoAccount}]
  <2>1. users' = [j \in Ids |-> users'[j]]
    BY <1>3 DEF ShapeInv
  <2>2. \A j \in Ids : users'[j] \in Accounts \cup {NoAccount}
    BY <1>4, <1>5 DEF ShapeInv
  <2>3. QED
    BY <2>1, <2>2
<1>7. \A j \in Ids : j # i => intended'[j] = intended[j]
  BY DEF WriteUser, ShapeInv
<1>8. QED
  BY <1>1, <1>4, <1>5, <1>6, <1>7 DEF Written

-----------------------------------------------------------------------------
\* A request alone changes what it knows.
Locals(q) == <<pc[q], claim[q], target[q], body[q], row[q]>>

LEMMA LocalFrame ==
  ASSUME ShapeInv, NEW r \in Requests,
         \/ Arrives(r) \/ AuthStep(r) \/ UserStep(r),
         NEW q \in Requests, q # r
  PROVE  UNCHANGED Locals(q)
<1> USE DEF ShapeInv, Locals, Goto, Answer
<1>1. ASSUME AuthStep(r) PROVE UNCHANGED Locals(q)
  BY <1>1 DEF AuthStep, CountUsers, InsertUser, AfterInsert, SignTokens
<1>2. ASSUME UserStep(r) PROVE UNCHANGED Locals(q)
  BY <1>2 DEF UserStep, ReadUser, WriteUser, DeleteUser
<1>3. ASSUME Arrives(r) PROVE UNCHANGED Locals(q)
  <2>1. ASSUME NEW n \in Names, NEW p \in Passwords, Login(r, n, p) PROVE UNCHANGED Locals(q)
    BY <2>1 DEF Login
  <2>2. ASSUME NEW n \in Names, NEW role \in NewRoles, NEW p \in Passwords, Register(r, n, role, p)
        PROVE  UNCHANGED Locals(q)
    BY <2>2 DEF Register
  <2>3. ASSUME NEW t \in tokens, Refresh(r, t) PROVE UNCHANGED Locals(q)
    BY <2>3 DEF Refresh
  <2>4. ASSUME NEW t \in tokens, NEW n \in Names, NEW role \in NewRoles, NEW p \in Passwords,
               CreateUser(r, t, n, role, p)
        PROVE  UNCHANGED Locals(q)
    BY <2>4 DEF CreateUser, Admitted
  <2>5. ASSUME NEW t \in tokens, NEW i \in Existing, NEW e \in Edits, PatchUser(r, t, i, e)
        PROVE  UNCHANGED Locals(q)
    BY <2>5 DEF PatchUser, Admitted
  <2>6. ASSUME NEW t \in tokens, NEW i \in Existing, RemoveUser(r, t, i) PROVE UNCHANGED Locals(q)
    BY <2>6 DEF RemoveUser, Admitted
  <2>7. ASSUME NEW t \in tokens, NEW p \in Passwords, ChangePassword(r, t, p)
        PROVE  UNCHANGED Locals(q)
    BY <2>7 DEF ChangePassword, FailsWithoutSub
  <2>8. ASSUME NEW t \in tokens, OwnProfile(r, t) PROVE UNCHANGED Locals(q)
    BY <2>8 DEF OwnProfile, FailsWithoutSub
  <2>9. QED
    BY <1>3, <2>1, <2>2, <2>3, <2>4, <2>5, <2>6, <2>7, <2>8 DEF Arrives
<1>4. QED
  BY <1>1, <1>2, <1>3

\* How an arriving request, and one at work, come to know what they know.
LEMMA ArrivalKnows ==
  ASSUME ShapeInv, NEW r \in Requests, Arrives(r)
  PROVE  ShapeInv' /\ LocalOK(r)' /\ UNCHANGED <<users, tokens, histories>>
            /\ pc'[r] # "bootstrapping" /\ pc[r] # "writing"
<1> DEFINE Knows == ShapeInv' /\ LocalOK(r)' /\ UNCHANGED <<users, tokens, histories>>
                      /\ pc'[r] # "bootstrapping" /\ pc[r] # "writing"
<1> USE DEF ShapeInv, LocalOK, Goto, AccountStates, Inserting, histories
<1>1. \A n \in Names, role \in Roles, p \in Passwords : NewAccount(n, role, p) \in Accounts
  BY NewAccountIsAccount
<1>2. "ADMIN" \in Roles /\ NewRoles \subseteq Roles
  BY SeedAssumption DEF Roles, Hierarchy
<1>3. \A t \in tokens : t.sub \in Ids /\ t.role \in Roles
  OBVIOUS
<1>4. \A i \in Ids : Exists(i) => users[i] \in Accounts
  BY DEF Exists
<1>5. ASSUME NEW n \in Names, NEW p \in Passwords, Login(r, n, p) PROVE Knows
  <2>1. CASE ~Taken(n)
    BY <1>1, <1>2, <1>5, <2>1 DEF Login
  <2>2. CASE Taken(n)
    <3>1. WithName(n) \in Ids /\ users[WithName(n)].username = n
      BY <2>2 DEF Taken, WithName
    <3>2. users[WithName(n)] \in Accounts
      BY <3>1, NoneAssumption DEF NoAccount
    <3>3. QED
      BY <1>5, <2>2, <3>1, <3>2 DEF Login
  <2>3. QED
    BY <2>1, <2>2
<1>6. ASSUME NEW n \in Names, NEW role \in NewRoles, NEW p \in Passwords, Register(r, n, role, p)
      PROVE  Knows
  BY <1>1, <1>2, <1>6 DEF Register
<1>7. ASSUME NEW t \in tokens, Refresh(r, t) PROVE Knows
  BY <1>3, <1>4, <1>7 DEF Refresh
<1>8. ASSUME NEW t \in tokens, NEW n \in Names, NEW role \in NewRoles, NEW p \in Passwords,
             CreateUser(r, t, n, role, p)
      PROVE  Knows
  BY <1>1, <1>2, <1>3, <1>8 DEF CreateUser, Admitted
<1>9. ASSUME NEW t \in tokens, NEW i \in Existing, NEW e \in Edits, PatchUser(r, t, i, e)
      PROVE  Knows
  <2>1. EditOf(SafeDto(t, e), t.role) /\ i \in Ids
    BY SafeDtoIsEdit DEF Existing
  <2>2. body'[r] = SafeDto(t, e) /\ claim'[r] = t.role
    BY <1>9 DEF PatchUser, Admitted
  <2>3. QED
    BY <1>3, <1>9, <2>1, <2>2 DEF PatchUser, Admitted
<1>10. ASSUME NEW t \in tokens, NEW i \in Existing, RemoveUser(r, t, i) PROVE Knows
  BY <1>3, <1>10 DEF RemoveUser, Admitted, Existing
<1>11. ASSUME NEW t \in tokens, NEW p \in Passwords, ChangePassword(r, t, p) PROVE Knows
  BY <1>3, <1>11 DEF ChangePassword, FailsWithoutSub
<1>12. ASSUME NEW t \in tokens, OwnProfile(r, t) PROVE Knows
  BY <1>3, <1>12 DEF OwnProfile, FailsWithoutSub
<1>13. QED
  BY <1>5, <1>6, <1>7, <1>8, <1>9, <1>10, <1>11, <1>12 DEF Arrives

\* What the request intended: the columns its body gives.
Intends(r) ==
  LET i == target[r]
      b == body[r] IN
  /\ intended'[i] \in Accounts
  /\ intended'[i].role = IF "role" \in DOMAIN b THEN Or(b.role, intended[i].role) ELSE intended[i].role
  /\ intended'[i].isActive = IF "isActive" \in DOMAIN b THEN Or(b.isActive, intended[i].isActive)
                             ELSE intended[i].isActive
  /\ intended'[i].password = IF "password" \in DOMAIN b THEN Or(b.password, intended[i].password)
                             ELSE intended[i].password

LEMMA WriteUserIntends ==
  ASSUME ShapeInv, IntendedInv, NEW r \in Requests, LocalOK(r), WriteUser(r), Exists(target[r])
  PROVE  Intends(r)
<1> DEFINE i == target[r]
           b == body[r]
<1>1. i \in Ids /\ intended[i] \in Accounts /\ EditOf(b, claim[r])
  BY DEF WriteUser, LocalOK, IntendedInv
<1>2. intended'[i] = [f \in DOMAIN intended[i] |->
                        IF f \in DOMAIN b THEN Or(b[f], intended[i][f]) ELSE intended[i][f]]
  BY <1>1 DEF WriteUser, ShapeInv
<1>3. DOMAIN intended[i] = {"username", "role", "isActive", "password", "hashed"}
  BY <1>1 DEF Accounts
<1>4. /\ intended'[i].role = IF "role" \in DOMAIN b THEN Or(b.role, intended[i].role) ELSE intended[i].role
      /\ intended'[i].isActive = IF "isActive" \in DOMAIN b THEN Or(b.isActive, intended[i].isActive)
                                 ELSE intended[i].isActive
      /\ intended'[i].password = IF "password" \in DOMAIN b THEN Or(b.password, intended[i].password)
                                 ELSE intended[i].password
  BY <1>2, <1>3
<1>5. intended'[i].username = intended[i].username /\ intended'[i].hashed = intended[i].hashed
  BY <1>1, <1>2, <1>3 DEF EditOf, Columns
<1>6. intended'[i] = [username |-> intended'[i].username, role |-> intended'[i].role,
                      isActive |-> intended'[i].isActive, password |-> intended'[i].password,
                      hashed |-> intended'[i].hashed]
  BY <1>2, <1>3
<1>7. /\ intended'[i].role \in Roles /\ intended'[i].isActive \in BOOLEAN
      /\ intended'[i].password \in Passwords
  BY <1>1, <1>4 DEF Accounts, EditOf, Or
<1>8. intended[i].username \in Names /\ intended[i].hashed \in BOOLEAN
  BY <1>1 DEF Accounts
<1>9. intended'[i] \in Accounts
  BY <1>5, <1>6, <1>7, <1>8 DEF Accounts
<1>10. QED
  BY <1>4, <1>9 DEF Intends

\* Every step of a request at work keeps the shapes.
LEMMA WorkKnows ==
  ASSUME ShapeInv, IntendedInv, NEW r \in Requests, LocalOK(r), AuthStep(r) \/ UserStep(r)
  PROVE  ShapeInv' /\ LocalOK(r)'
<1> USE DEF ShapeInv, LocalOK, Goto, Answer, AccountStates, Inserting, histories
<1>1. ASSUME CountUsers(r) PROVE ShapeInv' /\ LocalOK(r)'
  BY <1>1 DEF CountUsers
<1>2. ASSUME InsertUser(r) PROVE ShapeInv' /\ LocalOK(r)'
  <2>1. body[r] \in Accounts /\ r \in Ids
    BY <1>2 DEF InsertUser, Ids
  <2>2. /\ users' \in [Ids -> Accounts \cup {NoAccount}]
        /\ intended' \in [Ids -> Accounts \cup {NoAccount}] /\ UNCHANGED tokens
    BY <1>2, <2>1 DEF InsertUser
  <2>3. CASE Answer(r)
    BY <2>2, <2>3
  <2>4. CASE AfterInsert(r)
    BY <2>1, <2>2, <2>4 DEF AfterInsert
  <2>5. QED
    BY <1>2, <2>3, <2>4 DEF InsertUser
<1>3. ASSUME SignTokens(r) PROVE ShapeInv' /\ LocalOK(r)'
  <2>1. Claims(target[r], row[r]) \in [sub : Ids, role : Roles]
    BY <1>3 DEF SignTokens, Claims, Accounts
  <2>2. QED
    BY <1>3, <2>1 DEF SignTokens
<1>4. ASSUME ReadUser(r) PROVE ShapeInv' /\ LocalOK(r)'
  BY <1>4 DEF ReadUser, Exists
<1>5. ASSUME WriteUser(r) PROVE ShapeInv' /\ LocalOK(r)'
  <2>1. Answer(r) /\ UNCHANGED tokens
    BY <1>5 DEF WriteUser
  <2>2. CASE Exists(target[r])
    <3>1. users' \in [Ids -> Accounts \cup {NoAccount}] /\ Written(r) /\ Intends(r)
      BY <1>5, <2>2, WriteUserWrites, WriteUserIntends DEF Written
    <3>2. intended' \in [Ids -> Accounts \cup {NoAccount}]
      <4>1. intended' = [j \in Ids |-> intended'[j]]
        BY <1>5, <2>2 DEF WriteUser
      <4>2. \A j \in Ids : intended'[j] \in Accounts \cup {NoAccount}
        BY <3>1 DEF Written, Intends
      <4>3. QED
        BY <4>1, <4>2
    <3>3. QED
      BY <2>1, <3>1, <3>2
  <2>3. CASE ~Exists(target[r])
    BY <1>5, <2>1, <2>3 DEF WriteUser
  <2>4. QED
    BY <2>2, <2>3
<1>6. ASSUME DeleteUser(r) PROVE ShapeInv' /\ LocalOK(r)'
  BY <1>6 DEF DeleteUser
<1>7. QED
  BY <1>1, <1>2, <1>3, <1>4, <1>5, <1>6 DEF AuthStep, UserStep

LEMMA KnowsStep ==
  ASSUME ShapeInv, IntendedInv, \A r \in Requests : LocalOK(r), [Next]_vars
  PROVE  ShapeInv' /\ \A r \in Requests : LocalOK(r)'
<1>1. ASSUME NEW r \in Requests, Arrives(r) \/ AuthStep(r) \/ UserStep(r)
      PROVE  ShapeInv' /\ \A q \in Requests : LocalOK(q)'
  <2>1. ShapeInv' /\ LocalOK(r)'
    BY <1>1, ArrivalKnows, WorkKnows
  <2>2. ASSUME NEW q \in Requests, q # r PROVE LocalOK(q)'
    <3>1. UNCHANGED Locals(q)
      BY <1>1, <2>2, LocalFrame
    <3>2. QED
      BY <3>1 DEF Locals, LocalOK
  <2>3. QED
    BY <2>1, <2>2
<1>2. CASE UNCHANGED vars
  BY <1>2 DEF vars, requestVars, histories, ShapeInv, LocalOK
<1>3. QED
  BY <1>1, <1>2 DEF Next

-----------------------------------------------------------------------------
\* Three handlers write accounts.
Inserts(r) ==
  /\ pc[r] \in Inserting /\ body[r] \in Accounts /\ ~Taken(body[r].username)
  /\ users' = [users EXCEPT ![r] = body[r]]
  /\ intended' = [intended EXCEPT ![r] = body[r]]
  /\ UNCHANGED overwritten

LEMMA WhoWrites ==
  ASSUME ShapeInv, \A r \in Requests : LocalOK(r), [Next]_vars
  PROVE  \/ UNCHANGED <<users, histories>>
         \/ \E r \in Requests : Inserts(r) \/ DeleteUser(r) \/ (WriteUser(r) /\ Exists(target[r]))
<1>1. ASSUME NEW r \in Requests, Arrives(r) PROVE UNCHANGED <<users, histories>>
  BY <1>1, ArrivalKnows
<1>2. ASSUME NEW r \in Requests, AuthStep(r) PROVE UNCHANGED <<users, histories>> \/ Inserts(r)
  BY <1>2 DEF AuthStep, CountUsers, SignTokens, InsertUser, Inserts, LocalOK, histories
<1>3. ASSUME NEW r \in Requests, UserStep(r)
      PROVE  UNCHANGED <<users, histories>> \/ DeleteUser(r) \/ (WriteUser(r) /\ Exists(target[r]))
  BY <1>3 DEF UserStep, ReadUser, WriteUser, histories
<1>4. QED
  BY <1>1, <1>2, <1>3 DEF Next, vars

LEMMA NamesStep ==
  ASSUME ShapeInv, \A r \in Requests : LocalOK(r), NamesDiffer, [Next]_vars
  PROVE  NamesDiffer'
<1>1. \A i \in Ids : ~Exists(i) => users[i].username = None
  BY DEF Exists, NoAccount
<1>2. ASSUME NEW r \in Requests, Inserts(r) PROVE NamesDiffer'
  <2>1. users'[r] = body[r] /\ \A i \in Ids \ {r} : users'[i] = users[i]
    BY <1>2 DEF Inserts, ShapeInv, Ids
  <2>2. \A i \in Ids \ {r} : users'[i].username # body[r].username
    BY <1>2, <2>1 DEF Inserts, Taken
  <2>3. \A i \in Ids \ {r} : Exists(i)' <=> Exists(i)
    BY <2>1 DEF Exists
  <2>4. QED
    BY <2>1, <2>2, <2>3 DEF NamesDiffer
<1>3. ASSUME NEW r \in Requests, DeleteUser(r) PROVE NamesDiffer'
  <2>1. \A i \in Ids : users'[i] = users[i] \/ users'[i] = NoAccount
    BY <1>3 DEF DeleteUser, ShapeInv
  <2>2. \A i \in Ids : Exists(i)' => Exists(i) /\ users'[i] = users[i] /\ users[i].username \in Names
    BY <2>1 DEF Exists, ShapeInv, Accounts
  <2>3. \A i \in Ids : users'[i] = NoAccount => users'[i].username \notin Names
    BY NoneAssumption DEF NoAccount
  <2>4. QED
    BY <2>1, <2>2, <2>3 DEF NamesDiffer
<1>4. ASSUME NEW r \in Requests, WriteUser(r), Exists(target[r]) PROVE NamesDiffer'
  <2>1. \A i \in Ids : users'[i].username = users[i].username /\ (Exists(i)' => Exists(i))
    BY <1>4, WriteUserWrites DEF Written, Exists
  <2>2. QED
    BY <2>1 DEF NamesDiffer
<1>5. CASE UNCHANGED users
  BY <1>5 DEF NamesDiffer, Exists
<1>6. QED
  BY <1>2, <1>3, <1>4, <1>5, WhoWrites

\* An account and what was intended of it agree.
Agree(i) ==
  /\ users[i].role = intended[i].role
  /\ users[i].isActive = intended[i].isActive
  /\ users[i].password = intended[i].password

LEMMA IntendedStep ==
  ASSUME ShapeInv, \A r \in Requests : LocalOK(r), IntendedInv, UpdatesStick, [Next]_vars
  PROVE  IntendedInv' /\ UpdatesStick'
<1> SUFFICES ASSUME NEW i \in Ids, Exists(i)'
             PROVE  intended'[i] \in Accounts /\ (i \notin overwritten' => Agree(i)')
  BY DEF IntendedInv, UpdatesStick, Agree
<1>1. Exists(i) => intended[i] \in Accounts /\ (i \notin overwritten => Agree(i))
  BY DEF IntendedInv, UpdatesStick, Agree
<1>2. ASSUME users'[i] = users[i], intended'[i] = intended[i], overwritten \subseteq overwritten'
      PROVE  intended'[i] \in Accounts /\ (i \notin overwritten' => Agree(i)')
  BY <1>1, <1>2 DEF Exists, Agree
<1>3. ASSUME NEW r \in Requests, Inserts(r)
      PROVE  intended'[i] \in Accounts /\ (i \notin overwritten' => Agree(i)')
  <2>1. CASE i = r
    BY <1>3, <2>1 DEF Inserts, ShapeInv, Agree
  <2>2. CASE i # r
    BY <1>2, <1>3, <2>2 DEF Inserts, ShapeInv
  <2>3. QED
    BY <2>1, <2>2
<1>4. ASSUME NEW r \in Requests, DeleteUser(r)
      PROVE  intended'[i] \in Accounts /\ (i \notin overwritten' => Agree(i)')
  <2>1. users'[i] = users[i] /\ UNCHANGED <<intended, overwritten>>
    BY <1>4 DEF DeleteUser, ShapeInv, Exists, histories
  <2>2. QED
    BY <1>2, <2>1
<1>5. ASSUME NEW r \in Requests, WriteUser(r), Exists(target[r])
      PROVE  intended'[i] \in Accounts /\ (i \notin overwritten' => Agree(i)')
  <2>1. Written(r) /\ Intends(r)
    BY <1>5, WriteUserWrites, WriteUserIntends
  <2>2. overwritten' = IF \A f \in Columns \ DOMAIN body[r] : users[target[r]][f] = row[r][f]
                         THEN overwritten ELSE overwritten \cup {target[r]}
    BY <1>5 DEF WriteUser
  <2>3. CASE i # target[r]
    BY <1>2, <2>1, <2>2, <2>3 DEF Written
  <2>4. CASE i = target[r]
    <3> DEFINE b == body[r]
               new == Applied(row[r], b)
    <3> SUFFICES ASSUME i \notin overwritten' PROVE Agree(i)'
      BY <2>1, <2>4 DEF Intends
    <3>1. Agree(i)
      BY <1>1, <2>1, <2>2, <2>4 DEF Written
    <3>2. \A f \in Columns \ DOMAIN b : users[i][f] = row[r][f]
      BY <2>2, <2>4
    <3>3. /\ "role" \notin DOMAIN b => row[r].role = users[i].role
          /\ "isActive" \notin DOMAIN b => row[r].isActive = users[i].isActive
          /\ "password" \notin DOMAIN b => row[r].password = users[i].password
      BY <3>2 DEF Columns
    <3>4. /\ new.role = IF "role" \in DOMAIN b THEN b.role ELSE row[r].role
          /\ new.isActive = IF "isActive" \in DOMAIN b THEN b.isActive ELSE row[r].isActive
          /\ new.password = IF "password" \in DOMAIN b THEN b.password ELSE row[r].password
      BY DEF Applied, Columns
    <3>5. QED
      BY <2>1, <2>4, <3>1, <3>3, <3>4 DEF Written, Intends, Agree, Or
  <2>5. QED
    BY <2>3, <2>4
<1>6. CASE UNCHANGED <<users, histories>>
  BY <1>2, <1>6 DEF histories
<1>7. QED
  BY <1>3, <1>4, <1>5, <1>6, WhoWrites

\* Those there from the start are never inserted.
LEMMA SeededStayAway ==
  ASSUME ShapeInv, \A r \in Requests : LocalOK(r), [Next]_vars, NEW i \in Seeded, Exists(i)'
  PROVE  Exists(i)
<1>1. i \in Ids
  BY DEF Ids
<1>2. ASSUME NEW r \in Requests, Inserts(r) PROVE Exists(i)
  BY <1>1, <1>2, IdsAssumption DEF Inserts, ShapeInv, Exists
<1>3. ASSUME NEW r \in Requests, DeleteUser(r) PROVE Exists(i)
  BY <1>1, <1>3 DEF DeleteUser, ShapeInv, Exists
<1>4. ASSUME NEW r \in Requests, WriteUser(r), Exists(target[r]) PROVE Exists(i)
  BY <1>1, <1>4, WriteUserWrites DEF Written, Exists
<1>5. CASE UNCHANGED users
  BY <1>5 DEF Exists
<1>6. QED
  BY <1>2, <1>3, <1>4, <1>5, WhoWrites

LEMMA BootstrapStep ==
  ASSUME ShapeInv, \A r \in Requests : LocalOK(r), BootstrapInv, [Next]_vars
  PROVE  BootstrapInv'
<1> SUFFICES ASSUME NEW q \in Requests, pc'[q] = "bootstrapping", NEW i \in Seeded, Exists(i)'
             PROVE  FALSE
  BY DEF BootstrapInv
<1>1. Exists(i) /\ pc[q] # "bootstrapping"
  BY SeededStayAway DEF BootstrapInv
<1>2. PICK r \in Requests : Arrives(r) \/ AuthStep(r) \/ UserStep(r)
  BY <1>1 DEF Next, vars, requestVars
<1>3. q = r
  BY <1>1, <1>2, LocalFrame DEF Locals
<1>4. CountUsers(r)
  BY <1>1, <1>2, <1>3, ArrivalKnows
    DEF AuthStep, UserStep, InsertUser, AfterInsert, SignTokens, ReadUser, WriteUser, DeleteUser,
        Answer, Goto, ShapeInv
<1>5. QED
  BY <1>1, <1>3, <1>4 DEF CountUsers, Answer, Goto, ShapeInv, Ids

LEMMA AccountsStep == IInv /\ [Next]_vars => IInv'
<1> SUFFICES ASSUME IInv, [Next]_vars PROVE IInv'
  OBVIOUS
<1>1. ShapeInv' /\ \A r \in Requests : LocalOK(r)'
  BY KnowsStep DEF IInv
<1>2. NamesDiffer' /\ IntendedInv' /\ UpdatesStick' /\ BootstrapInv'
  BY NamesStep, IntendedStep, BootstrapStep DEF IInv
<1>3. QED
  BY <1>1, <1>2 DEF IInv

-----------------------------------------------------------------------------
(* The theorems *)

\* The inductive invariant of the accounts.
THEOREM AccountsInvariant == Spec => []IInv
BY AccountsInit, AccountsStep, PTL DEF Spec

\* Two accounts never share a user name (register and login of auth.service,
\* create of users.service), however their checks and inserts race.
THEOREM AccountNamesDiffer == Spec => []NamesDiffer
<1>1. IInv => NamesDiffer
  BY DEF IInv
<1>2. QED
  BY <1>1, AccountsInvariant, PTL

\* The role, activation and password of an account are those its updates gave
\* (applyUpdate of users.service), unless one wrote a stale row back.
THEOREM AccountUpdatesStick == Spec => []UpdatesStick
<1>1. IInv => UpdatesStick
  BY DEF IInv
<1>2. QED
  BY <1>1, AccountsInvariant, PTL

\* A request whose token claims less than ADMIN changes neither role nor
\* activation (the safe body of users.controller), but for a stale row.
THEOREM AccountOnlyAdminsElevate == Spec => OnlyAdminsElevate
<1> DEFINE Elevates(i, r) ==
      /\ pc[r] = "writing" /\ pc'[r] # "writing" /\ target[r] = i /\ claim[r] # "ADMIN"
      /\ Exists(i) /\ i \notin overwritten'
      => users'[i].role = users[i].role /\ users'[i].isActive = users[i].isActive
<1>1. ASSUME IInv, [Next]_vars, NEW i \in Ids, NEW r \in Requests PROVE Elevates(i, r)
  <2> SUFFICES ASSUME pc[r] = "writing", pc'[r] # "writing", target[r] = i, claim[r] # "ADMIN",
                      Exists(i), i \notin overwritten'
               PROVE  users'[i].role = users[i].role /\ users'[i].isActive = users[i].isActive
    OBVIOUS
  <2>1. ShapeInv /\ LocalOK(r)
    BY <1>1 DEF IInv
  <2>2. PICK q \in Requests : Arrives(q) \/ AuthStep(q) \/ UserStep(q)
    BY <1>1 DEF Next, vars, requestVars
  <2>3. q = r
    BY <2>1, <2>2, LocalFrame DEF Locals
  <2>4. WriteUser(r)
    BY <2>1, <2>2, <2>3, ArrivalKnows
      DEF AuthStep, UserStep, CountUsers, InsertUser, Inserting, SignTokens, ReadUser, DeleteUser
  <2>5. Written(r) /\ EditOf(body[r], claim[r])
    BY <2>1, <2>4, WriteUserWrites DEF LocalOK
  <2>6. \A f \in Columns \ DOMAIN body[r] : users[i][f] = row[r][f]
    BY <2>4 DEF WriteUser
  <2>7. row[r].role = users[i].role /\ row[r].isActive = users[i].isActive
    BY <2>5, <2>6 DEF EditOf, Columns
  <2>8. LET new == Applied(row[r], body[r]) IN new.role = row[r].role /\ new.isActive = row[r].isActive
    BY <2>5 DEF Applied, Columns, EditOf
  <2>9. QED
    BY <2>5, <2>7, <2>8 DEF Written, Or
<1>2. IInv /\ [Next]_vars => [\A i \in Ids, r \in Requests : Elevates(i, r)]_vars
  BY <1>1
<1>3. QED
  BY <1>2, AccountsInvariant, PTL DEF Spec, OnlyAdminsElevate

\* The first administrator (login of auth.service) is never made while an
\* account lives that was there before the login.
THEOREM AccountBootstrapsOnlyEmpty == Spec => BootstrapsOnlyEmpty
<1>1. IInv => \A r \in Requests, i \in Seeded : pc[r] = "bootstrapping" => ~Exists(i)
  BY DEF IInv, BootstrapInv
<1>2. IInv /\ [Next]_vars =>
        [\A r \in Requests, i \in Seeded :
           pc[r] = "bootstrapping" /\ users'[r] # NoAccount => ~Exists(i)]_vars
  BY <1>1
<1>3. QED
  BY <1>2, AccountsInvariant, PTL DEF Spec, BootstrapsOnlyEmpty

\* A login with the password last given for an account (login of auth.service) is
\* refused as invalid only if the stored one was never hashed, as a PATCH of it
\* leaves it, or if a stale row was written back.
THEOREM AccountRefusedIsUnhashed ==
  Spec => [][\A r \in Requests :
               /\ pc[r] = "idle" /\ pc'[r] = "invalid"
               /\ target'[r] \notin overwritten
               /\ body'[r] = intended[target'[r]].password
               => ~users[target'[r]].hashed]_vars
<1> DEFINE Refused(r) ==
             /\ pc[r] = "idle" /\ pc'[r] = "invalid"
             /\ target'[r] \notin overwritten
             /\ body'[r] = intended[target'[r]].password
<1>1. ASSUME IInv, [Next]_vars, NEW r \in Requests, Refused(r)
      PROVE  ~users[target'[r]].hashed
  <2>1. ShapeInv /\ UpdatesStick
    BY <1>1 DEF IInv
  <2>2. PICK q \in Requests : Arrives(q) \/ AuthStep(q) \/ UserStep(q)
    BY <1>1 DEF Next, vars, requestVars
  <2>3. q = r
    BY <1>1, <2>1, <2>2, LocalFrame DEF Locals
  <2>4. PICK n \in Names, p \in Passwords : Login(r, n, p)
    BY <1>1, <2>1, <2>2, <2>3
      DEF ShapeInv, Arrives, AuthStep, UserStep, CountUsers, InsertUser, AfterInsert, Inserting,
          SignTokens, Answer, ReadUser, WriteUser, DeleteUser, Register, Refresh, Admitted,
          CreateUser, PatchUser, RemoveUser, FailsWithoutSub, ChangePassword, OwnProfile, Goto
  <2> DEFINE i == WithName(n)
  <2>5. /\ Taken(n) /\ target'[r] = i /\ body'[r] = p /\ ~Matches(users[i], p)
    BY <1>1, <2>1, <2>4 DEF ShapeInv, Login, Goto
  <2>6. i \in Ids /\ users[i].username = n
    BY <2>5 DEF WithName, Taken
  <2>7. Exists(i)
    BY <2>6, NoneAssumption DEF Exists, NoAccount
  <2>8. users[i].password = p
    BY <1>1, <2>1, <2>5, <2>6, <2>7 DEF UpdatesStick
  <2>9. QED
    BY <2>5, <2>8 DEF Matches
<1>2. IInv /\ [Next]_vars =>
        [\A r \in Requests : Refused(r) => ~users[target'[r]].hashed]_vars
  BY <1>1
<1>3. QED
  BY <1>2, AccountsInvariant, PTL DEF Spec

-----------------------------------------------------------------------------
(* The refresh tokens beside the accounts *)

RP == INSTANCE RefreshTokensProofs WITH Requests <- TokenRequests, pc <- tokenPc

LEMMA TokensDiffer == RP!ConstantsDiffer
BY TokenAssumption DEF RP!ConstantsDiffer, RP!Tokens

\* The tokens behave as they do alone.
LEMMA TokensRefine == MCSpec => RP!Spec
<1>1. MCInit => RP!Init
  BY DEF MCInit, R!Init, RP!Init, R!Tokens, RP!Tokens, R!NoRow, RP!NoRow
<1>2. [MCNext]_<<part, vars, tokenVars>> => [RP!Next]_RP!vars
  <2>1. R!Next => RP!Next
    BY DEF R!Next, RP!Next, R!SignIn, RP!SignIn, R!PersistFirst, RP!PersistFirst,
           R!RefreshStep, RP!RefreshStep, R!SignNext, RP!SignNext,
           R!CreateRotated, RP!CreateRotated, R!RevokeUsed, RP!RevokeUsed,
           R!RevokeOnReuse, RP!RevokeOnReuse, R!RevokeOnLogout, RP!RevokeOnLogout,
           R!RevokeFamily, RP!RevokeFamily, R!Revoked, RP!Revoked, R!Close, RP!Close,
           R!FindForRefresh, RP!FindForRefresh, R!FindForLogout, RP!FindForLogout,
           R!Tick, RP!Tick, R!Crash, RP!Crash, R!Goto, RP!Goto, R!Known, RP!Known,
           R!Tokens, RP!Tokens, R!NoRow, RP!NoRow, R!Exists, RP!Exists, R!Live, RP!Live,
           R!InFamily, RP!InFamily, R!Rotating, RP!Rotating, R!Busy, RP!Busy,
           R!RotatedMeanwhile, RP!RotatedMeanwhile, R!AboutToCreate, RP!AboutToCreate,
           R!requestVars, RP!requestVars, R!histories, RP!histories
  <2>2. QED
    BY <2>1 DEF MCNext, tokenVars, RP!vars, RP!requestVars, RP!histories
<1>3. QED
  BY <1>1, <1>2, PTL DEF MCSpec, RP!Spec

LEMMA SameTokens ==
  /\ RP!ClosedFamilyStaysDead => ClosedFamilyStaysDead
  /\ RP!OneLiveToken => OneLiveToken
  /\ RP!AnsweredIsLive => AnsweredIsLive
<1> USE DEF R!Tokens, RP!Tokens, R!NoRow, RP!NoRow, R!Exists, RP!Exists, R!Live, RP!Live
<1>1. RP!ClosedFamilyStaysDead => ClosedFamilyStaysDead
  BY DEF ClosedFamilyStaysDead, R!ClosedFamilyStaysDead, RP!ClosedFamilyStaysDead
<1>2. RP!OneLiveToken => OneLiveToken
  BY DEF OneLiveToken, R!OneLiveToken, RP!OneLiveToken, R!BeingRevoked, RP!BeingRevoked
<1>3. RP!AnsweredIsLive => AnsweredIsLive
  BY DEF AnsweredIsLive, R!AnsweredIsLive, RP!AnsweredIsLive, R!Rotated, RP!Rotated, R!Kept, RP!Kept
<1>4. QED
  BY <1>1, <1>2, <1>3

\* Beside the accounts too a family revoked while no refresh is past its check
\* stays dead (revokeFamily of refresh-token.repository).
THEOREM AccountClosedStaysDead == MCSpec => []ClosedFamilyStaysDead
<1>1. RP!Spec => []RP!ClosedFamilyStaysDead
  BY TokensDiffer, RP!RefreshClosedStaysDead
<1>2. QED
  BY <1>1, TokensRefine, SameTokens, PTL

\* One token of a family is usable (refresh of auth.service), unless two
\* refreshes raced or a revoke was lost.
THEOREM AccountOneLiveToken == MCSpec => []OneLiveToken
<1>1. RP!Spec => []RP!OneLiveToken
  BY TokensDiffer, RP!RefreshOneLiveToken
<1>2. QED
  BY <1>1, TokensRefine, SameTokens, PTL

\* Whoever was answered can go on until the token is rotated or its family
\* revoked: with the answered token, or with the presented one if the insert of
\* a refresh failed.  A login whose insert failed is not among them.
THEOREM AccountAnsweredIsLive == MCSpec => []AnsweredIsLive
<1>1. RP!Spec => []RP!AnsweredIsLive
  BY TokensDiffer, RP!RefreshAnsweredIsLive
<1>2. QED
  BY <1>1, TokensRefine, SameTokens, PTL

=============================================================================
