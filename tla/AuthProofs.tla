----------------------------- MODULE AuthProofs -----------------------------
(***************************************************************************)
(* Theorems about Auth, for any users, groups, databases and connections,  *)
(* any number of commands and any number of kills and failing writes.                         *)
(***************************************************************************)
EXTENDS Auth, TLAPS

-----------------------------------------------------------------------------
(* Maps *)

LEMMA MapIs ==
  ASSUME NEW K, NEW V, NEW f \in Maps(K, V)
  PROVE  /\ DOMAIN f \subseteq K
         /\ \A x \in DOMAIN f : f[x] \in V
         /\ f = [x \in DOMAIN f |-> f[x]]
BY DEF Maps

LEMMA MapOf ==
  ASSUME NEW K, NEW V, NEW D \in SUBSET K, NEW f, f = [x \in D |-> f[x]],
         \A x \in D : f[x] \in V
  PROVE  f \in Maps(K, V)
<1>1. f \in [D -> V]
  OBVIOUS
<1> QED
  BY <1>1 DEF Maps

LEMMA NothingMap ==
  ASSUME NEW K, NEW V
  PROVE  Nothing \in Maps(K, V) /\ DOMAIN Nothing = {}
BY DEF Maps, Nothing

LEMMA PutIs ==
  ASSUME NEW f, NEW k, NEW v
  PROVE  /\ DOMAIN Put(f, k, v) = DOMAIN f \cup {k}
         /\ Put(f, k, v)[k] = v
         /\ \A x \in DOMAIN f : x # k => Put(f, k, v)[x] = f[x]
BY DEF Put

LEMMA PutMap ==
  ASSUME NEW K, NEW V, NEW f \in Maps(K, V), NEW k \in K, NEW v \in V
  PROVE  Put(f, k, v) \in Maps(K, V)
<1>1. /\ DOMAIN f \cup {k} \in SUBSET K
      /\ Put(f, k, v) = [x \in DOMAIN f \cup {k} |-> Put(f, k, v)[x]]
      /\ \A x \in DOMAIN f \cup {k} : Put(f, k, v)[x] \in V
  BY MapIs DEF Put
<1> QED
  BY <1>1, MapOf

LEMMA ExceptMap ==
  ASSUME NEW K, NEW V, NEW f \in Maps(K, V), NEW k \in DOMAIN f, NEW v \in V
  PROVE  [f EXCEPT ![k] = v] \in Maps(K, V)
<1> DEFINE g == [f EXCEPT ![k] = v]
<1>1. DOMAIN f \in SUBSET K /\ g = [x \in DOMAIN f |-> g[x]] /\ \A x \in DOMAIN f : g[x] \in V
  BY MapIs
<1> QED
  BY <1>1, MapOf

-----------------------------------------------------------------------------
(* Stores *)

LEMMA StoreIs ==
  ASSUME NEW m \in Stores
  PROVE  /\ m.secret \in 0 .. MaxFaults + 1 /\ m.users \in Maps(Users, Accounts)
         /\ m.groups \in Maps(Groups, Permissions) /\ m.defaults \in Permissions
         /\ DOMAIN m.users \subseteq Users /\ DOMAIN m.groups \subseteq Groups
         /\ \A u \in DOMAIN m.users : m.users[u] \in Accounts
         /\ \A g \in DOMAIN m.groups : m.groups[g] \in Permissions
<1>1. /\ m.secret \in 0 .. MaxFaults + 1 /\ m.users \in Maps(Users, Accounts)
      /\ m.groups \in Maps(Groups, Permissions) /\ m.defaults \in Permissions
  BY DEF Stores
<1> QED
  BY <1>1, MapIs

LEMMA StoreWith ==
  ASSUME NEW m \in Stores
  PROVE  /\ \A s \in 0 .. MaxFaults + 1 : [m EXCEPT !.secret = s] \in Stores
         /\ \A us \in Maps(Users, Accounts) : [m EXCEPT !.users = us] \in Stores
         /\ \A gs \in Maps(Groups, Permissions) : [m EXCEPT !.groups = gs] \in Stores
         /\ \A ds \in Permissions : [m EXCEPT !.defaults = ds] \in Stores
BY DEF Stores

LEMMA EmptyStore == Empty \in Stores
<1>1. Nothing \in Maps(Users, Accounts) /\ Nothing \in Maps(Groups, Permissions)
      /\ Nothing \in Permissions
  BY NothingMap DEF Permissions
<1>2. 0 \in 0 .. MaxFaults + 1
  BY AuthAssumption
<1> QED
  BY <1>1, <1>2 DEF Empty, Stores

LEMMA PutPermissions ==
  ASSUME NEW p \in Permissions, NEW d \in Databases, NEW fs \in Flags
  PROVE  Put(p, d, fs) \in Permissions
BY PutMap DEF Permissions

\* A line of save() makes a proper file of a proper file.
LEMMA LineStore ==
  ASSUME NEW m \in Stores, NEW f \in Stores, NEW next \in NextFiles(m, f)
  PROVE  next \in Stores
<1>1. ASSUME next = [f EXCEPT !.secret = m.secret] PROVE next \in Stores
  BY <1>1, StoreIs, StoreWith
<1>2. ASSUME NEW u \in DOMAIN m.users, next = [f EXCEPT !.users = Put(f.users, u, m.users[u])]
      PROVE  next \in Stores
  <2>1. Put(f.users, u, m.users[u]) \in Maps(Users, Accounts)
    BY StoreIs, PutMap
  <2> QED
    BY <1>2, <2>1, StoreWith
<1>3. ASSUME NEW g \in DOMAIN m.groups,
             next = [f EXCEPT !.groups = Put(f.groups, g, m.groups[g])]
      PROVE  next \in Stores
  <2>1. Put(f.groups, g, m.groups[g]) \in Maps(Groups, Permissions)
    BY StoreIs, PutMap
  <2> QED
    BY <1>3, <2>1, StoreWith
<1>4. ASSUME NEW d \in DOMAIN m.defaults,
             next = [f EXCEPT !.defaults = Put(f.defaults, d, m.defaults[d])]
      PROVE  next \in Stores
  <2>1. m.defaults \in Maps(Databases, Flags) /\ f.defaults \in Permissions
    BY StoreIs DEF Permissions
  <2>2. d \in Databases /\ m.defaults[d] \in Flags
    BY <2>1, MapIs
  <2>3. Put(f.defaults, d, m.defaults[d]) \in Permissions
    BY <2>1, <2>2, PutPermissions
  <2> QED
    BY <1>4, <2>3, StoreWith
<1> QED
  BY <1>1, <1>2, <1>3, <1>4 DEF NextFiles

\* So does reading the file back.
LEMMA ReadAccount ==
  ASSUME NEW a \in Accounts
  PROVE  ReadUser(a) \in Accounts
<1>1. CASE a.salt.kind # "colon"
  BY <1>1 DEF ReadUser
<1>2. CASE a.salt.kind = "colon"
  <2> DEFINE p == a.permissions
             q == a.salt.permissions
             D == {d \in DOMAIN p : d # CHOOSE e \in DOMAIN p : TRUE}
             E == D \cup DOMAIN q
             r == [d \in E |-> IF d \in D THEN p[d] ELSE q[d]]
  <2>1. a.salt \in SaltTexts
    BY <1>2, AuthAssumption DEF Accounts, Broken
  <2>2. p \in Maps(Databases, Flags) /\ q \in Maps(Databases, Flags)
        /\ a.salt.groups \in SUBSET Groups
    BY <2>1 DEF Accounts, Permissions, SaltTexts
  <2>3. DOMAIN p \subseteq Databases /\ \A x \in DOMAIN p : p[x] \in Flags
    BY <2>2, MapIs
  <2>4. DOMAIN q \subseteq Databases /\ \A x \in DOMAIN q : q[x] \in Flags
    BY <2>2, MapIs
  <2>5. D \subseteq DOMAIN p
    OBVIOUS
  <2>6. ReadUser(a) = [salt |-> Broken, groups |-> a.salt.groups, permissions |-> r]
    BY <1>2 DEF ReadUser
  <2> HIDE DEF p, q, D
  <2>7. E \in SUBSET Databases /\ r = [x \in E |-> r[x]] /\ \A x \in E : r[x] \in Flags
    BY <2>3, <2>4, <2>5
  <2> HIDE DEF r, E
  <2>8. r \in Permissions
    BY <2>7, MapOf DEF Permissions
  <2> QED
    BY <2>2, <2>6, <2>8 DEF Accounts
<1> QED
  BY <1>1, <1>2

\* The users, read back.
LEMMA ReadMap ==
  ASSUME NEW f \in Stores
  PROVE  ReadUsers(f) \in Maps(Users, Accounts)
<1> DEFINE us == ReadUsers(f)
<1>1. DOMAIN f.users \in SUBSET Users /\ \A u \in DOMAIN f.users : ReadUser(f.users[u]) \in Accounts
  BY StoreIs, ReadAccount
<1>2. us = [u \in DOMAIN f.users |-> us[u]]
      /\ \A u \in DOMAIN f.users : us[u] = ReadUser(f.users[u])
  BY DEF ReadUsers
<1> HIDE DEF us
<1>3. us \in Maps(Users, Accounts)
  BY <1>1, <1>2, MapOf
<1> QED
  BY <1>3 DEF us

-----------------------------------------------------------------------------
(* Changes: whichever command it is, a change of memory only adds users, groups  *)
(* and memberships.                                                             *)

Turn(c) ==
  CreateUser(c) \/ AddGroup(c) \/ AddUserToGroup(c) \/ MakeAdmin(c) \/ SetPermissions(c)

Grows(m, n) ==
  /\ n.secret = m.secret
  /\ DOMAIN m.users \subseteq DOMAIN n.users /\ DOMAIN m.groups \subseteq DOMAIN n.groups
  /\ \A u \in DOMAIN m.users :
       m.users[u].groups \subseteq n.users[u].groups /\ m.users[u].salt = n.users[u].salt

\* MakeAdmin, when there is nothing to change.
Answered(c) ==
  /\ alive /\ saving = Nobody /\ session[c].stage = "created"
  /\ session' = [session EXCEPT ![c] = Idle(@.user)]
  /\ promised' = promised \cup {UserThere(session[c].command.user)}
                   \cup (IF IsAdmin(memory, session[c].command.user)
                         THEN {InGroup(session[c].command.user, "admin")} ELSE {})
  /\ durable' = Lasting(promised')
  /\ UNCHANGED <<alive, memory, file, saving, stream, tokens, faults, commands>>

Changed(c) ==
  /\ alive /\ saving = Nobody /\ session[c].stage \in {"checked", "created"}
  /\ memory' \in Stores /\ Grows(memory, memory')
  /\ BeginSave(c, Replaced(session[c].command))
  /\ promised' = promised \ Replaced(session[c].command)
  /\ UNCHANGED <<alive, session, tokens, commands>>

Refused(c) ==
  alive /\ saving = Nobody /\ session[c].stage = "checked" /\ Refuse(c)

LEMMA WithUsers ==
  ASSUME NEW m \in Stores, NEW us \in Maps(Users, Accounts),
         DOMAIN m.users \subseteq DOMAIN us,
         \A u \in DOMAIN m.users :
           m.users[u].groups \subseteq us[u].groups /\ m.users[u].salt = us[u].salt
  PROVE  LET n == [m EXCEPT !.users = us] IN
         n \in Stores /\ Grows(m, n) /\ n.users = us /\ n.groups = m.groups
           /\ n.defaults = m.defaults
BY StoreWith DEF Grows, Stores

LEMMA WithGroups ==
  ASSUME NEW m \in Stores, NEW gs \in Maps(Groups, Permissions),
         DOMAIN m.groups \subseteq DOMAIN gs
  PROVE  LET n == [m EXCEPT !.groups = gs] IN
         n \in Stores /\ Grows(m, n) /\ n.groups = gs /\ n.users = m.users
           /\ n.defaults = m.defaults
BY StoreWith DEF Grows, Stores

LEMMA WithDefaults ==
  ASSUME NEW m \in Stores, NEW ds \in Permissions
  PROVE  LET n == [m EXCEPT !.defaults = ds] IN
         n \in Stores /\ Grows(m, n) /\ n.defaults = ds /\ n.users = m.users
           /\ n.groups = m.groups
BY StoreWith DEF Grows, Stores

\* The account of a new user.
Fresh(salt) == [salt |-> salt, groups |-> {}, permissions |-> Nothing]

LEMMA FreshAccount ==
  ASSUME NEW salt \in Salts
  PROVE  Fresh(salt) \in Accounts
BY NothingMap DEF Fresh, Accounts, Permissions

LEMMA MemberGrows ==
  ASSUME memory \in Stores, NEW u \in DOMAIN memory.users, NEW g \in Groups
  PROVE  LET n == Member(u, g) IN
         /\ n \in Stores /\ Grows(memory, n)
         /\ n.groups = memory.groups /\ n.defaults = memory.defaults
         /\ DOMAIN n.users = DOMAIN memory.users
         /\ g \in n.users[u].groups
         /\ \A v \in DOMAIN memory.users :
              n.users[v].permissions = memory.users[v].permissions
<1> DEFINE a  == memory.users[u]
           b  == [a EXCEPT !.groups = @ \cup {g}]
           us == [memory.users EXCEPT ![u] = b]
<1>1. a \in Accounts /\ memory.users \in Maps(Users, Accounts)
  BY StoreIs
<1>2. b \in Accounts /\ b.groups = a.groups \cup {g} /\ b.salt = a.salt
      /\ b.permissions = a.permissions
  BY <1>1 DEF Accounts
<1>3. us \in Maps(Users, Accounts)
  BY <1>1, <1>2, ExceptMap
<1>4. DOMAIN us = DOMAIN memory.users /\ us[u] = b
      /\ \A v \in DOMAIN memory.users : v # u => us[v] = memory.users[v]
  BY <1>1, MapIs
<1>5. Member(u, g) = [memory EXCEPT !.users = us]
  BY DEF Member, Stores
<1> HIDE DEF us, b, a
<1>6. \A v \in DOMAIN memory.users :
        memory.users[v].groups \subseteq us[v].groups /\ memory.users[v].salt = us[v].salt
        /\ us[v].permissions = memory.users[v].permissions
  BY <1>2, <1>4 DEF a
<1>7. LET n == Member(u, g) IN
         n \in Stores /\ Grows(memory, n) /\ n.users = us /\ n.groups = memory.groups
           /\ n.defaults = memory.defaults
  BY <1>3, <1>4, <1>5, <1>6, WithUsers
<1> QED
  BY <1>2, <1>4, <1>6, <1>7

LEMMA CommandIs ==
  ASSUME TypeOK, NEW c \in Clients, session[c].stage # "idle"
  PROVE  /\ session[c] \in Sessions /\ session[c].command \in Commands
         /\ session[c].stage \in {"checked", "created"}
BY DEF TypeOK, Sessions

LEMMA TurnChanges ==
  ASSUME TypeOK, NEW c \in Clients, Turn(c),
         session[c].stage = "created" => session[c].command.method = "createUser"
  PROVE  Refused(c) \/ Answered(c) \/ Changed(c)
<1> DEFINE command == session[c].command
<1>0. memory \in Stores /\ alive /\ saving = Nobody /\ session[c].stage \in {"checked", "created"}
  BY DEF TypeOK, Turn, CreateUser, AddGroup, AddUserToGroup, MakeAdmin, SetPermissions, Mutex
<1>1. command \in Commands
  BY <1>0, CommandIs
<1>2. ASSUME NEW m \in Stores, Grows(memory, m), Change(c, m)
      PROVE  Changed(c)
  BY <1>0, <1>2 DEF Changed, Change
<1>3. CASE CreateUser(c)
  <2>1. ASSUME command.user \in DOMAIN memory.users PROVE Refused(c)
    BY <1>3, <2>1 DEF CreateUser, Refused, Mutex
  <2>2. ASSUME command.user \notin DOMAIN memory.users PROVE Changed(c)
    <3>1. PICK salt \in Salts :
            Change(c, [memory EXCEPT !.users = Put(memory.users, command.user, Fresh(salt))])
      BY <1>0, <1>3, <2>2 DEF CreateUser, Fresh, Stores
    <3> DEFINE us == Put(memory.users, command.user, Fresh(salt))
    <3>2. command.user \in Users
      BY <1>1, <1>3 DEF CreateUser, Commands
    <3>3. us \in Maps(Users, Accounts)
      BY <1>0, <3>2, StoreIs, FreshAccount, PutMap
    <3>4. DOMAIN memory.users \subseteq DOMAIN us
          /\ \A u \in DOMAIN memory.users : us[u] = memory.users[u]
      BY <2>2 DEF Put
    <3> HIDE DEF us
    <3>5. [memory EXCEPT !.users = us] \in Stores /\ Grows(memory, [memory EXCEPT !.users = us])
      BY <1>0, <3>3, <3>4, WithUsers
    <3> QED
      BY <1>2, <3>1, <3>5 DEF us
  <2> QED
    BY <2>1, <2>2
<1>4. CASE AddGroup(c)
  <2>1. ASSUME command.group \in DOMAIN memory.groups PROVE Refused(c)
    BY <1>4, <2>1 DEF AddGroup, Refused, Mutex
  <2>2. ASSUME command.group \notin DOMAIN memory.groups PROVE Changed(c)
    <3> DEFINE gs == Put(memory.groups, command.group, Nothing)
    <3>1. command.group \in Groups
      BY <1>1, <1>4 DEF AddGroup, Commands
    <3>2. gs \in Maps(Groups, Permissions)
      BY <1>0, <3>1, StoreIs, NothingMap, PutMap DEF Permissions
    <3>3. DOMAIN memory.groups \subseteq DOMAIN gs
      BY DEF Put
    <3>4. Change(c, [memory EXCEPT !.groups = gs])
      BY <1>0, <1>4, <2>2 DEF AddGroup, Stores
    <3> HIDE DEF gs
    <3> QED
      BY <1>0, <1>2, <3>2, <3>3, <3>4, WithGroups
  <2> QED
    BY <2>1, <2>2
<1>5. CASE AddUserToGroup(c)
  <2>1. command.group \in Groups
    BY <1>1, <1>5 DEF AddUserToGroup, Commands
  <2>2. Refuse(c) \/ (command.user \in DOMAIN memory.users
                      /\ Change(c, Member(command.user, command.group)))
    BY <1>5 DEF AddUserToGroup
  <2>3. session[c].stage = "checked"
    BY <1>5 DEF AddUserToGroup, Mutex
  <2> QED
    BY <1>0, <1>2, <2>1, <2>2, <2>3, MemberGrows DEF Refused
<1>6. CASE MakeAdmin(c)
  <2>1. Answered(c) \/ (command.user \in DOMAIN memory.users
                        /\ Change(c, Member(command.user, "admin")))
    BY <1>6 DEF MakeAdmin, Answered, Mutex
  <2> QED
    BY <1>0, <1>2, <2>1, MemberGrows, AuthAssumption
<1>7. CASE SetPermissions(c)
  <2> DEFINE owner == command.owner
             With(permissions) == Put(permissions, command.db, command.flags)
  <2>1. owner \in Owners /\ command.db \in Databases /\ command.flags \in Flags
    BY <1>1, <1>7 DEF SetPermissions, Commands
  <2>2. \A p \in Permissions : With(p) \in Permissions
    BY <2>1, PutPermissions
  <2>3. session[c].stage = "checked"
    BY <1>7 DEF SetPermissions, Mutex
  <2> HIDE DEF With
  <2>4. ASSUME owner.kind = "user", owner.user \in DOMAIN memory.users,
               Change(c, [memory EXCEPT !.users[owner.user].permissions = With(@)])
        PROVE  Changed(c)
    <3> DEFINE a == memory.users[owner.user]
               b == [a EXCEPT !.permissions = With(@)]
               us == [memory.users EXCEPT ![owner.user] = b]
    <3>1. a \in Accounts /\ memory.users \in Maps(Users, Accounts)
      BY <1>0, <2>4, StoreIs
    <3>2. b \in Accounts /\ b.groups = a.groups /\ b.salt = a.salt
      BY <2>2, <3>1 DEF Accounts
    <3>3. us \in Maps(Users, Accounts)
      BY <2>4, <3>1, <3>2, ExceptMap
    <3>4. DOMAIN us = DOMAIN memory.users
          /\ \A v \in DOMAIN memory.users :
               memory.users[v].groups \subseteq us[v].groups /\ memory.users[v].salt = us[v].salt
      BY <3>1, <3>2, MapIs
    <3>5. Change(c, [memory EXCEPT !.users = us])
      BY <1>0, <2>4 DEF Stores
    <3> HIDE DEF us
    <3> QED
      BY <1>0, <1>2, <3>3, <3>4, <3>5, WithUsers
  <2>5. ASSUME owner.kind = "group", owner.group \in DOMAIN memory.groups,
               Change(c, [memory EXCEPT !.groups[owner.group] = With(@)])
        PROVE  Changed(c)
    <3> DEFINE gs == [memory.groups EXCEPT ![owner.group] = With(@)]
    <3>1. memory.groups \in Maps(Groups, Permissions) /\ With(memory.groups[owner.group]) \in Permissions
      BY <1>0, <2>2, <2>5, StoreIs
    <3>2. gs \in Maps(Groups, Permissions) /\ DOMAIN gs = DOMAIN memory.groups
      BY <2>5, <3>1, ExceptMap
    <3>3. Change(c, [memory EXCEPT !.groups = gs])
      BY <1>0, <2>5 DEF Stores
    <3> HIDE DEF gs
    <3> QED
      BY <1>0, <1>2, <3>2, <3>3, WithGroups
  <2>6. ASSUME owner.kind = "everyone", Change(c, [memory EXCEPT !.defaults = With(@)])
        PROVE  Changed(c)
    <3>1. With(memory.defaults) \in Permissions
      BY <1>0, <2>2, StoreIs
    <3>2. Change(c, [memory EXCEPT !.defaults = With(memory.defaults)])
      BY <1>0, <2>6 DEF Stores
    <3> QED
      BY <1>0, <1>2, <3>1, <3>2, WithDefaults
  <2>7. \/ Refuse(c)
        \/ owner.kind = "user" /\ owner.user \in DOMAIN memory.users
             /\ Change(c, [memory EXCEPT !.users[owner.user].permissions = With(@)])
        \/ owner.kind = "group" /\ owner.group \in DOMAIN memory.groups
             /\ Change(c, [memory EXCEPT !.groups[owner.group] = With(@)])
        \/ owner.kind = "everyone" /\ Change(c, [memory EXCEPT !.defaults = With(@)])
    BY <1>7 DEF SetPermissions, With
  <2> QED
    BY <1>0, <2>3, <2>4, <2>5, <2>6, <2>7 DEF Refused
<1> QED
  BY <1>3, <1>4, <1>5, <1>6, <1>7 DEF Turn

-----------------------------------------------------------------------------
(* The inductive invariant, without the promises *)

\* A dead process has no save and no command under way.
DeadIsIdle ==
  ~alive => saving = Nobody /\ \A c \in Clients : session[c].stage = "idle"

\* A file that was opened holds the secret of its process, or no secret yet, and then
\* nothing else: a new secret comes only where no token of the old one counts.
SecretKnown ==
  /\ stream # "unopened" \/ (~alive /\ tokens # {}) => file.secret \in {0, memory.secret}
  /\ file.secret = 0 => file = Empty
  /\ alive => memory.secret # 0
  /\ memory.secret <= faults + (IF alive THEN 1 ELSE 0)
  /\ file.secret <= faults + (IF alive THEN 1 ELSE 0)
  /\ \A t \in tokens : t.secret = memory.secret

\* Every line of the file is what memory says, or what memory made of that line.
LinesTrue ==
  /\ DOMAIN file.users \subseteq DOMAIN memory.users
  /\ \A u \in DOMAIN file.users :
       memory.users[u] = file.users[u] \/ memory.users[u] = ReadUser(file.users[u])
  /\ DOMAIN file.groups \subseteq DOMAIN memory.groups
  /\ \A g \in DOMAIN file.groups : memory.groups[g] = file.groups[g]
  /\ DOMAIN file.defaults \subseteq DOMAIN memory.defaults
  /\ \A d \in DOMAIN file.defaults : memory.defaults[d] = file.defaults[d]

\* CREATE USER ... ADMIN, before its second half.
Halfway(s) == s.stage = "checked" /\ s.command.method = "createUser" /\ s.command.admin

\* In its second half the user is there; it is there as soon as the first is being saved.
HalvesFit ==
  /\ \A c \in Clients : session[c].stage = "created" =>
       /\ session[c].command.method = "createUser" /\ session[c].command.admin
       /\ session[c].command.user \in DOMAIN memory.users
  /\ saving \in Clients /\ Halfway(session[saving]) =>
       session[saving].command.user \in DOMAIN memory.users

\* A file that the last save could not open is an older one.
OpenedTrue == stream # "unopened" => LinesTrue

AuthInv == DeadIsIdle /\ SecretKnown /\ OpenedTrue /\ StillAdmin /\ HalvesFit

-----------------------------------------------------------------------------
(* The steps, with the five commands put into three cases *)

LEMMA NextCases ==
  ASSUME TypeOK, HalvesFit, [Next]_vars
  PROVE  \/ WriteLine \/ WriteFails \/ Kill \/ Start \/ FirstStart \/ Started \/ UNCHANGED vars
         \/ \E t \in tokens : Expire(t)
         \/ \E c \in Clients :
              \/ Refused(c) \/ Answered(c) \/ (Changed(c) /\ Turn(c)) \/ EndSave(c) \/ Disconnect(c)
              \/ \E u \in Users : Login(c, u)
              \/ \E t \in tokens : Bearer(c, t)
              \/ \E command \in Commands : Command(c, command)
<1>1. ASSUME NEW c \in Clients, Turn(c)
      PROVE  Refused(c) \/ Answered(c) \/ (Changed(c) /\ Turn(c))
  BY <1>1, TurnChanges DEF HalvesFit
<1> QED
  BY <1>1 DEF Next, Turn

\* What a first process knows.
FirstUsers(salt) ==
  Put(Nothing, "admin", [salt |-> salt, groups |-> {"admin"}, permissions |-> Nothing])

First(salt, secret) ==
  [secret |-> secret, users |-> FirstUsers(salt), groups |-> Put(Nothing, "admin", Nothing),
   defaults |-> Nothing]

\* It finds nothing at all, whether there is a file or not.
LEMMA FirstStartIs ==
  ASSUME SecretKnown, FirstStart
  PROVE  /\ ~alive /\ alive' /\ saving' = Starting
         /\ promised' = {} /\ tokens' = {} /\ durable' = {}
         /\ UNCHANGED <<session, commands>>
         /\ \/ file' = Empty /\ stream' = "good" /\ faults' = faults
            \/ /\ faults < MaxFaults /\ faults' = faults + 1
               /\ file' = file /\ stream' = "unopened"
         /\ \E salt \in Salts : memory' = First(salt, memory.secret + 1)
<1>1. PICK found \in {file, Empty} :
        /\ ~alive /\ found.secret = 0
        /\ alive' = TRUE
        /\ \E salt \in Salts :
             memory' = [secret   |-> memory.secret + 1,
                        users    |-> Put(ReadUsers(found), "admin",
                                         [salt |-> salt, groups |-> {"admin"},
                                          permissions |-> Nothing]),
                        groups   |-> Put(found.groups, "admin", Nothing),
                        defaults |-> found.defaults]
        /\ BeginSave(Starting, durable)
        /\ promised' = {}
        /\ tokens' = IF found = Empty THEN {} ELSE tokens
        /\ UNCHANGED <<session, commands>>
  BY DEF FirstStart
<1>2. found = Empty
  BY <1>1 DEF SecretKnown
<1>3. Empty.users = Nothing /\ Empty.groups = Nothing /\ Empty.defaults = Nothing
      /\ DOMAIN Nothing = {}
  BY DEF Empty, Nothing
<1>4. ReadUsers(found) = Nothing
  BY <1>2, <1>3 DEF ReadUsers, Nothing
<1>5. \E salt \in Salts : memory' = First(salt, memory.secret + 1)
  BY <1>1, <1>2, <1>3, <1>4 DEF First, FirstUsers
<1>6. durable \ durable = {}
  OBVIOUS
<1> QED
  BY <1>1, <1>2, <1>5, <1>6 DEF BeginSave

LEMMA IdleSession ==
  ASSUME NEW user \in Users \cup {Nobody}
  PROVE  Idle(user) \in Sessions /\ Idle(user).user = user /\ Idle(user).stage = "idle"
BY DEF Idle, Sessions

LEMMA SessionUser ==
  ASSUME NEW s \in Sessions
  PROVE  s.user \in Users \cup {Nobody}
BY DEF Sessions

\* What the answers promise is among the promises.
LEMMA PromiseType ==
  ASSUME NEW command \in Commands
  PROVE  Promise(command) \in SUBSET Promises
<1> USE AuthAssumption DEF Promise, Promises, UserThere, GroupThere, InGroup, Given
<1>1. CASE command \in [method : {"createUser"}, user : Users, admin : BOOLEAN]
  BY <1>1
<1>2. CASE command \in [method : {"addGroup"}, group : Groups]
  BY <1>2
<1>3. CASE command \in [method : {"addUserToGroup"}, user : Users, group : Groups]
  BY <1>3
<1>4. CASE command \in [method : {"setPermissions"}, owner : Owners, db : Databases, flags : Flags]
  BY <1>4
<1> QED
  BY <1>1, <1>2, <1>3, <1>4 DEF Commands

LEMMA InitType == Init => TypeOK
<1> SUFFICES ASSUME Init PROVE TypeOK
  OBVIOUS
<1>1. memory \in Stores /\ file \in Stores
  BY EmptyStore DEF Init
<1>2. session \in [Clients -> Sessions]
  BY IdleSession DEF Init
<1>3. faults \in 0 .. MaxFaults /\ commands \in 0 .. MaxCommands
  BY AuthAssumption DEF Init
<1>4. saving \notin Clients
  BY AuthAssumption DEF Init, Nobody
<1> QED
  BY <1>1, <1>2, <1>3, <1>4 DEF Init, TypeOK

LEMMA NextType == TypeOK /\ AuthInv /\ [Next]_vars => TypeOK'
<1> SUFFICES ASSUME TypeOK, AuthInv, [Next]_vars PROVE TypeOK'
  OBVIOUS
<1> USE AuthAssumption DEF TypeOK
<1>0. Nobody \notin Clients /\ Starting \notin Clients /\ Starting # Nobody
  BY DEF Nobody, Starting
<1>1. CASE WriteLine
  <2>1. file' \in Stores
    BY <1>1, LineStore DEF WriteLine
  <2> QED
    BY <1>1, <2>1 DEF WriteLine
<1>2. CASE Kill
  <2>1. session' \in [Clients -> Sessions]
    BY <1>2, IdleSession DEF Kill
  <2>2. faults' \in 0 .. MaxFaults
    BY <1>2 DEF Kill
  <2>3. tokens' \subseteq Tokens /\ promised' \subseteq Promises
    BY <1>2 DEF Kill
  <2> QED
    BY <1>0, <1>2, <2>1, <2>2, <2>3 DEF Kill
<1>3. CASE Start
  <2>1. memory' \in Stores
    BY <1>3, ReadMap, StoreWith DEF Start
  <2>2. saving = Nobody
    BY <1>3 DEF Start, AuthInv, DeadIsIdle
  <2> QED
    BY <1>0, <1>3, <2>1, <2>2 DEF Start
<1>4. CASE FirstStart
  <2>0. FirstStart /\ SecretKnown
    BY <1>4 DEF AuthInv
  <2>1. memory.secret + 1 \in 0 .. MaxFaults + 1
    <3>1. ~alive /\ memory.secret \in 0 .. MaxFaults + 1
      BY <2>0, FirstStartIs, StoreIs
    <3>2. memory.secret <= faults
      BY <2>0, <3>1 DEF SecretKnown
    <3> QED
      BY <3>1, <3>2
  <2>2. PICK salt \in Salts : memory' = First(salt, memory.secret + 1)
    BY <2>0, FirstStartIs
  <2>3. [salt |-> salt, groups |-> {"admin"}, permissions |-> Nothing] \in Accounts
        /\ Nothing \in Permissions
    BY NothingMap DEF Accounts, Permissions
  <2>4. FirstUsers(salt) \in Maps(Users, Accounts)
    BY <2>3, NothingMap, PutMap DEF FirstUsers
  <2>5. Put(Nothing, "admin", Nothing) \in Maps(Groups, Permissions)
    BY <2>3, NothingMap, PutMap
  <2>6. memory' \in Stores
    BY <2>1, <2>2, <2>3, <2>4, <2>5 DEF Stores, First
  <2>7. file' \in Stores /\ saving' = Starting /\ faults' \in 0 .. MaxFaults
        /\ stream' \in {"good", "unopened"}
    BY <2>0, FirstStartIs, EmptyStore
  <2>8. alive' /\ promised' = {} /\ tokens' = {} /\ durable' = {} /\ session' = session
        /\ commands' = commands
    BY <2>0, FirstStartIs
  <2> QED
    BY <1>0, <2>6, <2>7, <2>8
<1>5. CASE Started
  <2>1. promised' \subseteq Promises
    BY <1>5 DEF Started, FirstPromises, Promises, UserThere, GroupThere, InGroup
  <2>2. durable' \subseteq Promises
    BY <1>5, <2>1 DEF Started, Lasting
  <2> QED
    BY <1>0, <1>5, <2>1, <2>2 DEF Started, Saved
<1>6. CASE UNCHANGED vars
  BY <1>6 DEF vars
<1>7. ASSUME NEW t \in tokens, Expire(t) PROVE TypeOK'
  BY <1>7 DEF Expire
<1>8. ASSUME NEW c \in Clients, Refused(c) PROVE TypeOK'
  BY <1>0, <1>8, IdleSession, SessionUser DEF Refused, Refuse
<1>9. ASSUME NEW c \in Clients, Answered(c) PROVE TypeOK'
  <2>1. session[c].command \in Commands /\ session[c].command.method = "createUser"
    BY <1>9, CommandIs DEF Answered, AuthInv, HalvesFit
  <2>2. session[c].command.user \in Users
    BY <2>1 DEF Commands
  <2>3. promised' \subseteq Promises
    BY <1>9, <2>2 DEF Answered, Promises, UserThere, InGroup
  <2>4. durable' \subseteq Promises
    BY <1>9, <2>3 DEF Answered, Lasting
  <2> QED
    BY <1>0, <1>9, <2>3, <2>4, IdleSession, SessionUser DEF Answered
<1>10. ASSUME NEW c \in Clients, Changed(c) PROVE TypeOK'
  <2>1. /\ file' \in Stores /\ saving' = c /\ stream' \in {"good", "unopened"}
        /\ durable' \subseteq Promises /\ faults' \in 0 .. MaxFaults
    BY <1>10, EmptyStore DEF Changed, BeginSave
  <2> QED
    BY <1>10, <2>1 DEF Changed
<1>11. ASSUME NEW c \in Clients, EndSave(c) PROVE TypeOK'
  <2>1. session[c] \in Sessions /\ session[c].command \in Commands
        /\ session[c].stage \in {"checked", "created"}
    BY <1>11, CommandIs DEF EndSave, Saved
  <2>2. promised' \subseteq Promises
    BY <1>11, <2>1, PromiseType DEF EndSave
  <2>5. durable' \subseteq Promises
    BY <1>11, <2>2 DEF EndSave, Lasting
  <2>3. [session[c] EXCEPT !.stage = "created"] \in Sessions
    BY <2>1 DEF Sessions
  <2>4. session' \in [Clients -> Sessions]
    BY <1>11, <2>1, <2>3, IdleSession, SessionUser DEF EndSave
  <2> QED
    BY <1>0, <1>11, <2>2, <2>4, <2>5 DEF EndSave
<1>12. ASSUME NEW c \in Clients, Disconnect(c) PROVE TypeOK'
  BY <1>12, IdleSession DEF Disconnect
<1>13. ASSUME NEW c \in Clients, NEW u \in Users, Login(c, u) PROVE TypeOK'
  <2>1. [user |-> u, secret |-> memory.secret] \in Tokens
    BY StoreIs DEF Tokens
  <2> QED
    BY <1>13, <2>1 DEF Login
<1>14. ASSUME NEW c \in Clients, NEW t \in tokens, Bearer(c, t) PROVE TypeOK'
  <2>1. t.user \in Users
    BY DEF Tokens
  <2>2. [session[c] EXCEPT !.user = t.user] = Idle(t.user)
    BY <1>14 DEF Bearer, Idle
  <2>3. session' = [session EXCEPT ![c] = Idle(t.user)]
    BY <1>14, <2>2 DEF Bearer
  <2> QED
    BY <1>0, <1>14, <2>1, <2>3, IdleSession DEF Bearer
<1>15. ASSUME NEW c \in Clients, NEW command \in Commands, Command(c, command) PROVE TypeOK'
  <2>1. session[c] \in Sessions
    OBVIOUS
  <2>2. [session[c] EXCEPT !.stage = "checked", !.command = command] \in Sessions
    BY <2>1 DEF Sessions
  <2>3. session' \in [Clients -> Sessions]
    BY <1>15, <2>2 DEF Command
  <2>4. commands' \in 0 .. MaxCommands
    BY <1>15 DEF Command
  <2>5. saving = Nobody
    BY <1>15 DEF Command, Mutex
  <2> QED
    BY <1>0, <1>15, <2>3, <2>4, <2>5 DEF Command
<1>16. CASE WriteFails
  BY <1>16 DEF WriteFails
<1> QED
  BY <1>1, <1>2, <1>3, <1>4, <1>5, <1>6, <1>7, <1>8, <1>9, <1>10, <1>11, <1>12, <1>13, <1>14,
     <1>15, <1>16, NextCases DEF AuthInv

-----------------------------------------------------------------------------
(* Every part of the invariant is kept *)

LEMMA InitInv == Init => AuthInv
<1> SUFFICES ASSUME Init PROVE AuthInv
  OBVIOUS
<1>1. DOMAIN Nothing = {}
  BY DEF Nothing
<1>2. \A c \in Clients : session[c].stage = "idle"
  BY IdleSession DEF Init
<1>3. DeadIsIdle /\ StillAdmin /\ HalvesFit
  BY <1>2, AuthAssumption DEF Init, DeadIsIdle, StillAdmin, HalvesFit, Nobody
<1>4. SecretKnown /\ OpenedTrue
  BY <1>1 DEF Init, SecretKnown, OpenedTrue, LinesTrue, Empty
<1> QED
  BY <1>3, <1>4 DEF AuthInv

LEMMA NextDead == TypeOK /\ AuthInv /\ [Next]_vars => DeadIsIdle'
<1> SUFFICES ASSUME TypeOK, AuthInv, [Next]_vars, ~alive'
             PROVE  saving' = Nobody /\ \A c \in Clients : session'[c].stage = "idle"
  BY DEF DeadIsIdle
<1>1. CASE Kill
  BY <1>1, IdleSession DEF Kill
<1>2. CASE ~alive /\ UNCHANGED <<saving, session>>
  BY <1>2 DEF AuthInv, DeadIsIdle
<1>3. ASSUME NEW c \in Clients, Disconnect(c) PROVE ~alive /\ saving' = Nobody
                                                    /\ \A d \in Clients : session'[d].stage = "idle"
  <2>1. Idle(Nobody).stage = "idle"
    BY IdleSession
  <2>2. ~alive /\ saving' = saving /\ session' = [session EXCEPT ![c] = Idle(Nobody)]
    BY <1>3 DEF Disconnect
  <2>3. saving = Nobody /\ \A d \in Clients : session[d].stage = "idle"
    BY <2>2 DEF AuthInv, DeadIsIdle
  <2>4. \A d \in Clients : session'[d] = IF d = c THEN Idle(Nobody) ELSE session[d]
    BY <2>2 DEF TypeOK
  <2> QED
    BY <2>1, <2>2, <2>3, <2>4
<1>4. ASSUME NEW c \in Clients,
             \/ Refused(c) \/ Answered(c) \/ Changed(c) \/ EndSave(c)
             \/ \E u \in Users : Login(c, u)
             \/ \E t \in tokens : Bearer(c, t)
             \/ \E command \in Commands : Command(c, command)
      PROVE  FALSE
  BY <1>4 DEF Refused, Refuse, Answered, Changed, EndSave, Saved, Login, Bearer, Command,
                  Mutex
<1>5. CASE WriteLine \/ WriteFails \/ Start \/ FirstStart \/ Started
  BY <1>5 DEF WriteLine, WriteFails, Start, FirstStart, Started, Saved
<1>6. CASE UNCHANGED vars \/ \E t \in tokens : Expire(t)
  BY <1>2, <1>6 DEF vars, Expire
<1> QED
  BY <1>1, <1>3, <1>4, <1>5, <1>6, NextCases DEF AuthInv

LEMMA LineSecret ==
  ASSUME NEW m \in Stores, NEW f \in Stores, NEW next \in NextFiles(m, f), m.secret # 0
  PROVE  next.secret # 0 /\ next.secret \in {f.secret, m.secret}
BY DEF NextFiles, Stores

LEMMA NextSecret == TypeOK /\ AuthInv /\ [Next]_vars => SecretKnown'
<1> SUFFICES ASSUME TypeOK, AuthInv, [Next]_vars PROVE SecretKnown'
  OBVIOUS
<1> USE DEF SecretKnown
<1>0. /\ SecretKnown /\ memory \in Stores /\ file \in Stores /\ faults \in Nat
      /\ memory.secret \in Nat /\ file.secret \in Nat /\ Empty.secret = 0
  BY StoreIs DEF AuthInv, TypeOK, Empty
<1>1. CASE WriteLine
  <2>1. file'.secret # 0 /\ file'.secret \in {file.secret, memory.secret}
    BY <1>0, <1>1, LineSecret DEF WriteLine
  <2> QED
    BY <1>0, <1>1, <2>1 DEF WriteLine
<1>2. CASE Kill
  BY <1>0, <1>2 DEF Kill
<1>3. CASE Start
  <2>1. memory'.secret = file.secret
    BY <1>0, <1>3 DEF Start, Stores
  <2>2. /\ ~alive /\ alive' /\ file.secret # 0 /\ file' = file /\ tokens' = tokens
        /\ faults' = faults
    BY <1>3 DEF Start
  <2>3. \A t \in tokens : t.secret = file.secret
    BY <1>0, <2>2
  <2> QED
    BY <1>0, <2>1, <2>2, <2>3
<1>4. CASE FirstStart
  <2>1. memory'.secret = memory.secret + 1
    BY <1>0, <1>4, FirstStartIs DEF First
  <2>2. ~alive /\ alive' /\ tokens' = {}
    BY <1>0, <1>4, FirstStartIs
  <2>3. \/ file' = Empty /\ stream' = "good" /\ faults' = faults
        \/ file' = file /\ stream' = "unopened" /\ faults' = faults + 1
    BY <1>0, <1>4, FirstStartIs
  <2>4. CASE file' = Empty /\ stream' = "good" /\ faults' = faults
    BY <1>0, <2>1, <2>2, <2>4
  <2>5. CASE file' = file /\ stream' = "unopened" /\ faults' = faults + 1
    BY <1>0, <2>1, <2>2, <2>5
  <2> QED
    BY <2>3, <2>4, <2>5
<1>5. CASE Started
  BY <1>0, <1>5 DEF Started
<1>6. CASE UNCHANGED vars
  BY <1>0, <1>6 DEF vars
<1>7. ASSUME NEW t \in tokens, Expire(t) PROVE SecretKnown'
  BY <1>0, <1>7 DEF Expire
<1>8. ASSUME NEW c \in Clients, Refused(c) \/ Answered(c) \/ EndSave(c) PROVE SecretKnown'
  BY <1>0, <1>8 DEF Refused, Refuse, Answered, EndSave
<1>9. ASSUME NEW c \in Clients, Changed(c) PROVE SecretKnown'
  <2>1. memory'.secret = memory.secret /\ alive /\ alive' /\ tokens' = tokens
    BY <1>9 DEF Changed, Grows
  <2>2. \/ file' = Empty /\ stream' = "good" /\ faults' = faults
        \/ file' = file /\ stream' = "unopened" /\ faults' = faults + 1
    BY <1>9 DEF Changed, BeginSave
  <2>3. CASE file' = Empty /\ stream' = "good" /\ faults' = faults
    BY <1>0, <2>1, <2>3
  <2>4. CASE file' = file /\ stream' = "unopened" /\ faults' = faults + 1
    BY <1>0, <2>1, <2>4
  <2> QED
    BY <2>2, <2>3, <2>4
<1>10. ASSUME NEW c \in Clients, Disconnect(c) PROVE SecretKnown'
  BY <1>0, <1>10 DEF Disconnect
<1>11. ASSUME NEW c \in Clients, NEW u \in Users, Login(c, u) PROVE SecretKnown'
  BY <1>0, <1>11 DEF Login, Mutex
<1>12. ASSUME NEW c \in Clients, NEW t \in tokens, Bearer(c, t) PROVE SecretKnown'
  BY <1>0, <1>12 DEF Bearer
<1>13. ASSUME NEW c \in Clients, NEW command \in Commands, Command(c, command) PROVE SecretKnown'
  BY <1>0, <1>13 DEF Command
<1>14. CASE WriteFails
  BY <1>0, <1>14 DEF WriteFails
<1> QED
  BY <1>1, <1>2, <1>3, <1>4, <1>5, <1>6, <1>7, <1>8, <1>9, <1>10, <1>11, <1>12, <1>13, <1>14,
     NextCases DEF AuthInv

\* A line of save() says what memory says.
LEMMA LineOfMemory ==
  ASSUME memory \in Stores, file \in Stores, LinesTrue, NEW next \in NextFiles(memory, file)
  PROVE  /\ DOMAIN next.users \subseteq DOMAIN memory.users
         /\ \A u \in DOMAIN next.users :
              memory.users[u] = next.users[u] \/ memory.users[u] = ReadUser(next.users[u])
         /\ DOMAIN next.groups \subseteq DOMAIN memory.groups
         /\ \A g \in DOMAIN next.groups : memory.groups[g] = next.groups[g]
         /\ DOMAIN next.defaults \subseteq DOMAIN memory.defaults
         /\ \A d \in DOMAIN next.defaults : memory.defaults[d] = next.defaults[d]
<1> USE DEF LinesTrue
<1>1. CASE next = [file EXCEPT !.secret = memory.secret]
  BY <1>1 DEF Stores
<1>2. ASSUME NEW u \in DOMAIN memory.users,
             next = [file EXCEPT !.users = Put(file.users, u, memory.users[u])]
      PROVE  /\ next.groups = file.groups /\ next.defaults = file.defaults
             /\ DOMAIN next.users = DOMAIN file.users \cup {u} /\ next.users[u] = memory.users[u]
             /\ \A x \in DOMAIN file.users : x # u => next.users[x] = file.users[x]
  BY <1>2 DEF Stores, Put
<1>3. ASSUME NEW g \in DOMAIN memory.groups,
             next = [file EXCEPT !.groups = Put(file.groups, g, memory.groups[g])]
      PROVE  /\ next.users = file.users /\ next.defaults = file.defaults
             /\ DOMAIN next.groups = DOMAIN file.groups \cup {g}
             /\ next.groups[g] = memory.groups[g]
             /\ \A x \in DOMAIN file.groups : x # g => next.groups[x] = file.groups[x]
  BY <1>3 DEF Stores, Put
<1>4. ASSUME NEW d \in DOMAIN memory.defaults,
             next = [file EXCEPT !.defaults = Put(file.defaults, d, memory.defaults[d])]
      PROVE  /\ next.users = file.users /\ next.groups = file.groups
             /\ DOMAIN next.defaults = DOMAIN file.defaults \cup {d}
             /\ next.defaults[d] = memory.defaults[d]
             /\ \A x \in DOMAIN file.defaults : x # d => next.defaults[x] = file.defaults[x]
  BY <1>4 DEF Stores, Put
<1>5. \/ next = [file EXCEPT !.secret = memory.secret]
      \/ \E u \in DOMAIN memory.users :
           next = [file EXCEPT !.users = Put(file.users, u, memory.users[u])]
      \/ \E g \in DOMAIN memory.groups :
           next = [file EXCEPT !.groups = Put(file.groups, g, memory.groups[g])]
      \/ \E d \in DOMAIN memory.defaults :
           next = [file EXCEPT !.defaults = Put(file.defaults, d, memory.defaults[d])]
  BY DEF NextFiles
<1>6. CASE \E u \in DOMAIN memory.users :
             next = [file EXCEPT !.users = Put(file.users, u, memory.users[u])]
  BY <1>2, <1>6
<1>7. CASE \E g \in DOMAIN memory.groups :
             next = [file EXCEPT !.groups = Put(file.groups, g, memory.groups[g])]
  BY <1>3, <1>7, ZenonT(40)
<1>8. CASE \E d \in DOMAIN memory.defaults :
             next = [file EXCEPT !.defaults = Put(file.defaults, d, memory.defaults[d])]
  BY <1>4, <1>8
<1> QED
  BY <1>1, <1>5, <1>6, <1>7, <1>8

LEMMA EmptyLines ==
  ASSUME file' = Empty
  PROVE  LinesTrue'
<1>1. DOMAIN Nothing = {}
  BY DEF Nothing
<1> QED
  BY <1>1 DEF LinesTrue, Empty

LEMMA NextLines == TypeOK /\ AuthInv /\ [Next]_vars => OpenedTrue'
<1> SUFFICES ASSUME TypeOK, AuthInv, [Next]_vars, stream' # "unopened" PROVE LinesTrue'
  BY DEF OpenedTrue
<1>0. OpenedTrue /\ SecretKnown /\ memory \in Stores /\ file \in Stores
  BY DEF AuthInv, TypeOK
<1>1. CASE WriteLine
  <2>1. LinesTrue /\ file' \in NextFiles(memory, file) /\ memory' = memory
    BY <1>0, <1>1 DEF WriteLine, OpenedTrue
  <2> QED
    BY <1>0, <2>1, LineOfMemory DEF LinesTrue
<1>2. CASE Start
  <2>1. memory'.users = ReadUsers(file) /\ memory'.groups = file.groups /\ memory'.defaults = file.defaults
        /\ file' = file
    BY <1>0, <1>2 DEF Start, Stores
  <2> QED
    BY <2>1 DEF LinesTrue, ReadUsers
<1>3. CASE FirstStart
  <2>1. file' = Empty
    BY <1>0, <1>3, FirstStartIs
  <2> QED
    BY <2>1, EmptyLines
<1>4. CASE UNCHANGED <<memory, file>> /\ stream # "unopened"
  <2>1. LinesTrue
    BY <1>0, <1>4 DEF OpenedTrue
  <2> QED
    BY <1>4, <2>1 DEF LinesTrue
<1>5. ASSUME NEW c \in Clients, Changed(c) PROVE LinesTrue'
  <2>1. file' = Empty
    BY <1>5 DEF Changed, BeginSave
  <2> QED
    BY <2>1, EmptyLines
<1>6. \/ WriteLine \/ Start \/ FirstStart
      \/ UNCHANGED <<memory, file>> /\ stream # "unopened"
      \/ \E c \in Clients : Changed(c)
  BY NextCases
  DEF AuthInv, WriteFails, Kill, Started, vars, Expire, Refused, Answered, EndSave, Disconnect,
      Login, Bearer, Command, Refuse
<1> QED
  BY <1>1, <1>2, <1>3, <1>4, <1>5, <1>6

\* Whoever is an administrator is one after any change.
LEMMA AdminGrows ==
  ASSUME NEW m, NEW n, Grows(m, n), NEW u, IsAdmin(m, u)
  PROVE  IsAdmin(n, u)
BY DEF Grows, IsAdmin

LEMMA NextAdmin == TypeOK /\ AuthInv /\ [Next]_vars => StillAdmin'
<1> SUFFICES ASSUME TypeOK, AuthInv, [Next]_vars PROVE StillAdmin'
  OBVIOUS
<1> USE DEF StillAdmin
<1>0. StillAdmin /\ session \in [Clients -> Sessions]
      /\ \A c \in Clients : Idle(session[c].user).stage = "idle"
  BY IdleSession, SessionUser DEF AuthInv, TypeOK
<1>1. CASE Kill
  BY <1>1, IdleSession DEF Kill
<1>2. CASE Start \/ FirstStart
  BY <1>2 DEF Start, FirstStart, AuthInv, DeadIsIdle
<1>3. CASE UNCHANGED <<memory, session>>
  BY <1>0, <1>3
<1>4. ASSUME NEW c \in Clients, Refused(c) \/ Answered(c) PROVE StillAdmin'
  BY <1>0, <1>4 DEF Refused, Refuse, Answered
<1>5. ASSUME NEW c \in Clients, Changed(c) PROVE StillAdmin'
  BY <1>0, <1>5, AdminGrows DEF Changed
<1>6. ASSUME NEW c \in Clients, EndSave(c) PROVE StillAdmin'
  <2>1. /\ memory' = memory /\ \A d \in Clients : d # c => session'[d] = session[d]
        /\ session'[c] \in {[session[c] EXCEPT !.stage = "created"], Idle(session[c].user)}
        /\ session[c].stage # "idle"
    BY <1>0, <1>6 DEF EndSave, Saved, TypeOK
  <2>2. [session[c] EXCEPT !.stage = "created"].user = session[c].user
    BY <1>0 DEF Sessions
  <2> QED
    BY <1>0, <2>1, <2>2
<1>7. ASSUME NEW c \in Clients, Disconnect(c) PROVE StillAdmin'
  BY <1>0, <1>7, IdleSession DEF Disconnect
<1>8. ASSUME NEW c \in Clients, NEW t \in tokens, Bearer(c, t) PROVE StillAdmin'
  <2>1. session[c].stage = "idle" /\ session'[c].stage = "idle"
    BY <1>0, <1>8, IdleSession DEF Bearer, Sessions
  <2> QED
    BY <1>0, <1>8, <2>1 DEF Bearer
<1>9. ASSUME NEW c \in Clients, NEW command \in Commands, Command(c, command) PROVE StillAdmin'
  <2>1. session'[c].user = session[c].user
    BY <1>0, <1>9 DEF Command, Sessions
  <2> QED
    BY <1>0, <1>9, <2>1 DEF Command
<1> QED
  BY <1>1, <1>2, <1>3, <1>4, <1>5, <1>6, <1>7, <1>8, <1>9, NextCases
  DEF AuthInv, WriteLine, WriteFails, Started, vars, Expire, Login

-----------------------------------------------------------------------------
(* What a change does to the promises *)

\* The permissions of an owner.
Rights(m, owner) ==
  IF owner.kind = "user" THEN m.users[owner.user].permissions
  ELSE IF owner.kind = "group" THEN m.groups[owner.group]
  ELSE m.defaults

There(m, owner) ==
  /\ owner.kind = "user"  => owner.user \in DOMAIN m.users
  /\ owner.kind = "group" => owner.group \in DOMAIN m.groups

\* The rights of an owner who is there are not touched, at least for one database.
SameRights(m, n, owner, db) ==
  There(m, owner) /\ db \in DOMAIN Rights(m, owner) =>
    db \in DOMAIN Rights(n, owner) /\ Rights(n, owner)[db] = Rights(m, owner)[db]

LEMMA OwnerKinds ==
  ASSUME NEW owner \in Owners
  PROVE  \/ owner.kind = "user" /\ owner = [kind |-> "user", user |-> owner.user]
         \/ owner.kind = "group" /\ owner = [kind |-> "group", group |-> owner.group]
         \/ owner.kind = "everyone" /\ owner = [kind |-> "everyone"]
BY DEF Owners

LEMMA PromiseKinds ==
  ASSUME NEW p \in Promises
  PROVE  \/ p.kind = "user" \/ p.kind = "group" \/ p.kind = "member"
         \/ /\ p.kind = "flags" /\ p.owner \in Owners /\ p.db \in Databases /\ p.flags \in Flags
            /\ p = Given(p.owner, p.db, p.flags)
BY DEF Promises, Given

LEMMA KeptGrows ==
  ASSUME NEW p \in Promises, Grows(memory, memory'), Kept(memory, p),
         p.kind = "flags" => SameRights(memory, memory', p.owner, p.db)
  PROVE  Kept(memory', p)
<1>1. CASE p.kind # "flags"
  BY <1>1, PromiseKinds DEF Kept, Grows
<1>2. CASE p.kind = "flags" /\ p.owner.kind = "user"
  BY <1>2 DEF Kept, Grows, SameRights, There, Rights
<1>3. CASE p.kind = "flags" /\ p.owner.kind = "group"
  BY <1>3 DEF Kept, Grows, SameRights, There, Rights
<1>4. CASE p.kind = "flags" /\ p.owner.kind = "everyone"
  BY <1>4 DEF Kept, Grows, SameRights, There, Rights
<1> QED
  BY <1>1, <1>2, <1>3, <1>4, PromiseKinds, OwnerKinds

LEMMA FlagsKept ==
  ASSUME NEW p \in Promises, p.kind = "flags",
         There(memory', p.owner), p.db \in DOMAIN Rights(memory', p.owner),
         Rights(memory', p.owner)[p.db] = p.flags
  PROVE  Kept(memory', p)
<1>1. CASE p.owner.kind = "user"
  BY <1>1 DEF Kept, There, Rights
<1>2. CASE p.owner.kind = "group"
  BY <1>2 DEF Kept, There, Rights
<1>3. CASE p.owner.kind = "everyone"
  BY <1>3 DEF Kept, There, Rights
<1> QED
  BY <1>1, <1>2, <1>3, PromiseKinds, OwnerKinds

\* SetPermissions, seen as a change of the rights of one owner.
LEMMA SetRights ==
  ASSUME TypeOK, NEW c \in Clients, SetPermissions(c), Changed(c)
  PROVE  LET command == session[c].command IN
         /\ command.owner \in Owners /\ There(memory', command.owner)
         /\ command.db \in DOMAIN Rights(memory', command.owner)
         /\ Rights(memory', command.owner)[command.db] = command.flags
         /\ \A owner \in Owners, db \in Databases :
              owner # command.owner \/ db # command.db => SameRights(memory, memory', owner, db)
<1> DEFINE command == session[c].command
           owner   == command.owner
           With(permissions) == Put(permissions, command.db, command.flags)
<1>0. memory \in Stores /\ command \in Commands /\ command.method = "setPermissions"
  BY CommandIs DEF Changed, TypeOK, SetPermissions
<1>1. owner \in Owners /\ command.db \in Databases /\ command.flags \in Flags
  BY <1>0 DEF Commands
<1>2. saving' # saving
  BY AuthAssumption DEF Changed, BeginSave, Nobody
<1>3. \A p : /\ command.db \in DOMAIN With(p) /\ With(p)[command.db] = command.flags
             /\ \A d \in DOMAIN p : d # command.db => d \in DOMAIN With(p) /\ With(p)[d] = p[d]
  BY DEF Put
<1>4. \/ owner.kind = "user" /\ owner.user \in DOMAIN memory.users
           /\ memory' = [memory EXCEPT !.users[owner.user].permissions = With(@)]
      \/ owner.kind = "group" /\ owner.group \in DOMAIN memory.groups
           /\ memory' = [memory EXCEPT !.groups[owner.group] = With(@)]
      \/ owner.kind = "everyone" /\ memory' = [memory EXCEPT !.defaults = With(@)]
  BY <1>2 DEF SetPermissions, Change, Refuse
<1> HIDE DEF With
<1> USE DEF SameRights, There, Rights
<1>5. CASE owner.kind = "user" /\ owner.user \in DOMAIN memory.users
             /\ memory' = [memory EXCEPT !.users[owner.user].permissions = With(@)]
  <2> DEFINE a == memory.users[owner.user]
  <2>1. a \in Accounts
    BY <1>0, <1>5, StoreIs
  <2>2. /\ memory'.groups = memory.groups /\ memory'.defaults = memory.defaults
        /\ DOMAIN memory'.users = DOMAIN memory.users
        /\ memory'.users[owner.user].permissions = With(a.permissions)
        /\ \A u \in DOMAIN memory.users : u # owner.user => memory'.users[u] = memory.users[u]
    BY <1>0, <1>5, <2>1 DEF Stores, Accounts
  <2>3. ASSUME NEW o \in Owners, NEW d \in Databases, o # owner \/ d # command.db
        PROVE  SameRights(memory, memory', o, d)
    <3>1. CASE o.kind = "user" /\ o.user = owner.user
      <4>1. o = owner
        BY <1>1, <1>5, <3>1, OwnerKinds
      <4> QED
        BY <1>3, <2>2, <2>3, <3>1, <4>1
    <3>2. CASE o.kind = "user" /\ o.user # owner.user
      BY <2>2, <3>2
    <3>3. CASE o.kind # "user"
      BY <2>2, <3>3
    <3> QED
      BY <3>1, <3>2, <3>3
  <2>4. There(memory', owner) /\ command.db \in DOMAIN Rights(memory', owner)
        /\ Rights(memory', owner)[command.db] = command.flags
    BY <1>3, <1>5, <2>2
  <2> QED
    BY <1>1, <2>3, <2>4
<1>6. CASE owner.kind = "group" /\ owner.group \in DOMAIN memory.groups
             /\ memory' = [memory EXCEPT !.groups[owner.group] = With(@)]
  <2>1. memory.groups \in Maps(Groups, Permissions)
    BY <1>0, StoreIs
  <2>2. /\ memory'.users = memory.users /\ memory'.defaults = memory.defaults
        /\ DOMAIN memory'.groups = DOMAIN memory.groups
        /\ memory'.groups[owner.group] = With(memory.groups[owner.group])
        /\ \A g \in DOMAIN memory.groups : g # owner.group => memory'.groups[g] = memory.groups[g]
    BY <1>0, <1>6, <2>1, MapIs DEF Stores
  <2>3. ASSUME NEW o \in Owners, NEW d \in Databases, o # owner \/ d # command.db
        PROVE  SameRights(memory, memory', o, d)
    <3>1. CASE o.kind = "group" /\ o.group = owner.group
      <4>1. o = owner
        BY <1>1, <1>6, <3>1, OwnerKinds
      <4> QED
        BY <1>3, <2>2, <2>3, <3>1, <4>1
    <3>2. CASE o.kind = "group" /\ o.group # owner.group
      BY <2>2, <3>2
    <3>3. CASE o.kind # "group"
      BY <2>2, <3>3
    <3> QED
      BY <3>1, <3>2, <3>3
  <2>4. There(memory', owner) /\ command.db \in DOMAIN Rights(memory', owner)
        /\ Rights(memory', owner)[command.db] = command.flags
    BY <1>3, <1>6, <2>2
  <2> QED
    BY <1>1, <2>3, <2>4
<1>7. CASE owner.kind = "everyone" /\ memory' = [memory EXCEPT !.defaults = With(@)]
  <2>1. /\ memory'.users = memory.users /\ memory'.groups = memory.groups
        /\ memory'.defaults = With(memory.defaults)
    BY <1>0, <1>7 DEF Stores
  <2>2. ASSUME NEW o \in Owners, NEW d \in Databases, o # owner \/ d # command.db
        PROVE  SameRights(memory, memory', o, d)
    <3>1. CASE o.kind \in {"user", "group"}
      BY <2>1, <3>1
    <3>2. CASE o.kind = "everyone"
      <4>1. o = owner
        BY <1>1, <1>7, <3>2, OwnerKinds
      <4> QED
        BY <1>3, <2>1, <2>2, <3>2, <4>1
    <3> QED
      BY <3>1, <3>2, OwnerKinds
  <2> QED
    BY <1>1, <1>3, <1>7, <2>1, <2>2
<1> QED
  BY <1>4, <1>5, <1>6, <1>7

\* The other changes, in the same terms.
LEMMA CreateUserIs ==
  ASSUME TypeOK, NEW c \in Clients, CreateUser(c), Changed(c)
  PROVE  LET u == session[c].command.user IN
         /\ session[c].command.method = "createUser" /\ session[c].stage = "checked"
         /\ u \in DOMAIN memory'.users
         /\ \A v \in DOMAIN memory.users : memory'.users[v] = memory.users[v]
         /\ memory'.groups = memory.groups /\ memory'.defaults = memory.defaults
<1> DEFINE u == session[c].command.user
<1>1. saving' # saving /\ memory \in Stores
  BY AuthAssumption DEF Changed, BeginSave, Nobody, TypeOK
<1>2. PICK salt \in Salts :
        u \notin DOMAIN memory.users
          /\ memory' = [memory EXCEPT !.users = Put(memory.users, u, Fresh(salt))]
  BY <1>1 DEF CreateUser, Change, Refuse, Fresh, Stores
<1>3. /\ memory'.users = Put(memory.users, u, Fresh(salt))
      /\ memory'.groups = memory.groups /\ memory'.defaults = memory.defaults
  BY <1>1, <1>2 DEF Stores
<1>4. u \in DOMAIN memory'.users
      /\ \A v \in DOMAIN memory.users : memory'.users[v] = memory.users[v]
  BY <1>2, <1>3 DEF Put
<1> QED
  BY <1>3, <1>4 DEF CreateUser, Mutex

LEMMA AddGroupIs ==
  ASSUME TypeOK, NEW c \in Clients, AddGroup(c), Changed(c)
  PROVE  LET g == session[c].command.group IN
         /\ session[c].command.method = "addGroup"
         /\ g \in DOMAIN memory'.groups
         /\ \A h \in DOMAIN memory.groups : memory'.groups[h] = memory.groups[h]
         /\ memory'.users = memory.users /\ memory'.defaults = memory.defaults
<1> DEFINE g == session[c].command.group
<1>1. saving' # saving /\ memory \in Stores
  BY AuthAssumption DEF Changed, BeginSave, Nobody, TypeOK
<1>2. g \notin DOMAIN memory.groups
        /\ memory' = [memory EXCEPT !.groups = Put(memory.groups, g, Nothing)]
  BY <1>1 DEF AddGroup, Change, Refuse, Stores
<1>3. /\ memory'.groups = Put(memory.groups, g, Nothing)
      /\ memory'.users = memory.users /\ memory'.defaults = memory.defaults
  BY <1>1, <1>2 DEF Stores
<1>4. g \in DOMAIN memory'.groups
      /\ \A h \in DOMAIN memory.groups : memory'.groups[h] = memory.groups[h]
  BY <1>2, <1>3 DEF Put
<1> QED
  BY <1>3, <1>4 DEF AddGroup

LEMMA MemberIs ==
  ASSUME TypeOK, HalvesFit, NEW c \in Clients, AddUserToGroup(c) \/ MakeAdmin(c), Changed(c)
  PROVE  LET command == session[c].command
             u == command.user
             g == IF AddUserToGroup(c) THEN command.group ELSE "admin"
         IN  /\ AddUserToGroup(c) => command.method = "addUserToGroup"
             /\ ~AddUserToGroup(c) =>
                  command.method = "createUser" /\ command.admin /\ session[c].stage = "created"
             /\ u \in DOMAIN memory.users
             /\ DOMAIN memory'.users = DOMAIN memory.users /\ g \in memory'.users[u].groups
             /\ \A v \in DOMAIN memory.users :
                  memory'.users[v].permissions = memory.users[v].permissions
             /\ memory'.groups = memory.groups /\ memory'.defaults = memory.defaults
<1> DEFINE command == session[c].command
           u == command.user
           g == IF AddUserToGroup(c) THEN command.group ELSE "admin"
<1>1. saving' # saving /\ memory \in Stores /\ session[c].stage # "idle"
  BY AuthAssumption DEF Changed, BeginSave, Nobody, TypeOK
<1>2. command \in Commands
  BY <1>1, CommandIs
<1>3. CASE AddUserToGroup(c)
  <2>1. u \in DOMAIN memory.users /\ memory' = Member(u, g) /\ command.method = "addUserToGroup"
    BY <1>1, <1>3 DEF AddUserToGroup, Change, Refuse
  <2>2. g \in Groups
    BY <1>2, <1>3, <2>1 DEF Commands
  <2> QED
    BY <1>1, <1>3, <2>1, <2>2, MemberGrows
<1>4. CASE MakeAdmin(c) /\ ~AddUserToGroup(c)
  <2>1. u \in DOMAIN memory.users /\ memory' = Member(u, g) /\ session[c].stage = "created"
    BY <1>1, <1>4 DEF MakeAdmin, Change, Mutex
  <2>2. g \in Groups /\ command.method = "createUser" /\ command.admin
    BY <1>4, <2>1, AuthAssumption DEF HalvesFit
  <2> QED
    BY <1>1, <1>4, <2>1, <2>2, MemberGrows
<1> QED
  BY <1>3, <1>4

\* A promise that is not taken back outlives the change.
LEMMA ChangeKeeps ==
  ASSUME TypeOK, HalvesFit, NEW c \in Clients, Turn(c), Changed(c),
         NEW p \in promised', Kept(memory, p)
  PROVE  Kept(memory', p)
<1>1. p \in promised /\ p \in Promises /\ p \notin Replaced(session[c].command)
  BY DEF Changed, TypeOK
<1>2. ASSUME p.kind = "flags" PROVE SameRights(memory, memory', p.owner, p.db)
  <2>1. CASE CreateUser(c)
    BY <2>1, CreateUserIs DEF SameRights, There, Rights, Changed, Grows
  <2>2. CASE AddGroup(c)
    BY <2>2, AddGroupIs DEF SameRights, There, Rights
  <2>3. CASE AddUserToGroup(c) \/ MakeAdmin(c)
    BY <2>3, MemberIs DEF SameRights, There, Rights
  <2>4. CASE SetPermissions(c)
    <3>1. p.owner \in Owners /\ p.db \in Databases /\ p.flags \in Flags
          /\ p = Given(p.owner, p.db, p.flags)
      BY <1>1, <1>2, PromiseKinds
    <3>2. session[c].command.method = "setPermissions"
      BY <2>4 DEF SetPermissions
    <3>3. p.owner # session[c].command.owner \/ p.db # session[c].command.db
      BY <1>1, <3>1, <3>2 DEF Replaced
    <3> QED
      BY <2>4, <3>1, <3>3, SetRights
  <2> QED
    BY <2>1, <2>2, <2>3, <2>4 DEF Turn
<1> QED
  BY <1>1, <1>2, KeptGrows DEF Changed

\* What the answer will say holds from the change on; only the membership that
\* CREATE USER ... ADMIN promises is still to come.
LEMMA ChangePays ==
  ASSUME TypeOK, HalvesFit, NEW c \in Clients, Turn(c), Changed(c),
         NEW p \in Promise(session[c].command)
  PROVE  Kept(memory', p) \/ (Halfway(session[c]) /\ p.kind = "member")
<1> DEFINE command == session[c].command
<1>0. command \in Commands /\ p \in Promises
  BY CommandIs, PromiseType DEF Changed
<1>1. CASE CreateUser(c)
  <2>1. command.method = "createUser" /\ session[c].stage = "checked"
        /\ command.user \in DOMAIN memory'.users
    BY <1>1, CreateUserIs
  <2>2. CASE p = UserThere(command.user)
    <3>1. p.kind = "user" /\ p.user \in DOMAIN memory'.users
      BY <2>1, <2>2 DEF UserThere
    <3> QED
      BY <3>1 DEF Kept
  <2>3. CASE command.admin /\ p = InGroup(command.user, "admin")
    BY <2>1, <2>3 DEF Halfway, InGroup
  <2> QED
    BY <2>1, <2>2, <2>3 DEF Promise
<1>2. CASE AddGroup(c)
  <2>1. p.kind = "group" /\ p.group \in DOMAIN memory'.groups
    BY <1>2, AddGroupIs DEF Promise, GroupThere
  <2> QED
    BY <2>1 DEF Kept
<1>3. CASE AddUserToGroup(c) \/ MakeAdmin(c)
  <2>1. \/ p.kind = "user" /\ p.user = command.user
        \/ p.kind = "member" /\ p.user = command.user
             /\ p.group = IF AddUserToGroup(c) THEN command.group ELSE "admin"
    BY <1>3, MemberIs DEF Promise, UserThere, InGroup
  <2>2. CASE p.kind = "user" /\ p.user = command.user
    BY <1>3, <2>2, MemberIs DEF Kept
  <2>3. CASE p.kind = "member" /\ p.user = command.user
               /\ p.group = IF AddUserToGroup(c) THEN command.group ELSE "admin"
    <3>1. p.user \in DOMAIN memory'.users /\ p.group \in memory'.users[p.user].groups
      BY <1>3, <2>3, MemberIs
    <3> QED
      BY <2>3, <3>1 DEF Kept
  <2> QED
    BY <2>1, <2>2, <2>3
<1>4. CASE SetPermissions(c)
  <2>1. p = Given(command.owner, command.db, command.flags)
    BY <1>4 DEF Promise, SetPermissions
  <2>2. p.kind = "flags" /\ p.owner = command.owner /\ p.db = command.db /\ p.flags = command.flags
    BY <2>1 DEF Given
  <2>3. There(memory', p.owner) /\ p.db \in DOMAIN Rights(memory', p.owner)
        /\ Rights(memory', p.owner)[p.db] = p.flags
    BY <1>4, <2>2, SetRights
  <2> QED
    BY <1>0, <2>2, <2>3, FlagsKept
<1> QED
  BY <1>1, <1>2, <1>3, <1>4 DEF Turn

LEMMA NextHalves == TypeOK /\ AuthInv /\ [Next]_vars => HalvesFit'
<1> SUFFICES ASSUME TypeOK, AuthInv, [Next]_vars PROVE HalvesFit'
  OBVIOUS
<1>0. HalvesFit /\ session \in [Clients -> Sessions] /\ Nobody \notin Clients /\ Starting \notin Clients
      /\ \A u \in Users \cup {Nobody} : Idle(u).stage = "idle"
  BY IdleSession, AuthAssumption DEF AuthInv, TypeOK, Nobody, Starting
<1>1. CASE Kill
  BY <1>0, <1>1 DEF Kill, HalvesFit
<1>2. CASE Start \/ FirstStart
  <2>1. \A c \in Clients : session'[c].stage = "idle"
    BY <1>2 DEF Start, FirstStart, AuthInv, DeadIsIdle
  <2> QED
    BY <2>1 DEF HalvesFit, Halfway
<1>3. CASE UNCHANGED <<memory, session, saving>>
  BY <1>0, <1>3 DEF HalvesFit, Halfway
<1>4. CASE Started
  BY <1>0, <1>4 DEF Started, HalvesFit
<1>5. ASSUME NEW c \in Clients, Refused(c) \/ Answered(c) \/ Disconnect(c) PROVE HalvesFit'
  <2>1. /\ memory' = memory /\ saving' = saving /\ session'[c].stage = "idle"
        /\ \A d \in Clients : d # c => session'[d] = session[d]
    BY <1>0, <1>5, SessionUser DEF Refused, Refuse, Answered, Disconnect
  <2> QED
    BY <1>0, <2>1 DEF HalvesFit, Halfway
<1>6. ASSUME NEW c \in Clients, Changed(c), Turn(c) PROVE HalvesFit'
  <2>1. session' = session /\ saving' = c /\ DOMAIN memory.users \subseteq DOMAIN memory'.users
    BY <1>6 DEF Changed, BeginSave, Grows
  <2>2. ASSUME Halfway(session[c]) PROVE session[c].command.user \in DOMAIN memory'.users
    <3>1. PICK p : p = UserThere(session[c].command.user)
      OBVIOUS
    <3>2. p \in Promise(session[c].command)
      BY <2>2, <3>1 DEF Promise, Halfway
    <3>3. Kept(memory', p) /\ p.kind = "user" /\ p.user = session[c].command.user
      BY <1>0, <1>6, <3>1, <3>2, ChangePays DEF UserThere
    <3> QED
      BY <3>3 DEF Kept
  <2> QED
    BY <1>0, <2>1, <2>2 DEF HalvesFit, Halfway
<1>7. ASSUME NEW c \in Clients, EndSave(c) PROVE HalvesFit'
  <2>1. /\ memory' = memory /\ saving = c /\ saving' = Nobody
        /\ \A d \in Clients : d # c => session'[d] = session[d]
        /\ \/ Halfway(session[c]) /\ session'[c] = [session[c] EXCEPT !.stage = "created"]
           \/ session'[c] = Idle(session[c].user)
    BY <1>0, <1>7 DEF EndSave, Saved, Halfway
  <2>2. session[c].user \in Users \cup {Nobody}
        /\ [session[c] EXCEPT !.stage = "created"].command = session[c].command
    BY <1>0 DEF Sessions
  <2>3. ASSUME session'[c].stage = "created"
        PROVE  /\ session'[c].command.method = "createUser" /\ session'[c].command.admin
               /\ session'[c].command.user \in DOMAIN memory.users
    <3>1. Halfway(session[c]) /\ session'[c].command = session[c].command
      BY <1>0, <2>1, <2>2, <2>3
    <3> QED
      BY <1>0, <2>1, <3>1 DEF HalvesFit, Halfway
  <2> QED
    BY <1>0, <2>1, <2>3 DEF HalvesFit, Halfway
<1>8. ASSUME NEW c \in Clients, NEW t \in tokens, Bearer(c, t) PROVE HalvesFit'
  <2>1. t.user \in Users /\ [session[c] EXCEPT !.user = t.user] = Idle(t.user)
    BY <1>8 DEF TypeOK, Tokens, Bearer, Idle
  <2>2. session' = [session EXCEPT ![c] = Idle(t.user)]
    BY <1>8, <2>1 DEF Bearer
  <2> QED
    BY <1>0, <1>8, <2>1, <2>2 DEF Bearer, HalvesFit, Halfway
<1>9. ASSUME NEW c \in Clients, NEW command \in Commands, Command(c, command) PROVE HalvesFit'
  <2>1. session'[c].stage = "checked" /\ saving' = Nobody /\ memory' = memory
        /\ \A d \in Clients : d # c => session'[d] = session[d]
    BY <1>0, <1>9 DEF Command, Mutex, Sessions
  <2> QED
    BY <1>0, <2>1 DEF HalvesFit, Halfway
<1> QED
  BY <1>1, <1>2, <1>3, <1>4, <1>5, <1>6, <1>7, <1>8, <1>9, NextCases
  DEF AuthInv, WriteLine, WriteFails, vars, Expire, Login

LEMMA NextInv == TypeOK /\ AuthInv /\ [Next]_vars => AuthInv'
BY NextDead, NextSecret, NextLines, NextAdmin, NextHalves DEF AuthInv

\* Every variable has its type; a save under way has a client whose command it is, or
\* is the first of a process: the mutex is let go of when it ends.
THEOREM TypeCorrect == Spec => []TypeOK
<1>1. Init => TypeOK /\ AuthInv
  BY InitType, InitInv
<1>2. TypeOK /\ AuthInv /\ [Next]_vars => (TypeOK /\ AuthInv)'
  BY NextType, NextInv
<1> QED
  BY <1>1, <1>2, PTL DEF Spec

LEMMA AuthInvariant == Spec => [](TypeOK /\ AuthInv)
<1>1. Init => TypeOK /\ AuthInv
  BY InitType, InitInv
<1>2. TypeOK /\ AuthInv /\ [Next]_vars => (TypeOK /\ AuthInv)'
  BY NextType, NextInv
<1> QED
  BY <1>1, <1>2, PTL DEF Spec

\* However many kills and starts there are: a token not yet an hour old is accepted,
\* unless a start found nothing in the file, or no save of the process that gave it out
\* could open the file.
THEOREM TokensSurvive == Spec => []TokensHold
<1>1. AuthInv => TokensHold
  BY DEF AuthInv, SecretKnown, TokensHold, Accepted
<1> QED
  BY <1>1, AuthInvariant, PTL

\* The check of a command and its change are separate turns at the mutex, and still no
\* command is carried out for a user who is no administrator by then.
THEOREM CheckedStaysTrue == Spec => []StillAdmin
<1>1. AuthInv => StillAdmin
  BY DEF AuthInv
<1> QED
  BY <1>1, AuthInvariant, PTL

-----------------------------------------------------------------------------
(* A start gives nobody a right but what a salt spells *)

\* A line that is read back says no more than it did, and what its salt spells.
LEMMA ReadAdds ==
  ASSUME NEW a \in Accounts, NEW b \in {a, ReadUser(a)}
  PROVE  /\ ReadUser(a).groups \subseteq b.groups \cup b.salt.groups
         /\ \A db \in Databases, op \in Operations :
              Grants(ReadUser(a).permissions, db, op) =>
                Grants(b.permissions, db, op) \/ Grants(b.salt.permissions, db, op)
<1>1. CASE a.salt.kind # "colon"
  BY <1>1 DEF ReadUser
<1>2. CASE a.salt.kind = "colon" /\ b = a
  <2>1. ReadUser(a).groups = a.salt.groups
    BY <1>2 DEF ReadUser
  <2>2. \A db \in DOMAIN ReadUser(a).permissions :
          \/ db \in DOMAIN a.permissions /\ ReadUser(a).permissions[db] = a.permissions[db]
          \/ /\ db \in DOMAIN a.salt.permissions
             /\ ReadUser(a).permissions[db] = a.salt.permissions[db]
    BY <1>2 DEF ReadUser
  <2> QED
    BY <1>2, <2>1, <2>2 DEF Grants
<1>3. CASE b = ReadUser(a)
  BY <1>3
<1> QED
  BY <1>1, <1>2, <1>3

\* Nobody has a right that was not there or that a salt spells.
AddsNoRight(u) ==
  /\ IsAdmin(memory', u) => IsAdmin(memory, u) \/ u = "admin" \/ "admin" \in Spelt(u).groups
  /\ \A db \in Databases, op \in Operations :
       Allowed(memory', u, db, op) =>
         \/ Allowed(memory, u, db, op)
         \/ Grants(Spelt(u).permissions, db, op)
         \/ \E g \in Spelt(u).groups \cap DOMAIN memory.groups :
              Grants(memory.groups[g], db, op)

LEMMA StartGives ==
  ASSUME TypeOK, LinesTrue, Start, NEW u \in Users
  PROVE  AddsNoRight(u)
<1>1. /\ memory'.users = ReadUsers(file) /\ memory'.groups = file.groups
      /\ memory'.defaults = file.defaults
  BY DEF Start, TypeOK, Stores
<1>2. CASE u \notin DOMAIN file.users
  BY <1>1, <1>2 DEF ReadUsers, IsAdmin, Allowed, AddsNoRight
<1>3. CASE u \in DOMAIN file.users
  <2> DEFINE a == file.users[u]
             b == memory.users[u]
             r == ReadUser(a)
             salt == Spelt(u)
  <2>1. a \in Accounts /\ b \in {a, ReadUser(a)} /\ u \in DOMAIN memory.users
    BY <1>3, StoreIs DEF TypeOK, LinesTrue
  <2>2. memory'.users[u] = r /\ u \in DOMAIN memory'.users /\ salt = b.salt
    BY <1>1, <1>3, <2>1 DEF ReadUsers, Spelt
  <2>3. /\ r.groups \subseteq b.groups \cup salt.groups
        /\ \A db \in Databases, op \in Operations :
             Grants(r.permissions, db, op) =>
               Grants(b.permissions, db, op) \/ Grants(salt.permissions, db, op)
    BY <2>1, <2>2, ReadAdds
  <2>4. b = memory.users[u] /\ salt = Spelt(u)
    OBVIOUS
  <2> HIDE DEF a, b, r, salt
  <2>5. IsAdmin(memory', u) => IsAdmin(memory, u) \/ "admin" \in salt.groups
    BY <2>1, <2>2, <2>3, <2>4 DEF IsAdmin
  <2>6. ASSUME NEW db \in Databases, NEW op \in Operations, Allowed(memory', u, db, op)
        PROVE  \/ Allowed(memory, u, db, op)
               \/ Grants(salt.permissions, db, op)
               \/ \E g \in salt.groups \cap DOMAIN memory.groups :
                    Grants(memory.groups[g], db, op)
    <3>1. CASE Grants(r.permissions, db, op)
      BY <2>1, <2>3, <2>4, <3>1 DEF Allowed
    <3>2. ASSUME NEW g \in r.groups \cap DOMAIN file.groups, Grants(file.groups[g], db, op)
          PROVE  \/ Allowed(memory, u, db, op)
                 \/ \E h \in salt.groups \cap DOMAIN memory.groups :
                      Grants(memory.groups[h], db, op)
      <4>1. /\ g \in DOMAIN memory.groups /\ memory.groups[g] = file.groups[g]
            /\ g \in b.groups \/ g \in salt.groups
        BY <2>3, <3>2 DEF LinesTrue
      <4> QED
        BY <2>1, <2>4, <3>2, <4>1 DEF Allowed
    <3>3. CASE Grants(file.defaults, db, op)
      <4>1. Grants(memory.defaults, db, op)
        BY <3>3 DEF Grants, LinesTrue
      <4> QED
        BY <2>1, <4>1 DEF Allowed
    <3>4. \/ Grants(r.permissions, db, op) \/ Grants(file.defaults, db, op)
          \/ \E g \in r.groups \cap DOMAIN file.groups : Grants(file.groups[g], db, op)
      BY <1>1, <2>2, <2>6 DEF Allowed
    <3> QED
      BY <3>1, <3>2, <3>3, <3>4
  <2> QED
    BY <2>4, <2>5, <2>6 DEF AddsNoRight
<1> QED
  BY <1>2, <1>3

LEMMA FirstStartGives ==
  ASSUME SecretKnown, FirstStart, NEW u \in Users
  PROVE  AddsNoRight(u)
<1>1. DOMAIN Nothing = {}
  BY DEF Nothing
<1>2. PICK salt \in Salts : memory' = First(salt, memory.secret + 1)
  BY FirstStartIs
<1>3. /\ DOMAIN memory'.users = {"admin"} /\ memory'.users["admin"].permissions = Nothing
      /\ DOMAIN memory'.groups = {"admin"} /\ memory'.groups["admin"] = Nothing
      /\ memory'.defaults = Nothing
  BY <1>1, <1>2 DEF First, FirstUsers, Put
<1>4. \A db, op : ~Grants(Nothing, db, op)
  BY <1>1 DEF Grants
<1> QED
  BY <1>3, <1>4 DEF IsAdmin, Allowed, AddsNoRight

\* A start, also from a file that a kill or a failing write cut short, gives nobody a
\* right that the killed process would have denied, but what the salt of a user spells
\* between its colons; unless the last save could not open the file.
THEOREM NoRightFromAStart == Spec => StartsAddNoRight
<1> DEFINE NoRight == ~alive /\ alive' /\ stream # "unopened" => \A u \in Users : AddsNoRight(u)
<1>1. ASSUME TypeOK, AuthInv, [Next]_vars PROVE [NoRight]_vars
  <2>1. ASSUME ~alive, alive' PROVE Start \/ FirstStart
    BY <1>1, <2>1, NextCases
    DEF AuthInv, WriteLine, WriteFails, Kill, Started, Saved, vars, Expire, Refused, Refuse,
        Answered, Changed, EndSave, Disconnect, Login, Bearer, Command
  <2>2. stream # "unopened" => LinesTrue
    BY <1>1 DEF AuthInv, OpenedTrue
  <2> QED
    BY <1>1, <2>1, <2>2, StartGives, FirstStartGives DEF AuthInv
<1>2. Spec => [][NoRight]_vars
  BY <1>1, AuthInvariant, PTL DEF Spec
<1> QED
  BY <1>2 DEF StartsAddNoRight, AddsNoRight

-----------------------------------------------------------------------------
(* Promises are kept *)

\* What the next start will know.
ReadBack == [file EXCEPT !.users = ReadUsers(file)]

\* No line of the file is missing.
Complete ==
  /\ file.secret = memory.secret
  /\ DOMAIN file.users = DOMAIN memory.users
  /\ DOMAIN file.groups = DOMAIN memory.groups
  /\ DOMAIN file.defaults = DOMAIN memory.defaults

\* A save that ends with a good stream has written every line.
GoodIsComplete == alive /\ saving = Nobody /\ stream = "good" => Complete

\* A dead process has promised what lasts; what lasts is in the file; and nothing does
\* while a save has the file in hand.
DurableHolds ==
  /\ ~alive => promised = durable
  /\ \A p \in durable : Kept(ReadBack, p)
  /\ saving # Nobody /\ stream = "good" => durable = {}

\* What was promised is kept by the process that runs.
AllKept == alive => \A p \in promised : Kept(memory, p)

\* So is what the save under way will allow to promise.
SaveKeeps ==
  /\ saving = Starting => \A p \in FirstPromises : Kept(memory, p)
  /\ saving \in Clients =>
       \A p \in Promise(session[saving].command) :
         Kept(memory, p) \/ (Halfway(session[saving]) /\ p.kind = "member")

PromiseInv == GoodIsComplete /\ DurableHolds /\ AllKept /\ SaveKeeps

LEMMA SavedIsComplete ==
  ASSUME TypeOK, AuthInv, alive, stream = "good", NextFiles(memory, file) = {}
  PROVE  Complete
<1>0. LinesTrue /\ file.secret \in {0, memory.secret}
  BY DEF AuthInv, OpenedTrue, SecretKnown
<1>1. file.secret # 0
  BY DEF NextFiles
<1>2. file.secret = memory.secret
  BY <1>0, <1>1
<1>3. /\ DOMAIN file.users \subseteq DOMAIN memory.users
      /\ DOMAIN file.groups \subseteq DOMAIN memory.groups
      /\ DOMAIN file.defaults \subseteq DOMAIN memory.defaults
  BY <1>0 DEF LinesTrue
<1>4. DOMAIN file.users = DOMAIN memory.users
  <2>1. ASSUME DOMAIN file.users # DOMAIN memory.users PROVE FALSE
    <3>1. PICK u \in DOMAIN memory.users : u \notin DOMAIN file.users
      BY <1>3, <2>1
    <3>2. [file EXCEPT !.users = Put(file.users, u, memory.users[u])] \in NextFiles(memory, file)
      BY <1>1, <2>1, <3>1 DEF NextFiles, TypeOK, Stores
    <3> QED
      BY <3>2
  <2> QED
    BY <2>1
<1>5. DOMAIN file.groups = DOMAIN memory.groups
  <2>1. ASSUME DOMAIN file.groups # DOMAIN memory.groups PROVE FALSE
    <3>1. PICK g \in DOMAIN memory.groups : g \notin DOMAIN file.groups
      BY <1>3, <2>1
    <3>2. [file EXCEPT !.groups = Put(file.groups, g, memory.groups[g])] \in NextFiles(memory, file)
      BY <1>1, <1>4, <2>1, <3>1 DEF NextFiles, TypeOK, Stores
    <3> QED
      BY <3>2
  <2> QED
    BY <2>1
<1>6. DOMAIN file.defaults = DOMAIN memory.defaults
  <2>1. ASSUME DOMAIN file.defaults # DOMAIN memory.defaults PROVE FALSE
    <3>1. PICK d \in DOMAIN memory.defaults : d \notin DOMAIN file.defaults
      BY <1>3, <2>1
    <3>2. [file EXCEPT !.defaults = Put(file.defaults, d, memory.defaults[d])]
            \in NextFiles(memory, file)
      BY <1>1, <1>4, <1>5, <2>1, <3>1 DEF NextFiles, TypeOK, Stores
    <3> QED
      BY <3>2
  <2> QED
    BY <2>1
<1> QED
  BY <1>2, <1>4, <1>5, <1>6 DEF Complete

LEMMA NextComplete == TypeOK /\ AuthInv /\ PromiseInv /\ [Next]_vars => GoodIsComplete'
<1> SUFFICES ASSUME TypeOK, AuthInv, PromiseInv, [Next]_vars,
                    alive', saving' = Nobody, stream' = "good"
             PROVE  Complete'
  BY DEF GoodIsComplete
<1>0. Starting # Nobody /\ (\A c \in Clients : c # Nobody) /\ SecretKnown /\ GoodIsComplete
  BY AuthAssumption DEF Starting, Nobody, AuthInv, PromiseInv
<1>1. CASE FirstStart
  BY <1>0, <1>1, FirstStartIs
<1>2. ASSUME NEW c \in Clients, Changed(c) PROVE FALSE
  BY <1>0, <1>2 DEF Changed, BeginSave
<1>3. CASE Start \/ Kill \/ WriteLine \/ WriteFails
  BY <1>3 DEF Start, Kill, WriteLine, WriteFails
<1>4. CASE alive /\ stream = "good" /\ NextFiles(memory, file) = {} /\ UNCHANGED <<memory, file>>
  BY <1>4, SavedIsComplete DEF Complete
<1>5. CASE UNCHANGED <<alive, memory, file, saving, stream>>
  BY <1>0, <1>5 DEF GoodIsComplete, Complete
<1> QED
  BY <1>1, <1>2, <1>3, <1>4, <1>5, NextCases
  DEF AuthInv, vars, Expire, Disconnect, Login, Bearer, Command, Refused, Refuse, Answered, EndSave,
      Started, Saved

\* The next start will read back what is kept, if no line is missing.
LEMMA CompleteKeeps ==
  ASSUME TypeOK, LinesTrue, Complete, NEW p, Kept(memory, p)
  PROVE  Kept(ReadBack, p)
<1> DEFINE n == ReadBack
<1>1. n.users = ReadUsers(file) /\ n.groups = file.groups /\ n.defaults = file.defaults
  BY DEF ReadBack, TypeOK, Stores
<1> HIDE DEF n
<1>2. n.groups = memory.groups /\ n.defaults = memory.defaults
  <2>1. memory.groups \in Maps(Groups, Permissions) /\ file.groups \in Maps(Groups, Permissions)
        /\ memory.defaults \in Maps(Databases, Flags) /\ file.defaults \in Maps(Databases, Flags)
    BY StoreIs DEF TypeOK, Permissions
  <2>2. /\ memory.groups = [g \in DOMAIN memory.groups |-> memory.groups[g]]
        /\ file.groups = [g \in DOMAIN file.groups |-> file.groups[g]]
        /\ memory.defaults = [d \in DOMAIN memory.defaults |-> memory.defaults[d]]
        /\ file.defaults = [d \in DOMAIN file.defaults |-> file.defaults[d]]
    BY <2>1, MapIs
  <2>3. memory.groups = file.groups
    BY <2>2 DEF Complete, LinesTrue
  <2>4. memory.defaults = file.defaults
    BY <2>2 DEF Complete, LinesTrue
  <2> QED
    BY <1>1, <2>3, <2>4
<1>3. DOMAIN n.users = DOMAIN memory.users
      /\ \A u \in DOMAIN memory.users :
           n.users[u] = memory.users[u] \/ n.users[u].salt = Broken
  <2>1. DOMAIN n.users = DOMAIN memory.users
        /\ \A u \in DOMAIN memory.users : n.users[u] = ReadUser(file.users[u])
    BY <1>1 DEF ReadUsers, Complete
  <2>2. ASSUME NEW u \in DOMAIN memory.users
        PROVE  ReadUser(file.users[u]) = memory.users[u] \/ ReadUser(file.users[u]).salt = Broken
    <3>1. memory.users[u] = file.users[u] \/ memory.users[u] = ReadUser(file.users[u])
      BY DEF LinesTrue, Complete
    <3> QED
      BY <3>1 DEF ReadUser
  <2> QED
    BY <2>1, <2>2
<1>4. Kept(n, p)
  <2>1. CASE p.kind # "flags"
    BY <1>2, <1>3, <2>1 DEF Kept
  <2>2. CASE p.kind = "flags" /\ p.owner.kind = "user"
    BY <1>3, <2>2 DEF Kept
  <2>3. CASE p.kind = "flags" /\ p.owner.kind # "user"
    BY <1>2, <2>3 DEF Kept
  <2> QED
    BY <2>1, <2>2, <2>3
<1> QED
  BY <1>4 DEF n

LEMMA NextKept == TypeOK /\ AuthInv /\ PromiseInv /\ [Next]_vars => AllKept'
<1> SUFFICES ASSUME TypeOK, AuthInv, PromiseInv, [Next]_vars, alive', NEW p \in promised'
             PROVE  Kept(memory', p)
  BY DEF AllKept
<1>0. (alive => \A q \in promised : Kept(memory, q)) /\ HalvesFit /\ SecretKnown
  BY DEF PromiseInv, AllKept, AuthInv
<1>1. CASE alive /\ memory' = memory /\ p \in promised
  BY <1>0, <1>1
<1>2. CASE Start
  <2>1. p \in durable /\ memory' = ReadBack
    BY <1>2 DEF Start, PromiseInv, DurableHolds, ReadBack
  <2> QED
    BY <2>1 DEF PromiseInv, DurableHolds
<1>3. CASE FirstStart
  BY <1>0, <1>3, FirstStartIs
<1>4. CASE Started
  <2>1. \A q \in FirstPromises : Kept(memory, q)
    BY <1>4 DEF Started, Saved, PromiseInv, SaveKeeps
  <2> QED
    BY <1>0, <1>4, <2>1 DEF Started, Saved
<1>5. ASSUME NEW c \in Clients, Answered(c) PROVE Kept(memory', p)
  <2> DEFINE u == session[c].command.user
  <2>1. u \in DOMAIN memory.users /\ memory' = memory /\ alive
    BY <1>0, <1>5 DEF Answered, HalvesFit
  <2>2. CASE p = UserThere(u)
    <3>1. p.kind = "user" /\ p.user \in DOMAIN memory'.users
      BY <2>1, <2>2 DEF UserThere
    <3> QED
      BY <3>1 DEF Kept
  <2>3. CASE IsAdmin(memory, u) /\ p = InGroup(u, "admin")
    <3>1. p.kind = "member" /\ p.user \in DOMAIN memory'.users
          /\ p.group \in memory'.users[p.user].groups
      BY <2>1, <2>3 DEF InGroup, IsAdmin
    <3> QED
      BY <3>1 DEF Kept
  <2> QED
    BY <1>1, <1>5, <2>1, <2>2, <2>3 DEF Answered
<1>6. ASSUME NEW c \in Clients, Changed(c), Turn(c) PROVE Kept(memory', p)
  <2>1. Kept(memory, p)
    BY <1>0, <1>6 DEF Changed
  <2> QED
    BY <1>0, <1>6, <2>1, ChangeKeeps
<1>7. ASSUME NEW c \in Clients, EndSave(c) PROVE Kept(memory', p)
  <2>1. memory' = memory /\ saving = c /\ alive
        /\ (p \in promised \/ (~Halfway(session[c]) /\ p \in Promise(session[c].command)))
    BY <1>7 DEF EndSave, Saved, Halfway
  <2>2. Kept(memory, p)
    BY <1>0, <2>1 DEF PromiseInv, SaveKeeps
  <2> QED
    BY <2>1, <2>2
<1>8. (alive /\ memory' = memory /\ p \in promised) \/ Start \/ FirstStart \/ Started
      \/ \E c \in Clients : Answered(c) \/ (Changed(c) /\ Turn(c)) \/ EndSave(c)
  BY NextCases
  DEF AuthInv, WriteLine, WriteFails, Kill, vars, Expire, Refused, Refuse, Disconnect, Login, Bearer,
      Command
<1> QED
  BY <1>1, <1>2, <1>3, <1>4, <1>5, <1>6, <1>7, <1>8

\* When a save has ended well, everything promised by then lasts.
LEMMA LastingHolds ==
  ASSUME TypeOK, AuthInv, PromiseInv, [Next]_vars, alive, UNCHANGED <<alive, memory, file, stream>>,
         durable' = Lasting(promised'), stream = "good" => Complete
  PROVE  \A p \in durable' : Kept(ReadBack, p)
<1>1. CASE stream = "good"
  <2>1. Complete /\ LinesTrue /\ durable' = promised'
    BY <1>1 DEF AuthInv, OpenedTrue, Lasting
  <2>2. \A p \in promised' : Kept(memory, p)
    BY NextKept DEF AllKept
  <2> QED
    BY <2>1, <2>2, CompleteKeeps
<1>2. CASE stream # "good"
  BY <1>2 DEF Lasting, PromiseInv, DurableHolds
<1> QED
  BY <1>1, <1>2

LEMMA NextDurable == TypeOK /\ AuthInv /\ PromiseInv /\ [Next]_vars => DurableHolds'
<1> SUFFICES ASSUME TypeOK, AuthInv, PromiseInv, [Next]_vars PROVE DurableHolds'
  OBVIOUS
<1>0. /\ DurableHolds /\ SecretKnown /\ GoodIsComplete
      /\ \A p \in durable : Kept(ReadBack, p)
  BY DEF PromiseInv, DurableHolds, AuthInv
<1>1. ASSUME file' = file PROVE ReadBack' = ReadBack
  BY <1>1 DEF ReadBack, ReadUsers
<1>2. CASE WriteLine
  <2>1. alive' /\ durable = {} /\ durable' = {}
    BY <1>0, <1>2 DEF WriteLine, DurableHolds
  <2> QED
    BY <2>1 DEF DurableHolds
<1>3. CASE WriteFails
  <2>1. alive' /\ durable = {} /\ durable' = {}
    BY <1>0, <1>3 DEF WriteFails, DurableHolds
  <2> QED
    BY <2>1 DEF DurableHolds
<1>4. CASE Kill
  <2>1. promised' = durable' /\ durable' = durable /\ saving' = Nobody /\ file' = file
    BY <1>4 DEF Kill
  <2> QED
    BY <1>0, <1>1, <2>1 DEF DurableHolds
<1>5. CASE Start
  <2>1. alive' /\ durable' = durable /\ stream' = "none" /\ file' = file
    BY <1>5 DEF Start
  <2> QED
    BY <1>0, <1>1, <2>1 DEF DurableHolds
<1>6. CASE FirstStart
  <2>1. alive' /\ durable' = {}
    BY <1>0, <1>6, FirstStartIs
  <2> QED
    BY <2>1 DEF DurableHolds
<1>7. CASE UNCHANGED <<alive, file, saving, stream, durable, promised>>
  BY <1>0, <1>1, <1>7 DEF DurableHolds
<1>8. ASSUME NEW c \in Clients, Changed(c) PROVE DurableHolds'
  <2>1. alive' /\ (durable' = {} \/ (file' = file /\ stream' = "unopened" /\ durable' \subseteq durable))
    BY <1>8 DEF Changed, BeginSave
  <2>2. CASE durable' = {}
    BY <2>1, <2>2 DEF DurableHolds
  <2>3. CASE file' = file /\ stream' = "unopened" /\ durable' \subseteq durable
    BY <1>0, <1>1, <2>1, <2>3 DEF DurableHolds
  <2> QED
    BY <2>1, <2>2, <2>3
<1>9. ASSUME \/ Started
             \/ \E c \in Clients : Answered(c) \/ EndSave(c)
      PROVE  DurableHolds'
  <2>1. /\ alive /\ alive' /\ saving' = Nobody /\ UNCHANGED <<alive, memory, file, stream>>
        /\ durable' = Lasting(promised')
        /\ stream = "good" => NextFiles(memory, file) = {} \/ saving = Nobody
    BY <1>9 DEF Started, Answered, EndSave, Saved
  <2>2. stream = "good" => Complete
    BY <1>0, <2>1, SavedIsComplete DEF GoodIsComplete
  <2>3. \A p \in durable' : Kept(ReadBack, p)
    BY <2>1, <2>2, LastingHolds
  <2>4. ReadBack' = ReadBack
    BY <1>1, <2>1
  <2> QED
    BY <2>1, <2>3, <2>4 DEF DurableHolds
<1>10. \/ WriteLine \/ WriteFails \/ Kill \/ Start \/ FirstStart \/ Started
       \/ UNCHANGED <<alive, file, saving, stream, durable, promised>>
       \/ \E c \in Clients : Changed(c) \/ Answered(c) \/ EndSave(c)
  BY NextCases DEF AuthInv, vars, Expire, Refused, Refuse, Disconnect, Login, Bearer, Command
<1> QED
  BY <1>2, <1>3, <1>4, <1>5, <1>6, <1>7, <1>8, <1>9, <1>10

LEMMA FirstKept ==
  ASSUME SecretKnown, FirstStart, NEW p \in FirstPromises
  PROVE  Kept(memory', p)
<1>1. PICK salt \in Salts : memory' = First(salt, memory.secret + 1)
  BY FirstStartIs
<1>2. /\ "admin" \in DOMAIN memory'.users /\ "admin" \in memory'.users["admin"].groups
      /\ "admin" \in DOMAIN memory'.groups
  BY <1>1 DEF First, FirstUsers, Put
<1>3. CASE p.kind = "user" /\ p.user = "admin"
  BY <1>2, <1>3 DEF Kept
<1>4. CASE p.kind = "group" /\ p.group = "admin"
  BY <1>2, <1>4 DEF Kept
<1>5. CASE p.kind = "member" /\ p.user = "admin" /\ p.group = "admin"
  BY <1>2, <1>5 DEF Kept
<1> QED
  BY <1>3, <1>4, <1>5 DEF FirstPromises, UserThere, GroupThere, InGroup

\* The save under way and its command stay as they are until it ends.
LEMMA SaveStands ==
  ASSUME TypeOK, AuthInv, [Next]_vars
  PROVE  \/ saving' = Nobody
         \/ FirstStart
         \/ \E c \in Clients : Changed(c) /\ Turn(c)
         \/ memory' = memory /\ saving' = saving
              /\ (saving \in Clients => session'[saving] = session[saving])
<1>0. /\ saving \in Clients => session[saving].stage # "idle"
      /\ session \in [Clients -> Sessions] /\ Idle(Nobody).stage = "idle"
  BY IdleSession DEF TypeOK
<1>1. ASSUME NEW c \in Clients, Disconnect(c) \/ (\E t \in tokens : Bearer(c, t))
      PROVE  memory' = memory /\ saving' = saving
              /\ (saving \in Clients => session'[saving] = session[saving])
  BY <1>0, <1>1 DEF Disconnect, Bearer
<1>2. CASE Start
  BY <1>2 DEF Start, AuthInv, DeadIsIdle
<1> QED
  BY <1>1, <1>2, NextCases
  DEF AuthInv, WriteLine, WriteFails, Kill, Started, vars, Expire, Refused, Refuse, Answered, EndSave,
      Login, Command, Mutex

LEMMA NextSaveKeeps == TypeOK /\ AuthInv /\ PromiseInv /\ [Next]_vars => SaveKeeps'
<1> SUFFICES ASSUME TypeOK, AuthInv, PromiseInv, [Next]_vars PROVE SaveKeeps'
  OBVIOUS
<1>0. Starting # Nobody /\ Starting \notin Clients /\ Nobody \notin Clients
  BY AuthAssumption DEF Starting, Nobody
<1>1. CASE saving' = Nobody
  BY <1>0, <1>1 DEF SaveKeeps
<1>2. CASE FirstStart
  <2>0. SecretKnown
    BY DEF AuthInv
  <2>1. saving' = Starting /\ \A p \in FirstPromises : Kept(memory', p)
    BY <1>2, <2>0, FirstStartIs, FirstKept
  <2> QED
    BY <1>0, <2>1 DEF SaveKeeps, FirstPromises, UserThere, GroupThere, InGroup
<1>3. ASSUME NEW c \in Clients, Changed(c), Turn(c) PROVE SaveKeeps'
  <2>1. saving' = c /\ session' = session
    BY <1>3 DEF Changed, BeginSave
  <2>2. \A p \in Promise(session[c].command) :
          Kept(memory', p) \/ (Halfway(session[c]) /\ p.kind = "member")
    BY <1>3, ChangePays DEF AuthInv
  <2> QED
    BY <1>0, <2>1, <2>2 DEF SaveKeeps
<1>4. CASE memory' = memory /\ saving' = saving
             /\ (saving \in Clients => session'[saving] = session[saving])
  BY <1>4 DEF SaveKeeps, PromiseInv
<1> QED
  BY <1>1, <1>2, <1>3, <1>4, SaveStands

\* What a client was told is so for as long as the process runs; and what a whole save
\* has covered stays so over kills and starts, until a later command takes it back or
\* another save has emptied the file and does not come to a good end, or a start could not
\* read the file and began anew.
THEOREM PromisesStand == Spec => []PromisesKept
<1>1. Init => TypeOK /\ AuthInv /\ PromiseInv
  <2>1. ASSUME Init PROVE PromiseInv
    BY <2>1, AuthAssumption
    DEF Init, PromiseInv, GoodIsComplete, DurableHolds, AllKept, SaveKeeps, Nobody, Starting
  <2> QED
    BY <2>1, InitType, InitInv
<1>2. TypeOK /\ AuthInv /\ PromiseInv /\ [Next]_vars => (TypeOK /\ AuthInv /\ PromiseInv)'
  BY NextType, NextInv, NextComplete, NextKept, NextDurable, NextSaveKeeps DEF PromiseInv
<1>3. PromiseInv => PromisesKept
  BY DEF PromiseInv, AllKept, PromisesKept
<1> QED
  BY <1>1, <1>2, <1>3, PTL DEF Spec

=============================================================================
