------------------------------ MODULE Accounts ------------------------------
(***************************************************************************)
(* Accounts of the dispatch service: registration, login, password reset,  *)
(* profile update and Facebook login (api/action/User.scala) over the      *)
(* tables users, social_account, friendly_id and profile.                  *)
(*                                                                         *)
(* Every database call of the code opens a session of its own, also when   *)
(* it is written inside withTransaction { ... } (Schema.scala:225): each   *)
(* read and each write below is therefore one committed step, and requests *)
(* interleave between them.  A write stores the whole row the request read *)
(* earlier (Squeryl's table.update), not the fields it changed.            *)
(*                                                                         *)
(* Abstracted: the access token (profile updates start from any user, who  *)
(* holds a valid one), the admin/private/contactable flags, timestamps and *)
(* profile texts.  Inputs are the ones that pass the validate* functions.  *)
(***************************************************************************)
EXTENDS Integers, Sequences, FiniteSets

CONSTANTS Workers,      \* requests being served at the same time
          Names,        \* "firstName.lastName" as given at registration
          OnePart,      \* the names whose slug has no dash (no last name)
          Reserved,     \* the names createIdentity reserves
          Emails, Passwords,
          People,       \* <<name, e-mail>> pairs that register
          Facebooks,    \* Facebook identities
          FacebookName, FacebookEmail, \* their names and addresses (or NoEmail)
          NoEmail, Blank, Unguessable,
          MaxRequests, MaxCodes, MaxFailures

ASSUME NamesAssumption == /\ OnePart \subseteq Names /\ Reserved \subseteq Names
                          /\ People \subseteq Names \X Emails
ASSUME FacebookAssumption == /\ FacebookEmail \in [Facebooks -> Emails \cup {NoEmail}]
                             /\ FacebookName \in [Facebooks -> Names]
                             /\ NoEmail \notin Emails
ASSUME PasswordAssumption == Blank \notin Passwords /\ Unguessable \notin Passwords
ASSUME BoundAssumption == /\ IsFiniteSet(Emails) /\ MaxRequests \in Nat
                          /\ MaxCodes \in Nat /\ MaxFailures \in Nat

VARIABLES
  users,      \* rows of table users; the id is the position
  accounts,   \* rows of table social_account
  friendly,   \* rows of table friendly_id with model "User"
  profiles,   \* the users that have a row in table profile
  job,        \* job[w]: the request worker w serves and its local variables
  requests, codes, failures,    \* how many requests, reset codes and failures so far
  overlapped, \* whether a request was ever accepted while another was served
  credential, \* credential[u]: the password the last answer to u left valid,
              \* Blank when u was never answered or got an error
  everSet,    \* everSet[u]: the passwords u ever chose
  used        \* used[c]: how many resets were answered for code c

tables == <<users, accounts, friendly, profiles>>
counts == <<requests, overlapped, codes, failures>>
answers == <<credential, everSet, used>>
vars == <<tables, job, counts, answers>>

\* The column email is unique, so there are no more users than addresses.
MaxUsers == Cardinality(Emails) + 1
UserIds == 1 .. MaxUsers
Rows(t) == 1 .. Len(t)
NoUser == [name |-> <<>>, email |-> NoEmail, password |-> Blank, code |-> 0, active |-> FALSE]
NoAccount == [provider |-> "none", user |-> 0, uid |-> <<>>, token |-> NoEmail, secret |-> Blank]
NoJob == [op |-> "none", at |-> "idle", id |-> 0, row |-> NoUser, acc |-> NoAccount,
          found |-> 0, account |-> 0, hash |-> <<>>, pass |-> Blank, facebook |-> NoEmail]

Init ==
  /\ users = <<>> /\ accounts = <<>> /\ friendly = <<>> /\ profiles = {}
  /\ job = [w \in Workers |-> NoJob]
  /\ requests = 0 /\ codes = 0 /\ failures = 0 /\ overlapped = FALSE
  /\ credential = [u \in UserIds |-> Blank]
  /\ everSet = [u \in UserIds |-> {}]
  /\ used = [c \in 1 .. MaxCodes |-> 0]

-----------------------------------------------------------------------------
(* Queries.  fetchOne takes the head of an unordered result.               *)

ByEmail(e) == {u \in Rows(users) : users[u].email = e}
\* Without the uid in the query.
ByUidAny(p, uid) == {a \in Rows(accounts) : accounts[a].provider = p}
ByUid(p, uid) == {a \in Rows(accounts) : accounts[a].provider = p /\ accounts[a].uid = uid}
IdentityOf(u) == {a \in Rows(accounts) : accounts[a].provider = "identity" /\ accounts[a].user = u}
FetchOne(S, i) == IF S = {} THEN i = 0 ELSE i \in S

(* The users checkLogin finds for a name (the account's token, which is    *)
(* the e-mail address) and a password.                                     *)
Opens(e, p) == {u \in Rows(users) : \E a \in Rows(accounts) :
                   accounts[a].token = e /\ accounts[a].secret = p /\ accounts[a].user = u}

(* The join has no condition between the account and the user.             *)
UserNameOrEmailTaken(n, e) ==
  \E u \in Rows(users), a \in Rows(accounts) :
     /\ accounts[a].provider = "identity"
     /\ accounts[a].token = n \/ users[u].email = e

(* slugify turns the dot of "first.last" into a dash, and the stored hash  *)
(* of a user turns dashes into dots: the count only ever finds a name      *)
(* without a dash.                                                         *)
Hash(n) == [name |-> n, id |-> 0]
generateForUserName(b) ==
  [base |-> b,
   suffix |-> IF b \in OnePart
              THEN Cardinality({f \in Rows(friendly) :
                                  friendly[f].hash = Hash([base |-> b, suffix |-> 0])})
              ELSE 0]

\* FriendlyId.generate: the hash user u is given for userName n.
HashFor(u, n) ==
  IF \E f \in Rows(friendly) : friendly[f].hash = Hash(n) /\ friendly[f].user # u
  THEN [name |-> n, id |-> u]
  ELSE Hash(n)

Store(t, i, row) == IF i = 0 THEN Append(t, row) ELSE [t EXCEPT ![i] = row]

-----------------------------------------------------------------------------
(* Serving requests.                                                       *)

Serves(w, op, at) == job[w].op = op /\ job[w].at = at
Accept(w, j) == /\ job[w].at = "idle" /\ requests < MaxRequests
                /\ requests' = requests + 1
                /\ overlapped' = (overlapped \/ \E v \in Workers \ {w} : job[v].at # "idle")
                /\ job' = [job EXCEPT ![w] = j]
Goto(w, at) == job' = [job EXCEPT ![w].at = at]
Done(w) == job' = [job EXCEPT ![w] = NoJob]

(* UserCreateAccount: the name is made before anything is checked.         *)
CreateStart(w) ==
  \E who \in People, p \in Passwords :
    /\ Accept(w, [NoJob EXCEPT !.op = "create", !.at = "check",
                   !.row = [name |-> generateForUserName(who[1]), email |-> who[2],
                            password |-> p, code |-> 0, active |-> TRUE]])
    /\ UNCHANGED <<tables, codes, failures, answers>>

CreateCheck(w) ==
  LET r == job[w].row IN
  /\ Serves(w, "create", "check")
  /\ IF \/ UserNameOrEmailTaken(r.name, r.email)
        \/ r.name.base \in Reserved /\ r.name.suffix = 0
     THEN Done(w)
     ELSE Goto(w, "insert")
  /\ UNCHANGED <<tables, counts, answers>>

(* The column email is unique: a second insert throws.                     *)
CreateInsert(w) ==
  /\ Serves(w, "create", "insert")
  /\ \/ /\ ByEmail(job[w].row.email) # {}
        /\ Done(w) /\ UNCHANGED users
     \/ /\ ByEmail(job[w].row.email) = {}
        /\ users' = Append(users, job[w].row)
        /\ job' = [job EXCEPT ![w].at = "hash", ![w].id = Len(users) + 1]
  /\ UNCHANGED <<accounts, friendly, profiles, counts, answers>>

(* FriendlyId.generate reads, then writes; profile updates call it too.    *)
HashRead(w) ==
  /\ job[w].at = "hash"
  /\ \E f \in 0 .. Len(friendly) :
       /\ FetchOne({g \in Rows(friendly) : friendly[g].user = job[w].id}, f)
       /\ job' = [job EXCEPT ![w].at = "hashed", ![w].found = f,
                             ![w].hash = HashFor(job[w].id, job[w].row.name)]
  /\ UNCHANGED <<tables, counts, answers>>

HashWrite(w) ==
  /\ job[w].at = "hashed"
  /\ friendly' = Store(friendly, job[w].found, [user |-> job[w].id, hash |-> job[w].hash])
  /\ Goto(w, IF job[w].op = "create" THEN "uid" ELSE "account")
  /\ UNCHANGED <<users, accounts, profiles, counts, answers>>

(* SocialAccount.create: an account that already has the uid keeps its     *)
(* user and gets the new token and secret.                                 *)
LinkedAccount(old, new) ==
  IF old.user = 0 THEN new ELSE [old EXCEPT !.token = new.token, !.secret = new.secret]

AccountFor(w) ==
  CASE job[w].op = "create" ->
         [provider |-> "identity", user |-> job[w].id, uid |-> job[w].row.name,
          token |-> job[w].row.email, secret |-> job[w].row.password]
    [] job[w].op = "facebook" ->
         [provider |-> "facebook", user |-> job[w].id, uid |-> job[w].facebook,
          token |-> job[w].facebook, secret |-> Blank]

AccountRead(w) ==
  LET new == AccountFor(w) IN
  /\ job[w].at = "uid"
  /\ \E a \in 0 .. Len(accounts) :
       /\ FetchOne(ByUid(new.provider, new.uid), a)
       /\ job' = [job EXCEPT ![w].at = "link", ![w].found = a,
             ![w].acc = LinkedAccount(IF a = 0 THEN NoAccount ELSE accounts[a], new)]
  /\ UNCHANGED <<tables, counts, answers>>

AccountWrite(w) ==
  /\ job[w].at = "link"
  /\ accounts' = Store(accounts, job[w].found, job[w].acc)
  /\ IF job[w].op = "create"
     THEN /\ Goto(w, "profile")
          /\ everSet' = [everSet EXCEPT ![job[w].id] = @ \cup {job[w].row.password}]
     ELSE /\ Done(w)
          /\ UNCHANGED everSet
  /\ UNCHANGED <<users, friendly, profiles, counts, credential, used>>

(* Profile.createOrUpdate; the column user_id is unique.                   *)
ProfileRead(w) ==
  /\ job[w].at = "profile"
  /\ job' = [job EXCEPT ![w].at = "profiled",
                        ![w].found = IF job[w].id \in profiles THEN 1 ELSE 0]
  /\ UNCHANGED <<tables, counts, answers>>

AfterProfile(w) ==
  CASE job[w].op = "create" -> Done(w)
    [] job[w].op = "update" -> Goto(w, "identity")
    [] job[w].op = "facebook" -> Goto(w, "uid")

ProfileWrite(w) ==
  /\ job[w].at = "profiled"
  /\ IF job[w].found = 0 /\ job[w].id \in profiles
     THEN Done(w) /\ UNCHANGED <<profiles, credential>>
     ELSE /\ profiles' = profiles \cup {job[w].id}
          /\ AfterProfile(w)
          /\ credential' = IF job[w].op = "create"
                           THEN [credential EXCEPT ![job[w].id] = job[w].row.password]
                           ELSE credential
  /\ UNCHANGED <<users, accounts, friendly, counts, everSet, used>>

(* checkLogin: the row that was found is stored again.                     *)
LoginRead(w) ==
  /\ \E e \in Emails, p \in Passwords : \E u \in Opens(e, p) :
       Accept(w, [NoJob EXCEPT !.op = "login", !.at = "store", !.id = u, !.row = users[u]])
  /\ UNCHANGED <<tables, codes, failures, answers>>

LoginWrite(w) ==
  /\ Serves(w, "login", "store")
  /\ users' = [users EXCEPT ![job[w].id] = job[w].row]
  /\ Done(w)
  /\ UNCHANGED <<accounts, friendly, profiles, counts, answers>>

(* GeneratePasswordResetcode, User.generateResetCode.  The e-mail and the  *)
(* identity account of a user never go away, so the reads before           *)
(* User.get are one step with it.                                          *)
GenerateRead(w) ==
  /\ codes < MaxCodes /\ codes' = codes + 1
  /\ \E u \in Rows(users) :
       /\ users[u].active /\ IdentityOf(u) # {}
       /\ Accept(w, [NoJob EXCEPT !.op = "generate", !.at = "store", !.id = u,
               !.pass = Unguessable,
               !.row = [users[u] EXCEPT !.password = Unguessable, !.code = codes + 1]])
  /\ UNCHANGED <<tables, failures, answers>>

\* The code is not cleared.
ResetReadKeepsCode(w) ==
  /\ \E u \in Rows(users), p \in Passwords :
       /\ users[u].code # 0
       /\ Accept(w, [NoJob EXCEPT !.op = "reset", !.at = "store", !.id = u, !.pass = p,
               !.row = [users[u] EXCEPT !.password = p],
               !.found = users[u].code])
  /\ UNCHANGED <<tables, codes, failures, answers>>

(* User.resetPassword looks the user up by the code.                       *)
ResetRead(w) ==
  /\ \E u \in Rows(users), p \in Passwords :
       /\ users[u].code # 0
       /\ Accept(w, [NoJob EXCEPT !.op = "reset", !.at = "store", !.id = u, !.pass = p,
               !.row = [users[u] EXCEPT !.password = p, !.code = 0],
               !.found = users[u].code])
  /\ UNCHANGED <<tables, codes, failures, answers>>

(* Both store the user, then read the identity account, then store it.     *)
PasswordWrite(w) ==
  /\ job[w].op \in {"generate", "reset"} /\ job[w].at = "store"
  /\ users' = [users EXCEPT ![job[w].id] = job[w].row]
  /\ used' = IF job[w].op = "reset" THEN [used EXCEPT ![job[w].found] = @ + 1] ELSE used
  /\ Goto(w, "secret")
  /\ UNCHANGED <<accounts, friendly, profiles, counts, credential, everSet>>

\* The account keeps its secret.
SecretReadKeeps(w) ==
  /\ job[w].at = "secret"
  /\ \E a \in IdentityOf(job[w].id) :
       job' = [job EXCEPT ![w].at = "secreted", ![w].found = a, ![w].acc = accounts[a]]
  /\ UNCHANGED <<tables, counts, answers>>

(* A user who only ever came from Facebook has no identity account.        *)
SecretRead(w) ==
  /\ job[w].at = "secret"
  /\ \/ IdentityOf(job[w].id) = {} /\ Done(w)
     \/ \E a \in IdentityOf(job[w].id) :
          job' = [job EXCEPT ![w].at = "secreted", ![w].found = a,
                             ![w].acc = [accounts[a] EXCEPT !.secret = job[w].pass]]
  /\ UNCHANGED <<tables, counts, answers>>

SecretWrite(w) ==
  LET u == job[w].id IN
  /\ job[w].at = "secreted"
  /\ accounts' = [accounts EXCEPT ![job[w].found] = job[w].acc]
  /\ IF job[w].op = "reset"
     THEN /\ credential' = [credential EXCEPT ![u] = job[w].pass]
          /\ everSet' = [everSet EXCEPT ![u] = @ \cup {job[w].pass}]
     ELSE /\ credential' = [credential EXCEPT ![u] = Unguessable]
          /\ UNCHANGED everSet
  /\ Done(w)
  /\ UNCHANGED <<users, friendly, profiles, counts, used>>

(* UpdateUserProfile.  The new e-mail, user name and password are strings  *)
(* matched against Some(...), which never succeeds: the user and the       *)
(* account are stored with the values that were read.                      *)
UpdatedUser(row, p, active) == [row EXCEPT !.active = active]
UpdatedAccount(acc, row, p) == acc

UpdateStart(w) ==
  /\ \E u \in Rows(users), p \in Passwords \cup {Blank}, active \in BOOLEAN :
       Accept(w, [NoJob EXCEPT !.op = "update", !.at = "profile", !.id = u, !.pass = p,
                               !.row = UpdatedUser(users[u], p, active)])
  /\ UNCHANGED <<tables, codes, failures, answers>>

UpdateIdentity(w) ==
  /\ Serves(w, "update", "identity")
  /\ \E a \in 0 .. Len(accounts) :
       /\ FetchOne(IdentityOf(job[w].id), a)
       /\ job' = [job EXCEPT ![w].at = "store", ![w].account = a, ![w].acc =
                    IF a = 0 THEN NoAccount
                    ELSE UpdatedAccount(accounts[a], job[w].row, job[w].pass)]
  /\ UNCHANGED <<tables, counts, answers>>

UpdateWrite(w) ==
  /\ Serves(w, "update", "store")
  /\ users' = [users EXCEPT ![job[w].id] = job[w].row]
  /\ Goto(w, "hash")
  /\ UNCHANGED <<accounts, friendly, profiles, counts, answers>>

UpdateAccount(w) ==
  /\ Serves(w, "update", "account")
  /\ IF job[w].account = 0
     THEN UNCHANGED accounts
     ELSE accounts' = [accounts EXCEPT ![job[w].account] = job[w].acc]
  /\ Done(w)
  /\ UNCHANGED <<users, friendly, profiles, counts, answers>>

(* Facebook login.  A user without an e-mail address is given the empty    *)
(* one: the map with the made-up address is not kept.  The password and    *)
(* the reset code of a known user are not copied to the row stored.        *)
FacebookKnown(f) ==
  LET a == ByUid("facebook", f) IN
  IF a # {} THEN {accounts[i].user : i \in a} ELSE ByEmail(FacebookEmail[f])

FacebookRow(f, u) ==
  [name |-> IF u = 0 THEN [base |-> FacebookName[f], suffix |-> 0] ELSE users[u].name,
   email |-> IF u = 0 THEN FacebookEmail[f] ELSE users[u].email,
   password |-> Blank, code |-> 0, active |-> TRUE]

FacebookStart(w) ==
  /\ \E f \in Facebooks : \E u \in 0 .. Len(users) :
       /\ FetchOne(FacebookKnown(f), u)
       /\ Accept(w, [NoJob EXCEPT !.op = "facebook", !.at = "store", !.id = u,
                                  !.row = FacebookRow(f, u), !.facebook = f])
  /\ UNCHANGED <<tables, codes, failures, answers>>

FacebookWrite(w) ==
  LET u == job[w].id IN
  /\ Serves(w, "facebook", "store")
  /\ \/ /\ u # 0
        /\ users' = [users EXCEPT ![u] = job[w].row]
        /\ Goto(w, "profile")
     \/ /\ u = 0 /\ ByEmail(job[w].row.email) = {}
        /\ users' = Append(users, job[w].row)
        /\ job' = [job EXCEPT ![w].at = "profile", ![w].id = Len(users) + 1]
     \/ /\ u = 0 /\ ByEmail(job[w].row.email) # {}
        /\ Done(w) /\ UNCHANGED users
  /\ UNCHANGED <<accounts, friendly, profiles, counts, answers>>

(* A database call throws: what was committed before it stays, and the     *)
(* client does not know which password is in force.                        *)
Fails(w) ==
  /\ job[w].at # "idle" /\ failures < MaxFailures
  /\ failures' = failures + 1
  /\ Done(w)
  /\ credential' = IF job[w].op \in {"create", "generate", "reset"} /\ job[w].id # 0
                   THEN [credential EXCEPT ![job[w].id] = Blank] ELSE credential
  /\ UNCHANGED <<tables, requests, overlapped, codes, everSet, used>>

Next == \E w \in Workers :
  \/ CreateStart(w) \/ CreateCheck(w) \/ CreateInsert(w)
  \/ HashRead(w) \/ HashWrite(w) \/ AccountRead(w) \/ AccountWrite(w)
  \/ ProfileRead(w) \/ ProfileWrite(w)
  \/ LoginRead(w) \/ LoginWrite(w)
  \/ GenerateRead(w) \/ ResetRead(w) \/ PasswordWrite(w) \/ SecretRead(w) \/ SecretWrite(w)
  \/ UpdateStart(w) \/ UpdateIdentity(w) \/ UpdateWrite(w) \/ UpdateAccount(w)
  \/ FacebookStart(w) \/ FacebookWrite(w)
  \/ Fails(w)

Spec == Init /\ [][Next]_vars

-----------------------------------------------------------------------------
(* Whatever requests overlap, fail half way or store rows they read long   *)
(* before: an e-mail address and a password open the account of the user   *)
(* with that address, and only with a password that this user chose        *)
(* (checkLogin over what createIdentity and resetPassword stored).         *)
LoginIsOwn ==
  \A e \in Emails, p \in Passwords : \A u \in Opens(e, p) :
     users[u].email = e /\ p \in everSet[u]

(* As long as requests never overlapped, the password a user was last told *)
(* is in force opens the account and every other one is refused; after     *)
(* generateResetCode none opens it, whatever Facebook logins, profile      *)
(* updates and failures half way came in between.                          *)
LatestCredentialOpens ==
  ~overlapped => \A u \in Rows(users) : credential[u] # Blank =>
     {p \in Passwords : u \in Opens(users[u].email, p)} = {credential[u]} \ {Unguessable}

(* A reset code is good for one reset (resetPassword clears it), as long   *)
(* as requests do not overlap.                                             *)
CodeWorksOnce == ~overlapped => \A c \in 1 .. MaxCodes : used[c] <= 1

(* "Create an identity account" (api/action/User.scala:228): a user whose  *)
(* registration was answered has an identity account.                      *)
CreatesIdentity ==
  \A u \in Rows(users) : credential[u] # Blank => IdentityOf(u) # {}

=============================================================================
