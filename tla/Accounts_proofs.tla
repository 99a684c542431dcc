--------------------------- MODULE Accounts_proofs ---------------------------
(***************************************************************************)
(* Whose login it is, which password is in force and that a reset code is  *)
(* good once, for every set of people, workers, passwords and Facebook     *)
(* identities and any number of requests and failures.                     *)
(***************************************************************************)
EXTENDS Accounts, FiniteSetTheorems, TLAPS

\* No two people register under the same name.
DistinctNames == \A p, q \in People : p[1] = q[1] => p[2] = q[2]

-----------------------------------------------------------------------------
(* The rows and the requests, and that a request's user exists under the   *)
(* e-mail address the request has for it.                                  *)

Slugs == [base : Names, suffix : Nat]
Secrets == Passwords \cup {Blank, Unguessable}
Hashes == [name : Slugs, id : Nat]
UserRows == [name : Slugs, email : Emails \cup {NoEmail}, password : Secrets,
             code : 0 .. MaxCodes, active : BOOLEAN]
AccountRows == [provider : {"identity", "facebook"}, user : Nat, uid : Slugs \cup Facebooks,
                token : Emails \cup Facebooks \cup {NoEmail}, secret : Secrets]
FriendlyRows == [user : Nat, hash : Hashes]
Stages(op) ==
  CASE op = "none" -> {"idle"}
    [] op = "create" -> {"check", "insert", "hash", "hashed", "uid", "link", "profile", "profiled"}
    [] op = "login" -> {"store"}
    [] op \in {"generate", "reset"} -> {"store", "secret", "secreted"}
    [] op = "update" -> {"profile", "profiled", "identity", "store", "hash", "hashed", "account"}
    [] op = "facebook" -> {"store", "profile", "profiled", "uid", "link"}
Jobs == [op : {"none", "create", "login", "generate", "reset", "update", "facebook"},
         at : {"idle", "check", "insert", "hash", "hashed", "uid", "link", "profile", "profiled",
               "store", "secret", "secreted", "identity", "account"},
         id : Nat, row : UserRows \cup {NoUser}, acc : AccountRows \cup {NoAccount},
         found : Nat, account : Nat, hash : Hashes \cup {<<>>}, pass : Secrets,
         facebook : Facebooks \cup {NoEmail}]

\* An account row somebody may store.
RowFor(a, us) == a \in AccountRows /\ a.user \in Rows(us)
HoldsAccount(j) == j.op = "update" /\ j.at \in {"store", "hash", "hashed", "account"} /\ j.account # 0

JobFits(j, us, acs, frs) ==
  /\ j \in Jobs /\ j.at \in Stages(j.op)
  /\ j.op # "none" => j.row \in UserRows
  /\ j.id # 0 => j.id \in Rows(us) /\ j.row.email = us[j.id].email
  /\ j.id = 0 => \/ j.op = "none"
                 \/ j.op = "create" /\ j.at \in {"check", "insert"}
                 \/ j.op = "facebook" /\ j.at = "store"
  /\ j.op = "create" => <<j.row.name.base, j.row.email>> \in People /\ j.row.password \in Passwords
  /\ j.op = "facebook" => j.facebook \in Facebooks
  /\ j.op = "generate" => j.pass = Unguessable
  /\ j.op = "reset" => j.pass \in Passwords /\ (j.at = "store" => j.found \in 1 .. MaxCodes)
  /\ j.at = "hashed" => j.found \in 0 .. Len(frs) /\ j.hash \in Hashes
  /\ j.at = "link" => j.found \in 0 .. Len(acs) /\ RowFor(j.acc, us)
  /\ j.at = "secreted" => j.found \in Rows(acs) /\ RowFor(j.acc, us)
  /\ HoldsAccount(j) => j.account \in Rows(acs) /\ RowFor(j.acc, us)

TablesFit(us, acs, frs) ==
  /\ us \in Seq(UserRows) /\ acs \in Seq(AccountRows) /\ frs \in Seq(FriendlyRows)
  /\ \A u, v \in Rows(us) : us[u].email = us[v].email => u = v
  /\ \A a \in Rows(acs) : RowFor(acs[a], us)

AnswersFit ==
  /\ codes \in 0 .. MaxCodes
  /\ credential \in [UserIds -> Secrets]
  /\ everSet \in [UserIds -> SUBSET Passwords]
  /\ used \in [1 .. MaxCodes -> Nat]

Typed ==
  /\ TablesFit(users, accounts, friendly) /\ AnswersFit
  /\ job \in [Workers -> Jobs]
  /\ \A w \in Workers : JobFits(job[w], users, accounts, friendly)

\* Rows are added, never removed, and a user keeps the e-mail address.
Grown(us, acs, frs, us2, acs2, frs2) ==
  /\ Len(us) <= Len(us2) /\ Len(acs) <= Len(acs2) /\ Len(frs) <= Len(frs2)
  /\ \A u \in Rows(us) : us2[u].email = us[u].email

(* There are no more users than addresses, so the answers speak of every   *)
(* user.                                                                   *)
LEMMA UsersBounded ==
  ASSUME NEW us, NEW acs, NEW frs, TablesFit(us, acs, frs)
  PROVE  Rows(us) \subseteq UserIds
<1> DEFINE A == Emails \cup {NoEmail}
           f == [u \in Rows(us) |-> us[u].email]
<1>1. us \in Seq(UserRows) /\ Len(us) \in Nat
  BY DEF TablesFit
<1>2. IsFiniteSet(A) /\ Cardinality(A) \in Nat /\ Cardinality(A) <= MaxUsers /\ MaxUsers \in Nat
  <2>1. Cardinality(Emails) \in Nat
    BY BoundAssumption, FS_CardinalityType, Zenon
  <2>2. /\ IsFiniteSet(A)
        /\ Cardinality(A) = IF NoEmail \in Emails THEN Cardinality(Emails) ELSE Cardinality(Emails) + 1
    BY BoundAssumption, FS_AddElement, Zenon
  <2> QED BY <2>1, <2>2 DEF MaxUsers
<1>3. f \in Injection(Rows(us), A)
  <2>0. \A u \in Rows(us) : us[u] \in UserRows
    BY <1>1 DEF Rows
  <2>1. f \in [Rows(us) -> A]
    BY <2>0, Zenon DEF UserRows
  <2>2. IsInjective(f)
    BY Zenon DEF TablesFit, IsInjective
  <2> QED BY <2>1, <2>2, Zenon DEF Injection
<1> HIDE DEF A, f
<1>4. Cardinality(Rows(us)) <= Cardinality(A)
  BY <1>2, <1>3, FS_Injection, Zenon
<1>5. Cardinality(Rows(us)) = Len(us)
  <2>1. Cardinality(1 .. Len(us)) = IF 1 > Len(us) THEN 0 ELSE Len(us) - 1 + 1
    BY <1>1, FS_Interval
  <2> QED BY <2>1, <1>1 DEF Rows
<1> QED BY <1>1, <1>2, <1>4, <1>5 DEF Rows, UserIds

(* What a request knows stays true while other requests store rows.        *)
LEMMA JobFitsGrown ==
  ASSUME NEW us, NEW acs, NEW frs, NEW us2, NEW acs2, NEW frs2, NEW j,
         TablesFit(us, acs, frs), TablesFit(us2, acs2, frs2), JobFits(j, us, acs, frs),
         Grown(us, acs, frs, us2, acs2, frs2)
  PROVE  JobFits(j, us2, acs2, frs2)
<1>1. /\ Rows(us) \subseteq Rows(us2) /\ Rows(acs) \subseteq Rows(acs2)
      /\ 0 .. Len(acs) \subseteq 0 .. Len(acs2) /\ 0 .. Len(frs) \subseteq 0 .. Len(frs2)
  BY DEF Grown, TablesFit, Rows
<1>2. j.id # 0 => j.id \in Rows(us2) /\ j.row.email = us2[j.id].email
  BY <1>1, Zenon DEF JobFits, Grown
<1>3. \A a : RowFor(a, us) => RowFor(a, us2)
  BY <1>1, Zenon DEF RowFor
<1> QED BY <1>1, <1>2, <1>3, Zenon DEF JobFits

(* The stores to the tables: a user row under its own address, a user with *)
(* a new one, an account of an existing user, a friendly id.               *)
LEMMA UserStored ==
  ASSUME NEW us, NEW acs, NEW frs, TablesFit(us, acs, frs),
         NEW u \in Rows(us), NEW row \in UserRows, row.email = us[u].email
  PROVE  /\ TablesFit([us EXCEPT ![u] = row], acs, frs)
         /\ Grown(us, acs, frs, [us EXCEPT ![u] = row], acs, frs)
<1> DEFINE us2 == [us EXCEPT ![u] = row]
<1>0. us \in Seq(UserRows) /\ acs \in Seq(AccountRows) /\ frs \in Seq(FriendlyRows)
  BY Zenon DEF TablesFit
<1>1. us2 \in Seq(UserRows) /\ Len(us2) = Len(us) /\ \A v \in Rows(us) : us2[v].email = us[v].email
  BY <1>0 DEF Rows
<1>2. Rows(us2) = Rows(us)
  BY <1>1, Zenon DEF Rows
<1> HIDE DEF us2
<1>3. TablesFit(us2, acs, frs)
  BY <1>0, <1>1, <1>2, Zenon DEF TablesFit, RowFor
<1>4. Grown(us, acs, frs, us2, acs, frs)
  BY <1>0, <1>1 DEF Grown
<1> QED BY <1>3, <1>4, Zenon DEF us2

(* A user with an address of its own is added.                             *)
LEMMA UserAdded ==
  ASSUME NEW us, NEW acs, NEW frs, TablesFit(us, acs, frs),
         NEW row \in UserRows, \A u \in Rows(us) : us[u].email # row.email
  PROVE  /\ TablesFit(Append(us, row), acs, frs)
         /\ Grown(us, acs, frs, Append(us, row), acs, frs)
         /\ Len(us) + 1 \in Rows(Append(us, row)) /\ Append(us, row)[Len(us) + 1] = row
<1> DEFINE us2 == Append(us, row)
<1>0. us \in Seq(UserRows) /\ acs \in Seq(AccountRows) /\ frs \in Seq(FriendlyRows)
  BY Zenon DEF TablesFit
<1>1. /\ us2 \in Seq(UserRows) /\ Len(us2) = Len(us) + 1 /\ us2[Len(us) + 1] = row
      /\ \A v \in Rows(us) : us2[v] = us[v]
  BY <1>0 DEF Rows
<1>2. Rows(us2) = Rows(us) \cup {Len(us) + 1} /\ Len(us) \in Nat
  BY <1>0, <1>1 DEF Rows
<1> HIDE DEF us2
<1>3. TablesFit(us2, acs, frs)
  BY <1>0, <1>1, <1>2, Zenon DEF TablesFit, RowFor
<1>4. Grown(us, acs, frs, us2, acs, frs)
  BY <1>0, <1>1, <1>2 DEF Grown
<1> QED BY <1>1, <1>2, <1>3, <1>4, Zenon DEF us2

(* The rows of a table are numbered from 1.                                *)
LEMMA RowsOf ==
  ASSUME NEW S, NEW t \in Seq(S)
  PROVE  /\ Len(t) \in Nat /\ 0 \in 0 .. Len(t) /\ 0 \notin Rows(t)
         /\ Rows(t) \subseteq 0 .. Len(t) /\ Rows(t) \subseteq Nat
         /\ \A k \in 0 .. Len(t) : k # 0 => k \in Rows(t)
         /\ \A k \in Rows(t) : t[k] \in S
BY DEF Rows

(* The fields of a request.                                                *)
LEMMA JobFields ==
  ASSUME NEW j \in Jobs
  PROVE  DOMAIN j = {"op", "at", "id", "row", "acc", "found", "account", "hash", "pass", "facebook"}
BY Zenon DEF Jobs

(* Nobody's request.                                                       *)
LEMMA NoJobIs == NoJob.op = "none" /\ NoJob.at = "idle"
BY Zenon DEF NoJob

(* Store returns the table with the row in its place or at the end.        *)
LEMMA StoreRows ==
  ASSUME NEW S, NEW t \in Seq(S), NEW i \in 0 .. Len(t), NEW row \in S
  PROVE  /\ Store(t, i, row) \in Seq(S)
         /\ Len(t) <= Len(Store(t, i, row))
         /\ Len(Store(t, i, row)) = IF i = 0 THEN Len(t) + 1 ELSE Len(t)
         /\ \A k \in Rows(Store(t, i, row)) :
              Store(t, i, row)[k] = IF k = (IF i = 0 THEN Len(t) + 1 ELSE i) THEN row ELSE t[k]
<1>1. CASE i = 0
  BY <1>1 DEF Store, Rows
<1>2. CASE i # 0
  <2>1. i \in 1 .. Len(t) /\ Len(t) \in Nat
    BY <1>2
  <2> QED BY <1>2, <2>1 DEF Store, Rows
<1> QED BY <1>1, <1>2, Zenon

(* What the accounts are once a is stored as row i, or as a new one.       *)
StoredAs(acs, i, a, acs2) ==
  /\ acs2 \in Seq(AccountRows)
  /\ Len(acs) <= Len(acs2)
  /\ Len(acs2) = IF i = 0 THEN Len(acs) + 1 ELSE Len(acs)
  /\ \A k \in Rows(acs2) : acs2[k] = IF k = (IF i = 0 THEN Len(acs) + 1 ELSE i) THEN a ELSE acs[k]

(* Store does that.                                                        *)
LEMMA AccountsStored ==
  ASSUME NEW acs \in Seq(AccountRows), NEW i \in 0 .. Len(acs), NEW a \in AccountRows
  PROVE  StoredAs(acs, i, a, Store(acs, i, a))
BY StoreRows DEF StoredAs

(* An account is added or overwritten.                                     *)
LEMMA AccountStored ==
  ASSUME NEW us, NEW acs, NEW frs, TablesFit(us, acs, frs),
         NEW i \in 0 .. Len(acs), NEW a, RowFor(a, us)
  PROVE  /\ TablesFit(us, Store(acs, i, a), frs)
         /\ Grown(us, acs, frs, us, Store(acs, i, a), frs)
<1> DEFINE acs2 == Store(acs, i, a)
<1>0. us \in Seq(UserRows) /\ acs \in Seq(AccountRows) /\ frs \in Seq(FriendlyRows)
  BY Zenon DEF TablesFit
<1>1. /\ acs2 \in Seq(AccountRows) /\ Len(acs) <= Len(acs2)
      /\ Len(acs2) = IF i = 0 THEN Len(acs) + 1 ELSE Len(acs)
      /\ \A k \in Rows(acs2) : acs2[k] = IF k = (IF i = 0 THEN Len(acs) + 1 ELSE i) THEN a ELSE acs[k]
  <2>1. StoredAs(acs, i, a, acs2)
    BY <1>0, AccountsStored, Zenon DEF RowFor
  <2> QED BY <2>1, Zenon DEF StoredAs
<1> HIDE DEF acs2
<1>2. \A k \in Rows(acs2) : RowFor(acs2[k], us)
  <2>1. \A k \in Rows(acs2) : k \in Rows(acs) \/ k = (IF i = 0 THEN Len(acs) + 1 ELSE i)
    BY <1>0, <1>1 DEF Rows
  <2> QED BY <1>1, <2>1, Zenon DEF TablesFit
<1>3. TablesFit(us, acs2, frs)
  BY <1>0, <1>1, <1>2, Zenon DEF TablesFit
<1>4. Grown(us, acs, frs, us, acs2, frs)
  BY <1>0, <1>1 DEF Grown
<1> QED BY <1>3, <1>4, Zenon DEF acs2

(* A friendly id is added or overwritten.                                  *)
LEMMA FriendlyStored ==
  ASSUME NEW us, NEW acs, NEW frs, TablesFit(us, acs, frs),
         NEW i \in 0 .. Len(frs), NEW row \in FriendlyRows
  PROVE  /\ TablesFit(us, acs, Store(frs, i, row))
         /\ Grown(us, acs, frs, us, acs, Store(frs, i, row))
<1>0. us \in Seq(UserRows) /\ acs \in Seq(AccountRows) /\ frs \in Seq(FriendlyRows)
  BY Zenon DEF TablesFit
<1>1. Store(frs, i, row) \in Seq(FriendlyRows) /\ Len(frs) <= Len(Store(frs, i, row))
  BY <1>0, StoreRows, Zenon
<1> QED BY <1>0, <1>1 DEF TablesFit, Grown

-----------------------------------------------------------------------------
(* Every step keeps the tables and the requests in shape.                  *)

(* The request is over.                                                    *)
LEMMA NoJobFits ==
  ASSUME NEW us, NEW acs, NEW frs
  PROVE  JobFits(NoJob, us, acs, frs)
<1>1. NoJob \in Jobs
  BY Zenon DEF NoJob, Jobs, Secrets
<1>2. NoJob.op = "none" /\ NoJob.at = "idle" /\ NoJob.id = 0
  BY Zenon DEF NoJob
<1>3. NoJob.at \in Stages(NoJob.op)
  BY <1>2, Zenon DEF Stages
<1> QED BY <1>1, <1>2, <1>3, Zenon DEF JobFits, HoldsAccount

(* The tables are empty and nobody is served.                              *)
LEMMA InitTyped ==
  ASSUME Init
  PROVE  Typed
<1>1. TablesFit(users, accounts, friendly)
  BY DEF Init, TablesFit, Rows
<1>2. AnswersFit
  <2>1. Blank \in Secrets /\ {} \in SUBSET Passwords /\ MaxCodes \in Nat
    BY BoundAssumption, Zenon DEF Secrets
  <2> QED BY <2>1 DEF Init, AnswersFit
<1>3. JobFits(NoJob, users, accounts, friendly)
  BY NoJobFits, Zenon
<1>4. NoJob \in Jobs
  BY <1>3, Zenon DEF JobFits
<1> QED BY <1>1, <1>2, <1>3, <1>4, Zenon DEF Init, Typed

\* Only the request of w moves, and rows are only added.
Moves(w) == /\ job' = [job EXCEPT ![w] = job'[w]]
            /\ Grown(users, accounts, friendly, users', accounts', friendly')

(* A step of one request that grows the tables keeps them all in shape.    *)
LEMMA TypedStep ==
  ASSUME Typed, NEW w \in Workers, job' = [job EXCEPT ![w] = job'[w]],
         TablesFit(users', accounts', friendly'), AnswersFit',
         Grown(users, accounts, friendly, users', accounts', friendly'),
         JobFits(job'[w], users', accounts', friendly')
  PROVE  Typed' /\ Moves(w)
<1>1. job'[w] \in Jobs
  BY Zenon DEF JobFits
<1>2. job' \in [Workers -> Jobs] /\ \A v \in Workers \ {w} : job'[v] = job[v]
  <2>1. job \in [Workers -> Jobs]
    BY Zenon DEF Typed
  <2> QED BY <1>1, <2>1, Zenon
<1>3. ASSUME NEW v \in Workers PROVE JobFits(job'[v], users', accounts', friendly')
  <2>1. CASE v = w
    BY <2>1, Zenon
  <2>2. CASE v # w
    <3>1. job'[v] = job[v] /\ JobFits(job[v], users, accounts, friendly)
      BY <1>2, <2>2, Zenon DEF Typed
    <3>2. JobFits(job[v], users', accounts', friendly')
      BY <3>1, JobFitsGrown, Zenon DEF Typed
    <3> QED BY <3>1, <3>2, Zenon
  <2> QED BY <2>1, <2>2, Zenon
<1> QED BY <1>2, <1>3, Zenon DEF Typed, Moves

(* Tables that do not change have not shrunk.                              *)
LEMMA GrownSame ==
  ASSUME NEW us, NEW acs, NEW frs, TablesFit(us, acs, frs)
  PROVE  Grown(us, acs, frs, us, acs, frs)
BY DEF TablesFit, Grown

(* A name is a slug with a counted suffix.                                 *)
LEMMA NameIsSlug ==
  ASSUME TablesFit(users, accounts, friendly), NEW b \in Names
  PROVE  generateForUserName(b) \in Slugs /\ generateForUserName(b).base = b
<1> DEFINE T == {f \in Rows(friendly) : friendly[f].hash = Hash([base |-> b, suffix |-> 0])}
<1>1. Len(friendly) \in Nat
  BY DEF TablesFit
<1>2. IsFiniteSet(Rows(friendly))
  BY <1>1, FS_Interval DEF Rows
<1>3. Cardinality(T) \in Nat
  <2>1. T \in SUBSET Rows(friendly)
    BY Zenon
  <2>2. IsFiniteSet(T)
    BY <1>2, <2>1, FS_Subset, Zenon
  <2> QED BY <2>2, FS_CardinalityType, Zenon
<1>4. generateForUserName(b) = [base |-> b, suffix |-> IF b \in OnePart THEN Cardinality(T) ELSE 0]
  BY Zenon DEF generateForUserName
<1> HIDE DEF T
<1> QED BY <1>3, <1>4 DEF Slugs

(* A step that leaves the tables alone and moves one request.              *)
LEMMA TypedMove ==
  ASSUME Typed, NEW w \in Workers, job' = [job EXCEPT ![w] = job'[w]],
         UNCHANGED tables, AnswersFit',
         JobFits(job'[w], users, accounts, friendly)
  PROVE  Typed' /\ Moves(w)
<1>1. TablesFit(users, accounts, friendly)
  BY Zenon DEF Typed
<1>2. Grown(users, accounts, friendly, users, accounts, friendly)
  BY <1>1, GrownSame, Zenon
<1>3. users' = users /\ accounts' = accounts /\ friendly' = friendly
  BY Zenon DEF tables
<1> QED BY <1>1, <1>2, <1>3, TypedStep, Zenon

(* Answers that do not change keep their shape.                            *)
LEMMA AnswersSame ==
  ASSUME AnswersFit, UNCHANGED <<codes, answers>>
  PROVE  AnswersFit'
BY Zenon DEF AnswersFit, answers

(* User.create is called.                                                  *)
LEMMA CreateStartTyped ==
  ASSUME Typed, NEW w \in Workers, CreateStart(w)
  PROVE  Typed' /\ Moves(w)
<1>1. PICK who \in People, p \in Passwords :
        Accept(w, [NoJob EXCEPT !.op = "create", !.at = "check",
                   !.row = [name |-> generateForUserName(who[1]), email |-> who[2],
                            password |-> p, code |-> 0, active |-> TRUE]])
  BY Zenon DEF CreateStart
<1> DEFINE r == [name |-> generateForUserName(who[1]), email |-> who[2],
                 password |-> p, code |-> 0, active |-> TRUE]
           j == [NoJob EXCEPT !.op = "create", !.at = "check", !.row = r]
<1>2. who[1] \in Names /\ who[2] \in Emails /\ <<who[1], who[2]>> \in People
  BY NamesAssumption
<1>3. generateForUserName(who[1]) \in Slugs /\ generateForUserName(who[1]).base = who[1]
  BY <1>2, NameIsSlug, Zenon DEF Typed
<1>4. /\ r \in UserRows /\ r.email = who[2] /\ r.password \in Passwords
      /\ r.name.base = who[1]
  BY <1>2, <1>3, BoundAssumption DEF UserRows, Secrets
<1> HIDE DEF r
<1>5. j.op = "create" /\ j.at = "check" /\ j.row = r /\ j.id = 0 /\ j \in Jobs
  BY <1>4, Zenon DEF NoJob, Jobs, Secrets
<1>6. j.at \in Stages(j.op)
  BY <1>5 DEF Stages
<1>7. job' = [job EXCEPT ![w] = j] /\ job'[w] = j
  BY <1>1, Zenon DEF Accept, Typed, r
<1> HIDE DEF j
<1>8. JobFits(j, users, accounts, friendly)
  BY <1>2, <1>4, <1>5, <1>6, Zenon DEF JobFits, HoldsAccount
<1>9. AnswersFit' /\ UNCHANGED tables
  BY AnswersSame, Zenon DEF CreateStart, Typed
<1> QED BY <1>7, <1>8, <1>9, TypedMove, Zenon

(* The request ends, whatever it stored last.                              *)
LEMMA DoneMoves ==
  ASSUME Typed, NEW w \in Workers, Done(w)
  PROVE  /\ job' = [job EXCEPT ![w] = job'[w]]
         /\ JobFits(job'[w], users', accounts', friendly')
<1>1. job' = [job EXCEPT ![w] = NoJob] /\ job'[w] = NoJob
  BY Zenon DEF Done, Typed
<1>2. JobFits(NoJob, users', accounts', friendly')
  BY NoJobFits, Zenon
<1> QED BY <1>1, <1>2, Zenon

(* It looks for a user with the address.                                   *)
LEMMA CreateCheckTyped ==
  ASSUME Typed, NEW w \in Workers, CreateCheck(w)
  PROVE  Typed' /\ Moves(w)
<1>1. AnswersFit' /\ UNCHANGED tables /\ users' = users /\ accounts' = accounts /\ friendly' = friendly
  BY AnswersSame, Zenon DEF CreateCheck, Typed, counts, tables
<1>2. CASE Done(w)
  BY <1>1, <1>2, DoneMoves, TypedMove, Zenon
<1>3. CASE Goto(w, "insert")
  <2> DEFINE j == [job[w] EXCEPT !.at = "insert"]
  <2>1. JobFits(job[w], users, accounts, friendly) /\ job[w].op = "create" /\ job[w].at = "check"
    BY Zenon DEF Typed, CreateCheck, Serves
  <2>2. job' = [job EXCEPT ![w] = j] /\ job'[w] = j
    BY <1>3, Zenon DEF Goto, Typed
  <2>3. JobFits(j, users, accounts, friendly)
    BY <2>1, NoJobIs, Zenon DEF JobFits, Jobs, Stages, HoldsAccount
  <2> QED BY <1>1, <2>2, <2>3, TypedMove, Zenon
<1> QED BY <1>2, <1>3, Zenon DEF CreateCheck

(* It inserts the user, unless the address was taken meanwhile.            *)
LEMMA CreateInsertTyped ==
  ASSUME Typed, NEW w \in Workers, CreateInsert(w)
  PROVE  Typed' /\ Moves(w)
<1>1. /\ JobFits(job[w], users, accounts, friendly) /\ TablesFit(users, accounts, friendly)
      /\ job[w].op = "create" /\ job[w].at = "insert"
  BY Zenon DEF Typed, CreateInsert, Serves
<1>2. AnswersFit' /\ accounts' = accounts /\ friendly' = friendly /\ profiles' = profiles
  BY AnswersSame, Zenon DEF CreateInsert, Typed, counts
<1>3. CASE Done(w) /\ UNCHANGED users
  BY <1>2, <1>3, DoneMoves, TypedMove, Zenon DEF tables
<1>4. CASE /\ ByEmail(job[w].row.email) = {}
           /\ users' = Append(users, job[w].row)
           /\ job' = [job EXCEPT ![w].at = "hash", ![w].id = Len(users) + 1]
  <2> DEFINE j == [job[w] EXCEPT !.at = "hash", !.id = Len(users) + 1]
  <2>1. job' = [job EXCEPT ![w] = j] /\ job'[w] = j
    BY <1>4, Zenon DEF Typed
  <2>2. job[w].row \in UserRows /\ \A u \in Rows(users) : users[u].email # job[w].row.email
    BY <1>1, <1>4, Zenon DEF JobFits, ByEmail
  <2>3. /\ TablesFit(users', accounts, friendly)
        /\ Grown(users, accounts, friendly, users', accounts, friendly)
        /\ Len(users) + 1 \in Rows(users') /\ users'[Len(users) + 1] = job[w].row
    BY <1>1, <1>4, <2>2, UserAdded, Zenon
  <2>4. Len(users) + 1 \in Nat \ {0}
    BY <1>1 DEF TablesFit
  <2>5. JobFits(j, users', accounts, friendly)
    BY <1>1, <2>3, <2>4, Zenon DEF JobFits, Jobs, Stages, HoldsAccount
  <2> QED BY <1>2, <2>1, <2>3, <2>5, TypedStep, Zenon
<1> QED BY <1>3, <1>4, Zenon DEF CreateInsert

(* FriendlyId looks for the row of the user.                               *)
LEMMA HashReadTyped ==
  ASSUME Typed, NEW w \in Workers, HashRead(w)
  PROVE  Typed' /\ Moves(w)
<1> DEFINE h == HashFor(job[w].id, job[w].row.name)
<1>1. PICK f \in 0 .. Len(friendly) :
        job' = [job EXCEPT ![w].at = "hashed", ![w].found = f, ![w].hash = h]
  BY Zenon DEF HashRead
<1> DEFINE j == [job[w] EXCEPT !.at = "hashed", !.found = f, !.hash = h]
<1>2. job' = [job EXCEPT ![w] = j] /\ job'[w] = j
  BY <1>1, Zenon DEF Typed
<1>3. JobFits(job[w], users, accounts, friendly) /\ job[w].at = "hash"
  BY Zenon DEF Typed, HashRead
<1>4. h \in Hashes
  BY <1>3, Zenon DEF JobFits, Jobs, Stages, HashFor, Hash, Hashes, UserRows
<1>5. f \in Nat
  OBVIOUS
<1> HIDE DEF h
<1>6. JobFits(j, users, accounts, friendly)
  BY <1>3, <1>4, <1>5, Zenon DEF JobFits, Jobs, Stages, HoldsAccount
<1>7. AnswersFit' /\ UNCHANGED tables
  BY AnswersSame, Zenon DEF HashRead, Typed, counts
<1> QED BY <1>2, <1>6, <1>7, TypedMove, Zenon

(* FriendlyId stores the row.                                              *)
LEMMA HashWriteTyped ==
  ASSUME Typed, NEW w \in Workers, HashWrite(w)
  PROVE  Typed' /\ Moves(w)
<1> DEFINE at == IF job[w].op = "create" THEN "uid" ELSE "account"
           j == [job[w] EXCEPT !.at = at]
           row == [user |-> job[w].id, hash |-> job[w].hash]
<1>1. job' = [job EXCEPT ![w] = j] /\ job'[w] = j
  BY Zenon DEF HashWrite, Goto, Typed
<1>2. /\ JobFits(job[w], users, accounts, friendly) /\ TablesFit(users, accounts, friendly)
      /\ job[w].at = "hashed"
  BY Zenon DEF Typed, HashWrite
<1>3. /\ TablesFit(users, accounts, friendly')
      /\ Grown(users, accounts, friendly, users, accounts, friendly')
  <2>1. row \in FriendlyRows /\ job[w].found \in 0 .. Len(friendly)
    BY <1>2, Zenon DEF JobFits, Jobs, FriendlyRows
  <2>2. friendly' = Store(friendly, job[w].found, row)
    BY Zenon DEF HashWrite
  <2> HIDE DEF row
  <2> QED BY <1>2, <2>1, <2>2, FriendlyStored, Zenon
<1>4. JobFits(j, users, accounts, friendly')
  BY <1>2, NoJobIs, Zenon DEF JobFits, Jobs, Stages, HoldsAccount
<1>5. AnswersFit' /\ users' = users /\ accounts' = accounts
  BY AnswersSame, Zenon DEF HashWrite, Typed, counts
<1> QED BY <1>1, <1>3, <1>4, <1>5, TypedStep, Zenon

(* The account a registration or a Facebook login is about to store.       *)
LEMMA AccountForRow ==
  ASSUME Typed, NEW w \in Workers, job[w].at = "uid"
  PROVE  /\ RowFor(AccountFor(w), users) /\ AccountFor(w).user = job[w].id
         /\ job[w].id \in Rows(users) /\ job[w].op \in {"create", "facebook"}
<1>1. JobFits(job[w], users, accounts, friendly) /\ TablesFit(users, accounts, friendly)
  BY Zenon DEF Typed
<1>2. /\ job[w].op \in {"create", "facebook"} /\ job[w].id \in Rows(users) /\ job[w].id \in Nat
      /\ job[w].row \in UserRows
      /\ job[w].op = "facebook" => job[w].facebook \in Facebooks
  BY <1>1, Zenon DEF JobFits, Jobs, Stages
<1>3. AccountFor(w) \in AccountRows /\ AccountFor(w).user = job[w].id
  BY <1>2, Zenon DEF AccountFor, AccountRows, UserRows, Secrets
<1> QED BY <1>2, <1>3, Zenon DEF RowFor

(* SocialAccount looks for an account of the provider and uid.             *)
LEMMA AccountReadTyped ==
  ASSUME Typed, NEW w \in Workers, AccountRead(w)
  PROVE  Typed' /\ Moves(w)
<1> DEFINE new == AccountFor(w)
           acc(a) == LinkedAccount(IF a = 0 THEN NoAccount ELSE accounts[a], new)
<1>1. PICK a \in 0 .. Len(accounts) :
        /\ FetchOne(ByUid(new.provider, new.uid), a)
        /\ job' = [job EXCEPT ![w].at = "link", ![w].found = a, ![w].acc = acc(a)]
  BY Zenon DEF AccountRead
<1> DEFINE j == [job[w] EXCEPT !.at = "link", !.found = a, !.acc = acc(a)]
<1>2. job' = [job EXCEPT ![w] = j] /\ job'[w] = j
  BY <1>1, Zenon DEF Typed
<1>3. /\ JobFits(job[w], users, accounts, friendly) /\ TablesFit(users, accounts, friendly)
      /\ job[w].at = "uid"
  BY Zenon DEF Typed, AccountRead
<1>4. RowFor(new, users) /\ new.user \in Rows(users) /\ job[w].op \in {"create", "facebook"}
  BY <1>3, AccountForRow, Zenon
<1> HIDE DEF new
<1>5. RowFor(acc(a), users)
  <2>1. CASE a = 0
    BY <2>1, <1>4, Zenon DEF LinkedAccount, NoAccount
  <2>2. CASE a # 0
    <3>1. RowFor(accounts[a], users)
      BY <1>3, <2>2, RowsOf, Zenon DEF TablesFit, Rows
    <3> QED BY <1>4, <2>2, <3>1, Zenon DEF LinkedAccount, RowFor, AccountRows
  <2> QED BY <2>1, <2>2, Zenon
<1> HIDE DEF acc
<1>6. JobFits(j, users, accounts, friendly)
  <2>1. acc(a) \in AccountRows /\ a \in Nat
    BY <1>5 DEF RowFor
  <2> QED BY <1>3, <1>4, <1>5, <2>1, Zenon DEF JobFits, Jobs, Stages, HoldsAccount
<1>7. AnswersFit' /\ UNCHANGED tables
  BY AnswersSame, Zenon DEF AccountRead, Typed, counts
<1> QED BY <1>2, <1>6, <1>7, TypedMove, Zenon

(* SocialAccount stores the row.                                           *)
LEMMA AccountWriteTyped ==
  ASSUME Typed, NEW w \in Workers, AccountWrite(w)
  PROVE  Typed' /\ Moves(w)
<1>1. /\ JobFits(job[w], users, accounts, friendly) /\ TablesFit(users, accounts, friendly)
      /\ job[w].at = "link" /\ AnswersFit
      /\ accounts' = Store(accounts, job[w].found, job[w].acc)
  BY Zenon DEF Typed, AccountWrite
<1>2. users' = users /\ friendly' = friendly
  BY Zenon DEF AccountWrite
<1>3. /\ TablesFit(users, accounts', friendly)
      /\ Grown(users, accounts, friendly, users, accounts', friendly)
  <2>1. job[w].found \in 0 .. Len(accounts) /\ RowFor(job[w].acc, users)
    BY <1>1, Zenon DEF JobFits
  <2> QED BY <1>1, <2>1, AccountStored, Zenon
<1>4. AnswersFit'
  <2>1. CASE job[w].op = "create"
    <3>1. everSet' = [everSet EXCEPT ![job[w].id] = @ \cup {job[w].row.password}]
      BY <2>1, Zenon DEF AccountWrite
    <3>2. job[w].row.password \in Passwords
      BY <1>1, <2>1, Zenon DEF JobFits
    <3>3. everSet' \in [UserIds -> SUBSET Passwords]
      BY <1>1, <3>1, <3>2, Zenon DEF AnswersFit
    <3> QED BY <1>1, <3>3, Zenon DEF AnswersFit, AccountWrite, counts
  <2>2. CASE job[w].op # "create"
    BY <1>1, <2>2, Zenon DEF AnswersFit, AccountWrite, counts
  <2> QED BY <2>1, <2>2, Zenon
<1>5. CASE job[w].op = "create"
  <2> DEFINE j == [job[w] EXCEPT !.at = "profile"]
  <2>1. job' = [job EXCEPT ![w] = j] /\ job'[w] = j
    BY <1>5, Zenon DEF Typed, AccountWrite, Goto
  <2>2. JobFits(job[w], users, accounts', friendly)
    BY <1>1, <1>3, JobFitsGrown, Zenon
  <2>3. JobFits(j, users, accounts', friendly)
    BY <1>1, <2>2, <1>5, Zenon DEF JobFits, Jobs, Stages, HoldsAccount
  <2> QED BY <1>2, <1>3, <1>4, <2>1, <2>3, TypedStep, Zenon
<1>6. CASE job[w].op # "create"
  <2>1. Done(w)
    BY <1>6, Zenon DEF AccountWrite
  <2> QED BY <1>2, <1>3, <1>4, <2>1, DoneMoves, TypedStep, Zenon
<1> QED BY <1>5, <1>6, Zenon

(* Profile looks for the row of the user.                                  *)
LEMMA ProfileReadTyped ==
  ASSUME Typed, NEW w \in Workers, ProfileRead(w)
  PROVE  Typed' /\ Moves(w)
<1> DEFINE f == IF job[w].id \in profiles THEN 1 ELSE 0
           j == [job[w] EXCEPT !.at = "profiled", !.found = f]
<1>1. job' = [job EXCEPT ![w] = j] /\ job'[w] = j
  BY Zenon DEF Typed, ProfileRead
<1>2. JobFits(job[w], users, accounts, friendly) /\ job[w].at = "profile" /\ f \in Nat
  BY Zenon DEF Typed, ProfileRead
<1> HIDE DEF f
<1>3. JobFits(j, users, accounts, friendly)
  BY <1>2, Zenon DEF JobFits, Jobs, Stages, HoldsAccount
<1>4. AnswersFit' /\ UNCHANGED tables
  BY AnswersSame, Zenon DEF ProfileRead, Typed, counts
<1> QED BY <1>1, <1>3, <1>4, TypedMove, Zenon

(* Profile stores the row, and the request may be over.                    *)
LEMMA ProfileWriteTyped ==
  ASSUME Typed, NEW w \in Workers, ProfileWrite(w)
  PROVE  Typed' /\ Moves(w)
<1>1. /\ JobFits(job[w], users, accounts, friendly) /\ TablesFit(users, accounts, friendly)
      /\ job[w].at = "profiled" /\ AnswersFit
      /\ users' = users /\ accounts' = accounts /\ friendly' = friendly
  BY Zenon DEF Typed, ProfileWrite
<1>2. Grown(users, accounts, friendly, users, accounts, friendly)
  BY <1>1, GrownSame, Zenon
<1>3. AnswersFit'
  <2>1. credential' = credential \/ /\ job[w].op = "create"
                                    /\ credential' = [credential EXCEPT ![job[w].id] = job[w].row.password]
    BY Zenon DEF ProfileWrite
  <2>2. job[w].op = "create" => job[w].row.password \in Secrets
    BY <1>1, Zenon DEF JobFits, Secrets
  <2>3. credential' \in [UserIds -> Secrets]
    BY <1>1, <2>1, <2>2, Zenon DEF AnswersFit
  <2> QED BY <1>1, <2>3, Zenon DEF AnswersFit, ProfileWrite, counts
<1>4. \/ Done(w)
      \/ job[w].op = "update" /\ Goto(w, "identity")
      \/ job[w].op = "facebook" /\ Goto(w, "uid")
  <2>1. job[w].op \in {"create", "update", "facebook"}
    BY <1>1, Zenon DEF JobFits, Jobs, Stages
  <2> QED BY <2>1, Zenon DEF ProfileWrite, AfterProfile
<1>5. CASE Done(w)
  BY <1>1, <1>2, <1>3, <1>5, DoneMoves, TypedStep, Zenon
<1>6. ASSUME NEW at, Goto(w, at), \/ job[w].op = "update" /\ at = "identity"
                                  \/ job[w].op = "facebook" /\ at = "uid"
      PROVE  Typed' /\ Moves(w)
  <2> DEFINE j == [job[w] EXCEPT !.at = at]
  <2>1. job' = [job EXCEPT ![w] = j] /\ job'[w] = j
    BY <1>6, Zenon DEF Typed, Goto
  <2>2. JobFits(j, users, accounts, friendly)
    BY <1>1, <1>6, Zenon DEF JobFits, Jobs, Stages, HoldsAccount
  <2> QED BY <1>1, <1>2, <1>3, <2>1, <2>2, TypedStep, Zenon
<1> QED BY <1>4, <1>5, <1>6, Zenon

(* A request about an existing user starts from a row with the user's      *)
(* address.                                                                *)
LEMMA RequestFits ==
  ASSUME Typed, NEW u \in Rows(users), NEW row \in UserRows, row.email = users[u].email,
         NEW j \in Jobs, j.id = u, j.row = row,
         \/ j.op = "login" /\ j.at = "store"
         \/ j.op = "generate" /\ j.at = "store" /\ j.pass = Unguessable
         \/ j.op = "reset" /\ j.at = "store" /\ j.pass \in Passwords /\ j.found \in 1 .. MaxCodes
         \/ j.op = "update" /\ j.at = "profile"
         \/ j.op = "facebook" /\ j.at = "store" /\ j.facebook \in Facebooks
  PROVE  JobFits(j, users, accounts, friendly)
<1>1. j.at \in Stages(j.op)
  BY Zenon DEF Stages
<1>2. j.account = 0 \/ j.op # "update" \/ j.at = "profile"
  BY Zenon
<1>3. u # 0
  BY RowsOf, Zenon DEF Rows, Typed, TablesFit
<1> QED BY <1>1, <1>2, <1>3, Zenon DEF JobFits, HoldsAccount

(* Users' rows.                                                            *)
LEMMA UserRow ==
  ASSUME Typed, NEW u \in Rows(users)
  PROVE  users[u] \in UserRows /\ u \in Nat \ {0} /\ u \in UserIds
<1>1. TablesFit(users, accounts, friendly)
  BY Zenon DEF Typed
<1>2. u \in UserIds
  BY <1>1, UsersBounded, Zenon
<1> QED BY <1>1, <1>2, RowsOf, Zenon DEF TablesFit, Rows

(* A login reads the row of its user.                                      *)
LEMMA LoginReadTyped ==
  ASSUME Typed, NEW w \in Workers, LoginRead(w)
  PROVE  Typed' /\ Moves(w)
<1>1. PICK u \in Rows(users) :
        Accept(w, [NoJob EXCEPT !.op = "login", !.at = "store", !.id = u, !.row = users[u]])
  BY Zenon DEF LoginRead, Opens
<1> DEFINE j == [NoJob EXCEPT !.op = "login", !.at = "store", !.id = u, !.row = users[u]]
<1>2. job' = [job EXCEPT ![w] = j] /\ job'[w] = j
  BY <1>1, Zenon DEF Accept, Typed
<1>3. users[u] \in UserRows /\ u \in Nat \ {0}
  BY UserRow, Zenon
<1>4. j \in Jobs /\ j.op = "login" /\ j.at = "store" /\ j.id = u /\ j.row = users[u]
  BY <1>3, Zenon DEF NoJob, Jobs, Secrets
<1> HIDE DEF j
<1>5. JobFits(j, users, accounts, friendly)
  BY <1>3, <1>4, RequestFits, Zenon
<1>6. AnswersFit' /\ UNCHANGED tables
  BY AnswersSame, Zenon DEF LoginRead, Typed
<1> QED BY <1>2, <1>5, <1>6, TypedMove, Zenon

(* The stored row of a request keeps the user's address.                   *)
LEMMA RowStored ==
  ASSUME Typed, NEW w \in Workers, job[w].id # 0, job[w].op # "none",
         users' = [users EXCEPT ![job[w].id] = job[w].row],
         UNCHANGED <<accounts, friendly>>
  PROVE  /\ TablesFit(users', accounts', friendly')
         /\ Grown(users, accounts, friendly, users', accounts', friendly')
         /\ JobFits(job[w], users', accounts', friendly')
<1>1. /\ JobFits(job[w], users, accounts, friendly) /\ TablesFit(users, accounts, friendly)
      /\ accounts' = accounts /\ friendly' = friendly
  BY Zenon DEF Typed
<1>2. job[w].id \in Rows(users) /\ job[w].row.email = users[job[w].id].email
  BY <1>1, Zenon DEF JobFits
<1>3. job[w].row \in UserRows
  BY <1>1, Zenon DEF JobFits
<1>4. /\ TablesFit(users', accounts, friendly)
      /\ Grown(users, accounts, friendly, users', accounts, friendly)
  BY <1>1, <1>2, <1>3, UserStored, Zenon
<1> QED BY <1>1, <1>4, JobFitsGrown, Zenon

(* It stores the row back.                                                 *)
LEMMA LoginWriteTyped ==
  ASSUME Typed, NEW w \in Workers, LoginWrite(w)
  PROVE  Typed' /\ Moves(w)
<1>1. job[w].id # 0 /\ job[w].op # "none"
  BY Zenon DEF Typed, LoginWrite, Serves, JobFits
<1>2. AnswersFit' /\ UNCHANGED <<accounts, friendly>> /\ Done(w)
  BY AnswersSame, Zenon DEF LoginWrite, Typed, counts
<1>3. users' = [users EXCEPT ![job[w].id] = job[w].row]
  BY Zenon DEF LoginWrite
<1> QED BY <1>1, <1>2, <1>3, RowStored, DoneMoves, TypedStep, Zenon

(* generateResetCode reads the row of its user.                            *)
LEMMA GenerateReadTyped ==
  ASSUME Typed, NEW w \in Workers, GenerateRead(w)
  PROVE  Typed' /\ Moves(w)
<1> DEFINE r(u) == [users[u] EXCEPT !.password = Unguessable, !.code = codes + 1]
<1>1. PICK u \in Rows(users) :
        Accept(w, [NoJob EXCEPT !.op = "generate", !.at = "store", !.id = u,
                                !.pass = Unguessable, !.row = r(u)])
  BY Zenon DEF GenerateRead
<1>2. codes \in Nat /\ codes + 1 \in 0 .. MaxCodes /\ MaxCodes \in Nat /\ codes' = codes + 1
  BY BoundAssumption DEF GenerateRead, Typed, AnswersFit
<1>3. users[u] \in UserRows /\ u \in Nat \ {0}
  BY UserRow, JobFields, Zenon
<1>4. r(u) \in UserRows /\ r(u).email = users[u].email
  BY <1>2, <1>3, Zenon DEF UserRows, Secrets
<1> HIDE DEF r
<1> DEFINE j == [NoJob EXCEPT !.op = "generate", !.at = "store", !.id = u,
                              !.pass = Unguessable, !.row = r(u)]
<1>5. job' = [job EXCEPT ![w] = j] /\ job'[w] = j
  BY <1>1, Zenon DEF Accept, Typed
<1>6. /\ j \in Jobs /\ j.op = "generate" /\ j.at = "store" /\ j.id = u /\ j.row = r(u)
      /\ j.pass = Unguessable
  BY <1>3, <1>4, Zenon DEF NoJob, Jobs, Secrets
<1> HIDE DEF j
<1>7. JobFits(j, users, accounts, friendly)
  BY <1>4, <1>6, RequestFits, Zenon
<1>8. AnswersFit' /\ UNCHANGED tables
  BY <1>2, Zenon DEF GenerateRead, Typed, AnswersFit, answers
<1> QED BY <1>5, <1>7, <1>8, TypedMove, Zenon

(* resetPassword reads the row with the code.                              *)
LEMMA ResetReadTyped ==
  ASSUME Typed, NEW w \in Workers, ResetRead(w)
  PROVE  Typed' /\ Moves(w)
<1> DEFINE r(u, p) == [users[u] EXCEPT !.password = p, !.code = 0]
<1>1. PICK u \in Rows(users), p \in Passwords :
        /\ users[u].code # 0
        /\ Accept(w, [NoJob EXCEPT !.op = "reset", !.at = "store", !.id = u, !.pass = p,
                                   !.row = r(u, p), !.found = users[u].code])
  BY Zenon DEF ResetRead
<1>2. users[u] \in UserRows /\ u \in Nat \ {0} /\ MaxCodes \in Nat
  BY UserRow, BoundAssumption, Zenon
<1>3. r(u, p) \in UserRows /\ r(u, p).email = users[u].email
  <2>1. p \in Secrets /\ 0 \in 0 .. MaxCodes
    BY <1>2 DEF Secrets
  <2> QED BY <1>2, <2>1, Zenon DEF UserRows
<1>c. users[u].code \in 1 .. MaxCodes /\ users[u].code \in Nat
  <2>1. users[u].code # 0
    BY <1>1, Zenon
  <2> QED BY <1>2, <2>1 DEF UserRows
<1> HIDE DEF r
<1> DEFINE j == [NoJob EXCEPT !.op = "reset", !.at = "store", !.id = u, !.pass = p,
                              !.row = r(u, p), !.found = users[u].code]
<1>4. job' = [job EXCEPT ![w] = j] /\ job'[w] = j
  BY <1>1, Zenon DEF Accept, Typed
<1>5. /\ j \in Jobs /\ j.op = "reset" /\ j.at = "store" /\ j.id = u /\ j.row = r(u, p)
      /\ j.pass = p /\ j.found = users[u].code
  BY <1>2, <1>3, <1>c, Zenon DEF NoJob, Jobs, Secrets
<1> HIDE DEF j
<1>6. JobFits(j, users, accounts, friendly)
  BY <1>3, <1>c, <1>5, RequestFits, Zenon
<1>7. AnswersFit' /\ UNCHANGED tables
  BY AnswersSame, Zenon DEF ResetRead, Typed
<1> QED BY <1>4, <1>6, <1>7, TypedMove, Zenon

(* Both store the row of the user.                                         *)
LEMMA PasswordWriteTyped ==
  ASSUME Typed, NEW w \in Workers, PasswordWrite(w)
  PROVE  Typed' /\ Moves(w)
<1> DEFINE j == [job[w] EXCEPT !.at = "secret"]
<1>1. JobFits(job[w], users, accounts, friendly) /\ AnswersFit
  BY Zenon DEF Typed
<1>2. job[w].op \in {"generate", "reset"} /\ job[w].at = "store" /\ job[w].id # 0
  BY <1>1, Zenon DEF PasswordWrite, JobFits
<1>3. job' = [job EXCEPT ![w] = j] /\ job'[w] = j
  BY Zenon DEF Typed, PasswordWrite, Goto
<1>4. UNCHANGED <<accounts, friendly>> /\ users' = [users EXCEPT ![job[w].id] = job[w].row]
  BY Zenon DEF PasswordWrite
<1>5. /\ TablesFit(users', accounts', friendly')
      /\ Grown(users, accounts, friendly, users', accounts', friendly')
      /\ JobFits(job[w], users', accounts', friendly')
  BY <1>2, <1>4, RowStored, Zenon
<1>6. JobFits(j, users', accounts', friendly')
  BY <1>2, <1>5, NoJobIs, Zenon DEF JobFits, Jobs, Stages, HoldsAccount
<1>7. AnswersFit'
  <2>1. used' \in [1 .. MaxCodes -> Nat]
    <3>1. CASE job[w].op = "reset"
      <4>1. job[w].found \in 1 .. MaxCodes
        BY <1>1, <1>2, <3>1, Zenon DEF JobFits
      <4>2. used' = [used EXCEPT ![job[w].found] = @ + 1] /\ used \in [1 .. MaxCodes -> Nat]
        BY <1>1, <3>1, Zenon DEF PasswordWrite, AnswersFit
      <4> HIDE DEF j
      <4> QED BY <4>1, <4>2
    <3>2. CASE job[w].op # "reset"
      BY <1>1, <3>2, Zenon DEF PasswordWrite, AnswersFit
    <3> QED BY <3>1, <3>2, Zenon
  <2> QED BY <1>1, <2>1, Zenon DEF PasswordWrite, AnswersFit, counts
<1> QED BY <1>3, <1>5, <1>6, <1>7, TypedStep, Zenon

(* Both read the identity account.                                         *)
LEMMA SecretReadTyped ==
  ASSUME Typed, NEW w \in Workers, SecretRead(w)
  PROVE  Typed' /\ Moves(w)
<1>1. /\ JobFits(job[w], users, accounts, friendly) /\ TablesFit(users, accounts, friendly)
      /\ job[w].at = "secret"
  BY Zenon DEF Typed, SecretRead
<1>2. AnswersFit' /\ UNCHANGED tables /\ users' = users /\ accounts' = accounts /\ friendly' = friendly
  BY AnswersSame, Zenon DEF SecretRead, Typed, counts, tables
<1>3. CASE Done(w)
  BY <1>2, <1>3, DoneMoves, TypedMove, JobFields, Zenon
<1>4. ASSUME NEW a \in IdentityOf(job[w].id),
             job' = [job EXCEPT ![w].at = "secreted", ![w].found = a,
                                ![w].acc = [accounts[a] EXCEPT !.secret = job[w].pass]]
      PROVE  Typed' /\ Moves(w)
  <2> DEFINE c == [accounts[a] EXCEPT !.secret = job[w].pass]
             j == [job[w] EXCEPT !.at = "secreted", !.found = a, !.acc = c]
  <2>1. job' = [job EXCEPT ![w] = j] /\ job'[w] = j
    BY <1>4, Zenon DEF Typed
  <2>2. a \in Rows(accounts) /\ a \in Nat /\ RowFor(accounts[a], users)
    BY <1>1, <1>4, RowsOf, Zenon DEF IdentityOf, TablesFit, Rows
  <2>3. RowFor(c, users) /\ c \in AccountRows
    BY <1>1, <2>2, Zenon DEF RowFor, AccountRows, JobFits, Jobs
  <2> HIDE DEF c
  <2>4. job[w].op \in {"generate", "reset"}
    BY <1>1, Zenon DEF JobFits, Jobs, Stages
  <2>5. JobFits(j, users, accounts, friendly)
    BY <1>1, <2>2, <2>3, <2>4, Zenon DEF JobFits, Jobs, Stages, HoldsAccount
  <2> QED BY <1>2, <2>1, <2>5, TypedMove, Zenon
<1> QED BY <1>3, <1>4, Zenon DEF SecretRead

(* Both store the account with the new secret.                             *)
LEMMA SecretWriteTyped ==
  ASSUME Typed, NEW w \in Workers, SecretWrite(w)
  PROVE  Typed' /\ Moves(w)
<1>1. /\ JobFits(job[w], users, accounts, friendly) /\ TablesFit(users, accounts, friendly)
      /\ job[w].at = "secreted" /\ AnswersFit /\ Done(w)
      /\ users' = users /\ friendly' = friendly
  BY Zenon DEF Typed, SecretWrite
<1>2. job[w].found \in Rows(accounts) /\ RowFor(job[w].acc, users)
  BY <1>1, Zenon DEF JobFits
<1>3. job[w].found \in 0 .. Len(accounts) /\ job[w].found # 0
  BY <1>1, <1>2 DEF Rows, TablesFit
<1>4. accounts' = Store(accounts, job[w].found, job[w].acc)
  BY <1>3, Zenon DEF SecretWrite, Store
<1>5. /\ TablesFit(users, accounts', friendly)
      /\ Grown(users, accounts, friendly, users, accounts', friendly)
  BY <1>1, <1>2, <1>3, <1>4, AccountStored, Zenon
<1>6. AnswersFit'
  <2>1. job[w].op \in {"generate", "reset"} /\ (job[w].op = "reset" => job[w].pass \in Passwords)
    BY <1>1, Zenon DEF JobFits, Jobs, Stages
  <2>2. credential' \in [UserIds -> Secrets]
    <3>1. CASE job[w].op = "reset"
      <4>1. credential' = [credential EXCEPT ![job[w].id] = job[w].pass] /\ job[w].pass \in Secrets
        BY <2>1, <3>1, Zenon DEF SecretWrite, Secrets
      <4> QED BY <1>1, <4>1, Zenon DEF AnswersFit
    <3>2. CASE job[w].op # "reset"
      <4>1. credential' = [credential EXCEPT ![job[w].id] = Unguessable] /\ Unguessable \in Secrets
        BY <2>1, <3>2, Zenon DEF SecretWrite, Secrets
      <4> QED BY <1>1, <4>1, Zenon DEF AnswersFit
    <3> QED BY <3>1, <3>2, Zenon
  <2>3. everSet' \in [UserIds -> SUBSET Passwords]
    <3>1. CASE job[w].op = "reset"
      BY <1>1, <2>1, <3>1 DEF SecretWrite, AnswersFit
    <3>2. CASE job[w].op # "reset"
      BY <1>1, <3>2, Zenon DEF SecretWrite, AnswersFit
    <3> QED BY <3>1, <3>2, Zenon
  <2> QED BY <1>1, <2>2, <2>3, Zenon DEF SecretWrite, AnswersFit, counts
<1> QED BY <1>1, <1>5, <1>6, DoneMoves, TypedStep, Zenon

(* User.update reads the row of its user.                                  *)
LEMMA UpdateStartTyped ==
  ASSUME Typed, NEW w \in Workers, UpdateStart(w)
  PROVE  Typed' /\ Moves(w)
<1>1. PICK u \in Rows(users), p \in Passwords \cup {Blank}, active \in BOOLEAN :
       Accept(w, [NoJob EXCEPT !.op = "update", !.at = "profile", !.id = u, !.pass = p,
                               !.row = UpdatedUser(users[u], p, active)])
  BY Zenon DEF UpdateStart
<1> DEFINE r == UpdatedUser(users[u], p, active)
<1>2. users[u] \in UserRows /\ u \in Nat \ {0}
  BY UserRow, Zenon
<1>3. r \in UserRows /\ r.email = users[u].email
  BY <1>2, Zenon DEF UpdatedUser, UserRows
<1> HIDE DEF r
<1> DEFINE j == [NoJob EXCEPT !.op = "update", !.at = "profile", !.id = u, !.pass = p, !.row = r]
<1>4. job' = [job EXCEPT ![w] = j] /\ job'[w] = j
  BY <1>1, Zenon DEF Accept, Typed, r
<1>5. j \in Jobs /\ j.op = "update" /\ j.at = "profile" /\ j.id = u /\ j.row = r
  BY <1>2, <1>3, Zenon DEF NoJob, Jobs, Secrets
<1> HIDE DEF j
<1>6. JobFits(j, users, accounts, friendly)
  BY <1>3, <1>5, RequestFits, Zenon
<1>7. AnswersFit' /\ UNCHANGED tables
  BY AnswersSame, Zenon DEF UpdateStart, Typed
<1> QED BY <1>4, <1>6, <1>7, TypedMove, Zenon

(* It reads the identity account.                                          *)
LEMMA UpdateIdentityTyped ==
  ASSUME Typed, NEW w \in Workers, UpdateIdentity(w)
  PROVE  Typed' /\ Moves(w)
<1> DEFINE c(a) == IF a = 0 THEN NoAccount ELSE UpdatedAccount(accounts[a], job[w].row, job[w].pass)
<1>1. PICK a \in 0 .. Len(accounts) :
        job' = [job EXCEPT ![w].at = "store", ![w].account = a, ![w].acc = c(a)]
  BY Zenon DEF UpdateIdentity
<1> DEFINE j == [job[w] EXCEPT !.at = "store", !.account = a, !.acc = c(a)]
<1>2. job' = [job EXCEPT ![w] = j] /\ job'[w] = j
  BY <1>1, Zenon DEF Typed
<1>3. /\ JobFits(job[w], users, accounts, friendly) /\ TablesFit(users, accounts, friendly)
      /\ job[w].op = "update" /\ job[w].at = "identity"
  BY Zenon DEF Typed, UpdateIdentity, Serves
<1>4. a \in Nat /\ (a # 0 => a \in Rows(accounts) /\ RowFor(c(a), users)) /\ (a = 0 => c(a) = NoAccount)
  BY <1>3 DEF TablesFit, Rows, UpdatedAccount
<1>5. c(a) \in AccountRows \cup {NoAccount}
  BY <1>4, Zenon DEF RowFor
<1> HIDE DEF c
<1>6. JobFits(j, users, accounts, friendly)
  BY <1>3, <1>4, <1>5, Zenon DEF JobFits, Jobs, Stages, HoldsAccount
<1>7. AnswersFit' /\ UNCHANGED tables
  BY AnswersSame, Zenon DEF UpdateIdentity, Typed, counts
<1> QED BY <1>2, <1>6, <1>7, TypedMove, Zenon

(* It stores the row of the user.                                          *)
LEMMA UpdateWriteTyped ==
  ASSUME Typed, NEW w \in Workers, UpdateWrite(w)
  PROVE  Typed' /\ Moves(w)
<1> DEFINE j == [job[w] EXCEPT !.at = "hash"]
<1>1. JobFits(job[w], users, accounts, friendly)
  BY Zenon DEF Typed
<1>2. job[w].op = "update" /\ job[w].at = "store" /\ job[w].id # 0
  BY <1>1, Zenon DEF UpdateWrite, Serves, JobFits
<1>3. job' = [job EXCEPT ![w] = j] /\ job'[w] = j
  BY Zenon DEF Typed, UpdateWrite, Goto
<1>4. /\ UNCHANGED <<accounts, friendly>> /\ users' = [users EXCEPT ![job[w].id] = job[w].row]
      /\ AnswersFit'
  BY AnswersSame, Zenon DEF UpdateWrite, Typed, counts
<1>5. /\ TablesFit(users', accounts', friendly')
      /\ Grown(users, accounts, friendly, users', accounts', friendly')
      /\ JobFits(job[w], users', accounts', friendly')
  BY <1>2, <1>4, RowStored, Zenon
<1>6. JobFits(j, users', accounts', friendly')
  BY <1>2, <1>5, NoJobIs, Zenon DEF JobFits, Jobs, Stages, HoldsAccount
<1> QED BY <1>3, <1>4, <1>5, <1>6, TypedStep, Zenon

(* It stores the account.                                                  *)
LEMMA UpdateAccountTyped ==
  ASSUME Typed, NEW w \in Workers, UpdateAccount(w)
  PROVE  Typed' /\ Moves(w)
<1>1. /\ JobFits(job[w], users, accounts, friendly) /\ TablesFit(users, accounts, friendly)
      /\ job[w].op = "update" /\ job[w].at = "account" /\ Done(w)
      /\ users' = users /\ friendly' = friendly /\ AnswersFit'
  BY AnswersSame, Zenon DEF Typed, UpdateAccount, Serves, counts
<1>2. /\ TablesFit(users, accounts', friendly)
      /\ Grown(users, accounts, friendly, users, accounts', friendly)
  <2>1. CASE job[w].account = 0
    <3>1. accounts' = accounts
      BY <2>1, Zenon DEF UpdateAccount
    <3> QED BY <1>1, <3>1, GrownSame, Zenon
  <2>2. CASE job[w].account # 0
    <3>1. job[w].account \in Rows(accounts) /\ RowFor(job[w].acc, users)
      BY <1>1, <2>2, Zenon DEF JobFits, HoldsAccount
    <3>2. job[w].account \in 0 .. Len(accounts)
      BY <1>1, <3>1, RowsOf, Zenon DEF Rows, TablesFit
    <3>3. accounts' = Store(accounts, job[w].account, job[w].acc)
      BY <2>2, Zenon DEF UpdateAccount, Store
    <3> QED BY <1>1, <3>1, <3>2, <3>3, AccountStored, Zenon
  <2> QED BY <2>1, <2>2, Zenon
<1> QED BY <1>1, <1>2, DoneMoves, TypedStep, Zenon

(* Facebook logins name existing users, or nobody.                         *)
LEMMA FacebookStartTyped ==
  ASSUME Typed, NEW w \in Workers, FacebookStart(w)
  PROVE  Typed' /\ Moves(w)
<1>1. PICK f \in Facebooks, u \in 0 .. Len(users) :
       /\ FetchOne(FacebookKnown(f), u)
       /\ Accept(w, [NoJob EXCEPT !.op = "facebook", !.at = "store", !.id = u,
                                  !.row = FacebookRow(f, u), !.facebook = f])
  BY Zenon DEF FacebookStart
<1> DEFINE r == FacebookRow(f, u)
<1>2. u \in Nat /\ (u # 0 => u \in Rows(users))
  BY DEF Typed, TablesFit, Rows
<1>3. r \in UserRows /\ (u # 0 => r.email = users[u].email)
  <2>1. CASE u = 0
    <3>1. FacebookName[f] \in Names /\ FacebookEmail[f] \in Emails \cup {NoEmail}
      BY FacebookAssumption, Zenon
    <3> DEFINE n == [base |-> FacebookName[f], suffix |-> 0]
    <3>2. r = [name |-> n, email |-> FacebookEmail[f],
               password |-> Blank, code |-> 0, active |-> TRUE]
      BY <2>1, Zenon DEF FacebookRow
    <3>3. n \in Slugs
      BY <3>1, Zenon DEF Slugs
    <3>4. Blank \in Secrets /\ 0 \in 0 .. MaxCodes
      BY BoundAssumption DEF Secrets
    <3> HIDE DEF n
    <3> HIDE DEF r
    <3>5. r \in UserRows
      BY <3>1, <3>2, <3>3, <3>4, SMTT(30) DEF UserRows
    <3> QED BY <2>1, <3>5, Zenon
  <2>2. CASE u # 0
    <3>1. users[u] \in UserRows
      BY <1>2, <2>2, UserRow, Zenon
    <3>2. r = [name |-> users[u].name, email |-> users[u].email,
               password |-> Blank, code |-> 0, active |-> TRUE]
      BY <2>2, Zenon DEF FacebookRow
    <3> QED BY <3>1, <3>2, BoundAssumption DEF UserRows, Secrets
  <2> QED BY <2>1, <2>2, Zenon
<1> HIDE DEF r
<1> DEFINE j == [NoJob EXCEPT !.op = "facebook", !.at = "store", !.id = u, !.row = r, !.facebook = f]
<1>4. job' = [job EXCEPT ![w] = j] /\ job'[w] = j
  BY <1>1, Zenon DEF Accept, Typed, r
<1>5. j \in Jobs /\ j.op = "facebook" /\ j.at = "store" /\ j.id = u /\ j.row = r /\ j.facebook = f
  BY <1>2, <1>3, Zenon DEF NoJob, Jobs, Secrets
<1> HIDE DEF j
<1>6. JobFits(j, users, accounts, friendly)
  <2>1. CASE u = 0
    <3>1. j.at \in Stages(j.op)
      BY <1>5, Zenon DEF Stages
    <3> QED BY <1>3, <1>5, <2>1, <3>1, Zenon DEF JobFits, HoldsAccount
  <2>2. CASE u # 0
    BY <1>2, <1>3, <1>5, <2>2, RequestFits, Zenon
  <2> QED BY <2>1, <2>2, Zenon
<1>7. AnswersFit' /\ UNCHANGED tables
  BY AnswersSame, Zenon DEF FacebookStart, Typed
<1> QED BY <1>4, <1>6, <1>7, TypedMove, Zenon

(* A Facebook login adds or stores its user.                               *)
LEMMA FacebookWriteTyped ==
  ASSUME Typed, NEW w \in Workers, FacebookWrite(w)
  PROVE  Typed' /\ Moves(w)
<1>1. /\ JobFits(job[w], users, accounts, friendly) /\ TablesFit(users, accounts, friendly)
      /\ job[w].op = "facebook" /\ job[w].at = "store"
      /\ accounts' = accounts /\ friendly' = friendly /\ profiles' = profiles /\ AnswersFit'
  BY AnswersSame, Zenon DEF Typed, FacebookWrite, Serves, counts
<1>2. CASE job[w].id # 0 /\ users' = [users EXCEPT ![job[w].id] = job[w].row] /\ Goto(w, "profile")
  <2> DEFINE j == [job[w] EXCEPT !.at = "profile"]
  <2>1. job' = [job EXCEPT ![w] = j] /\ job'[w] = j
    BY <1>2, Zenon DEF Typed, Goto
  <2>2. /\ TablesFit(users', accounts', friendly')
        /\ Grown(users, accounts, friendly, users', accounts', friendly')
        /\ JobFits(job[w], users', accounts', friendly')
    BY <1>1, <1>2, RowStored, Zenon
  <2>3. JobFits(j, users', accounts', friendly')
    BY <1>1, <1>2, <2>2, Zenon DEF JobFits, Jobs, Stages, HoldsAccount
  <2> QED BY <1>1, <2>1, <2>2, <2>3, TypedStep, Zenon
<1>3. CASE /\ ByEmail(job[w].row.email) = {}
           /\ users' = Append(users, job[w].row)
           /\ job' = [job EXCEPT ![w].at = "profile", ![w].id = Len(users) + 1]
  <2> DEFINE j == [job[w] EXCEPT !.at = "profile", !.id = Len(users) + 1]
  <2>1. job' = [job EXCEPT ![w] = j] /\ job'[w] = j
    BY <1>3, Zenon DEF Typed
  <2>2. job[w].row \in UserRows /\ \A u \in Rows(users) : users[u].email # job[w].row.email
    BY <1>1, <1>3, Zenon DEF JobFits, ByEmail
  <2>3. /\ TablesFit(users', accounts, friendly)
        /\ Grown(users, accounts, friendly, users', accounts, friendly)
        /\ Len(users) + 1 \in Rows(users') /\ users'[Len(users) + 1] = job[w].row
    BY <1>1, <1>3, <2>2, UserAdded, Zenon
  <2>4. Len(users) + 1 \in Nat \ {0}
    BY <1>1 DEF TablesFit
  <2>5. JobFits(j, users', accounts, friendly)
    BY <1>1, <2>3, <2>4, Zenon DEF JobFits, Jobs, Stages, HoldsAccount
  <2> QED BY <1>1, <2>1, <2>3, <2>5, TypedStep, Zenon
<1>4. CASE Done(w) /\ UNCHANGED users
  BY <1>1, <1>4, DoneMoves, TypedMove, Zenon DEF tables
<1> QED BY <1>2, <1>3, <1>4, Zenon DEF FacebookWrite

(* A call fails and the request is over.                                   *)
LEMMA FailsTyped ==
  ASSUME Typed, NEW w \in Workers, Fails(w)
  PROVE  Typed' /\ Moves(w)
<1>1. AnswersFit /\ UNCHANGED tables /\ Done(w)
  BY Zenon DEF Typed, Fails
<1>2. users' = users /\ accounts' = accounts /\ friendly' = friendly
  BY <1>1, Zenon DEF tables
<1>3. credential' \in [UserIds -> Secrets]
  <2>1. credential' = credential \/ credential' = [credential EXCEPT ![job[w].id] = Blank]
    BY Zenon DEF Fails
  <2> QED BY <1>1, <2>1, Zenon DEF AnswersFit, Secrets
<1>4. AnswersFit'
  BY <1>1, <1>3, Zenon DEF Fails, AnswersFit
<1> QED BY <1>1, <1>2, <1>4, DoneMoves, TypedMove, Zenon

Starts(w) == \/ CreateStart(w) \/ LoginRead(w) \/ GenerateRead(w) \/ ResetRead(w)
             \/ UpdateStart(w) \/ FacebookStart(w)
\* The steps of a request that store no user.
Proceeds(w) == \/ CreateCheck(w) \/ HashRead(w) \/ HashWrite(w) \/ AccountRead(w) \/ AccountWrite(w)
               \/ ProfileRead(w) \/ ProfileWrite(w) \/ SecretRead(w) \/ SecretWrite(w)
               \/ UpdateIdentity(w) \/ UpdateAccount(w) \/ Fails(w)
StoresUser(w) == \/ CreateInsert(w) \/ LoginWrite(w) \/ PasswordWrite(w) \/ UpdateWrite(w)
                 \/ FacebookWrite(w)

(* A step is one request's: it starts, goes on, or stores a user.          *)
LEMMA StepMoves ==
  ASSUME Typed, Next
  PROVE  \E w \in Workers : Typed' /\ Moves(w) /\ (Starts(w) \/ Proceeds(w) \/ StoresUser(w))
<1> PICK w \in Workers :
      \/ CreateStart(w) \/ CreateCheck(w) \/ CreateInsert(w)
      \/ HashRead(w) \/ HashWrite(w) \/ AccountRead(w) \/ AccountWrite(w)
      \/ ProfileRead(w) \/ ProfileWrite(w)
      \/ LoginRead(w) \/ LoginWrite(w)
      \/ GenerateRead(w) \/ ResetRead(w) \/ PasswordWrite(w) \/ SecretRead(w) \/ SecretWrite(w)
      \/ UpdateStart(w) \/ UpdateIdentity(w) \/ UpdateWrite(w) \/ UpdateAccount(w)
      \/ FacebookStart(w) \/ FacebookWrite(w) \/ Fails(w)
  BY Zenon DEF Next
<1>1. Typed' /\ Moves(w)
  BY CreateStartTyped, CreateCheckTyped, CreateInsertTyped, HashReadTyped, HashWriteTyped,
     AccountReadTyped, AccountWriteTyped, ProfileReadTyped, ProfileWriteTyped, LoginReadTyped,
     LoginWriteTyped, GenerateReadTyped, ResetReadTyped, PasswordWriteTyped, SecretReadTyped,
     SecretWriteTyped, UpdateStartTyped, UpdateIdentityTyped, UpdateWriteTyped,
     UpdateAccountTyped, FacebookStartTyped, FacebookWriteTyped, FailsTyped, JobFields, Zenon
<1>2. Starts(w) \/ Proceeds(w) \/ StoresUser(w)
  BY Zenon DEF Starts, Proceeds, StoresUser
<1> QED BY <1>1, <1>2, Zenon

(* The tables and the requests keep their shape.                           *)
LEMMA TypedInvariance == Spec => []Typed
<1>1. ASSUME Typed, [Next]_vars
      PROVE  Typed'
  <2>1. CASE Next
    BY <1>1, <2>1, StepMoves, Zenon
  <2>2. CASE UNCHANGED vars
    BY <1>1, <2>2, Zenon DEF Typed, AnswersFit, vars, tables, counts, answers
  <2> QED BY <1>1, <2>1, <2>2, Zenon
<1> QED BY <1>1, InitTyped, PTL DEF Spec

-----------------------------------------------------------------------------
(* Accounts: an identity account carries its user's address and a password *)
(* the user chose, and a user has at most one.                             *)

AccountSound(a, us, ever) ==
  IF a.provider = "identity"
  THEN /\ a.token = us[a.user].email /\ a.uid \in Slugs /\ <<a.uid.base, a.token>> \in People
       /\ a.secret \in ever[a.user] \cup {Unguessable}
  ELSE a.secret = Blank
SameOwner(a, b) == a.provider = b.provider /\ a.user = b.user /\ a.uid = b.uid
Identities(acs, u) == {a \in Rows(acs) : acs[a].provider = "identity" /\ acs[a].user = u}

\* A registration whose identity account is not stored yet.
Registering(j) == j.op = "create" /\ j.at \in {"hash", "hashed", "uid", "link"}

JobSound(j, us, acs, ever) ==
  /\ Registering(j) => Identities(acs, j.id) = {}
  /\ j.at = "link" /\ j.op = "create" =>
        /\ j.found = 0
        /\ j.acc = [provider |-> "identity", user |-> j.id, uid |-> j.row.name,
                    token |-> j.row.email, secret |-> j.row.password]
  /\ j.at = "link" /\ j.op = "facebook" =>
        /\ j.acc.provider = "facebook" /\ j.acc.secret = Blank
        /\ j.found # 0 => SameOwner(j.acc, acs[j.found])
  /\ j.at = "secreted" =>
        /\ j.acc.provider = "identity" /\ j.acc.secret = j.pass /\ j.acc.user = j.id
        /\ j.acc.token = us[j.id].email /\ SameOwner(j.acc, acs[j.found])
        /\ <<j.acc.uid.base, j.acc.token>> \in People /\ j.acc.uid \in Slugs
  /\ HoldsAccount(j) =>
        /\ j.acc.provider = "identity" /\ AccountSound(j.acc, us, ever)
        /\ SameOwner(j.acc, acs[j.account])

Owned ==
  /\ \A a \in Rows(accounts) : AccountSound(accounts[a], users, everSet)
  /\ \A u \in Nat : \A a, b \in Identities(accounts, u) : a = b
  /\ \A w \in Workers : JobSound(job[w], users, accounts, everSet)
  /\ \A v, w \in Workers : Registering(job[v]) /\ Registering(job[w]) /\ job[v].id = job[w].id
                           => v = w

\* Accounts are added and keep their owner; passwords chosen stay chosen.
Kept(acs, ever, acs2, ever2) ==
  /\ Len(acs) <= Len(acs2) /\ \A a \in Rows(acs) : SameOwner(acs2[a], acs[a])
  /\ \A u \in UserIds : ever[u] \subseteq ever2[u]

(* A sound row stays sound as users and passwords are added.               *)
LEMMA AccountSoundKept ==
  ASSUME NEW us, NEW acs, NEW frs, NEW us2, NEW acs2, NEW frs2, NEW ever, NEW ever2, NEW a,
         TablesFit(us, acs, frs), Grown(us, acs, frs, us2, acs2, frs2),
         \A u \in UserIds : ever[u] \subseteq ever2[u],
         RowFor(a, us), AccountSound(a, us, ever)
  PROVE  AccountSound(a, us2, ever2)
<1>1. a.user \in Rows(us) /\ a.user \in UserIds
  BY UsersBounded, Zenon DEF RowFor
<1>2. us2[a.user].email = us[a.user].email /\ ever[a.user] \subseteq ever2[a.user]
  BY <1>1, Zenon DEF Grown
<1> QED BY <1>2, Zenon DEF AccountSound

(* What a request holds of an account stays true while others store        *)
(* accounts.                                                               *)
LEMMA JobSoundKept ==
  ASSUME NEW us, NEW acs, NEW frs, NEW us2, NEW acs2, NEW frs2, NEW ever, NEW ever2, NEW j,
         TablesFit(us, acs, frs), TablesFit(us2, acs2, frs2), JobFits(j, us, acs, frs),
         Grown(us, acs, frs, us2, acs2, frs2), Kept(acs, ever, acs2, ever2),
         JobSound(j, us, acs, ever), Registering(j) => Identities(acs2, j.id) = {}
  PROVE  JobSound(j, us2, acs2, ever2)
<1>1. \A i \in Rows(acs) : \A a : SameOwner(a, acs[i]) => SameOwner(a, acs2[i])
  BY Zenon DEF Kept, SameOwner
<1>2. j.at = "link" /\ j.op = "facebook" /\ j.found # 0 => SameOwner(j.acc, acs2[j.found])
  <2>1. j.at = "link" /\ j.found # 0 => j.found \in Rows(acs)
    BY RowsOf, Zenon DEF JobFits, Rows, TablesFit
  <2> QED BY <1>1, <2>1, Zenon DEF JobSound
<1>3. j.at = "secreted" => SameOwner(j.acc, acs2[j.found]) /\ us2[j.id].email = us[j.id].email
  <2>1. j.at = "secreted" => j.found \in Rows(acs) /\ j.id \in Rows(us)
    BY Zenon DEF JobFits, Jobs, Stages
  <2> QED BY <1>1, <2>1, Zenon DEF JobSound, Grown
<1>4. HoldsAccount(j) => SameOwner(j.acc, acs2[j.account]) /\ AccountSound(j.acc, us2, ever2)
  <2>1. HoldsAccount(j) => j.account \in Rows(acs) /\ RowFor(j.acc, us)
    BY Zenon DEF JobFits
  <2>2. HoldsAccount(j) => AccountSound(j.acc, us, ever) /\ SameOwner(j.acc, acs[j.account])
    BY Zenon DEF JobSound
  <2>3. \A u \in UserIds : ever[u] \subseteq ever2[u]
    BY Zenon DEF Kept
  <2> QED BY <1>1, <2>1, <2>2, <2>3, AccountSoundKept, Zenon
<1> QED BY <1>2, <1>3, <1>4, Zenon DEF JobSound

(* A step of one request that stores no account leaves the accounts to     *)
(* their owners, when the request itself is sound afterwards.              *)
LEMMA OwnedStep ==
  ASSUME Typed, Typed', Owned, NEW w \in Workers, Moves(w),
         Kept(accounts, everSet, accounts', everSet'),
         \A a \in Rows(accounts') : AccountSound(accounts'[a], users', everSet'),
         \A u \in Nat : \A a, b \in Identities(accounts', u) : a = b,
         \A v \in Workers \ {w} : Registering(job[v]) => Identities(accounts', job[v].id) = {},
         JobSound(job'[w], users', accounts', everSet'),
         \A v \in Workers \ {w} : Registering(job'[w]) /\ Registering(job[v]) => job'[w].id # job[v].id
  PROVE  Owned'
<1>1. \A v \in Workers \ {w} : job'[v] = job[v]
  BY Zenon DEF Typed, Moves
<1>2. ASSUME NEW v \in Workers PROVE JobSound(job'[v], users', accounts', everSet')
  <2>1. CASE v = w
    BY <2>1, Zenon
  <2>2. CASE v # w
    <3>1. job'[v] = job[v] /\ JobFits(job[v], users, accounts, friendly)
          /\ JobSound(job[v], users, accounts, everSet)
      BY <1>1, <2>2, Zenon DEF Typed, Owned
    <3>2. Registering(job[v]) => Identities(accounts', job[v].id) = {}
      BY <2>2, Zenon
    <3>3. /\ TablesFit(users, accounts, friendly) /\ TablesFit(users', accounts', friendly')
          /\ Grown(users, accounts, friendly, users', accounts', friendly')
      BY Zenon DEF Typed, Moves
    <3>4. JobSound(job[v], users', accounts', everSet')
      BY <3>1, <3>2, <3>3, JobSoundKept, Zenon
    <3> QED BY <3>1, <3>4, Zenon
  <2> QED BY <2>1, <2>2, Zenon
<1>3. ASSUME NEW u \in Workers, NEW v \in Workers,
             Registering(job'[u]), Registering(job'[v]), job'[u].id = job'[v].id
      PROVE  u = v
  <2>1. CASE u = w \/ v = w
    BY <1>1, <1>3, <2>1, Zenon
  <2>2. CASE u # w /\ v # w
    <3>1. job'[u] = job[u] /\ job'[v] = job[v]
      BY <1>1, <2>2, Zenon
    <3> QED BY <1>3, <3>1, Zenon DEF Owned
  <2> QED BY <2>1, <2>2, Zenon
<1> QED BY <1>2, <1>3, Zenon DEF Owned

(* A step that stores no account.                                          *)
LEMMA OwnedMove ==
  ASSUME Typed, Typed', Owned, NEW w \in Workers, Moves(w), UNCHANGED <<accounts, everSet>>,
         JobSound(job'[w], users', accounts, everSet),
         \A v \in Workers \ {w} : Registering(job'[w]) /\ Registering(job[v]) => job'[w].id # job[v].id
  PROVE  Owned'
<1>1. accounts' = accounts /\ everSet' = everSet
  BY Zenon
<1>2. Kept(accounts, everSet, accounts', everSet')
  BY <1>1 DEF Kept, SameOwner, Typed, TablesFit
<1>3. \A a \in Rows(accounts) : AccountSound(accounts[a], users', everSet)
  <2> TAKE a \in Rows(accounts)
  <2>1. RowFor(accounts[a], users) /\ AccountSound(accounts[a], users, everSet)
    BY Zenon DEF Typed, TablesFit, Owned
  <2>2. /\ TablesFit(users, accounts, friendly)
        /\ Grown(users, accounts, friendly, users', accounts', friendly')
        /\ \A u \in UserIds : everSet[u] \subseteq everSet[u]
    BY Zenon DEF Typed, Moves
  <2> QED BY <2>1, <2>2, AccountSoundKept, Zenon
<1>4. \A v \in Workers : Registering(job[v]) => Identities(accounts, job[v].id) = {}
  BY Zenon DEF Owned, JobSound
<1>5. \A u \in Nat : \A a, b \in Identities(accounts, u) : a = b
  BY Zenon DEF Owned
<1> QED BY <1>1, <1>2, <1>3, <1>4, <1>5, OwnedStep, Zenon

(* A step after which the request holds no account.                        *)
LEMMA OwnedQuiet ==
  ASSUME Typed, Typed', Owned, NEW w \in Workers, Moves(w), UNCHANGED <<accounts, everSet>>,
         job'[w].at \notin {"link", "secreted"}, ~ HoldsAccount(job'[w]), ~ Registering(job'[w])
  PROVE  Owned'
<1>1. JobSound(job'[w], users', accounts, everSet)
  BY Zenon DEF JobSound
<1> QED BY <1>1, OwnedMove, Zenon

(* The steps before a request reads an account and after it stored one.    *)
LEMMA QuietOwned ==
  ASSUME Typed, Typed', Owned, NEW w \in Workers, Moves(w),
         \/ CreateStart(w) \/ CreateCheck(w) \/ ProfileRead(w) \/ ProfileWrite(w)
         \/ LoginRead(w) \/ LoginWrite(w) \/ GenerateRead(w) \/ ResetRead(w) \/ PasswordWrite(w)
         \/ UpdateStart(w) \/ FacebookStart(w) \/ FacebookWrite(w) \/ Fails(w)
  PROVE  Owned'
<1> DEFINE Calm(j) == \/ j.at \in {"idle", "check", "insert", "profile", "profiled", "identity", "secret"}
                      \/ j.op \notin {"update", "create"} /\ j.at \in {"store", "uid"}
<1>1. UNCHANGED <<accounts, everSet>>
  BY Zenon DEF CreateStart, CreateCheck, ProfileRead, ProfileWrite, LoginRead, LoginWrite, GenerateRead,
         ResetRead, PasswordWrite, UpdateStart, FacebookStart, FacebookWrite, Fails, tables, answers
<1>2. job \in [Workers -> Jobs] /\ JobFits(job[w], users, accounts, friendly)
  BY Zenon DEF Typed
<1>3. ASSUME Done(w) PROVE Calm(job'[w])
  BY <1>2, <1>3, Zenon DEF Done, NoJob
<1>4. ASSUME NEW at \in {"insert", "profile", "identity", "secret"}, Goto(w, at) PROVE Calm(job'[w])
  BY <1>2, <1>4, JobFields, Zenon DEF Goto
<1>5. Calm(job'[w])
  <2>1. CASE CreateStart(w)
    BY <1>2, <2>1, Zenon DEF CreateStart, Accept, NoJob
  <2>2. CASE CreateCheck(w)
    BY <1>3, <1>4, <2>2, Zenon DEF CreateCheck
  <2>3. CASE ProfileRead(w)
    BY <1>2, <2>3, Zenon DEF ProfileRead, Jobs
  <2>4. CASE ProfileWrite(w)
    <3>1. job[w].op \in {"create", "update", "facebook"}
      BY <1>2, <2>4, Zenon DEF ProfileWrite, JobFits, Jobs, Stages
    <3>2. Done(w) \/ Goto(w, "identity") \/ (job[w].op = "facebook" /\ Goto(w, "uid"))
      BY <2>4, <3>1, Zenon DEF ProfileWrite, AfterProfile
    <3>3. CASE job[w].op = "facebook" /\ Goto(w, "uid")
      BY <1>2, <3>3, JobFields, Zenon DEF Goto
    <3> QED BY <1>3, <1>4, <3>2, <3>3, Zenon
  <2>5. CASE LoginRead(w)
    BY <1>2, <2>5, Zenon DEF LoginRead, Accept, NoJob
  <2>6. CASE LoginWrite(w)
    BY <1>3, <2>6, Zenon DEF LoginWrite
  <2>7. CASE GenerateRead(w)
    <3>1. PICK u, r : job' = [job EXCEPT ![w] = [NoJob EXCEPT !.op = "generate", !.at = "store",
                                                   !.id = u, !.pass = Unguessable, !.row = r]]
      BY <2>7, Zenon DEF GenerateRead, Accept
    <3> QED BY <1>2, <3>1, Zenon DEF NoJob
  <2>8. CASE ResetRead(w)
    <3> DEFINE r(u, p) == [users[u] EXCEPT !.password = p, !.code = 0]
    <3>1. PICK u \in Rows(users), p \in Passwords :
            job' = [job EXCEPT ![w] = [NoJob EXCEPT !.op = "reset", !.at = "store",
                              !.id = u, !.pass = p, !.row = r(u, p), !.found = users[u].code]]
      BY <2>8, Zenon DEF ResetRead, Accept
    <3> HIDE DEF r
    <3> QED BY <1>2, <3>1, Zenon DEF NoJob
  <2>9. CASE PasswordWrite(w)
    BY <1>4, <2>9, Zenon DEF PasswordWrite
  <2>10. CASE UpdateStart(w)
    BY <1>2, <2>10, Zenon DEF UpdateStart, Accept, NoJob
  <2>11. CASE FacebookStart(w)
    BY <1>2, <2>11, Zenon DEF FacebookStart, Accept, NoJob
  <2>12. CASE FacebookWrite(w)
    <3>1. CASE job' = [job EXCEPT ![w].at = "profile", ![w].id = Len(users) + 1]
      BY <1>2, <3>1, JobFields, Zenon
    <3> QED BY <1>3, <1>4, <2>12, <3>1, Zenon DEF FacebookWrite
  <2>13. CASE Fails(w)
    BY <1>3, <2>13, Zenon DEF Fails
  <2> QED BY <2>1, <2>2, <2>3, <2>4, <2>5, <2>6, <2>7, <2>8, <2>9, <2>10, <2>11, <2>12, <2>13, Zenon
<1> QED BY <1>1, <1>5, OwnedQuiet, Zenon DEF HoldsAccount, Registering

(* A new user has no account yet.                                          *)
LEMMA CreateInsertOwned ==
  ASSUME Typed, Typed', Owned, NEW w \in Workers, Moves(w), CreateInsert(w)
  PROVE  Owned'
<1>1. UNCHANGED <<accounts, everSet>>
  BY Zenon DEF CreateInsert, answers
<1>2. job \in [Workers -> Jobs] /\ TablesFit(users, accounts, friendly) /\ Len(users) \in Nat
  BY RowsOf, Zenon DEF Typed, TablesFit
<1>3. CASE Done(w)
  <2>1. job'[w] = NoJob
    BY <1>2, <1>3, Zenon DEF Done
  <2> QED BY <1>1, <2>1, OwnedQuiet, NoJobIs, Zenon DEF HoldsAccount, Registering
<1>4. CASE job' = [job EXCEPT ![w].at = "hash", ![w].id = Len(users) + 1]
  <2>1. job'[w].at = "hash" /\ job'[w].id = Len(users) + 1 /\ job'[w].op = "create"
    BY <1>2, <1>4, JobFields, Zenon DEF CreateInsert, Serves
  <2>2. Identities(accounts, Len(users) + 1) = {}
    BY <1>2 DEF Identities, TablesFit, RowFor, Rows
  <2>3. JobSound(job'[w], users', accounts, everSet)
    BY <2>1, <2>2, Zenon DEF JobSound, HoldsAccount
  <2>4. \A v \in Workers : Registering(job[v]) => Len(users) + 1 # job[v].id
    <3> TAKE v \in Workers
    <3>1. JobFits(job[v], users, accounts, friendly)
      BY Zenon DEF Typed
    <3>2. Registering(job[v]) => job[v].id \in Rows(users)
      BY <3>1, Zenon DEF JobFits, Registering
    <3> QED BY <1>2, <3>2 DEF Rows
  <2> QED BY <1>1, <2>1, <2>3, <2>4, OwnedMove, Zenon
<1> QED BY <1>3, <1>4, Zenon DEF CreateInsert

(* Storing the friendly id, or the user of an update, leaves what the      *)
(* request holds of an account.                                            *)
LEMMA CarryOwned ==
  ASSUME Typed, Typed', Owned, NEW w \in Workers, Moves(w),
         HashRead(w) \/ HashWrite(w) \/ UpdateWrite(w)
  PROVE  Owned'
<1>1. UNCHANGED <<accounts, everSet>>
  BY Zenon DEF HashRead, HashWrite, UpdateWrite, answers, tables
<1>2. /\ job \in [Workers -> Jobs] /\ JobFits(job[w], users, accounts, friendly)
      /\ JobSound(job[w], users, accounts, everSet)
      /\ TablesFit(users, accounts, friendly) /\ TablesFit(users', accounts', friendly')
      /\ Grown(users, accounts, friendly, users', accounts', friendly')
  BY Zenon DEF Typed, Owned, Moves
<1>3. JobSound(job[w], users', accounts, everSet)
  <2>1. Kept(accounts, everSet, accounts', everSet')
    BY <1>1, <1>2 DEF Kept, SameOwner, TablesFit
  <2>2. Registering(job[w]) => Identities(accounts, job[w].id) = {}
    BY <1>2, Zenon DEF JobSound
  <2> QED BY <1>1, <1>2, <2>1, <2>2, JobSoundKept, Zenon
<1>4. /\ job'[w].op = job[w].op /\ job'[w].id = job[w].id /\ job'[w].acc = job[w].acc
      /\ job'[w].account = job[w].account
      /\ job'[w].at \in {"hash", "hashed", "uid", "account"} /\ job[w].at \in {"store", "hash", "hashed"}
      /\ (job[w].op = "create" => job[w].at # "store")
  <2>1. CASE HashRead(w)
    <3> DEFINE h == HashFor(job[w].id, job[w].row.name)
    <3>1. PICK f : job' = [job EXCEPT ![w].at = "hashed", ![w].found = f, ![w].hash = h]
      BY <2>1, Zenon DEF HashRead
    <3>2. job[w].at = "hash"
      BY <2>1, Zenon DEF HashRead
    <3> HIDE DEF h
    <3> QED BY <1>2, <3>1, <3>2, JobFields, Zenon
  <2>2. CASE HashWrite(w)
    BY <1>2, <2>2, JobFields, Zenon DEF HashWrite, Goto
  <2>3. CASE UpdateWrite(w)
    BY <1>2, <2>3, Zenon DEF UpdateWrite, Goto, Serves, Jobs
  <2> QED BY <2>1, <2>2, <2>3, Zenon
<1>5. Registering(job'[w]) => Registering(job[w])
  BY <1>4, Zenon DEF Registering
<1>6. HoldsAccount(job'[w]) => HoldsAccount(job[w])
  BY <1>4, Zenon DEF HoldsAccount
<1>7. JobSound(job'[w], users', accounts, everSet)
  BY <1>3, <1>4, <1>5, <1>6, Zenon DEF JobSound
<1>8. \A v \in Workers \ {w} : Registering(job'[w]) /\ Registering(job[v]) => job'[w].id # job[v].id
  BY <1>4, <1>5, Zenon DEF Owned
<1> QED BY <1>1, <1>7, <1>8, OwnedMove, Zenon

(* A registration finds no account with its user name: that account would  *)
(* have the same address, and so belong to the same user.                  *)
LEMMA NoNamesake ==
  ASSUME DistinctNames, Typed, Owned, NEW w \in Workers, job[w].at = "uid", job[w].op = "create"
  PROVE  ByUid("identity", job[w].row.name) = {}
<1>1. /\ JobFits(job[w], users, accounts, friendly) /\ JobSound(job[w], users, accounts, everSet)
      /\ TablesFit(users, accounts, friendly)
  BY Zenon DEF Typed, Owned
<1>2. /\ <<job[w].row.name.base, job[w].row.email>> \in People
      /\ job[w].id \in Rows(users) /\ job[w].row.email = users[job[w].id].email
  BY <1>1, Zenon DEF JobFits
<1>3. Identities(accounts, job[w].id) = {}
  BY <1>1, Zenon DEF JobSound, Registering
<1>4. SUFFICES ASSUME NEW a \in Rows(accounts), accounts[a].provider = "identity",
                      accounts[a].uid = job[w].row.name
               PROVE  FALSE
  BY Zenon DEF ByUid
<1>5. /\ accounts[a].token = users[accounts[a].user].email /\ accounts[a].user \in Rows(users)
      /\ <<job[w].row.name.base, accounts[a].token>> \in People
  BY <1>1, <1>4, Zenon DEF Owned, AccountSound, TablesFit, RowFor
<1>6. accounts[a].token = job[w].row.email
  BY <1>2, <1>5, Zenon DEF DistinctNames
<1>7. accounts[a].user = job[w].id
  BY <1>1, <1>2, <1>5, <1>6, Zenon DEF TablesFit
<1> QED BY <1>3, <1>4, <1>7, Zenon DEF Identities

(* A registration finds no account under its name, a Facebook login only a *)
(* Facebook account.                                                       *)
LEMMA AccountReadOwned ==
  ASSUME DistinctNames, Typed, Typed', Owned, NEW w \in Workers, Moves(w), AccountRead(w)
  PROVE  Owned'
<1> DEFINE new == AccountFor(w)
           acc(a) == LinkedAccount(IF a = 0 THEN NoAccount ELSE accounts[a], new)
<1>1. PICK a \in 0 .. Len(accounts) :
        /\ FetchOne(ByUid(new.provider, new.uid), a)
        /\ job' = [job EXCEPT ![w].at = "link", ![w].found = a, ![w].acc = acc(a)]
  BY Zenon DEF AccountRead
<1>2. /\ job \in [Workers -> Jobs] /\ JobFits(job[w], users, accounts, friendly)
      /\ JobSound(job[w], users, accounts, everSet)
      /\ TablesFit(users, accounts, friendly) /\ job[w].at = "uid"
  BY Zenon DEF Typed, Owned, AccountRead
<1>3. /\ RowFor(new, users) /\ new.user = job[w].id /\ job[w].id \in Rows(users)
      /\ job[w].op \in {"create", "facebook"}
  BY <1>2, AccountForRow, Zenon
<1>4. UNCHANGED <<accounts, everSet, users>>
  BY Zenon DEF AccountRead, tables, answers
<1> HIDE DEF acc, new
<1>5. /\ job'[w].op = job[w].op /\ job'[w].id = job[w].id /\ job'[w].acc = acc(a)
      /\ job'[w].row = job[w].row /\ job'[w].found = a /\ job'[w].at = "link"
  BY <1>1, <1>2, JobFields, Zenon
<1>6. CASE job[w].op = "create"
  <2>1. new = [provider |-> "identity", user |-> job[w].id, uid |-> job[w].row.name,
               token |-> job[w].row.email, secret |-> job[w].row.password]
    BY <1>6, Zenon DEF AccountFor, new
  <2>2. ByUid(new.provider, new.uid) = {}
    BY <1>2, <1>6, <2>1, NoNamesake, Zenon
  <2>3. a = 0 /\ acc(a) = new
    BY <1>1, <2>2, Zenon DEF FetchOne, acc, LinkedAccount, NoAccount
  <2>4. Registering(job[w]) /\ Identities(accounts, job[w].id) = {}
    BY <1>2, <1>6, Zenon DEF Registering, JobSound
  <2>5. JobSound(job'[w], users', accounts, everSet)
    BY <1>5, <1>6, <2>1, <2>3, <2>4, Zenon DEF JobSound, HoldsAccount
  <2>6. \A v \in Workers \ {w} : Registering(job[v]) => job'[w].id # job[v].id
    BY <1>5, <2>4, Zenon DEF Owned
  <2> QED BY <1>4, <2>5, <2>6, OwnedMove, Zenon
<1>7. CASE job[w].op = "facebook"
  <2>1. new = [provider |-> "facebook", user |-> job[w].id, uid |-> job[w].facebook,
               token |-> job[w].facebook, secret |-> Blank]
    BY <1>7, Zenon DEF AccountFor, new
  <2>2. /\ acc(a).provider = "facebook" /\ acc(a).secret = Blank
        /\ a # 0 => SameOwner(acc(a), accounts[a])
    <3>1. CASE a = 0
      BY <2>1, <3>1, Zenon DEF acc, LinkedAccount, NoAccount
    <3>2. CASE a # 0
      <4>1. a \in Rows(accounts) /\ accounts[a].provider = "facebook"
        BY <1>1, <2>1, <3>2, Zenon DEF FetchOne, ByUid
      <4>2. accounts[a] \in AccountRows /\ accounts[a].user \in Rows(users)
        BY <1>2, <4>1, Zenon DEF TablesFit, RowFor
      <4>3. accounts[a].user # 0
        BY <1>2, <4>2, RowsOf, Zenon DEF Rows, TablesFit
      <4>4. acc(a) = [accounts[a] EXCEPT !.token = new.token, !.secret = new.secret]
        BY <3>2, <4>3, Zenon DEF acc, LinkedAccount
      <4> QED BY <2>1, <4>1, <4>2, <4>4, Zenon DEF AccountRows, SameOwner
    <3> QED BY <3>1, <3>2, Zenon
  <2>3. JobSound(job'[w], users', accounts, everSet) /\ ~ Registering(job'[w])
    BY <1>5, <1>7, <2>2, Zenon DEF JobSound, HoldsAccount, Registering
  <2> QED BY <1>4, <2>3, OwnedMove, Zenon
<1> QED BY <1>3, <1>6, <1>7, Zenon

(* Storing an account in its own place, or as a new one, keeps the owners  *)
(* and adds an identity account only for its user.                         *)
LEMMA OwnersStored ==
  ASSUME NEW acs \in Seq(AccountRows), NEW i \in 0 .. Len(acs), NEW a \in AccountRows,
         i # 0 => SameOwner(a, acs[i])
  PROVE  /\ Len(acs) <= Len(Store(acs, i, a))
         /\ \A k \in Rows(acs) : SameOwner(Store(acs, i, a)[k], acs[k])
         /\ \A u : Identities(acs, u) \subseteq Identities(Store(acs, i, a), u)
         /\ \A u : i # 0 \/ a.provider # "identity" \/ a.user # u =>
              Identities(Store(acs, i, a), u) = Identities(acs, u)
<1> DEFINE acs2 == Store(acs, i, a)
<1>1. /\ acs2 \in Seq(AccountRows) /\ Len(acs) <= Len(acs2)
      /\ Len(acs2) = IF i = 0 THEN Len(acs) + 1 ELSE Len(acs)
      /\ \A k \in Rows(acs2) : acs2[k] = IF k = (IF i = 0 THEN Len(acs) + 1 ELSE i) THEN a ELSE acs[k]
  <2>1. StoredAs(acs, i, a, acs2)
    BY AccountsStored, Zenon
  <2> QED BY <2>1, Zenon DEF StoredAs
<1> HIDE DEF acs2
<1>2. Len(acs) \in Nat /\ Len(acs2) \in Nat
  BY <1>1, RowsOf, Zenon
<1>3. \A k \in Rows(acs) : k \in Rows(acs2) /\ SameOwner(acs2[k], acs[k])
  BY <1>1, <1>2 DEF Rows, SameOwner
<1>4. \A u : Identities(acs, u) \subseteq Identities(acs2, u)
  BY <1>3, Zenon DEF Identities, SameOwner
<1>5. ASSUME NEW u, i # 0 \/ a.provider # "identity" \/ a.user # u, NEW k \in Identities(acs2, u)
      PROVE  k \in Identities(acs, u)
  <2>1. k \in Rows(acs2) /\ acs2[k].provider = "identity" /\ acs2[k].user = u
    BY <1>5, Zenon DEF Identities
  <2>2. k \in Rows(acs)
    BY <1>1, <1>2, <1>5, <2>1 DEF Rows
  <2> QED BY <1>3, <2>1, <2>2, Zenon DEF Identities, SameOwner
<1>6. ASSUME NEW u, i # 0 \/ a.provider # "identity" \/ a.user # u
      PROVE  Identities(acs2, u) = Identities(acs, u)
  <2>1. Identities(acs2, u) \subseteq Identities(acs, u)
    BY <1>5, <1>6, Zenon
  <2> QED BY <1>4, <2>1, Zenon
<1> QED BY <1>1, <1>3, <1>4, <1>6, Zenon DEF acs2

(* All accounts stay sound when the one stored is.                         *)
LEMMA SoundStored ==
  ASSUME NEW us, NEW acs, NEW frs, TablesFit(us, acs, frs), NEW ever, NEW ever2,
         NEW i \in 0 .. Len(acs), NEW a, RowFor(a, us), AccountSound(a, us, ever2),
         \A u \in UserIds : ever[u] \subseteq ever2[u],
         \A k \in Rows(acs) : AccountSound(acs[k], us, ever)
  PROVE  \A k \in Rows(Store(acs, i, a)) : AccountSound(Store(acs, i, a)[k], us, ever2)
<1> DEFINE acs2 == Store(acs, i, a)
<1>1. acs \in Seq(AccountRows) /\ a \in AccountRows /\ Len(acs) \in Nat
  BY RowsOf, Zenon DEF TablesFit, RowFor
<1>2. /\ acs2 \in Seq(AccountRows) /\ Len(acs) <= Len(acs2)
      /\ Len(acs2) = IF i = 0 THEN Len(acs) + 1 ELSE Len(acs)
      /\ \A k \in Rows(acs2) : acs2[k] = IF k = (IF i = 0 THEN Len(acs) + 1 ELSE i) THEN a ELSE acs[k]
  <2>1. StoredAs(acs, i, a, acs2)
    BY <1>1, AccountsStored, Zenon
  <2> QED BY <2>1, Zenon DEF StoredAs
<1> HIDE DEF acs2
<1>3. \A k \in Rows(acs2) : acs2[k] = a \/ (k \in Rows(acs) /\ acs2[k] = acs[k])
  BY <1>1, <1>2 DEF Rows
<1>4. \A k \in Rows(acs) : AccountSound(acs[k], us, ever2)
  <2> TAKE k \in Rows(acs)
  <2>1. RowFor(acs[k], us) /\ AccountSound(acs[k], us, ever)
    BY Zenon DEF TablesFit
  <2>2. Grown(us, acs, frs, us, acs, frs)
    BY GrownSame, Zenon
  <2> QED BY <2>1, <2>2, AccountSoundKept, Zenon
<1> QED BY <1>3, <1>4, Zenon DEF acs2

(* The row that was read belongs to the one that is stored.                *)
LEMMA AccountWriteOwned ==
  ASSUME Typed, Typed', Owned, NEW w \in Workers, Moves(w), AccountWrite(w)
  PROVE  Owned'
<1>1. /\ job \in [Workers -> Jobs] /\ JobFits(job[w], users, accounts, friendly)
      /\ JobSound(job[w], users, accounts, everSet) /\ AnswersFit
      /\ TablesFit(users, accounts, friendly) /\ job[w].at = "link"
      /\ accounts' = Store(accounts, job[w].found, job[w].acc) /\ users' = users
  BY Zenon DEF Typed, Owned, AccountWrite
<1>2. /\ job[w].found \in 0 .. Len(accounts) /\ RowFor(job[w].acc, users)
      /\ job[w].op \in {"create", "facebook"} /\ job[w].acc \in AccountRows
      /\ accounts \in Seq(AccountRows)
  BY <1>1, Zenon DEF JobFits, Jobs, Stages, RowFor, TablesFit
<1>3. job[w].found # 0 => SameOwner(job[w].acc, accounts[job[w].found])
  BY <1>1, <1>2, Zenon DEF JobSound
<1>4. /\ Len(accounts) <= Len(accounts')
      /\ \A k \in Rows(accounts) : SameOwner(accounts'[k], accounts[k])
      /\ \A u : job[w].found # 0 \/ job[w].acc.provider # "identity" \/ job[w].acc.user # u =>
           Identities(accounts', u) = Identities(accounts, u)
  BY <1>1, <1>2, <1>3, OwnersStored, Zenon
<1>5. /\ \A u \in UserIds : everSet[u] \subseteq everSet'[u]
      /\ AccountSound(job[w].acc, users, everSet')
  <2>1. CASE job[w].op = "create"
    <3>1. everSet' = [everSet EXCEPT ![job[w].id] = @ \cup {job[w].row.password}]
      BY <2>1, Zenon DEF AccountWrite
    <3>2. /\ job[w].id \in Rows(users) /\ job[w].row.email = users[job[w].id].email
          /\ <<job[w].row.name.base, job[w].row.email>> \in People /\ job[w].row \in UserRows
      BY <1>1, <2>1, Zenon DEF JobFits
    <3>3. job[w].id \in UserIds
      BY <3>2, UserRow, Zenon
    <3>4. everSet \in [UserIds -> SUBSET Passwords]
      BY <1>1, Zenon DEF AnswersFit
    <3>5. \A u \in UserIds : everSet[u] \subseteq everSet'[u]
      BY <3>1, <3>4, Zenon
    <3>6. job[w].row.password \in everSet'[job[w].id]
      BY <3>1, <3>3, <3>4, Zenon
    <3>7. job[w].acc = [provider |-> "identity", user |-> job[w].id, uid |-> job[w].row.name,
                        token |-> job[w].row.email, secret |-> job[w].row.password]
      BY <1>1, <2>1, Zenon DEF JobSound
    <3>8. job[w].row.name \in Slugs
      BY <3>2, Zenon DEF UserRows
    <3> QED BY <3>2, <3>5, <3>6, <3>7, <3>8 DEF AccountSound
  <2>2. CASE job[w].op = "facebook"
    BY <1>1, <2>2, Zenon DEF AccountWrite, JobSound, AccountSound
  <2> QED BY <1>2, <2>1, <2>2, Zenon
<1>6. Kept(accounts, everSet, accounts', everSet')
  BY <1>4, <1>5, Zenon DEF Kept
<1>7. \A a \in Rows(accounts') : AccountSound(accounts'[a], users', everSet')
  <2>1. \A k \in Rows(accounts) : AccountSound(accounts[k], users, everSet)
    BY Zenon DEF Owned
  <2> QED BY <1>1, <1>2, <1>5, <2>1, SoundStored, Zenon
<1>8. ASSUME NEW u \in Nat PROVE \A a, b \in Identities(accounts', u) : a = b
  <2>1. CASE Identities(accounts', u) = Identities(accounts, u)
    BY <2>1, Zenon DEF Owned
  <2>2. CASE Identities(accounts', u) # Identities(accounts, u)
    <3>1. job[w].found = 0 /\ job[w].acc.provider = "identity" /\ job[w].acc.user = u
      BY <1>4, <2>2, Zenon
    <3>2. job[w].op = "create"
      BY <1>1, <1>2, <3>1, Zenon DEF JobSound
    <3>3. job[w].id = u /\ Identities(accounts, u) = {}
      BY <1>1, <3>1, <3>2 DEF JobSound, Registering
    <3>4. /\ Len(accounts') = Len(accounts) + 1 /\ Len(accounts) \in Nat
          /\ \A k \in Rows(accounts) : accounts'[k] = accounts[k]
      BY <1>1, <1>2, <3>1 DEF Store, Rows
    <3>5. \A a \in Identities(accounts', u) : a = Len(accounts) + 1
      BY <3>3, <3>4 DEF Identities, Rows
    <3> QED BY <3>5, Zenon
  <2> QED BY <2>1, <2>2, Zenon
<1>9. ASSUME NEW v \in Workers \ {w}, Registering(job[v])
      PROVE  Identities(accounts', job[v].id) = {}
  <2>1. Identities(accounts, job[v].id) = {}
    BY <1>9, Zenon DEF Owned, JobSound
  <2>2. CASE job[w].op = "create"
    <3>1. Registering(job[w]) /\ job[w].acc.user = job[w].id
      BY <1>1, <2>2 DEF Registering, JobSound
    <3>2. job[v].id # job[w].id
      BY <1>9, <3>1, Zenon DEF Owned
    <3> QED BY <1>4, <2>1, <3>1, <3>2, Zenon
  <2>3. CASE job[w].op = "facebook"
    <3>1. job[w].acc.provider # "identity"
      BY <1>1, <2>3, Zenon DEF JobSound
    <3> QED BY <1>4, <2>1, <3>1, Zenon
  <2> QED BY <1>2, <2>2, <2>3, Zenon
<1>10. job'[w].at \in {"idle", "profile"}
  BY <1>1, <1>2, NoJobIs, Zenon DEF AccountWrite, Goto, Done, Jobs
<1>11. JobSound(job'[w], users', accounts', everSet') /\ ~ Registering(job'[w])
  BY <1>10, Zenon DEF JobSound, HoldsAccount, Registering
<1> QED BY <1>6, <1>7, <1>8, <1>9, <1>11, OwnedStep, Zenon

(* The account read is the user's.                                         *)
LEMMA SecretReadOwned ==
  ASSUME Typed, Typed', Owned, NEW w \in Workers, Moves(w), SecretRead(w)
  PROVE  Owned'
<1>1. /\ job \in [Workers -> Jobs] /\ JobFits(job[w], users, accounts, friendly)
      /\ TablesFit(users, accounts, friendly) /\ job[w].at = "secret"
  BY Zenon DEF Typed, SecretRead
<1>2. UNCHANGED <<accounts, everSet, users>>
  BY Zenon DEF SecretRead, tables, answers
<1>3. CASE Done(w)
  <2>1. job'[w] = NoJob
    BY <1>1, <1>3, Zenon DEF Done
  <2> QED BY <1>2, <2>1, OwnedQuiet, NoJobIs, Zenon DEF HoldsAccount, Registering
<1>4. ASSUME NEW a \in IdentityOf(job[w].id),
             job' = [job EXCEPT ![w].at = "secreted", ![w].found = a,
                                ![w].acc = [accounts[a] EXCEPT !.secret = job[w].pass]]
      PROVE  Owned'
  <2> DEFINE c == [accounts[a] EXCEPT !.secret = job[w].pass]
  <2>1. /\ a \in Rows(accounts) /\ accounts[a] \in AccountRows /\ accounts[a].user = job[w].id
        /\ accounts[a].provider = "identity" /\ AccountSound(accounts[a], users, everSet)
    BY <1>1, <1>4, Zenon DEF IdentityOf, TablesFit, RowFor, Owned
  <2>2. /\ c.provider = "identity" /\ c.secret = job[w].pass /\ c.user = job[w].id
        /\ c.token = accounts[a].token /\ c.uid = accounts[a].uid
    BY <2>1, Zenon DEF AccountRows
  <2> HIDE DEF c
  <2>3. /\ job'[w].at = "secreted" /\ job'[w].found = a /\ job'[w].acc = c
        /\ job'[w].id = job[w].id /\ job'[w].pass = job[w].pass
    BY <1>1, <1>4, JobFields, Zenon DEF c
  <2>4. JobSound(job'[w], users', accounts, everSet)
    BY <1>2, <2>1, <2>2, <2>3, Zenon DEF JobSound, Registering, HoldsAccount, SameOwner, AccountSound
  <2>5. ~ Registering(job'[w])
    BY <2>3, Zenon DEF Registering
  <2> QED BY <1>2, <2>4, <2>5, OwnedMove, Zenon
<1> QED BY <1>3, <1>4, Zenon DEF SecretRead

(* An account stored in its own place and sound there.                     *)
LEMMA ReplaceOwned ==
  ASSUME Typed, Typed', Owned, NEW w \in Workers, Moves(w), Done(w), UNCHANGED users,
         NEW i \in Rows(accounts), accounts' = [accounts EXCEPT ![i] = job[w].acc],
         RowFor(job[w].acc, users), SameOwner(job[w].acc, accounts[i]),
         AccountSound(job[w].acc, users, everSet'),
         \A u \in UserIds : everSet[u] \subseteq everSet'[u]
  PROVE  Owned'
<1>1. /\ TablesFit(users, accounts, friendly) /\ accounts \in Seq(AccountRows)
      /\ job[w].acc \in AccountRows /\ users' = users
  BY Zenon DEF Typed, TablesFit, RowFor
<1>2. i \in 0 .. Len(accounts) /\ i # 0
  BY <1>1, RowsOf, Zenon DEF Rows
<1>3. accounts' = Store(accounts, i, job[w].acc)
  BY <1>2, Zenon DEF Store
<1>4. /\ Len(accounts) <= Len(accounts')
      /\ \A k \in Rows(accounts) : SameOwner(accounts'[k], accounts[k])
      /\ \A u : Identities(accounts', u) = Identities(accounts, u)
  <2> DEFINE acs2 == Store(accounts, i, job[w].acc)
  <2>1. /\ Len(accounts) <= Len(acs2)
        /\ \A k \in Rows(accounts) : SameOwner(acs2[k], accounts[k])
        /\ \A u : i # 0 \/ job[w].acc.provider # "identity" \/ job[w].acc.user # u =>
             Identities(acs2, u) = Identities(accounts, u)
    BY <1>1, <1>2, OwnersStored, Zenon
  <2> HIDE DEF acs2
  <2>2. accounts' = acs2
    BY <1>3, Zenon DEF acs2
  <2> QED BY <1>2, <2>1, <2>2, Zenon
<1>5. Kept(accounts, everSet, accounts', everSet')
  BY <1>4, Zenon DEF Kept
<1>6. \A a \in Rows(accounts') : AccountSound(accounts'[a], users', everSet')
  <2>1. \A k \in Rows(accounts) : AccountSound(accounts[k], users, everSet)
    BY Zenon DEF Owned
  <2> DEFINE acs2 == Store(accounts, i, job[w].acc)
  <2>2. \A k \in Rows(acs2) : AccountSound(acs2[k], users, everSet')
    BY <1>1, <1>2, <2>1, SoundStored, Zenon
  <2> HIDE DEF acs2
  <2>3. accounts' = acs2
    BY <1>3, Zenon DEF acs2
  <2> QED BY <1>1, <2>2, <2>3, Zenon
<1>7. \A u \in Nat : \A a, b \in Identities(accounts', u) : a = b
  BY <1>4, Zenon DEF Owned
<1>8. \A v \in Workers \ {w} : Registering(job[v]) => Identities(accounts', job[v].id) = {}
  BY <1>4, Zenon DEF Owned, JobSound
<1>9. job'[w] = NoJob
  BY Zenon DEF Done, Typed
<1>10. JobSound(job'[w], users', accounts', everSet') /\ ~ Registering(job'[w])
  BY <1>9, NoJobIs, Zenon DEF JobSound, HoldsAccount, Registering
<1> QED BY <1>5, <1>6, <1>7, <1>8, <1>10, OwnedStep, Zenon

(* The new secret is one its owner chose, or one nobody knows.             *)
LEMMA SecretWriteOwned ==
  ASSUME Typed, Typed', Owned, NEW w \in Workers, Moves(w), SecretWrite(w)
  PROVE  Owned'
<1>1. /\ JobFits(job[w], users, accounts, friendly) /\ JobSound(job[w], users, accounts, everSet)
      /\ AnswersFit /\ job[w].at = "secreted" /\ Done(w) /\ UNCHANGED users
      /\ accounts' = [accounts EXCEPT ![job[w].found] = job[w].acc]
  BY Zenon DEF Typed, Owned, SecretWrite
<1>2. /\ job[w].found \in Rows(accounts) /\ RowFor(job[w].acc, users)
      /\ job[w].op \in {"generate", "reset"} /\ job[w].id \in Rows(users)
      /\ job[w].op = "generate" => job[w].pass = Unguessable
  BY <1>1, Zenon DEF JobFits, Jobs, Stages
<1>3. /\ SameOwner(job[w].acc, accounts[job[w].found]) /\ job[w].acc.provider = "identity"
      /\ job[w].acc.secret = job[w].pass /\ job[w].acc.user = job[w].id
      /\ job[w].acc.token = users[job[w].id].email
      /\ <<job[w].acc.uid.base, job[w].acc.token>> \in People /\ job[w].acc.uid \in Slugs
  BY <1>1, Zenon DEF JobSound
<1>4. everSet \in [UserIds -> SUBSET Passwords] /\ job[w].id \in UserIds
  BY <1>1, <1>2, UserRow, Zenon DEF AnswersFit
<1>5. /\ \A u \in UserIds : everSet[u] \subseteq everSet'[u]
      /\ job[w].pass \in everSet'[job[w].id] \cup {Unguessable}
  <2>1. CASE job[w].op = "reset"
    <3>1. everSet' = [everSet EXCEPT ![job[w].id] = @ \cup {job[w].pass}]
      BY <2>1, Zenon DEF SecretWrite
    <3> QED BY <1>4, <3>1, Zenon
  <2>2. CASE job[w].op = "generate"
    BY <1>2, <2>2, Zenon DEF SecretWrite
  <2> QED BY <1>2, <2>1, <2>2, Zenon
<1>6. AccountSound(job[w].acc, users, everSet')
  BY <1>3, <1>5, Zenon DEF AccountSound
<1> QED BY <1>1, <1>2, <1>3, <1>5, <1>6, ReplaceOwned, Zenon

(* The account read is the user's.                                         *)
LEMMA UpdateIdentityOwned ==
  ASSUME Typed, Typed', Owned, NEW w \in Workers, Moves(w), UpdateIdentity(w)
  PROVE  Owned'
<1> DEFINE c(a) == IF a = 0 THEN NoAccount ELSE UpdatedAccount(accounts[a], job[w].row, job[w].pass)
<1>1. PICK a \in 0 .. Len(accounts) :
        /\ FetchOne(IdentityOf(job[w].id), a)
        /\ job' = [job EXCEPT ![w].at = "store", ![w].account = a, ![w].acc = c(a)]
  BY Zenon DEF UpdateIdentity
<1>2. /\ job \in [Workers -> Jobs] /\ UNCHANGED <<accounts, everSet, users>>
      /\ job[w].op = "update"
  BY Zenon DEF Typed, UpdateIdentity, Serves, tables, answers
<1>3. a # 0 => /\ a \in Rows(accounts) /\ c(a) = accounts[a] /\ accounts[a].provider = "identity"
               /\ AccountSound(accounts[a], users, everSet)
  BY <1>1, Zenon DEF FetchOne, IdentityOf, UpdatedAccount, Owned
<1> HIDE DEF c
<1>4. job'[w].op = "update" /\ job'[w].at = "store" /\ job'[w].account = a /\ job'[w].acc = c(a)
  BY <1>1, <1>2, JobFields, Zenon
<1>5. JobSound(job'[w], users', accounts, everSet) /\ ~ Registering(job'[w])
  BY <1>2, <1>3, <1>4, Zenon DEF JobSound, Registering, HoldsAccount, SameOwner
<1> QED BY <1>2, <1>5, OwnedMove, Zenon

(* The account is stored where it was read, with a secret that is sound.   *)
LEMMA UpdateAccountOwned ==
  ASSUME Typed, Typed', Owned, NEW w \in Workers, Moves(w), UpdateAccount(w)
  PROVE  Owned'
<1>1. /\ JobFits(job[w], users, accounts, friendly) /\ JobSound(job[w], users, accounts, everSet)
      /\ job[w].op = "update" /\ job[w].at = "account" /\ Done(w) /\ UNCHANGED users
      /\ UNCHANGED everSet
  BY Zenon DEF Typed, Owned, UpdateAccount, Serves, answers
<1>2. CASE job[w].account = 0
  <2>1. UNCHANGED <<accounts, everSet>> /\ job'[w] = NoJob
    BY <1>1, <1>2, Zenon DEF UpdateAccount, Done, Typed
  <2> QED BY <2>1, OwnedQuiet, NoJobIs, Zenon DEF HoldsAccount, Registering
<1>3. CASE job[w].account # 0
  <2>1. HoldsAccount(job[w])
    BY <1>1, <1>3, Zenon DEF HoldsAccount
  <2>2. /\ job[w].account \in Rows(accounts) /\ RowFor(job[w].acc, users)
        /\ SameOwner(job[w].acc, accounts[job[w].account])
        /\ AccountSound(job[w].acc, users, everSet)
    BY <1>1, <2>1, Zenon DEF JobFits, JobSound
  <2>3. accounts' = [accounts EXCEPT ![job[w].account] = job[w].acc]
    BY <1>3, Zenon DEF UpdateAccount
  <2> QED BY <1>1, <2>2, <2>3, ReplaceOwned, Zenon
<1> QED BY <1>2, <1>3, Zenon

(* No step gives somebody another user's account or an unchosen password.  *)
LEMMA OwnedInvariance == DistinctNames /\ Spec => []Owned
<1> SUFFICES ASSUME DistinctNames PROVE Spec => []Owned
  BY Zenon
<1>1. ASSUME Init PROVE Owned
  <2>1. JobSound(NoJob, users, accounts, everSet) /\ ~ Registering(NoJob)
    BY Zenon DEF JobSound, NoJob, Registering, HoldsAccount
  <2>2. accounts = <<>> /\ Rows(accounts) = {} /\ \A w \in Workers : job[w] = NoJob
    BY <1>1 DEF Init, Rows
  <2> QED BY <2>1, <2>2, Zenon DEF Owned, Identities
<1>2. ASSUME Typed, Typed', Owned, [Next]_vars PROVE Owned'
  <2>1. CASE Next
    <3>1. PICK w \in Workers : Moves(w) /\ (Starts(w) \/ Proceeds(w) \/ StoresUser(w))
      BY <1>2, <2>1, StepMoves, Zenon
    <3> QED
      BY <1>2, <3>1, QuietOwned, CreateInsertOwned, CarryOwned, AccountReadOwned, AccountWriteOwned,
         SecretReadOwned, SecretWriteOwned, UpdateIdentityOwned, UpdateAccountOwned, JobFields, Zenon DEF Starts, Proceeds, StoresUser
  <2>2. CASE UNCHANGED vars
    BY <1>2, <2>2, Zenon DEF Owned, vars, tables, counts, answers
  <2> QED BY <1>2, <2>1, <2>2, Zenon
<1> QED BY <1>1, <1>2, TypedInvariance, PTL DEF Spec

(* A login opens the account of its own address with a password its user   *)
(* chose (User.checkLogin), whatever requests overlap, fail half way or    *)
(* store rows they read long before, as long as people have names of       *)
(* their own.                                                              *)
THEOREM LoginsAreOwn == DistinctNames /\ Spec => []LoginIsOwn
<1>1. ASSUME Typed, Owned PROVE LoginIsOwn
  <2> SUFFICES ASSUME NEW e \in Emails, NEW p \in Passwords, NEW u \in Rows(users),
                      NEW a \in Rows(accounts), accounts[a].token = e, accounts[a].secret = p,
                      accounts[a].user = u
               PROVE  users[u].email = e /\ p \in everSet[u]
    BY Zenon DEF LoginIsOwn, Opens
  <2>1. AccountSound(accounts[a], users, everSet)
    BY <1>1, Zenon DEF Owned
  <2> QED BY <2>1, PasswordAssumption, Zenon DEF AccountSound
<1> QED BY <1>1, TypedInvariance, OwnedInvariance, PTL

-----------------------------------------------------------------------------
(* Requests one at a time: codes and credentials.                          *)

Lone == \A v, w \in Workers : job[v].at # "idle" /\ job[w].at # "idle" => v = w

CodeKept(j, us, n, uses) ==
  /\ j.op = "create" => j.row.code = 0
  /\ j.op = "login" => j.row.code = us[j.id].code
  /\ j.op = "generate" /\ j.at = "store" =>
        /\ j.row.code = n /\ n # 0 /\ uses[n] = 0
        /\ \A u \in Rows(us) : us[u].code # n
  /\ j.op = "reset" /\ j.at = "store" =>
        j.row.code = 0 /\ j.found = us[j.id].code /\ j.found # 0
  /\ j.op = "update" /\ j.at \in {"profile", "profiled", "identity", "store"} =>
        j.row.code = us[j.id].code
  /\ j.op = "facebook" /\ j.at = "store" => j.row.code = 0

\* A code is one user's, was handed out, and is unused while it is kept.
CodesSound(us, n, uses) ==
  /\ \A u, v \in Rows(us) : us[u].code # 0 /\ us[u].code = us[v].code => u = v
  /\ \A u \in Rows(us) : us[u].code <= n /\ (us[u].code # 0 => uses[us[u].code] = 0)
  /\ \A c \in 1 .. MaxCodes : uses[c] <= (IF c <= n THEN 1 ELSE 0)

CodesOnce ==
  ~overlapped => /\ Lone /\ CodesSound(users, codes, used)
                 /\ \A w \in Workers : CodeKept(job[w], users, codes, used)

\* The identity account of u has secret p.
Carries(acs, u, p) == \E a \in Identities(acs, u) : acs[a].secret = p

JobCarries(j, acs) ==
  /\ j.op = "create" /\ j.at \in {"profile", "profiled"} => Carries(acs, j.id, j.row.password)
  /\ HoldsAccount(j) => j.acc = acs[j.account]

InForce ==
  ~overlapped => /\ Lone
                 /\ \A u \in UserIds : credential[u] # Blank => Carries(accounts, u, credential[u])
                 /\ \A w \in Workers : JobCarries(job[w], accounts)

(* When requests have not overlapped, the one that takes a step is alone.  *)
LEMMA LoneStep ==
  ASSUME Typed, ~overlapped => Lone, NEW w \in Workers, Moves(w), ~overlapped',
         Starts(w) \/ Proceeds(w) \/ StoresUser(w)
  PROVE  /\ ~overlapped
         /\ \A v \in Workers \ {w} : job[v].at = "idle" /\ job[v].op = "none" /\ job'[v] = job[v]
         /\ Lone'
<1>1. \A v \in Workers \ {w} : job'[v] = job[v]
  BY Zenon DEF Moves, Typed
<1>2. ~overlapped /\ \A v \in Workers \ {w} : job[v].at = "idle"
  <2>1. CASE Starts(w)
    <3>1. \E j : Accept(w, j)
      BY <2>1, Zenon DEF Starts, CreateStart, LoginRead, GenerateRead, ResetRead, UpdateStart, FacebookStart
    <3>2. overlapped' = (overlapped \/ \E v \in Workers \ {w} : job[v].at # "idle")
      BY <3>1, Zenon DEF Accept
    <3> QED BY <3>2, Zenon
  <2>2. CASE Proceeds(w) \/ StoresUser(w)
    <3>1. job[w].at # "idle"
      BY <2>2, Zenon DEF Proceeds, StoresUser, CreateCheck, HashRead, HashWrite, AccountRead, AccountWrite,
         ProfileRead, ProfileWrite, SecretRead, SecretWrite, UpdateIdentity, UpdateAccount, Fails,
         CreateInsert, LoginWrite, PasswordWrite, UpdateWrite, FacebookWrite, Serves
    <3>2. UNCHANGED overlapped
      BY <2>2, Zenon DEF Proceeds, StoresUser, CreateCheck, HashRead, HashWrite, AccountRead, AccountWrite,
         ProfileRead, ProfileWrite, SecretRead, SecretWrite, UpdateIdentity, UpdateAccount, Fails,
         CreateInsert, LoginWrite, PasswordWrite, UpdateWrite, FacebookWrite, counts
    <3>3. ~overlapped /\ Lone
      BY <3>2, Zenon
    <3> QED BY <3>1, <3>3, Zenon DEF Lone
  <2> QED BY <2>1, <2>2, Zenon
<1>3. ASSUME NEW v \in Workers \ {w} PROVE job[v].op = "none"
  <2>1. JobFits(job[v], users, accounts, friendly) /\ job[v].at = "idle"
    BY <1>2, Zenon DEF Typed
  <2> QED BY <2>1, Zenon DEF JobFits, Jobs, Stages
<1>4. Lone'
  BY <1>1, <1>2, RowsOf, Zenon DEF Lone
<1> QED BY <1>1, <1>2, <1>3, <1>4, Zenon

(* What is left to show for the codes after a step.                        *)
LEMMA CodesStep ==
  ASSUME Typed, CodesOnce, NEW w \in Workers, Moves(w),
         Starts(w) \/ Proceeds(w) \/ StoresUser(w),
         ~overlapped /\ Lone /\ CodesSound(users, codes, used) /\ CodeKept(job[w], users, codes, used)
           => CodesSound(users', codes', used') /\ CodeKept(job'[w], users', codes', used')
  PROVE  CodesOnce'
<1> SUFFICES ASSUME ~overlapped'
             PROVE  /\ Lone' /\ CodesSound(users', codes', used')
                    /\ \A v \in Workers : CodeKept(job'[v], users', codes', used')
  BY Zenon DEF CodesOnce
<1>1. /\ ~overlapped /\ Lone'
      /\ \A v \in Workers \ {w} : job[v].at = "idle" /\ job[v].op = "none" /\ job'[v] = job[v]
  BY LoneStep, Zenon DEF CodesOnce
<1>2. CodesSound(users', codes', used') /\ CodeKept(job'[w], users', codes', used')
  BY <1>1, Zenon DEF CodesOnce
<1>3. \A v \in Workers \ {w} : CodeKept(job'[v], users', codes', used')
  BY <1>1, Zenon DEF CodeKept
<1> QED BY <1>1, <1>2, <1>3, Zenon

(* An accepted request read its user's row as it is.                       *)
LEMMA StartCodes ==
  ASSUME Typed, CodesOnce, NEW w \in Workers, Moves(w), Starts(w)
  PROVE  CodesOnce'
<1> SUFFICES ASSUME CodesSound(users, codes, used)
             PROVE  CodesSound(users', codes', used') /\ CodeKept(job'[w], users', codes', used')
  BY CodesStep, Zenon
<1>1. /\ job \in [Workers -> Jobs] /\ codes \in 0 .. MaxCodes /\ MaxCodes \in Nat
      /\ used \in [1 .. MaxCodes -> Nat] /\ \A u \in Rows(users) : users[u] \in UserRows
  BY BoundAssumption, UserRow, Zenon DEF Typed, AnswersFit
<1>2. users' = users /\ used' = used
  BY Zenon DEF Starts, CreateStart, LoginRead, GenerateRead, ResetRead, UpdateStart, FacebookStart, tables, answers
<1>3. CASE GenerateRead(w)
  <2> DEFINE r(u) == [users[u] EXCEPT !.password = Unguessable, !.code = codes + 1]
  <2>1. PICK u \in Rows(users) :
          job' = [job EXCEPT ![w] = [NoJob EXCEPT !.op = "generate", !.at = "store", !.id = u,
                                                  !.pass = Unguessable, !.row = r(u)]]
    BY <1>3, Zenon DEF GenerateRead, Accept
  <2>2. r(u).code = codes + 1
    BY <1>1, Zenon DEF UserRows
  <2> HIDE DEF r
  <2>3. job'[w].op = "generate" /\ job'[w].row.code = codes + 1
    BY <1>1, <2>1, <2>2, Zenon DEF NoJob
  <2>4. codes' = codes + 1 /\ codes + 1 \in 1 .. MaxCodes /\ codes + 1 # 0
    BY <1>1, <1>3 DEF GenerateRead
  <2>5. used[codes + 1] = 0
    <3>1. used[codes + 1] <= 0 /\ used[codes + 1] \in Nat
      BY <1>1, <2>4 DEF CodesSound
    <3> QED BY <3>1
  <2>6. \A v \in Rows(users) : users[v].code # codes + 1 /\ users[v].code <= codes + 1
    BY <1>1 DEF CodesSound, UserRows
  <2>7. \A c \in 1 .. MaxCodes : used[c] <= (IF c <= codes + 1 THEN 1 ELSE 0)
    BY <1>1 DEF CodesSound
  <2>8. CodesSound(users, codes + 1, used)
    BY <2>6, <2>7, Zenon DEF CodesSound
  <2> QED BY <1>2, <2>3, <2>4, <2>5, <2>6, <2>8, JobFields, Zenon DEF CodeKept
<1>4. CASE ~ GenerateRead(w)
  <2>1. codes' = codes
    BY <1>4, Zenon DEF Starts, CreateStart, LoginRead, ResetRead, UpdateStart, FacebookStart
  <2>2. CodeKept(job'[w], users, codes, used)
    <3>1. CASE CreateStart(w)
      <4>1. PICK n, e, p : job' = [job EXCEPT ![w] = [NoJob EXCEPT !.op = "create", !.at = "check",
                  !.row = [name |-> n, email |-> e, password |-> p, code |-> 0, active |-> TRUE]]]
        BY <3>1, Zenon DEF CreateStart, Accept
      <4>2. job'[w].op = "create" /\ job'[w].row.code = 0
        BY <1>1, <4>1, Zenon DEF NoJob
      <4> QED BY <4>2, Zenon DEF CodeKept
    <3>2. CASE LoginRead(w)
      <4>1. PICK u : job' = [job EXCEPT ![w] = [NoJob EXCEPT !.op = "login", !.at = "store",
                                                             !.id = u, !.row = users[u]]]
        BY <3>2, Zenon DEF LoginRead, Accept
      <4>2. job'[w].op = "login" /\ job'[w].row = users[job'[w].id]
        BY <1>1, <4>1, Zenon DEF NoJob
      <4> QED BY <4>2, Zenon DEF CodeKept
    <3>3. CASE ResetRead(w)
      <4> DEFINE r(u, p) == [users[u] EXCEPT !.password = p, !.code = 0]
      <4>1. PICK u \in Rows(users), p \in Passwords :
              /\ users[u].code # 0
              /\ job' = [job EXCEPT ![w] = [NoJob EXCEPT !.op = "reset", !.at = "store",
                                !.id = u, !.pass = p, !.row = r(u, p), !.found = users[u].code]]
        BY <3>3, Zenon DEF ResetRead, Accept
      <4>2. r(u, p).code = 0
        BY <1>1, Zenon DEF UserRows
      <4> HIDE DEF r
      <4>3. /\ job'[w].op = "reset" /\ job'[w].row.code = 0
            /\ job'[w].found = users[job'[w].id].code /\ job'[w].found # 0
        BY <1>1, <4>1, <4>2, Zenon DEF NoJob
      <4> QED BY <4>3, Zenon DEF CodeKept
    <3>4. CASE UpdateStart(w)
      <4>1. PICK u \in Rows(users), p \in Passwords \cup {Blank}, active \in BOOLEAN :
              job' = [job EXCEPT ![w] = [NoJob EXCEPT !.op = "update", !.at = "profile", !.id = u,
                                           !.pass = p, !.row = UpdatedUser(users[u], p, active)]]
        BY <3>4, Zenon DEF UpdateStart, Accept
      <4>2. UpdatedUser(users[u], p, active).code = users[u].code
        BY <1>1, Zenon DEF UpdatedUser, UserRows
      <4>3. job'[w].op = "update" /\ job'[w].row.code = users[job'[w].id].code
        BY <1>1, <4>1, <4>2, Zenon DEF NoJob
      <4> QED BY <4>3, Zenon DEF CodeKept
    <3>5. CASE FacebookStart(w)
      <4>1. PICK f, u : job' = [job EXCEPT ![w] = [NoJob EXCEPT !.op = "facebook", !.at = "store",
                                    !.id = u, !.row = FacebookRow(f, u), !.facebook = f]]
        BY <3>5, Zenon DEF FacebookStart, Accept
      <4>2. FacebookRow(f, u).code = 0
        BY Zenon DEF FacebookRow
      <4>3. job'[w].op = "facebook" /\ job'[w].row.code = 0
        BY <1>1, <4>1, <4>2, Zenon DEF NoJob
      <4> QED BY <4>3, Zenon DEF CodeKept
    <3> QED BY <1>4, <3>1, <3>2, <3>3, <3>4, <3>5, Zenon DEF Starts
  <2> QED BY <1>2, <2>1, <2>2, Zenon
<1> QED BY <1>3, <1>4, Zenon

(* A step that stores no user keeps the request's row.                     *)
LEMMA ProceedKeeps ==
  ASSUME Typed, NEW w \in Workers, Proceeds(w)
  PROVE  \/ job'[w] = NoJob
         \/ /\ job'[w].op = job[w].op /\ job'[w].id = job[w].id /\ job'[w].row = job[w].row
            /\ job'[w].at = "store" => job[w].op = "update" /\ job[w].at = "identity"
            /\ job[w].op = "update" /\ job'[w].at \in {"profile", "profiled", "identity"}
                 => job[w].at \in {"profile", "profiled"}
<1>1. job \in [Workers -> Jobs] /\ JobFits(job[w], users, accounts, friendly)
  BY Zenon DEF Typed
<1>2. ASSUME Done(w) PROVE job'[w] = NoJob
  BY <1>1, <1>2, Zenon DEF Done
<1> DEFINE Same == job'[w].op = job[w].op /\ job'[w].id = job[w].id /\ job'[w].row = job[w].row
<1>3. ASSUME NEW at, Goto(w, at) PROVE Same /\ job'[w].at = at
  BY <1>1, <1>3, JobFields, Zenon DEF Goto
<1>4. ASSUME NEW f, NEW h, job' = [job EXCEPT ![w].at = "hashed", ![w].found = f, ![w].hash = h]
      PROVE  Same /\ job'[w].at = "hashed"
  BY <1>1, <1>4, JobFields, Zenon
<1>5. ASSUME NEW f, NEW c, job' = [job EXCEPT ![w].at = "secreted", ![w].found = f, ![w].acc = c]
      PROVE  Same /\ job'[w].at = "secreted"
  BY <1>1, <1>5, JobFields, Zenon
<1>6. CASE CreateCheck(w)
  BY <1>2, <1>3, <1>6 DEF CreateCheck, Serves
<1>7. CASE HashRead(w)
  <2>1. \E f, h : job' = [job EXCEPT ![w].at = "hashed", ![w].found = f, ![w].hash = h]
    BY <1>7, Zenon DEF HashRead
  <2>2. Same /\ job'[w].at = "hashed"
    BY <1>4, <2>1, Zenon
  <2> QED BY <2>2, Zenon
<1>8. CASE HashWrite(w)
  <2>1. Goto(w, "uid") \/ Goto(w, "account")
    BY <1>8, Zenon DEF HashWrite
  <2>2. CASE Goto(w, "uid")
    <3>1. Same /\ job'[w].at = "uid"
      BY <1>3, <2>2, Zenon
    <3> QED BY <3>1, Zenon
  <2>3. CASE Goto(w, "account")
    <3>1. Same /\ job'[w].at = "account"
      BY <1>3, <2>3, Zenon
    <3> QED BY <3>1, Zenon
  <2> QED BY <2>1, <2>2, <2>3, Zenon
<1>9. CASE AccountRead(w)
  <2>1. PICK f, c : job' = [job EXCEPT ![w].at = "link", ![w].found = f, ![w].acc = c]
    BY <1>9, Zenon DEF AccountRead
  <2>2. Same /\ job'[w].at = "link"
    BY <1>1, <2>1, JobFields, Zenon
  <2> QED BY <2>2, Zenon
<1>10. CASE AccountWrite(w)
  <2>1. Done(w) \/ (job[w].op = "create" /\ Goto(w, "profile"))
    BY <1>10, Zenon DEF AccountWrite
  <2> QED BY <1>2, <1>3, <2>1
<1>11. CASE ProfileRead(w)
  <2>1. Same /\ job'[w].at = "profiled" /\ job[w].at = "profile"
    BY <1>1, <1>11, JobFields, Zenon DEF ProfileRead
  <2> QED BY <2>1, Zenon
<1>12. CASE ProfileWrite(w)
  <2>1. job[w].op \in {"create", "update", "facebook"} /\ job[w].at = "profiled"
    BY <1>1, <1>12, Zenon DEF ProfileWrite, JobFits, Jobs, Stages
  <2>2. Done(w) \/ Goto(w, "identity") \/ Goto(w, "uid")
    BY <1>12, <2>1, Zenon DEF ProfileWrite, AfterProfile
  <2> QED BY <1>2, <1>3, <2>1, <2>2
<1>13. CASE SecretRead(w)
  <2>1. Done(w) \/ \E f, c : job' = [job EXCEPT ![w].at = "secreted", ![w].found = f, ![w].acc = c]
    BY <1>13, Zenon DEF SecretRead
  <2>2. Done(w) \/ (Same /\ job'[w].at = "secreted")
    BY <1>5, <2>1, Zenon
  <2> QED BY <1>2, <2>2, JobFields, Zenon
<1>14. CASE SecretWrite(w)
  BY <1>2, <1>14, Zenon DEF SecretWrite
<1>15. CASE UpdateIdentity(w)
  <2>1. PICK a, c : job' = [job EXCEPT ![w].at = "store", ![w].account = a, ![w].acc = c]
    BY <1>15, Zenon DEF UpdateIdentity
  <2>2. Same /\ job'[w].at = "store"
    BY <1>1, <2>1, JobFields, Zenon
  <2> QED BY <1>15, <2>2, Zenon DEF UpdateIdentity, Serves
<1>16. CASE UpdateAccount(w)
  BY <1>2, <1>16, Zenon DEF UpdateAccount
<1>17. CASE Fails(w)
  BY <1>2, <1>17, Zenon DEF Fails
<1> QED BY <1>6, <1>7, <1>8, <1>9, <1>10, <1>11, <1>12, <1>13, <1>14, <1>15, <1>16, <1>17, JobFields, Zenon DEF Proceeds

(* A step that stores no user touches no code.                             *)
LEMMA ProceedCodes ==
  ASSUME Typed, CodesOnce, NEW w \in Workers, Moves(w), Proceeds(w)
  PROVE  CodesOnce'
<1>1. users' = users /\ codes' = codes /\ used' = used
  BY Zenon DEF Proceeds, CreateCheck, HashRead, HashWrite, AccountRead, AccountWrite,
         ProfileRead, ProfileWrite, SecretRead, SecretWrite, UpdateIdentity, UpdateAccount, Fails,
         tables, counts, answers
<1>2. CodeKept(job[w], users, codes, used) => CodeKept(job'[w], users, codes, used)
  <2>1. CASE job'[w] = NoJob
    BY <2>1, NoJobIs, Zenon DEF CodeKept
  <2>2. CASE job'[w] # NoJob
    BY <2>2, ProceedKeeps, Zenon DEF CodeKept
  <2> QED BY <2>1, <2>2, Zenon
<1> QED BY <1>1, <1>2, CodesStep, JobFields, Zenon

(* Storing a user with the code it has or with none keeps the codes sound. *)
LEMMA CodesStored ==
  ASSUME NEW us \in Seq(UserRows), NEW n \in 0 .. MaxCodes, NEW uses, CodesSound(us, n, uses),
         NEW u \in Rows(us), NEW row \in UserRows, row.code \in {0, us[u].code}
  PROVE  CodesSound([us EXCEPT ![u] = row], n, uses)
<1> DEFINE us2 == [us EXCEPT ![u] = row]
<1>1. /\ Rows(us2) = Rows(us)
      /\ \A v \in Rows(us) : us2[v].code = us[v].code \/ us2[v].code = 0
  BY DEF Rows
<1> HIDE DEF us2
<1>2. 0 <= n
  BY BoundAssumption
<1>3. CodesSound(us2, n, uses)
  BY <1>1, <1>2, JobFields, Zenon DEF CodesSound
<1> QED BY <1>3, Zenon DEF us2

(* A new user has no code.                                                 *)
LEMMA CodesAdded ==
  ASSUME NEW us \in Seq(UserRows), NEW n \in 0 .. MaxCodes, NEW uses, CodesSound(us, n, uses),
         NEW row \in UserRows, row.code = 0
  PROVE  CodesSound(Append(us, row), n, uses)
<1> DEFINE us2 == Append(us, row)
<1>1. \A v \in Rows(us2) : us2[v].code = 0 \/ (v \in Rows(us) /\ us2[v] = us[v])
  BY DEF Rows
<1> HIDE DEF us2
<1>2. 0 <= n
  BY BoundAssumption
<1>3. CodesSound(us2, n, uses)
  BY <1>1, <1>2, JobFields, Zenon DEF CodesSound
<1> QED BY <1>3, Zenon DEF us2

(* A stored user keeps its code, gets a fresh one, or loses it to its use. *)
LEMMA StoreCodes ==
  ASSUME Typed, CodesOnce, NEW w \in Workers, Moves(w), StoresUser(w)
  PROVE  CodesOnce'
<1> SUFFICES ASSUME CodesSound(users, codes, used), CodeKept(job[w], users, codes, used)
             PROVE  CodesSound(users', codes', used') /\ CodeKept(job'[w], users', codes', used')
  BY CodesStep, Zenon
<1>1. /\ job \in [Workers -> Jobs] /\ JobFits(job[w], users, accounts, friendly)
      /\ codes \in 0 .. MaxCodes /\ MaxCodes \in Nat /\ used \in [1 .. MaxCodes -> Nat]
      /\ users \in Seq(UserRows) /\ codes' = codes
  BY BoundAssumption, Zenon DEF Typed, AnswersFit, TablesFit, StoresUser, CreateInsert, LoginWrite,
     PasswordWrite, UpdateWrite, FacebookWrite, counts
<1>2. job[w].op # "none" /\ job[w].row \in UserRows /\ (job[w].id # 0 => job[w].id \in Rows(users))
  BY <1>1, Zenon DEF JobFits, Jobs, Stages, StoresUser, CreateInsert, LoginWrite, PasswordWrite,
     UpdateWrite, FacebookWrite, Serves
<1>3. CodeKept(NoJob, users', codes', used')
  BY Zenon DEF CodeKept, NoJob
<1>4. ASSUME Done(w) PROVE job'[w] = NoJob
  BY <1>1, <1>4, Zenon DEF Done
<1>5. ASSUME NEW at, Goto(w, at)
      PROVE  job'[w].op = job[w].op /\ job'[w].at = at /\ job'[w].row = job[w].row
  BY <1>1, <1>5, JobFields, Zenon DEF Goto
<1>6. ASSUME job[w].id # 0, users' = [users EXCEPT ![job[w].id] = job[w].row],
             job[w].row.code \in {0, users[job[w].id].code}, used' = used
      PROVE  CodesSound(users', codes', used')
  BY <1>1, <1>2, <1>6, CodesStored, Zenon
<1>7. ASSUME users' = Append(users, job[w].row), job[w].row.code = 0, used' = used
      PROVE  CodesSound(users', codes', used')
  BY <1>1, <1>2, <1>7, CodesAdded, JobFields, Zenon
<1>8. CASE CreateInsert(w)
  <2>1. job[w].op = "create" /\ job[w].row.code = 0 /\ used' = used
    BY <1>8, Zenon DEF CreateInsert, Serves, CodeKept, answers
  <2>2. CASE Done(w) /\ UNCHANGED users
    BY <1>1, <1>3, <1>4, <2>1, <2>2, JobFields, Zenon
  <2>3. CASE /\ users' = Append(users, job[w].row)
             /\ job' = [job EXCEPT ![w].at = "hash", ![w].id = Len(users) + 1]
    <3>1. job'[w].op = "create" /\ job'[w].row = job[w].row
      BY <1>1, <2>1, <2>3, JobFields, Zenon
    <3> QED BY <1>7, <2>1, <2>3, <3>1, JobFields, Zenon DEF CodeKept
  <2> QED BY <1>8, <2>2, <2>3, JobFields, Zenon DEF CreateInsert
<1>9. CASE LoginWrite(w)
  <2>1. /\ job[w].id # 0 /\ users' = [users EXCEPT ![job[w].id] = job[w].row] /\ used' = used
        /\ job[w].row.code = users[job[w].id].code /\ Done(w)
    BY <1>1, <1>9, Zenon DEF LoginWrite, Serves, JobFits, CodeKept, answers
  <2> QED BY <1>3, <1>4, <1>6, <2>1, JobFields, Zenon
<1>10. CASE UpdateWrite(w)
  <2>1. /\ job[w].id # 0 /\ users' = [users EXCEPT ![job[w].id] = job[w].row] /\ used' = used
        /\ job[w].row.code = users[job[w].id].code /\ Goto(w, "hash") /\ job[w].op = "update"
    BY <1>1, <1>10, Zenon DEF UpdateWrite, Serves, JobFits, CodeKept, answers
  <2>2. job'[w].op = "update" /\ job'[w].at = "hash"
    BY <1>5, <2>1, Zenon
  <2> QED BY <1>6, <2>1, <2>2, JobFields, Zenon DEF CodeKept
<1>11. CASE FacebookWrite(w)
  <2>1. job[w].op = "facebook" /\ job[w].row.code = 0 /\ used' = used
    BY <1>11, Zenon DEF FacebookWrite, Serves, CodeKept, answers
  <2>2. CASE Done(w) /\ UNCHANGED users
    BY <1>1, <1>3, <1>4, <2>1, <2>2, Zenon
  <2>3. CASE /\ users' = Append(users, job[w].row)
             /\ job' = [job EXCEPT ![w].at = "profile", ![w].id = Len(users) + 1]
    <3>1. job'[w].op = "facebook" /\ job'[w].at = "profile"
      BY <1>1, <2>1, <2>3, JobFields, Zenon
    <3> QED BY <1>7, <2>1, <2>3, <3>1, Zenon DEF CodeKept
  <2>4. CASE job[w].id # 0 /\ users' = [users EXCEPT ![job[w].id] = job[w].row] /\ Goto(w, "profile")
    <3>1. job'[w].op = "facebook" /\ job'[w].at = "profile"
      BY <1>5, <2>1, <2>4, Zenon
    <3> QED BY <1>6, <2>1, <2>4, <3>1, Zenon DEF CodeKept
  <2> QED BY <1>11, <2>2, <2>3, <2>4, JobFields, Zenon DEF FacebookWrite
<1>12. CASE PasswordWrite(w)
  <2>1. /\ job[w].op \in {"generate", "reset"} /\ job[w].at = "store" /\ Goto(w, "secret")
        /\ users' = [users EXCEPT ![job[w].id] = job[w].row] /\ job[w].id \in Rows(users)
        /\ used' = IF job[w].op = "reset" THEN [used EXCEPT ![job[w].found] = @ + 1] ELSE used
    BY <1>1, <1>12, Zenon DEF PasswordWrite, JobFits
  <2>2. job'[w].op = job[w].op /\ job'[w].at = "secret"
    BY <1>5, <2>1, Zenon
  <2>3. CodeKept(job'[w], users', codes', used')
    BY <2>1, <2>2, Zenon DEF CodeKept
  <2> DEFINE id == job[w].id
  <2>4. /\ Rows(users') = Rows(users) /\ users'[id].code = job[w].row.code
        /\ \A v \in Rows(users) \ {id} : users'[v] = users[v]
    BY <1>1, <1>2, <2>1 DEF Rows
  <2>5. CASE job[w].op = "generate"
    <3>1. /\ used' = used /\ users'[id].code = codes /\ used[codes] = 0
          /\ \A u \in Rows(users) : users[u].code # codes
      BY <2>1, <2>4, <2>5, JobFields, Zenon DEF CodeKept
    <3>2. \A v \in Rows(users) : \/ v = id /\ users'[v].code = codes
                                 \/ v # id /\ users'[v].code = users[v].code
      <4> TAKE v \in Rows(users)
      <4>1. CASE v = id
        BY <3>1, <4>1, Zenon
      <4>2. CASE v # id
        BY <2>4, <4>2, Zenon
      <4> QED BY <4>1, <4>2, Zenon
    <3>3. codes <= codes
      BY <1>1
    <3>4. \A u, v \in Rows(users) : users'[u].code # 0 /\ users'[u].code = users'[v].code => u = v
      BY <3>1, <3>2, JobFields, Zenon DEF CodesSound
    <3>5. \A v \in Rows(users) : users'[v].code <= codes /\ (users'[v].code # 0 => used[users'[v].code] = 0)
      BY <3>1, <3>2, <3>3, JobFields, Zenon DEF CodesSound
    <3>6. CodesSound(users', codes, used)
      BY <2>4, <3>4, <3>5, Zenon DEF CodesSound
    <3> QED BY <1>1, <2>3, <3>1, <3>6, Zenon
  <2>6. CASE job[w].op = "reset"
    <3>1. /\ users'[id].code = 0 /\ job[w].found = users[id].code /\ users[id].code # 0
          /\ job[w].found \in 1 .. MaxCodes
      BY <1>1, <2>1, <2>4, <2>6, JobFields, Zenon DEF CodeKept, JobFits
    <3>2. used[job[w].found] = 0 /\ job[w].found <= codes
      BY <2>1, <3>1, Zenon DEF CodesSound
    <3>3. /\ used'[job[w].found] = 1
          /\ \A c \in 1 .. MaxCodes : c # job[w].found => used'[c] = used[c]
      <4>1. DOMAIN used = 1 .. MaxCodes
        BY <1>1, Zenon DEF Typed, AnswersFit
      <4>2. used' = [used EXCEPT ![job[w].found] = used[job[w].found] + 1]
        BY <2>1, <2>6, Zenon
      <4>3. 0 + 1 = 1
        BY ONLY TRUE, SMT
      <4> QED BY <3>1, <3>2, <4>1, <4>2, <4>3, Zenon
    <3>4. \A c \in 1 .. MaxCodes : used'[c] <= (IF c <= codes THEN 1 ELSE 0)
      BY <1>1, <3>2, <3>3 DEF CodesSound
    <3>5. \A v \in Rows(users) : users'[v].code # 0 => v # id /\ users'[v].code = users[v].code
      BY <2>4, <3>1, Zenon
    <3>6. ASSUME NEW v \in Rows(users)
          PROVE  users'[v].code <= codes /\ (users'[v].code # 0 => used'[users'[v].code] = 0)
      <4>1. CASE users'[v].code = 0
        BY <1>1, <4>1
      <4>2. CASE users'[v].code # 0
        <5>1. /\ v # id /\ users'[v].code = users[v].code /\ users[v].code # 0
              /\ users[v].code <= codes /\ used[users[v].code] = 0
          BY <3>5, <4>2, Zenon DEF CodesSound
        <5>2. users[v].code # job[w].found
          BY <2>1, <3>1, <5>1, Zenon DEF CodesSound
        <5>3. users[v].code \in 1 .. MaxCodes
          <6>1. users[v] \in UserRows
            BY UserRow, Zenon
          <6> QED BY <1>1, <5>1, <6>1 DEF UserRows
        <5> QED BY <3>3, <5>1, <5>2, <5>3, JobFields, Zenon
      <4> QED BY <4>1, <4>2, Zenon
    <3>7. \A u, v \in Rows(users) : users'[u].code # 0 /\ users'[u].code = users'[v].code => u = v
      BY <3>5, Zenon DEF CodesSound
    <3>8. CodesSound(users', codes, used')
      BY <2>4, <3>4, <3>6, <3>7, Zenon DEF CodesSound
    <3> QED BY <1>1, <2>3, <3>8, Zenon
  <2> QED BY <2>1, <2>5, <2>6, Zenon
<1> QED BY <1>8, <1>9, <1>10, <1>11, <1>12, Zenon DEF StoresUser

(* No step breaks the codes.                                               *)
LEMMA CodesInvariance == Spec => []CodesOnce
<1>1. ASSUME Init PROVE CodesOnce
  <2>1. CodeKept(NoJob, users, codes, used)
    BY Zenon DEF CodeKept, NoJob
  <2>2. CodesSound(users, codes, used)
    BY <1>1, BoundAssumption DEF Init, CodesSound, Rows
  <2>3. \A w \in Workers : job[w] = NoJob /\ job[w].at = "idle"
    BY <1>1, Zenon DEF Init, NoJob
  <2> QED BY <2>1, <2>2, <2>3, Zenon DEF CodesOnce, Lone
<1>2. ASSUME Typed, CodesOnce, [Next]_vars PROVE CodesOnce'
  <2>1. CASE Next
    <3>1. PICK w \in Workers : Moves(w) /\ (Starts(w) \/ Proceeds(w) \/ StoresUser(w))
      BY <1>2, <2>1, StepMoves, Zenon
    <3> QED BY <1>2, <3>1, StartCodes, ProceedCodes, StoreCodes, Zenon
  <2>2. CASE UNCHANGED vars
    BY <1>2, <2>2, Zenon DEF CodesOnce, Lone, vars, tables, counts, answers
  <2> QED BY <1>2, <2>1, <2>2, Zenon
<1> QED BY <1>1, <1>2, TypedInvariance, PTL DEF Spec

(* A reset code is good for one reset (User.resetPassword), for any number *)
(* of requests and failures, as long as requests do not overlap.           *)
THEOREM CodesWorkOnce == Spec => []CodeWorksOnce
<1>1. ASSUME Typed, CodesOnce PROVE CodeWorksOnce
  <2> SUFFICES ASSUME ~overlapped, NEW c \in 1 .. MaxCodes PROVE used[c] <= 1
    BY Zenon DEF CodeWorksOnce
  <2>1. used[c] <= (IF c <= codes THEN 1 ELSE 0)
    BY <1>1, Zenon DEF CodesOnce, CodesSound
  <2>2. used[c] \in Nat
    BY <1>1, Zenon DEF Typed, AnswersFit
  <2> QED BY <2>1, <2>2
<1> QED BY <1>1, TypedInvariance, CodesInvariance, PTL

(* What is left to show for the credentials after a step.                  *)
LEMMA ForceStep ==
  ASSUME Typed, InForce, NEW w \in Workers, Moves(w),
         Starts(w) \/ Proceeds(w) \/ StoresUser(w),
         ~overlapped /\ (\A u \in UserIds : credential[u] # Blank => Carries(accounts, u, credential[u]))
                     /\ JobCarries(job[w], accounts)
           => /\ \A u \in UserIds : credential'[u] # Blank => Carries(accounts', u, credential'[u])
              /\ JobCarries(job'[w], accounts')
  PROVE  InForce'
<1> SUFFICES ASSUME ~overlapped'
             PROVE  /\ Lone'
                    /\ \A u \in UserIds : credential'[u] # Blank => Carries(accounts', u, credential'[u])
                    /\ \A v \in Workers : JobCarries(job'[v], accounts')
  BY Zenon DEF InForce
<1>1. /\ ~overlapped /\ Lone'
      /\ \A v \in Workers \ {w} : job[v].at = "idle" /\ job[v].op = "none" /\ job'[v] = job[v]
  BY LoneStep, Zenon DEF InForce
<1>2. /\ \A u \in UserIds : credential'[u] # Blank => Carries(accounts', u, credential'[u])
      /\ JobCarries(job'[w], accounts')
  BY <1>1, Zenon DEF InForce
<1>3. \A v \in Workers \ {w} : JobCarries(job'[v], accounts')
  BY <1>1, Zenon DEF JobCarries, HoldsAccount
<1> QED BY <1>1, <1>2, <1>3, Zenon

(* Steps that store neither an account nor an answer.                      *)
LEMMA QuietForce ==
  ASSUME Typed, InForce, NEW w \in Workers, Moves(w),
         Starts(w) \/ Proceeds(w) \/ StoresUser(w), UNCHANGED <<accounts, credential>>,
         JobCarries(job[w], accounts) => JobCarries(job'[w], accounts)
  PROVE  InForce'
BY ForceStep, Zenon

(* An accepted request has changed nothing.                                *)
LEMMA StartForce ==
  ASSUME Typed, InForce, NEW w \in Workers, Moves(w), Starts(w)
  PROVE  InForce'
<1>1. UNCHANGED <<accounts, credential>> /\ job \in [Workers -> Jobs]
  BY Zenon DEF Typed, Starts, CreateStart, LoginRead, GenerateRead, ResetRead, UpdateStart, FacebookStart, tables, answers
<1>2. job'[w].account = 0 /\ job'[w].at \in {"check", "store", "profile"}
      /\ (job'[w].op = "create" => job'[w].at = "check")
  <2>1. CASE CreateStart(w)
    BY <1>1, <2>1 DEF CreateStart, Accept, NoJob
  <2>2. CASE LoginRead(w)
    BY <1>1, <2>2 DEF LoginRead, Accept, NoJob
  <2>3. CASE GenerateRead(w)
    <3>1. PICK u, r : job' = [job EXCEPT ![w] = [NoJob EXCEPT !.op = "generate", !.at = "store",
                                                   !.id = u, !.pass = Unguessable, !.row = r]]
      BY <2>3, Zenon DEF GenerateRead, Accept
    <3> QED BY <1>1, <3>1, Zenon DEF NoJob
  <2>4. CASE ResetRead(w)
    <3> DEFINE r(u, p) == [users[u] EXCEPT !.password = p, !.code = 0]
    <3>1. PICK u \in Rows(users), p \in Passwords :
            job' = [job EXCEPT ![w] = [NoJob EXCEPT !.op = "reset", !.at = "store",
                              !.id = u, !.pass = p, !.row = r(u, p), !.found = users[u].code]]
      BY <2>4, Zenon DEF ResetRead, Accept
    <3> HIDE DEF r
    <3> QED BY <1>1, <3>1, Zenon DEF NoJob
  <2>5. CASE UpdateStart(w)
    BY <1>1, <2>5 DEF UpdateStart, Accept, NoJob
  <2>6. CASE FacebookStart(w)
    BY <1>1, <2>6 DEF FacebookStart, Accept, NoJob
  <2> QED BY <2>1, <2>2, <2>3, <2>4, <2>5, <2>6, JobFields, Zenon DEF Starts
<1>3. JobCarries(job'[w], accounts)
  BY <1>2, Zenon DEF JobCarries, HoldsAccount
<1> QED BY <1>1, <1>3, QuietForce, Zenon

(* Steps of a request that carry what it holds of its account, or end it.  *)
LEMMA CarryForce ==
  ASSUME Typed, InForce, NEW w \in Workers, Moves(w),
         \/ CreateCheck(w) \/ CreateInsert(w) \/ HashRead(w) \/ HashWrite(w) \/ AccountRead(w)
         \/ ProfileRead(w) \/ LoginWrite(w) \/ PasswordWrite(w) \/ SecretRead(w)
         \/ UpdateIdentity(w) \/ UpdateWrite(w) \/ FacebookWrite(w)
  PROVE  InForce'
<1>1. UNCHANGED <<accounts, credential>>
  BY Zenon DEF CreateCheck, CreateInsert, HashRead, HashWrite, AccountRead, ProfileRead, LoginWrite,
         PasswordWrite, SecretRead, UpdateIdentity, UpdateWrite, FacebookWrite, tables, answers
<1>2. Starts(w) \/ Proceeds(w) \/ StoresUser(w)
  BY Zenon DEF Proceeds, StoresUser
<1>3. job \in [Workers -> Jobs] /\ JobFits(job[w], users, accounts, friendly)
  BY Zenon DEF Typed
<1> SUFFICES ASSUME JobCarries(job[w], accounts) PROVE JobCarries(job'[w], accounts)
  BY <1>1, <1>2, QuietForce, Zenon
<1>4. ASSUME job'[w].at \notin {"profile", "profiled"} \/ job'[w].op # "create",
             job'[w].at \notin {"store", "hash", "hashed", "account"} \/ job'[w].op # "update"
      PROVE  JobCarries(job'[w], accounts)
  BY <1>4, Zenon DEF JobCarries, HoldsAccount
<1>5. CASE HashRead(w) \/ HashWrite(w) \/ UpdateWrite(w)
  <2>1. /\ job'[w].op = job[w].op /\ job'[w].acc = job[w].acc /\ job'[w].account = job[w].account
        /\ job'[w].at \in {"hash", "hashed", "uid", "account"} /\ job[w].at \in {"store", "hash", "hashed"}
    <3>1. CASE HashRead(w)
      <4>1. PICK f, h : job' = [job EXCEPT ![w].at = "hashed", ![w].found = f, ![w].hash = h]
        BY <3>1, Zenon DEF HashRead
      <4>2. job[w].at = "hash"
        BY <3>1, Zenon DEF HashRead
      <4> QED BY <1>3, <4>1, <4>2, JobFields, Zenon
    <3>2. CASE HashWrite(w)
      BY <1>3, <3>2, Zenon DEF HashWrite, Goto, Jobs
    <3>3. CASE UpdateWrite(w)
      BY <1>3, <3>3, Zenon DEF UpdateWrite, Goto, Serves, Jobs
    <3> QED BY <1>5, <3>1, <3>2, <3>3, Zenon
  <2> QED BY <2>1, Zenon DEF JobCarries, HoldsAccount
<1>6. CASE ProfileRead(w)
  <2>1. /\ job'[w].op = job[w].op /\ job'[w].id = job[w].id /\ job'[w].row = job[w].row
        /\ job'[w].at = "profiled" /\ job[w].at = "profile"
    BY <1>3, <1>6, JobFields, Zenon DEF ProfileRead
  <2> QED BY <2>1, Zenon DEF JobCarries, HoldsAccount
<1>7. CASE UpdateIdentity(w)
  <2> DEFINE c(a) == IF a = 0 THEN NoAccount ELSE UpdatedAccount(accounts[a], job[w].row, job[w].pass)
  <2>1. PICK a : job' = [job EXCEPT ![w].at = "store", ![w].account = a, ![w].acc = c(a)]
    BY <1>7, Zenon DEF UpdateIdentity
  <2>2. a # 0 => c(a) = accounts[a]
    BY Zenon DEF UpdatedAccount
  <2> HIDE DEF c
  <2>3. job'[w].account = a /\ job'[w].acc = c(a) /\ job'[w].op = job[w].op /\ job'[w].at = "store"
    BY <1>3, <2>1, JobFields, Zenon
  <2> QED BY <2>2, <2>3, Zenon DEF JobCarries, HoldsAccount
<1>8. CASE PasswordWrite(w)
  BY <1>3, <1>4, <1>8, Zenon DEF PasswordWrite, Goto, Jobs
<1>9. CASE CreateInsert(w) \/ FacebookWrite(w)
  <2>1. CASE Done(w)
    BY <1>3, <1>4, <2>1, Zenon DEF Done, NoJob
  <2>2. CASE CreateInsert(w) /\ job' = [job EXCEPT ![w].at = "hash", ![w].id = Len(users) + 1]
    BY <1>3, <1>4, <2>2, Zenon DEF CreateInsert, Serves, Jobs
  <2>3. CASE FacebookWrite(w) /\ (\/ Goto(w, "profile")
                                  \/ job' = [job EXCEPT ![w].at = "profile", ![w].id = Len(users) + 1])
    BY <1>3, <1>4, <2>3, Zenon DEF FacebookWrite, Serves, Goto, Jobs
  <2> QED BY <1>9, <2>1, <2>2, <2>3, Zenon DEF CreateInsert, FacebookWrite
<1>10. CASE CreateCheck(w) \/ AccountRead(w) \/ LoginWrite(w) \/ SecretRead(w)
  <2>1. CASE Done(w)
    BY <1>3, <1>4, <2>1, JobFields, Zenon DEF Done, NoJob
  <2>2. CASE Goto(w, "insert")
    BY <1>3, <1>4, <2>2, Zenon DEF Goto, Jobs
  <2>3. CASE \E f, c : job' = [job EXCEPT ![w].at = "link", ![w].found = f, ![w].acc = c]
    BY <1>3, <1>4, <2>3 DEF Jobs
  <2>4. CASE \E f, c : job' = [job EXCEPT ![w].at = "secreted", ![w].found = f, ![w].acc = c]
    BY <1>3, <1>4, <2>4 DEF Jobs
  <2> QED BY <1>10, <2>1, <2>2, <2>3, <2>4, Zenon DEF CreateCheck, AccountRead, LoginWrite, SecretRead
<1> QED BY <1>5, <1>6, <1>7, <1>8, <1>9, <1>10, JobFields, Zenon

(* A registration is answered when the account has its password.           *)
LEMMA ProfileWriteForce ==
  ASSUME Typed, InForce, NEW w \in Workers, Moves(w), ProfileWrite(w)
  PROVE  InForce'
<1>1. /\ job \in [Workers -> Jobs] /\ JobFits(job[w], users, accounts, friendly)
      /\ accounts' = accounts /\ credential \in [UserIds -> Secrets] /\ job[w].at = "profiled"
  BY Zenon DEF Typed, ProfileWrite, AnswersFit
<1> SUFFICES ASSUME \A u \in UserIds : credential[u] # Blank => Carries(accounts, u, credential[u]),
                    JobCarries(job[w], accounts)
             PROVE  /\ \A u \in UserIds : credential'[u] # Blank => Carries(accounts, u, credential'[u])
                    /\ JobCarries(job'[w], accounts)
  BY <1>1, ForceStep, Zenon DEF Proceeds
<1>2. JobCarries(job'[w], accounts)
  <2>1. Done(w) \/ Goto(w, "identity") \/ Goto(w, "uid")
    <3>1. job[w].op \in {"create", "update", "facebook"}
      BY <1>1, Zenon DEF JobFits, Jobs, Stages
    <3> QED BY <3>1, Zenon DEF ProfileWrite, AfterProfile
  <2>2. job'[w].at \in {"idle", "identity", "uid"}
    BY <1>1, <2>1, NoJobIs, Zenon DEF Done, Goto, Jobs
  <2> QED BY <2>2, Zenon DEF JobCarries, HoldsAccount
<1>3. CASE credential' = credential
  BY <1>2, <1>3, Zenon
<1>4. CASE /\ job[w].op = "create"
           /\ credential' = [credential EXCEPT ![job[w].id] = job[w].row.password]
  <2>1. Carries(accounts, job[w].id, job[w].row.password)
    BY <1>1, <1>4, JobFields, Zenon DEF JobCarries
  <2>2. \A u \in UserIds : credential'[u] # Blank => Carries(accounts, u, credential'[u])
    BY <1>1, <1>4, <2>1, JobFields, Zenon
  <2> QED BY <1>2, <2>2, Zenon
<1> QED BY <1>3, <1>4, Zenon DEF ProfileWrite

(* After a failure nothing is promised.                                    *)
LEMMA FailsForce ==
  ASSUME Typed, InForce, NEW w \in Workers, Moves(w), Fails(w)
  PROVE  InForce'
<1>1. /\ job \in [Workers -> Jobs] /\ accounts' = accounts /\ credential \in [UserIds -> Secrets]
      /\ job'[w] = NoJob
      /\ credential' = credential \/ credential' = [credential EXCEPT ![job[w].id] = Blank]
  BY Zenon DEF Typed, Fails, Done, tables, AnswersFit
<1>2. JobCarries(job'[w], accounts)
  BY <1>1, NoJobIs, Zenon DEF JobCarries, HoldsAccount
<1>3. \A u \in UserIds : credential'[u] = credential[u] \/ credential'[u] = Blank
  BY <1>1, Zenon
<1> QED BY <1>1, <1>2, <1>3, ForceStep, JobFields, Zenon DEF Proceeds

(* User.update stores the account as it is.                                *)
LEMMA UpdateAccountForce ==
  ASSUME Typed, InForce, NEW w \in Workers, Moves(w), UpdateAccount(w)
  PROVE  InForce'
<1>1. /\ job \in [Workers -> Jobs] /\ JobFits(job[w], users, accounts, friendly)
      /\ job'[w] = NoJob /\ credential' = credential /\ accounts \in Seq(AccountRows)
      /\ job[w].op = "update" /\ job[w].at = "account"
  BY Zenon DEF Typed, UpdateAccount, Serves, Done, answers, TablesFit
<1>2. JobCarries(job'[w], accounts')
  BY <1>1, NoJobIs, Zenon DEF JobCarries, HoldsAccount
<1>3. JobCarries(job[w], accounts) => accounts' = accounts
  <2>1. CASE job[w].account = 0
    BY <2>1, Zenon DEF UpdateAccount
  <2>2. CASE job[w].account # 0
    <3>1. accounts' = [accounts EXCEPT ![job[w].account] = job[w].acc] /\ HoldsAccount(job[w])
      BY <1>1, <2>2, Zenon DEF UpdateAccount, HoldsAccount
    <3>2. JobCarries(job[w], accounts) => job[w].acc = accounts[job[w].account]
      BY <3>1, Zenon DEF JobCarries
    <3> QED BY <1>1, <3>1, <3>2
  <2> QED BY <2>1, <2>2, Zenon
<1> QED BY <1>1, <1>2, <1>3, ForceStep, Zenon DEF Proceeds

(* The identity accounts of others keep their secrets.                     *)
LEMMA CarriesStored ==
  ASSUME NEW acs \in Seq(AccountRows), NEW i \in 0 .. Len(acs), NEW a \in AccountRows,
         i # 0 => SameOwner(a, acs[i]), NEW u, NEW p, Carries(acs, u, p),
         a.provider # "identity" \/ a.user # u \/ i = 0
  PROVE  Carries(Store(acs, i, a), u, p)
<1> DEFINE acs2 == Store(acs, i, a)
<1>1. PICK k \in Identities(acs, u) : acs[k].secret = p
  BY Zenon DEF Carries
<1>2. /\ Len(acs) \in Nat /\ k \in Rows(acs) /\ acs[k].provider = "identity" /\ acs[k].user = u
  BY RowsOf, Zenon DEF Identities
<1>3. k # (IF i = 0 THEN Len(acs) + 1 ELSE i)
  BY <1>2 DEF SameOwner, Rows
<1>4. /\ acs2 \in Seq(AccountRows) /\ Len(acs) <= Len(acs2)
      /\ Len(acs2) = IF i = 0 THEN Len(acs) + 1 ELSE Len(acs)
      /\ \A n \in Rows(acs2) : acs2[n] = IF n = (IF i = 0 THEN Len(acs) + 1 ELSE i) THEN a ELSE acs[n]
  <2>1. StoredAs(acs, i, a, acs2)
    BY AccountsStored, Zenon
  <2> QED BY <2>1, Zenon DEF StoredAs
<1> HIDE DEF acs2
<1>5. k \in Rows(acs2)
  BY <1>2, <1>4 DEF Rows
<1>6. acs2[k] = acs[k]
  BY <1>3, <1>4, <1>5, Zenon
<1>7. k \in Identities(acs2, u)
  BY <1>2, <1>5, <1>6, Zenon DEF Identities
<1>8. Carries(acs2, u, p)
  BY <1>1, <1>6, <1>7, Zenon DEF Carries
<1> QED BY <1>8, Zenon DEF acs2

(* A registration adds its account; a Facebook login touches no identity   *)
(* account.                                                                *)
LEMMA AccountWriteForce ==
  ASSUME Typed, Owned, InForce, NEW w \in Workers, Moves(w), AccountWrite(w)
  PROVE  InForce'
<1>1. /\ job \in [Workers -> Jobs] /\ JobFits(job[w], users, accounts, friendly)
      /\ JobSound(job[w], users, accounts, everSet) /\ accounts \in Seq(AccountRows)
      /\ job[w].at = "link" /\ credential' = credential
      /\ accounts' = Store(accounts, job[w].found, job[w].acc)
  BY Zenon DEF Typed, Owned, AccountWrite, TablesFit
<1>2. /\ job[w].found \in 0 .. Len(accounts) /\ job[w].acc \in AccountRows
      /\ job[w].op \in {"create", "facebook"}
  BY <1>1, Zenon DEF JobFits, Jobs, Stages, RowFor
<1>3. /\ job[w].found # 0 => SameOwner(job[w].acc, accounts[job[w].found])
      /\ job[w].acc.provider # "identity" \/ job[w].found = 0
  BY <1>1, <1>2, Zenon DEF JobSound
<1>4. \A u, p : Carries(accounts, u, p) => Carries(accounts', u, p)
  BY <1>1, <1>2, <1>3, CarriesStored, Zenon
<1>5. JobCarries(job'[w], accounts')
  <2>1. CASE job[w].op = "facebook"
    <3>1. job'[w] = NoJob
      BY <1>1, <2>1, Zenon DEF AccountWrite, Done
    <3> QED BY <3>1, NoJobIs, Zenon DEF JobCarries, HoldsAccount
  <2>2. CASE job[w].op = "create"
    <3>1. /\ job'[w].op = "create" /\ job'[w].at = "profile" /\ job'[w].id = job[w].id
          /\ job'[w].row = job[w].row
      BY <1>1, <2>2, NoJobIs, Zenon DEF AccountWrite, Goto, Jobs
    <3>2. /\ job[w].found = 0 /\ job[w].acc.provider = "identity" /\ job[w].acc.user = job[w].id
          /\ job[w].acc.secret = job[w].row.password
      BY <1>1, <2>2 DEF JobSound
    <3>3. accounts' = Append(accounts, job[w].acc)
      BY <1>1, <3>2, Zenon DEF Store
    <3>4. Len(accounts) + 1 \in Rows(accounts') /\ accounts'[Len(accounts) + 1] = job[w].acc
      BY <1>1, <1>2, <3>3 DEF Rows
    <3>5. Len(accounts) + 1 \in Identities(accounts', job[w].id)
      BY <3>2, <3>4, Zenon DEF Identities
    <3>6. Carries(accounts', job[w].id, job[w].row.password)
      BY <3>2, <3>4, <3>5, Zenon DEF Carries
    <3> QED BY <3>1, <3>6, Zenon DEF JobCarries, HoldsAccount
  <2> QED BY <1>2, <2>1, <2>2, Zenon
<1> QED BY <1>1, <1>4, <1>5, ForceStep, Zenon DEF Proceeds

(* The client is told the secret that is stored.                           *)
LEMMA SecretWriteForce ==
  ASSUME Typed, Owned, InForce, NEW w \in Workers, Moves(w), SecretWrite(w)
  PROVE  InForce'
<1> DEFINE id == job[w].id
           pass == job[w].pass
           i == job[w].found
<1>1. /\ job \in [Workers -> Jobs] /\ JobFits(job[w], users, accounts, friendly)
      /\ JobSound(job[w], users, accounts, everSet) /\ accounts \in Seq(AccountRows)
      /\ job[w].at = "secreted" /\ job'[w] = NoJob
      /\ accounts' = [accounts EXCEPT ![i] = job[w].acc] /\ credential \in [UserIds -> Secrets]
  BY Zenon DEF Typed, Owned, SecretWrite, TablesFit, Done, AnswersFit
<1>2. /\ i \in Rows(accounts) /\ job[w].acc \in AccountRows
      /\ job[w].op \in {"generate", "reset"} /\ (job[w].op = "generate" => pass = Unguessable)
  BY <1>1, Zenon DEF JobFits, Jobs, Stages, RowFor
<1>3. /\ SameOwner(job[w].acc, accounts[i]) /\ job[w].acc.provider = "identity"
      /\ job[w].acc.user = id /\ job[w].acc.secret = pass
  BY <1>1, Zenon DEF JobSound
<1>4. i \in 0 .. Len(accounts) /\ i # 0 /\ accounts' = Store(accounts, i, job[w].acc)
  BY <1>1, <1>2, RowsOf, Zenon DEF Rows, Store
<1>5. credential' = [credential EXCEPT ![id] = pass]
  BY <1>2, Zenon DEF SecretWrite
<1>6. JobCarries(job'[w], accounts')
  <2>1. NoJob.op = "none"
    BY Zenon DEF NoJob
  <2> QED BY <1>1, <2>1, Zenon DEF JobCarries, HoldsAccount
<1>7. \A u, p : u # id /\ Carries(accounts, u, p) => Carries(accounts', u, p)
  <2> TAKE u, p
  <2> HAVE u # id /\ Carries(accounts, u, p)
  <2>1. job[w].acc.user # u
    BY <1>3, Zenon
  <2>2. accounts \in Seq(AccountRows)
    BY <1>1, Zenon
  <2> HIDE DEF id, pass, i
  <2>3. Carries(Store(accounts, i, job[w].acc), u, p)
    BY ONLY <1>2, <1>3, <1>4, <2>1, <2>2, CarriesStored, Carries(accounts, u, p), JobFields, Zenon
  <2> QED BY <1>4, <2>3, Zenon
<1>8. Carries(accounts', id, pass)
  <2>1. i \in Rows(accounts') /\ accounts'[i] = job[w].acc
    BY <1>1, <1>2 DEF Rows
  <2>2. i \in Identities(accounts', id)
    BY <1>3, <2>1, Zenon DEF Identities
  <2> QED BY <1>3, <2>1, <2>2, Zenon DEF Carries
<1>9. \A u \in UserIds : credential'[u] = IF u = id THEN pass ELSE credential[u]
  BY <1>1, <1>5, Zenon
<1> HIDE DEF id, pass, i
<1> QED BY <1>6, <1>7, <1>8, <1>9, ForceStep, Zenon DEF Proceeds

(* No step takes a password out of force unless the client is told.        *)
LEMMA ForceInvariance == DistinctNames /\ Spec => []InForce
<1> SUFFICES ASSUME DistinctNames PROVE Spec => []InForce
  BY JobFields, Zenon
<1>1. ASSUME Init PROVE InForce
  <2>1. JobCarries(NoJob, accounts)
    BY Zenon DEF JobCarries, NoJob, HoldsAccount
  <2>2. \A w \in Workers : job[w] = NoJob /\ job[w].at = "idle"
    BY <1>1, Zenon DEF Init, NoJob
  <2>3. \A u \in UserIds : credential[u] = Blank
    BY <1>1, Zenon DEF Init
  <2> QED BY <2>1, <2>2, <2>3, Zenon DEF InForce, Lone
<1>2. ASSUME Typed, Owned, InForce, [Next]_vars PROVE InForce'
  <2>1. CASE Next
    <3>1. PICK w \in Workers : Moves(w) /\ (Starts(w) \/ Proceeds(w) \/ StoresUser(w))
      BY <1>2, <2>1, StepMoves, Zenon
    <3> QED
      BY <1>2, <3>1, StartForce, CarryForce, ProfileWriteForce, FailsForce, UpdateAccountForce,
         AccountWriteForce, SecretWriteForce, JobFields, Zenon DEF Proceeds, StoresUser
  <2>2. CASE UNCHANGED vars
    BY <1>2, <2>2, Zenon DEF InForce, Lone, vars, tables, counts, answers
  <2> QED BY <1>2, <2>1, <2>2, Zenon
<1> QED BY <1>1, <1>2, TypedInvariance, OwnedInvariance, PTL DEF Spec

(* The password a user was last told is in force opens the account and no  *)
(* other does (User.resetPassword, generateResetCode, createIdentity), for *)
(* any number of requests and failures, as long as requests do not overlap *)
(* and people have names of their own.                                     *)
THEOREM NewestOpens == DistinctNames /\ Spec => []LatestCredentialOpens
<1>1. ASSUME Typed, Owned, InForce PROVE LatestCredentialOpens
  <2> SUFFICES ASSUME ~overlapped, NEW u \in Rows(users), credential[u] # Blank
               PROVE  {p \in Passwords : u \in Opens(users[u].email, p)}
                        = {credential[u]} \ {Unguessable}
    BY Zenon DEF LatestCredentialOpens
  <2>1. u \in UserIds /\ u \in Nat /\ credential[u] \in Secrets
    BY <1>1, UserRow, Zenon DEF Typed, AnswersFit
  <2>2. PICK k \in Identities(accounts, u) : accounts[k].secret = credential[u]
    BY <1>1, <2>1, Zenon DEF InForce, Carries
  <2>3. k \in Rows(accounts) /\ accounts[k].provider = "identity" /\ accounts[k].user = u
    BY Zenon DEF Identities
  <2>4. accounts[k].token = users[u].email
    BY <1>1, <2>3, Zenon DEF Owned, AccountSound
  <2>5. ASSUME NEW p \in Passwords, u \in Opens(users[u].email, p)
        PROVE  p = credential[u] /\ p # Unguessable
    <3>1. PICK a \in Rows(accounts) : accounts[a].secret = p /\ accounts[a].user = u
      BY <2>5, Zenon DEF Opens
    <3>2. accounts[a].provider = "identity"
      BY <1>1, <3>1, PasswordAssumption, Zenon DEF Owned, AccountSound
    <3>3. a \in Identities(accounts, u)
      BY <3>1, <3>2, Zenon DEF Identities
    <3>4. a = k
      BY <1>1, <2>1, <2>2, <3>3, Zenon DEF Owned
    <3> QED BY <2>2, <3>1, <3>4, PasswordAssumption, Zenon
  <2>6. ASSUME credential[u] # Unguessable
        PROVE  credential[u] \in Passwords /\ u \in Opens(users[u].email, credential[u])
    BY <2>1, <2>2, <2>3, <2>4, <2>6, Zenon DEF Secrets, Opens
  <2> QED BY <2>5, <2>6, Zenon
<1> QED BY <1>1, TypedInvariance, OwnedInvariance, ForceInvariance, PTL

=============================================================================
