--------------------------- MODULE WorkspaceScopeProofs ---------------------------
(***************************************************************************)
(* The tables of WorkspaceScope agree after every transaction, and the     *)
(* store implements ActiveScope, for every number of accounts, teams and   *)
(* service calls in flight.                                                *)
(*                                                                         *)
(* ScopeIsSound is not inductive alone: that a landing account can be      *)
(* selected, and that a stale answer only ever adds a known account to a   *)
(* known team, needs the types of the tables and of the steps that are     *)
(* still to be taken.  The transactions are proved once, over any list,    *)
(* and the calls only have to keep their steps well formed.                *)
(***************************************************************************)
EXTENDS WorkspaceScope, SequenceTheorems, FiniteSetTheorems, TLAPS

(* A total order of a set of accounts, most recent first. *)
Total(order, A) ==
    /\ order \subseteq A \X A
    /\ \A u, v \in A : u # v => (<<u, v>> \in order <=> <<v, u>> \notin order)
    /\ \A u, v, w \in A : <<u, v>> \in order /\ <<v, w>> \in order => <<u, w>> \in order
    /\ \A u \in A : <<u, u>> \notin order

(* Teams and their members fit: listed iff somebody is a member. *)
Listed(life, mem, A) ==
    /\ life \in [Teams -> {"absent", "active", "archived"}]
    /\ mem \in [Teams -> SUBSET A]
    /\ \A t \in Teams : life[t] = "active" <=> mem[t] # {}

Tables == TypeOK /\ ScopeIsSound

(* A transaction selects under a new generation or leaves the selection. *)
Numbered == generation' = generation + 1 \/ UNCHANGED <<workspace, account, generation>>

--------------------------------------------------------------------------------
(* The order of the accounts. *)

(* An account that was just used comes first (last_used_at = now). *)
LEMMA TouchTotal ==
    ASSUME NEW A, NEW order, Total(order, A), NEW u
    PROVE  Total(Touch(order, u, A), A \cup {u})
<1> DEFINE new == Touch(order, u, A)
<1>1. \A a, b : <<a, b>> \in new <=> \/ <<a, b>> \in order /\ a # u /\ b # u
                                     \/ a = u /\ b \in A /\ b # u
  BY DEF Touch
<1>2. new \subseteq (A \cup {u}) \X (A \cup {u})
  BY DEF Touch, Total
<1>3. \A a, b : <<a, b>> \in order => a \in A /\ b \in A
  BY DEF Total
<1> SUFFICES Total(new, A \cup {u})
  OBVIOUS
<1> HIDE DEF new
<1>4. \A a, b \in A \cup {u} : a # b => (<<a, b>> \in new <=> <<b, a>> \notin new)
  BY <1>1 DEF Total
<1>5. \A a, b, c \in A \cup {u} : <<a, b>> \in new /\ <<b, c>> \in new => <<a, c>> \in new
  BY <1>1, <1>3 DEF Total
<1>6. \A a \in A \cup {u} : <<a, a>> \notin new
  BY <1>1, <1>3 DEF Total
<1> QED BY <1>2, <1>4, <1>5, <1>6 DEF Total

(* Forgetting an account leaves the others in order. *)
LEMMA ForgetTotal ==
    ASSUME NEW A, NEW order, Total(order, A), NEW u
    PROVE  Total({p \in order : p[1] # u /\ p[2] # u}, A \ {u})
<1> DEFINE new == {p \in order : p[1] # u /\ p[2] # u}
<1>1. \A a, b : <<a, b>> \in new <=> <<a, b>> \in order /\ a # u /\ b # u
  OBVIOUS
<1>2. new \subseteq (A \ {u}) \X (A \ {u})
  BY DEF Total
<1> HIDE DEF new
<1> QED BY <1>1, <1>2 DEF Total

(* What the tables say, in the terms of the lemmas. *)
LEMMA TableFacts ==
    ASSUME Tables
    PROVE  /\ Total(newer, accounts) /\ Listed(lifecycle, member, accounts)
           /\ accounts \subseteq Users
           /\ last \in [Users -> Teams \cup {Personal}]
           /\ workspace \in Teams \cup {Personal} /\ account \in Users \cup {NoUser}
           /\ generation \in Nat /\ legacy \in [Teams -> Users \cup {NoUser}]
           /\ account # NoUser => account \in accounts
           /\ active_resource_scope(workspace, account, lifecycle, member)
<1>1. Total(newer, accounts) BY DEF Tables, ScopeIsSound, RecencyIsTotal, Total
<1>2. Listed(lifecycle, member, accounts)
  <2>1. member \in [Teams -> SUBSET Users] /\ \A t \in Teams : member[t] \subseteq accounts
    BY DEF Tables, TypeOK, ScopeIsSound, ListedIffMember
  <2>2. member \in [Teams -> SUBSET accounts] BY <2>1
  <2>3. \A t \in Teams : lifecycle[t] = "active" <=> member[t] # {}
    BY DEF Tables, ScopeIsSound, ListedIffMember
  <2> QED BY <2>2, <2>3 DEF Tables, TypeOK, Listed
<1> QED BY <1>1, <1>2 DEF Tables, TypeOK, ScopeIsSound, ScopeIsValid

(* And back, for the tables a transaction leaves. *)
LEMMA TablesFrom ==
    ASSUME Total(newer', accounts'), Listed(lifecycle', member', accounts'),
           accounts' \subseteq Users,
           last' \in [Users -> Teams \cup {Personal}],
           workspace' \in Teams \cup {Personal}, account' \in Users \cup {NoUser},
           generation' \in Nat, legacy' \in [Teams -> Users \cup {NoUser}],
           account' # NoUser => account' \in accounts',
           active_resource_scope(workspace', account', lifecycle', member')
    PROVE  Tables'
<1>1. newer' \subseteq Users \X Users BY DEF Total
<1>2. RecencyIsTotal' BY DEF Total, RecencyIsTotal
<1>3. /\ ListedIffMember' /\ member' \in [Teams -> SUBSET Users]
      /\ lifecycle' \in [Teams -> {"absent", "active", "archived"}]
  BY DEF Listed, ListedIffMember
<1>4. TypeOK' BY <1>1, <1>3 DEF TypeOK
<1>5. ScopeIsValid' BY DEF ScopeIsValid, active_resource_scope
<1> QED BY <1>2, <1>3, <1>4, <1>5 DEF Tables, ScopeIsSound

(* A team nobody belongs to any more is archived, also one that was just   *)
(* left (sync_account_workspaces, remove_workspace_account).               *)
LEMMA ArchiveLists ==
    ASSUME NEW A, NEW life \in [Teams -> {"absent", "active", "archived"}],
           NEW mem \in [Teams -> SUBSET A], \A t \in Teams : mem[t] # {} => life[t] = "active"
    PROVE  Listed(ArchiveOrphans(life, mem), mem, A)
BY DEF Listed, ArchiveOrphans

--------------------------------------------------------------------------------
(* The transactions of the store. *)

(* Where an account lands it may be (the COALESCE of the store). *)
LEMMA LandingIsOpen ==
    ASSUME NEW u, NEW lst, NEW life, NEW mem, NEW w \in Landing(u, lst, life, mem)
    PROVE  /\ w \in Teams \cup {Personal}
           /\ active_resource_scope(w, u, life, mem)
           /\ w # Personal => w \in Teams /\ life[w] = "active" /\ u \in mem[w]
BY DEF Landing, active_resource_scope

(* The repair finds a valid scope whatever the tables have become          *)
(* (repair_active_scope_after_membership_change).                          *)
LEMMA RepairSound ==
    ASSUME Tables, NEW life, NEW mem, NEW lst, NEW accts, NEW order,
           Total(order, accts), Listed(life, mem, accts), accts \subseteq Users,
           lst \in [Users -> Teams \cup {Personal}],
           repair_active_scope(life, mem, lst, accts, order),
           lifecycle' = life, member' = mem, accounts' = accts,
           legacy' \in [Teams -> Users \cup {NoUser}]
    PROVE  Tables' /\ Numbered
<1> DEFINE kept == IF account \in accts THEN account ELSE NoUser
<1>0. kept \in Users \cup {NoUser} /\ (kept # NoUser => kept \in accts) /\ account' = kept
  BY ScopeAssumption DEF repair_active_scope
<1>1. CASE active_resource_scope(workspace, kept, life, mem)
  <2>1. /\ workspace' = workspace /\ last' = lst /\ newer' = order
        /\ IF kept # account THEN generation' = generation + 1 ELSE generation' = generation
    BY <1>1 DEF repair_active_scope, bump_active_scope_generation
  <2>2. generation' \in Nat BY <2>1, TableFacts
  <2>3. Numbered BY <1>0, <2>1 DEF Numbered
  <2> QED BY <1>0, <1>1, <2>1, <2>2, <2>3, TableFacts, TablesFrom
<1>2. CASE ~active_resource_scope(workspace, kept, life, mem)
  <2>1. /\ workspace' \in IF kept = NoUser THEN {Personal} ELSE Landing(kept, lst, life, mem)
        /\ last' = IF kept # NoUser /\ workspace' # Personal
                     THEN [lst EXCEPT ![kept] = workspace'] ELSE lst
        /\ newer' = IF kept # NoUser THEN Touch(order, kept, accts) ELSE order
        /\ generation' = generation + 1
    BY <1>2 DEF repair_active_scope, bump_active_scope_generation
  <2>2. generation' \in Nat BY <2>1, TableFacts
  <2>3. workspace' \in Teams \cup {Personal} /\ active_resource_scope(workspace', kept, life, mem)
    BY <2>1, LandingIsOpen DEF active_resource_scope
  <2>4. last' \in [Users -> Teams \cup {Personal}] BY <2>1, <2>3
  <2>5. Total(newer', accts)
    <3>1. CASE kept = NoUser BY <2>1, <3>1
    <3>2. CASE kept # NoUser
      <4>1. accts \cup {kept} = accts BY <1>0, <3>2
      <4>2. Total(Touch(order, kept, accts), accts \cup {kept}) BY TouchTotal
      <4> QED BY <2>1, <3>2, <4>1, <4>2
    <3> QED BY <3>1, <3>2
  <2>6. Numbered BY <2>1 DEF Numbered
  <2> QED BY <1>0, <2>2, <2>3, <2>4, <2>5, <2>6, TablesFrom
<1> QED BY <1>1, <1>2

(* The list of one account replaces its memberships and no others          *)
(* (sync_account_workspaces).                                              *)
LEMMA SyncSound ==
    ASSUME Tables, NEW u \in Users, NEW list, sync_account_workspaces(u, list)
    PROVE  Tables' /\ Numbered
<1> DEFINE mem == [t \in Teams |-> IF t \in list THEN member[t] \cup {u} ELSE member[t] \ {u}]
           life0 == [t \in Teams |-> IF t \in list THEN "active" ELSE lifecycle[t]]
           life == ArchiveOrphans(life0, mem)
           lst == IF last[u] \in list THEN last ELSE [last EXCEPT ![u] = Personal]
           accts == accounts \cup {u}
           order == IF u \in accounts THEN newer ELSE Touch(newer, u, accounts)
<1>1. /\ member' = mem /\ lifecycle' = life /\ legacy' = ClaimLegacy(u, mem) /\ accounts' = accts
      /\ repair_active_scope(life, mem, lst, accts, order)
  BY DEF sync_account_workspaces
<1>2. Total(order, accts)
  <2>1. CASE u \in accounts
    <3>1. accts = accounts BY <2>1
    <3> QED BY <2>1, <3>1, TableFacts
  <2>2. CASE u \notin accounts BY <2>2, TableFacts, TouchTotal
  <2> QED BY <2>1, <2>2
<1>3. Listed(life, mem, accts)
  <2>1. mem \in [Teams -> SUBSET accts] BY TableFacts DEF Listed
  <2>2. life0 \in [Teams -> {"absent", "active", "archived"}] BY TableFacts DEF Listed
  <2>3. \A t \in Teams : mem[t] # {} => life0[t] = "active" BY TableFacts DEF Listed
  <2> HIDE DEF mem, life0, accts
  <2> QED BY <2>1, <2>2, <2>3, ArchiveLists
<1>4. accts \subseteq Users /\ lst \in [Users -> Teams \cup {Personal}] BY TableFacts
<1>5. legacy' \in [Teams -> Users \cup {NoUser}] BY <1>1, TableFacts DEF ClaimLegacy
<1> HIDE DEF mem, life, lst, accts, order
<1> QED BY <1>1, <1>2, <1>3, <1>4, <1>5, RepairSound

(* One transaction checks and selects (activate_workspace). *)
LEMMA ActivateSound ==
    ASSUME Tables, NEW w \in Teams \cup {Personal}, NEW a, activate_workspace(w, a)
    PROVE  Tables' /\ Numbered
<1>1. /\ a # NoUser => a \in accounts
      /\ w # Personal => a # NoUser /\ lifecycle[w] = "active" /\ a \in member[w]
      /\ workspace' = w /\ account' = a
      /\ last' = IF a # NoUser /\ w # Personal THEN [last EXCEPT ![a] = w] ELSE last
      /\ newer' = IF a # NoUser THEN Touch(newer, a, accounts) ELSE newer
      /\ generation' = generation + 1
      /\ UNCHANGED <<lifecycle, member, accounts, legacy>>
  BY DEF activate_workspace, CanActivate, bump_active_scope_generation
<1>2. active_resource_scope(w, a, lifecycle, member) BY <1>1 DEF active_resource_scope
<1>3. Total(newer', accounts)
  <2>1. CASE a = NoUser BY <1>1, <2>1, TableFacts
  <2>2. CASE a # NoUser
    <3>1. accounts \cup {a} = accounts BY <1>1, <2>2
    <3>2. Total(Touch(newer, a, accounts), accounts \cup {a}) BY TouchTotal, TableFacts
    <3> QED BY <1>1, <2>2, <3>1, <3>2
  <2> QED BY <2>1, <2>2
<1>4. last' \in [Users -> Teams \cup {Personal}] BY <1>1, TableFacts
<1>5. generation' \in Nat BY <1>1, TableFacts
<1>6. account' \in Users \cup {NoUser} BY <1>1, TableFacts
<1> QED BY <1>1, <1>2, <1>3, <1>4, <1>5, <1>6, TableFacts, TablesFrom DEF Numbered

(* An account is forgotten with its memberships; another one, or nobody,   *)
(* takes over (remove_workspace_account).                                  *)
LEMMA RemoveSound ==
    ASSUME Tables, NEW u, remove_workspace_account(u)
    PROVE  Tables' /\ Numbered
<1> DEFINE mem == [t \in Teams |-> member[t] \ {u}]
           life == ArchiveOrphans(lifecycle, mem)
           left == accounts \ {u}
<1>1. /\ member' = mem /\ lifecycle' = life /\ accounts' = left
      /\ newer' = {p \in newer : p[1] # u /\ p[2] # u}
      /\ last' = [last EXCEPT ![u] = Personal]
      /\ legacy' = legacy
  BY DEF remove_workspace_account
<1>2. IF account = u
      THEN /\ \/ account' = NoUser /\ workspace' = Personal
              \/ \E f \in left : account' = f /\ workspace' \in Landing(f, last, life, mem)
           /\ generation' = generation + 1
      ELSE UNCHANGED <<workspace, account, generation>>
  BY DEF remove_workspace_account, bump_active_scope_generation, MostRecent
<1>3. Total(newer', left) BY <1>1, TableFacts, ForgetTotal
<1>4. Listed(life, mem, left)
  <2>1. mem \in [Teams -> SUBSET left] BY TableFacts DEF Listed
  <2>2. lifecycle \in [Teams -> {"absent", "active", "archived"}] BY TableFacts DEF Listed
  <2>3. \A t \in Teams : mem[t] # {} => lifecycle[t] = "active" BY TableFacts DEF Listed
  <2> HIDE DEF mem, left
  <2> QED BY <2>1, <2>2, <2>3, ArchiveLists
<1>5. left \subseteq Users /\ last' \in [Users -> Teams \cup {Personal}] BY <1>1, TableFacts
<1>6. CASE account = u
  <2>1. generation' = generation + 1 /\ generation' \in Nat BY <1>2, <1>6, TableFacts
  <2>2. /\ account' \in Users \cup {NoUser} /\ (account' # NoUser => account' \in left)
        /\ workspace' \in Teams \cup {Personal}
        /\ active_resource_scope(workspace', account', life, mem)
    <3>1. CASE account' = NoUser /\ workspace' = Personal BY <3>1 DEF active_resource_scope
    <3>2. CASE \E f \in left : account' = f /\ workspace' \in Landing(f, last, life, mem)
      <4> HIDE DEF left, mem, life
      <4> QED BY <1>5, <3>2, LandingIsOpen
    <3> QED BY <1>2, <1>6, <3>1, <3>2
  <2> HIDE DEF mem, life, left
  <2> QED BY <1>1, <1>3, <1>4, <1>5, <2>1, <2>2, TableFacts, TablesFrom DEF Numbered
<1>7. CASE account # u
  <2>1. UNCHANGED <<workspace, account, generation>> BY <1>2, <1>7
  <2>2. account # NoUser => account \in left BY <1>7, TableFacts
  <2>3. active_resource_scope(workspace, account, life, mem)
    <3>1. ASSUME workspace # Personal PROVE workspace \in Teams /\ life[workspace] = "active" /\ account \in mem[workspace]
      <4>1. workspace \in Teams /\ account \in member[workspace]
        BY <3>1, TableFacts DEF active_resource_scope
      <4>2. account \in mem[workspace] BY <1>7, <4>1
      <4> QED BY <4>1, <4>2, <1>4 DEF Listed
    <3> QED BY <3>1 DEF active_resource_scope
  <2> HIDE DEF mem, life, left
  <2> QED BY <1>1, <1>3, <1>4, <1>5, <2>1, <2>2, <2>3, TableFacts, TablesFrom DEF Numbered
<1> QED BY <1>6, <1>7

(* Remembering an account puts it in front (remember_workspace_account). *)
LEMMA RememberSound ==
    ASSUME Tables, NEW u \in Users, remember_workspace_account(u),
           UNCHANGED <<lifecycle, member, last, workspace, account, generation, legacy>>
    PROVE  Tables' /\ Numbered
<1>1. accounts' = accounts \cup {u} /\ accounts' \subseteq Users
  BY TableFacts DEF remember_workspace_account
<1>2. Total(newer', accounts')
  <2>1. CASE u \in accounts
    <3>1. accounts' = accounts /\ newer' = newer BY <1>1, <2>1 DEF remember_workspace_account
    <3> QED BY <3>1, TableFacts
  <2>2. CASE u \notin accounts BY <1>1, <2>2, TableFacts, TouchTotal DEF remember_workspace_account
  <2> QED BY <2>1, <2>2
<1>3. Listed(lifecycle, member, accounts')
  <2>1. member \in [Teams -> SUBSET accounts'] BY <1>1, TableFacts DEF Listed
  <2> QED BY <2>1, TableFacts DEF Listed
<1> QED BY <1>1, <1>2, <1>3, TableFacts, TablesFrom DEF Numbered

--------------------------------------------------------------------------------
(* The calls of the service. *)

NamesUser == {"remember", "fetch", "apply", "auth"}

Names == NamesUser \cup {"migrate", "ensure", "ensure_accounts", "active", "connections", "land", "select",
                         "remove", "revoke"}

Modes == {"none", "refresh", "memberships", "sign_out", "login", "activate"}

(* A step of a call: those that write an account name one. *)
Steps ==
    {s \in [name: Names, user: Users \cup {NoUser}, team: Teams \cup {Personal}] :
        s.name \in NamesUser => s.user \in Users}

CallType == [todo: Seq(Steps), list: SUBSET Teams, lenient: BOOLEAN, mode: Modes]

CallsTyped == call \in [Calls -> CallType]

ScopeInv == Tables /\ CallsTyped /\ oldToken \in Users \cup {NoUser}

(* What a step looks like. *)
LEMMA StepTyped ==
    ASSUME NEW n \in Names, NEW u \in Users \cup {NoUser}, n \in NamesUser => u \in Users
    PROVE  Step(n, u) \in Steps
BY DEF Step, Steps

(* The step to be taken and those after it. *)
LEMMA HeadTyped ==
    ASSUME CallsTyped, NEW k \in Calls, NEW n, At(k, n)
    PROVE  /\ Head(call[k].todo) \in Steps /\ Rest(k) \in Seq(Steps)
           /\ Head(call[k].todo).name = n
           /\ Subject(k) \in Users \cup {NoUser}
           /\ n \in NamesUser => Subject(k) \in Users
<1>1. call[k].todo \in Seq(Steps) /\ call[k].todo # <<>> /\ Head(call[k].todo).name = n
  BY DEF CallsTyped, CallType, At
<1>2. Head(call[k].todo) \in Steps /\ Tail(call[k].todo) \in Seq(Steps)
  BY <1>1, HeadTailProperties
<1> QED BY <1>1, <1>2 DEF Steps, Subject, Rest

(* Steps that succeed are replaced by what they ask for. *)
LEMMA ReplaceKeeps ==
    ASSUME CallsTyped, NEW k \in Calls, NEW n, At(k, n), NEW steps \in Seq(Steps), Replace(k, steps)
    PROVE  CallsTyped'
<1>1. steps \o Rest(k) \in Seq(Steps) BY HeadTyped, ConcatProperties
<1> DEFINE todo == steps \o Rest(k)
<1>2. todo \in Seq(Steps) /\ call' = [call EXCEPT ![k].todo = todo] BY <1>1 DEF Replace
<1> HIDE DEF todo
<1> QED BY <1>2 DEF CallsTyped, CallType

(* One step, two steps. *)
LEMMA Lists ==
    /\ <<>> \in Seq(Steps)
    /\ \A a \in Steps : <<a>> \in Seq(Steps)
    /\ \A a, b \in Steps : <<a, b>> \in Seq(Steps)
    /\ \A a, b, c \in Steps : <<a, b, c>> \in Seq(Steps)
OBVIOUS

(* A step that is over. *)
LEMMA DoneKeeps ==
    ASSUME CallsTyped, NEW k \in Calls, NEW n, At(k, n), Done(k)
    PROVE  CallsTyped'
BY ReplaceKeeps, Lists DEF Done

(* No call is a call with nothing left to do. *)
LEMMA NoCallTyped == NoCall \in CallType
<1>1. ASSUME NEW e \in Seq(Steps), NEW b \in BOOLEAN, NEW m \in Modes
      PROVE  [todo |-> e, list |-> {}, lenient |-> b, mode |-> m] \in CallType
  BY DEF CallType
<1>2. <<>> \in Seq(Steps) BY Lists
<1>3. FALSE \in BOOLEAN /\ "none" \in Modes BY DEF Modes
<1> QED BY <1>1, <1>2, <1>3, Zenon DEF NoCall

(* A call that fails. *)
LEMMA AbortKeeps ==
    ASSUME CallsTyped, NEW k \in Calls, Abort(k)
    PROVE  CallsTyped'
BY NoCallTyped DEF CallsTyped, Abort

(* A call that begins. *)
LEMMA BeginKeeps ==
    ASSUME CallsTyped, NEW k \in Calls, NEW mode \in Modes, NEW lenient \in BOOLEAN,
           NEW steps \in Seq(Steps), Begin(k, mode, lenient, steps)
    PROVE  CallsTyped'
<1> DEFINE c == [todo |-> steps, list |-> {}, lenient |-> lenient, mode |-> mode]
<1>1. c \in CallType /\ call' = [call EXCEPT ![k] = c] BY DEF CallType, Begin
<1> HIDE DEF c
<1> QED BY <1>1 DEF CallsTyped

(* The steps of sync_account_memberships. *)
LEMMA SyncTyped ==
    ASSUME NEW u \in Users
    PROVE  /\ Sync(u) \in Seq(Steps)
           /\ Step("apply", u) \in Steps /\ Step("auth", u) \in Steps
           /\ Sync(u) \o <<Step("land", u)>> \in Seq(Steps)
<1>1. \A n \in Names : Step(n, u) \in Steps BY StepTyped
<1>a. /\ Step("remember", u) \in Steps /\ Step("fetch", u) \in Steps /\ Step("apply", u) \in Steps
      /\ Step("auth", u) \in Steps /\ Step("land", u) \in Steps
  BY <1>1 DEF Names, NamesUser
<1>2. Sync(u) \in Seq(Steps) BY <1>a, Lists DEF Sync
<1> QED BY <1>a, <1>2, Lists, ConcatProperties

(* The listed accounts are accounts. *)
LEMMA AccountsListed ==
    ASSUME Tables, NEW q \in workspace_accounts
    PROVE  /\ Len(q) \in Nat /\ DOMAIN q = 1 .. Len(q)
           /\ \A i \in 1 .. Len(q) : q[i] \in Users
           /\ accounts # {} => Len(q) > 0
<1>1. IsFiniteSet(accounts) BY ScopeAssumption, TableFacts, FS_Subset
<1> DEFINE n == Cardinality(accounts)
<1>2. n \in Nat BY <1>1, FS_CardinalityType
<1>3. accounts # {} => n # 0 BY <1>1, FS_EmptySet
<1>4. q \in [1 .. n -> accounts] BY DEF workspace_accounts
<1> HIDE DEF n
<1>5. DOMAIN q = 1 .. n BY <1>4
<1>6. q \in Seq(accounts) BY <1>2, <1>4
<1>7. Len(q) = n BY <1>2, <1>5, <1>6, LenProperties
<1> QED BY <1>2, <1>3, <1>4, <1>5, <1>7, TableFacts

(* The calls the service begins. *)
LEMMA BeginningsTyped ==
    ASSUME ScopeInv, NEW k \in Calls,
           \/ refresh_auth_state(k) \/ refresh_memberships(k) \/ sign_out_all(k)
           \/ \E u \in Users : sign_out(k, u) \/ poll_login(k, u) \/ activate_account(k, u)
           \/ \E w \in Teams \cup {Personal}, u \in Users \cup {NoUser} : activate(k, w, u)
    PROVE  CallsTyped'
<1>0. CallsTyped /\ Tables BY DEF ScopeInv
<1>1. \A n \in Names \ NamesUser, u \in Users \cup {NoUser} : Step(n, u) \in Steps BY StepTyped
<1>2. CASE refresh_auth_state(k)
  <2>1. /\ Step("migrate", NoUser) \in Steps /\ Step("ensure", NoUser) \in Steps
        /\ Step("active", NoUser) \in Steps
    BY <1>1 DEF Names, NamesUser
  <2>2. <<Step("migrate", NoUser), Step("ensure", NoUser), Step("active", NoUser)>> \in Seq(Steps)
    BY <2>1, Lists
  <2>3. "refresh" \in Modes /\ TRUE \in BOOLEAN BY DEF Modes
  <2> QED BY <1>0, <1>2, <2>2, <2>3, BeginKeeps DEF refresh_auth_state
<1>3. CASE refresh_memberships(k)
  <2>1. PICK q \in workspace_accounts :
            Begin(k, "memberships", FALSE,
                  [i \in DOMAIN q |-> Step("auth", q[i])] \o <<Step("ensure", NoUser)>>)
    BY <1>3 DEF refresh_memberships
  <2>2. \A i \in 1 .. Len(q) : Step("auth", q[i]) \in Steps
    BY <1>0, AccountsListed, SyncTyped
  <2> DEFINE first == [i \in DOMAIN q |-> Step("auth", q[i])]
  <2>3. first \in Seq(Steps)
    <3>1. Len(q) \in Nat /\ DOMAIN q = 1 .. Len(q) BY <1>0, AccountsListed
    <3>2. first \in [1 .. Len(q) -> Steps] BY <2>2, <3>1
    <3> HIDE DEF first
    <3> QED BY <3>1, <3>2
  <2>4. Step("ensure", NoUser) \in Steps BY <1>1 DEF Names, NamesUser
  <2>5. first \o <<Step("ensure", NoUser)>> \in Seq(Steps)
    <3> HIDE DEF first
    <3> QED BY <2>3, <2>4, Lists, ConcatProperties
  <2>6. "memberships" \in Modes /\ FALSE \in BOOLEAN BY DEF Modes
  <2> QED BY <1>0, <2>1, <2>5, <2>6, BeginKeeps
<1>4. CASE sign_out_all(k)
  <2>1. PICK q \in workspace_accounts :
            Begin(k, "sign_out", FALSE,
                  [i \in 1 .. 2 * Len(q) |->
                      Step(IF i % 2 = 1 THEN "remove" ELSE "revoke", q[(i + 1) \div 2])])
    BY <1>4 DEF sign_out_all
  <2> DEFINE steps == [i \in 1 .. 2 * Len(q) |->
                          Step(IF i % 2 = 1 THEN "remove" ELSE "revoke", q[(i + 1) \div 2])]
  <2>2. Len(q) \in Nat /\ \A i \in 1 .. Len(q) : q[i] \in Users BY <1>0, AccountsListed
  <2>3. \A i \in 1 .. 2 * Len(q) : (i + 1) \div 2 \in 1 .. Len(q) BY <2>2
  <2>4. \A i \in 1 .. 2 * Len(q) :
            Step(IF i % 2 = 1 THEN "remove" ELSE "revoke", q[(i + 1) \div 2]) \in Steps
    <3>1. \A n \in {"remove", "revoke"} : n \in Names \ NamesUser BY DEF Names, NamesUser
    <3> QED BY <1>1, <2>2, <2>3, <3>1
  <2>5. steps \in Seq(Steps)
    <3>1. 2 * Len(q) \in Nat BY <2>2
    <3>2. steps \in [1 .. 2 * Len(q) -> Steps] BY <2>4
    <3> HIDE DEF steps
    <3> QED BY <3>1, <3>2
  <2>6. "sign_out" \in Modes /\ FALSE \in BOOLEAN BY DEF Modes
  <2> QED BY <1>0, <2>1, <2>5, <2>6, BeginKeeps
<1>5. ASSUME NEW u \in Users, sign_out(k, u) PROVE CallsTyped'
  <2>1. Step("remove", u) \in Steps /\ Step("revoke", u) \in Steps BY <1>1 DEF Names, NamesUser
  <2>2. <<Step("remove", u), Step("revoke", u)>> \in Seq(Steps) BY <2>1, Lists
  <2>3. "sign_out" \in Modes /\ FALSE \in BOOLEAN BY DEF Modes
  <2> QED BY <1>0, <1>5, <2>2, <2>3, BeginKeeps DEF sign_out
<1>6. ASSUME NEW u \in Users, poll_login(k, u) PROVE CallsTyped'
  <2>1. "login" \in Modes /\ TRUE \in BOOLEAN BY DEF Modes
  <2> QED BY <1>0, <1>6, <2>1, SyncTyped, BeginKeeps DEF poll_login
<1>7. ASSUME NEW u \in Users, activate_account(k, u) PROVE CallsTyped'
  <2>1. Step("auth", u) \in Steps /\ Step("land", u) \in Steps BY <1>1, SyncTyped DEF Names, NamesUser
  <2>2. <<Step("auth", u), Step("land", u)>> \in Seq(Steps) BY <2>1, Lists
  <2>3. "activate" \in Modes /\ FALSE \in BOOLEAN BY DEF Modes
  <2> QED BY <1>0, <1>7, <2>2, <2>3, BeginKeeps DEF activate_account
<1>8. ASSUME NEW w \in Teams \cup {Personal}, NEW u \in Users \cup {NoUser}, activate(k, w, u)
      PROVE CallsTyped'
  <2> DEFINE sel == [Step("select", u) EXCEPT !.team = w]
  <2>1. sel \in Steps BY DEF Step, Steps, Names, NamesUser
  <2>2. "activate" \in Modes /\ FALSE \in BOOLEAN BY DEF Modes
  <2>3. CASE w = Personal
    <3>1. <<sel>> \in Seq(Steps) BY <2>1, Lists
    <3>2. Begin(k, "activate", FALSE, <<sel>>) BY <1>8, <2>3 DEF activate
    <3> HIDE DEF sel
    <3> QED BY <1>0, <2>2, <3>1, <3>2, BeginKeeps
  <2>4. CASE w # Personal
    <3>1. u \in Users BY <1>8, <2>4 DEF activate
    <3>2. Step("auth", u) \in Steps /\ Step("connections", u) \in Steps
      BY <1>1, <3>1, SyncTyped DEF Names, NamesUser
    <3>3. Begin(k, "activate", FALSE, <<Step("auth", u)>> \o <<sel>> \o <<Step("connections", u)>>)
      BY <1>8, <2>4 DEF activate
    <3> HIDE DEF sel
    <3>4. <<Step("auth", u)>> \o <<sel>> \in Seq(Steps) BY <2>1, <3>2, Lists, ConcatProperties
    <3>5. <<Step("auth", u)>> \o <<sel>> \o <<Step("connections", u)>> \in Seq(Steps)
      BY <3>2, <3>4, Lists, ConcatProperties
    <3> QED BY <1>0, <2>2, <3>3, <3>5, BeginKeeps
  <2> QED BY <2>3, <2>4
<1> QED BY <1>2, <1>3, <1>4, <1>5, <1>6, <1>7, <1>8

(* A list of steps is put in place of the whole call. *)
LEMMA RewriteKeeps ==
    ASSUME CallsTyped, NEW k \in Calls, NEW steps \in Seq(Steps), NEW list \in SUBSET Teams,
           \/ call' = [call EXCEPT ![k].todo = steps]
           \/ call' = [call EXCEPT ![k].todo = steps, ![k].list = list]
    PROVE  CallsTyped'
<1>1. CASE call' = [call EXCEPT ![k].todo = steps] BY <1>1 DEF CallsTyped, CallType
<1>2. CASE call' = [call EXCEPT ![k].todo = steps, ![k].list = list] BY <1>2 DEF CallsTyped, CallType
<1> QED BY <1>1, <1>2

(* The steps that are left after a step. *)
LEMMA StepsTyped ==
    ASSUME ScopeInv, NEW k \in Calls,
           \/ migrate_legacy_session(k) \/ auth_user(k) \/ remember(k) \/ remote_workspaces(k)
           \/ apply(k) \/ sync_connections(k) \/ land(k) \/ select(k) \/ remove(k) \/ revoke(k)
           \/ ensure(k) \/ ensure_accounts(k) \/ active(k)
    PROVE  CallsTyped'
<1>0. CallsTyped /\ Tables /\ oldToken \in Users \cup {NoUser} BY DEF ScopeInv
<1>1. \A n \in Names \ NamesUser, u \in Users \cup {NoUser} : Step(n, u) \in Steps BY StepTyped
<1>2. CASE migrate_legacy_session(k)
  <2>1. At(k, "migrate") /\ (Done(k) \/ Abort(k) \/ \E u \in Users : Replace(k, Sync(u) \o <<Step("land", u)>>))
    BY <1>0, <1>2 DEF migrate_legacy_session
  <2>2. CASE \E u \in Users : Replace(k, Sync(u) \o <<Step("land", u)>>)
    BY <1>0, <2>1, <2>2, SyncTyped, ReplaceKeeps
  <2> QED BY <1>0, <2>1, <2>2, DoneKeeps, AbortKeeps
<1>3. CASE auth_user(k)
  <2> DEFINE u == Subject(k)
             forget == <<Step("remove", u), Step("ensure", NoUser)>>
  <2>0. At(k, "auth") /\ u \in Users /\ u \in Users \cup {NoUser}
    BY <1>0, <1>3, HeadTyped DEF auth_user, NamesUser
  <2>1. \/ Replace(k, Sync(u)) \/ Done(k) \/ Abort(k)
        \/ Replace(k, forget) \/ Replace(k, <<Step("remove", u)>>)
        \/ call' = [call EXCEPT ![k].todo = forget]
    BY <1>3 DEF auth_user, SessionLost
  <2>2. Step("remove", u) \in Steps /\ Step("ensure", NoUser) \in Steps
    BY <1>1, <2>0 DEF Names, NamesUser
  <2>3. <<Step("remove", u)>> \in Seq(Steps) /\ forget \in Seq(Steps) BY <2>2, Lists
  <2>4. Sync(u) \in Seq(Steps) BY <2>0, SyncTyped
  <2> HIDE DEF u, forget
  <2>5. CASE call' = [call EXCEPT ![k].todo = forget] BY <1>0, <2>3, <2>5, RewriteKeeps
  <2> QED BY <1>0, <2>0, <2>1, <2>3, <2>4, <2>5, DoneKeeps, AbortKeeps, ReplaceKeeps
<1>4. CASE remember(k) \/ sync_connections(k) \/ remove(k) \/ revoke(k)
  BY <1>0, <1>4, DoneKeeps DEF remember, sync_connections, remove, revoke
<1>5. CASE remote_workspaces(k)
  <2> DEFINE u == Subject(k)
             list == {t \in Teams : u \in enrolled[t]}
             steps == <<Step("apply", u)>> \o Rest(k)
  <2>0. At(k, "fetch") /\ u \in Users /\ Rest(k) \in Seq(Steps)
    BY <1>0, <1>5, HeadTyped DEF remote_workspaces, NamesUser
  <2>1. \/ call' = [call EXCEPT ![k].todo = steps, ![k].list = list] \/ Done(k) \/ Abort(k)
    BY <1>5 DEF remote_workspaces, FetchFailed
  <2>2. steps \in Seq(Steps) BY <2>0, SyncTyped, Lists, ConcatProperties
  <2>3. list \in SUBSET Teams OBVIOUS
  <2> HIDE DEF list, steps
  <2> QED BY <1>0, <2>0, <2>1, <2>2, <2>3, DoneKeeps, AbortKeeps, RewriteKeeps
<1>6. CASE apply(k)
  <2> DEFINE u == Subject(k)
             steps == <<Step("connections", u)>> \o Rest(k)
  <2>0. At(k, "apply") /\ u \in Users \cup {NoUser} /\ Rest(k) \in Seq(Steps)
    BY <1>0, <1>6, HeadTyped DEF apply
  <2>1. call' = [call EXCEPT ![k].todo = steps, ![k].list = {}] BY <1>6 DEF apply
  <2>2. Step("connections", u) \in Steps BY <1>1, <2>0 DEF Names, NamesUser
  <2>3. steps \in Seq(Steps) BY <2>0, <2>2, Lists, ConcatProperties
  <2>4. {} \in SUBSET Teams OBVIOUS
  <2> HIDE DEF steps
  <2> QED BY <1>0, <2>1, <2>3, <2>4, RewriteKeeps
<1>7. CASE land(k) \/ select(k)
  BY <1>0, <1>7, DoneKeeps, AbortKeeps DEF land, select
<1>8. CASE ensure(k)
  <2>1. Step("ensure_accounts", account) \in Steps
    BY <1>0, <1>1, TableFacts DEF Names, NamesUser
  <2> QED BY <1>0, <1>8, <2>1, Lists, ReplaceKeeps DEF ensure
<1>9. CASE ensure_accounts(k)
  <2> DEFINE a == Subject(k)
  <2>0. At(k, "ensure_accounts") /\ a \in Users \cup {NoUser}
    BY <1>0, <1>9, HeadTyped DEF ensure_accounts
  <2>1. CASE Replace(k, <<Step("remove", a)>>)
    <3>1. Step("remove", a) \in Steps BY <1>1, <2>0 DEF Names, NamesUser
    <3>2. <<Step("remove", a)>> \in Seq(Steps) BY <3>1, Lists
    <3> QED BY <1>0, <2>0, <2>1, <3>2, ReplaceKeeps
  <2>2. ASSUME accounts # {}, NEW q \in workspace_accounts, Replace(k, <<Step("land", Head(q))>>)
        PROVE  CallsTyped'
    <3>1. 1 \in 1 .. Len(q) BY <1>0, <2>2, AccountsListed
    <3>2. q[1] \in Users \cup {NoUser} BY <1>0, <3>1, AccountsListed
    <3>3. Head(q) = q[1] OBVIOUS
    <3>4. Step("land", Head(q)) \in Steps BY <1>1, <3>2, <3>3 DEF Names, NamesUser
    <3>5. <<Step("land", Head(q))>> \in Seq(Steps) BY <3>4, Lists
    <3> QED BY <1>0, <2>0, <2>2, <3>5, ReplaceKeeps
  <2> QED BY <1>0, <1>9, <2>0, <2>1, <2>2, DoneKeeps DEF ensure_accounts
<1>10. CASE active(k)
  <2>1. CASE account = NoUser BY <1>0, <1>10, <2>1, DoneKeeps DEF active
  <2>2. CASE account # NoUser
    <3>1. account \in Users BY <1>0, <2>2, TableFacts
    <3>2. <<Step("auth", account)>> \in Seq(Steps) BY <3>1, SyncTyped, Lists
    <3> QED BY <1>0, <1>10, <2>2, <3>2, ReplaceKeeps DEF active
  <2> QED BY <2>1, <2>2
<1> QED BY <1>2, <1>3, <1>4, <1>5, <1>6, <1>7, <1>8, <1>9, <1>10

--------------------------------------------------------------------------------
(* The specification. *)

(* Initially there is only the Personal Workspace (Init). *)
LEMMA ScopeStart == Init => ScopeInv
<1> SUFFICES ASSUME Init PROVE ScopeInv
  OBVIOUS
<1>1. TypeOK BY DEF Init, TypeOK
<1>2. ScopeIsSound
  BY DEF Init, ScopeIsSound, ScopeIsValid, active_resource_scope, ListedIffMember, RecencyIsTotal
<1>3. CallsTyped BY NoCallTyped DEF Init, CallsTyped
<1> QED BY <1>1, <1>2, <1>3 DEF ScopeInv, Tables, Init

(* Steps that do not reach the tables. *)
LEMMA LocalUnchanged ==
    ASSUME Tables, UNCHANGED local
    PROVE  Tables' /\ Numbered
<1> USE DEF local
<1>1. TypeOK' BY DEF Tables, TypeOK
<1>2. ScopeIsSound'
  BY DEF Tables, ScopeIsSound, ScopeIsValid, active_resource_scope, ListedIffMember, RecencyIsTotal
<1> QED BY <1>1, <1>2 DEF Tables, Numbered

(* Every step leaves sound tables, and a selection with its own number. *)
LEMMA ScopeStep ==
    ASSUME ScopeInv, [Next]_vars
    PROVE  Tables' /\ Numbered
<1>0. Tables /\ CallsTyped BY DEF ScopeInv
<1>1. CASE UNCHANGED local BY <1>0, <1>1, LocalUnchanged
<1>2. ASSUME NEW k \in Calls, remember(k) PROVE Tables' /\ Numbered
  <2>1. Subject(k) \in Users BY <1>0, <1>2, HeadTyped DEF remember, NamesUser
  <2> QED BY <1>0, <1>2, <2>1, RememberSound DEF remember
<1>3. ASSUME NEW k \in Calls, apply(k) PROVE Tables' /\ Numbered
  <2>1. Subject(k) \in Users BY <1>0, <1>3, HeadTyped DEF apply, NamesUser
  <2> QED BY <1>0, <1>3, <2>1, SyncSound DEF apply
<1>4. ASSUME NEW k \in Calls, land(k) PROVE Tables' /\ Numbered
  <2>1. CASE activate_workspace_account(Subject(k))
    <3>1. PICK w \in Landing(Subject(k), last, lifecycle, member) : activate_workspace(w, Subject(k))
      BY <2>1 DEF activate_workspace_account
    <3>2. w \in Teams \cup {Personal} BY LandingIsOpen
    <3> QED BY <1>0, <3>1, <3>2, ActivateSound
  <2> QED BY <1>1, <1>4, <2>1 DEF land
<1>5. ASSUME NEW k \in Calls, select(k) PROVE Tables' /\ Numbered
  <2> DEFINE w == Head(call[k].todo).team
  <2>1. w \in Teams \cup {Personal} BY <1>0, <1>5, HeadTyped DEF select, Steps
  <2>2. CASE activate_workspace(w, Subject(k))
    <3> HIDE DEF w
    <3> QED BY <1>0, <2>1, <2>2, ActivateSound
  <2> QED BY <1>1, <1>5, <2>2 DEF select
<1>6. ASSUME NEW k \in Calls, remove(k) PROVE Tables' /\ Numbered
  BY <1>0, <1>6, RemoveSound DEF remove
<1>7. CASE Restart
  <2>1. /\ repair_active_scope(lifecycle, member, last, accounts, newer)
        /\ UNCHANGED <<lifecycle, member, accounts, legacy>>
    BY <1>7 DEF Restart
  <2> QED BY <1>0, <2>1, TableFacts, RepairSound
<1>8. CASE UNCHANGED vars BY <1>1, <1>8 DEF vars
<1>9. CASE ServerChange BY <1>1, <1>9 DEF ServerChange
<1>10. ASSUME NEW k \in Calls,
              \/ refresh_auth_state(k) \/ refresh_memberships(k) \/ sign_out_all(k)
              \/ \E u \in Users : sign_out(k, u) \/ poll_login(k, u) \/ activate_account(k, u)
              \/ \E w \in Teams \cup {Personal}, u \in Users \cup {NoUser} : activate(k, w, u)
              \/ migrate_legacy_session(k) \/ auth_user(k) \/ remote_workspaces(k)
              \/ sync_connections(k) \/ revoke(k) \/ ensure(k) \/ ensure_accounts(k) \/ active(k)
       PROVE Tables' /\ Numbered
  <2>1. UNCHANGED local
    BY <1>10 DEF refresh_auth_state, refresh_memberships, sign_out_all, sign_out, poll_login,
        activate_account, activate, migrate_legacy_session, auth_user, remote_workspaces,
        sync_connections, revoke, ensure, ensure_accounts, active
  <2> QED BY <1>1, <2>1
<1> QED BY <1>2, <1>3, <1>4, <1>5, <1>6, <1>7, <1>8, <1>9, <1>10 DEF Next

(* Every step keeps the invariant. *)
LEMMA ScopeNext == ScopeInv /\ [Next]_vars => ScopeInv'
<1> SUFFICES ASSUME ScopeInv, [Next]_vars PROVE ScopeInv'
  OBVIOUS
<1>1. Tables' BY ScopeStep
<1>2. CallsTyped'
  <2>1. CASE UNCHANGED call BY <2>1 DEF ScopeInv, CallsTyped
  <2>2. CASE Restart BY <2>2, NoCallTyped DEF Restart, CallsTyped
  <2>3. CASE ServerChange BY <2>1, <2>3 DEF ServerChange
  <2>4. CASE UNCHANGED vars BY <2>1, <2>4 DEF vars
  <2> QED BY <2>2, <2>3, <2>4, BeginningsTyped, StepsTyped DEF Next
<1>3. oldToken' \in Users \cup {NoUser}
  <2>1. \/ oldToken' = oldToken \/ oldToken' = NoUser
    BY DEF Next, vars, refresh_auth_state, refresh_memberships, sign_out_all, sign_out, poll_login,
        activate_account, activate, migrate_legacy_session, auth_user, remember, remote_workspaces,
        apply, sync_connections, land, select, remove, revoke, ensure, ensure_accounts, active,
        ServerChange, Restart
  <2> QED BY <2>1 DEF ScopeInv
<1> QED BY <1>1, <1>2, <1>3 DEF ScopeInv

(* The invariant holds in every reachable state. *)
THEOREM ScopeInvariance == Spec => []ScopeInv
BY ScopeStart, ScopeNext, PTL DEF Spec

(* The tables agree after every transaction, however the steps of any      *)
(* number of sign-ins, refreshes, activations and sign-outs interleave     *)
(* with each other and with the control plane.                             *)
THEOREM ScopeStaysSound == Spec => []ScopeIsSound
<1>1. ScopeInv => ScopeIsSound BY DEF ScopeInv, Tables
<1> QED BY <1>1, ScopeInvariance, PTL

(* The store implements the contract of ActiveScope: whenever the          *)
(* selection moves, it is to a valid scope under a new generation.         *)
THEOREM ScopeImplementsContract == Spec => ImplementsActiveScope
<1>1. ScopeInv => /\ workspace \in Teams \cup {Personal} /\ account \in Users \cup {NoUser}
                  /\ Contract!ValidScope(workspace, account) /\ generation \in Nat
  BY TableFacts DEF ScopeInv, Contract!ValidScope, active_resource_scope, Listed
<1>2. Init => Contract!ScopeInit BY <1>1, ScopeStart DEF Contract!ScopeInit
<1>3. ScopeInv /\ ScopeInv' /\ [Next]_vars => [Contract!Select]_(Contract!scope)
  <2> SUFFICES ASSUME ScopeInv, ScopeInv', [Next]_vars PROVE [Contract!Select]_(Contract!scope)
    OBVIOUS
  <2>1. Numbered BY ScopeStep
  <2>2. /\ workspace' \in Teams \cup {Personal} /\ account' \in Users \cup {NoUser}
        /\ workspace' = Personal \/ (workspace' \in Teams /\ account' \in Users)
    BY DEF ScopeInv, Tables, TypeOK, ScopeIsSound, ScopeIsValid, active_resource_scope
  <2> QED BY <2>1, <2>2 DEF Numbered, Contract!Select, Contract!ValidScope, Contract!scope
<1> QED BY <1>2, <1>3, ScopeInvariance, PTL DEF Spec, ImplementsActiveScope, Contract!ScopeSpec
================================================================================
