------------------------------- MODULE Access --------------------------------
(***************************************************************************)
(* What one user may do at the primary instance: the role that it keeps in *)
(* user_roles, the sign-in that puts a role into a token, the elevation of *)
(* a user whom TAS gives the base allocation, the discovery of the         *)
(* instances that the user may use, and the organizations of CKAN that     *)
(* every request about a campaign is checked against.                      *)
(*                                                                         *)
(* A call reads the role first, asks TAS then, and last looks for the      *)
(* user's record and writes it, in a session of its own: calls and         *)
(* administrators interleave between these steps. A token is signed with   *)
(* the role of its sign-in and is good for ever. Two memories of each      *)
(* process expire: the time of the last question to TAS after CheckTTL,    *)
(* and the organizations of the user's token TTL after they are kept, when *)
(* CKAN's answer may be MaxLag old. Ages stand for times.                  *)
(*                                                                         *)
(* Tapis is external: it says whether a password or a token is the user's. *)
(* So are TAS and CKAN. CKAN is configured, and the caller sends a token   *)
(* for it. APPROVEDADMIN, of ADMIN's rank, is left out. One process serves *)
(* the instance; of the others, which do not elevate, discovery sees only  *)
(* what they answer.                                                       *)
(***************************************************************************)
EXTENDS Naturals, FiniteSets

CONSTANTS
  Instance,     \* the instances of the program
  Primary,      \* the one with IS_PRIMARY_INSTANCE, which asks TAS
  Call,
  None,
  CheckTTL,     \* _TAS_CHECK_TTL_SECONDS, in ticks
  TTL,          \* _CACHE_TTL_SECONDS, in ticks
  MaxLag,       \* how long an answer of CKAN may take to arrive, in ticks
  MaxCalls,     \* bound: calls
  MaxEdits      \* bound: changes of the row, and of the membership, by administrators

ASSUME InstanceAssumption == Primary \in Instance
ASSUME NoneAssumption ==
  None \notin Instance \union Call \union {"NONE", "READ", "USER", "ADMIN", "gone"}
ASSUME BoundAssumption == {TTL, CheckTTL} \subseteq Nat \ {0} /\ {MaxLag, MaxCalls, MaxEdits} \subseteq Nat

Role == {"NONE", "READ", "USER", "ADMIN"}

ROLE_RANK == [NONE |-> 0, READ |-> 1, USER |-> 2, ADMIN |-> 3]

VARIABLES
  record,      \* the role in the user's row, or None
  default,     \* the role of a user without a row
  tokens,      \* the application's tokens that the user holds
  last_check,  \* the age of the entry in _last_tas_check; CheckTTL: none in force
  org_cache,   \* the age and content of the entry in _org_cache, or None: none in force
  member,      \* CKAN: whether the user is in an organization
  lag,         \* the time since CKAN gave the answer that is on its way; 0: there is none
  call,
  begun,       \* the number of calls that have begun
  edits,       \* the number of changes by administrators, here and in CKAN
  \* history
  since        \* the time since membership changed; at most Long

vars == <<record, default, tokens, last_check, org_cache, member, lag, call, begun, edits,
          since>>

Gone == "gone"  \* the row that a call found was deleted, and its id is not given again

Token == [role : Role,
          stale : BOOLEAN]               \* history: the user has, or had since, a higher role

Session == [op : {"login", "me", "discover", "read", "write"},
            pc : {"ask", "stamp", "check", "find", "persist", "sign", "keep",
                  "allocation", "serve", "done"},
            role : Role,                          \* the role it goes by
            found : Role \union {None, Gone},     \* the row that it is to change
            answers : [Instance -> Role \union {None}],
            todo : SUBSET Instance,               \* the instances yet to be asked
            allocations : BOOLEAN,                \* the list has the organization
            overtaken : BOOLEAN,                  \* history: the user has, or had, a higher role
            without : SUBSET Instance,            \* history: the instances of a discovery at
                                                  \* which the user had no role meanwhile
            failed : SUBSET Instance]             \* history: the instances that did not answer

\* How long a membership is counted: what the properties tell apart.
Long == TTL + MaxLag

TypeOK ==
  /\ record \in Role \union {None}
  /\ default \in {"NONE", "ADMIN"}
  /\ tokens \subseteq Token
  /\ last_check \in 0..CheckTTL
  /\ org_cache \in [age : 0..(TTL - 1), allocations : BOOLEAN] \union {None}
  /\ member \in BOOLEAN
  /\ lag \in 0..MaxLag
  /\ call \in [Call -> Session \union {None}]
  /\ begun \in 0..MaxCalls /\ edits \in 0..MaxEdits
  /\ since \in 0..Long

Init ==
  /\ record \in Role \union {None}
  /\ default \in {"NONE", "ADMIN"}
  /\ tokens = {}
  /\ last_check = CheckTTL
  /\ org_cache = None
  /\ member \in BOOLEAN
  /\ lag = 0
  /\ call = [c \in Call |-> None]
  /\ begun = 0 /\ edits = 0
  /\ since = Long

-----------------------------------------------------------------------------
(* Roles. *)

Running == {c \in Call : call[c] # None}

\* A row wins over DEFAULT_ADMIN_USERS and the default of the environment.
RoleOf(row) == IF row = None THEN default ELSE row

\* A row gives more than a role that was read before.
Beats(row, role) == ROLE_RANK[RoleOf(row)] > ROLE_RANK[role]

\* The user's role as it is read. When the database fails it is the default.
resolve_user_role ==
  {[role |-> role, stale |-> Beats(record, role)] : role \in {RoleOf(record), default}}

_role_allows(role, minimum) == ROLE_RANK[role] >= ROLE_RANK[minimum]

Blank(op, pc, role) ==
  [op |-> op, pc |-> pc, role |-> role, found |-> None,
   answers |-> [j \in Instance |-> None], todo |-> {}, allocations |-> FALSE,
   overtaken |-> FALSE, without |-> {}, failed |-> {}]

\* get_user_allocations asks CKAN without an await: until it has the answer
\* no other request is taken.
Free == \A c \in Running : call[c].pc # "keep"

Begin(c, session) ==
  /\ call[c] = None
  /\ Free
  /\ begun < MaxCalls
  /\ begun' = begun + 1
  /\ UNCHANGED edits
  /\ call' = [call EXCEPT ![c] = session]

At(c, pc) == c \in Running /\ call[c].pc = pc

Continue(c, session) ==
  /\ call' = [call EXCEPT ![c] = session]
  /\ UNCHANGED <<begun, edits>>

Roles == <<record, default, tokens>>
Organizations == <<org_cache, member, lag, since>>

\* The row is written: other calls and the tokens go by a role that was true
\* before.
Marked(s, row) ==
  [s EXCEPT !.overtaken = @ \/ Beats(row, s.role),
     !.without = IF s.op = "discover" /\ RoleOf(row) = "NONE" THEN @ \union {Primary} ELSE @,
     !.found = IF row = None /\ @ \in Role THEN Gone ELSE @]

\* The calls that go by a role.
Way == {"stamp", "check", "find", "persist", "sign"}

WriteRow(row, calls) ==
  /\ record' = row
  /\ call' = [d \in Call |->
               IF calls[d] # None /\ calls[d].pc \in Way
               THEN Marked(calls[d], row) ELSE calls[d]]
  /\ tokens' = {[t EXCEPT !.stale = @ \/ Beats(row, t.role)] : t \in tokens}
  /\ UNCHANGED begun

\* What an answered call still holds; nothing depends on the answers to a
\* sign-in and to /me.
Done(session) ==
  [session EXCEPT !.pc = "done", !.role = "NONE", !.found = None, !.overtaken = FALSE]

\* A call has its role: a sign-in goes on to its token, a question to the
\* instance is answered, and a discovery lists the instance or not.
Answered(session, role) ==
  CASE session.op = "login"    -> [session EXCEPT !.pc = "sign", !.role = role]
    [] session.op = "me"       -> Done(session)
    [] session.op = "discover" ->
         [Done(session) EXCEPT !.pc = "ask",
            !.answers[Primary] = IF _role_allows(role, "READ") THEN role ELSE None]

\* A variant of NeedsCheck: whatever the role is.
NeedsCheckAlways(role) == TRUE

\* elevate_role_for_tas_allocation goes to TAS only for a role below USER.
NeedsCheck(role) == ~_role_allows(role, "USER")

Elevate(session) ==
  IF NeedsCheck(session.role) THEN [session EXCEPT !.pc = "check"]
  ELSE Answered(session, session.role)

\* TAS answers, or fails: without the allocation the role is what it was.
elevate_role_for_tas_allocation(c) ==
  /\ At(c, "check")
  /\ \E has_allocation \in BOOLEAN :
       Continue(c, IF has_allocation THEN [call[c] EXCEPT !.pc = "find"]
                   ELSE Answered(call[c], call[c].role))
  /\ UNCHANGED <<Roles, last_check, Organizations>>

\* upsert_role looks for the row ...
get_by_username(c) ==
  /\ At(c, "find")
  /\ Continue(c, [call[c] EXCEPT !.pc = "persist", !.found = record])
  /\ UNCHANGED <<Roles, last_check, Organizations>>

\* ... and inserts it, or updates the row that it found.
upsert_role(c) ==
  LET elevated == Answered([call[c] EXCEPT !.found = None], "USER")
  IN  /\ At(c, "persist")
      /\ \/ /\ call[c].found = None /\ record = None
            /\ WriteRow("USER", [call EXCEPT ![c] = elevated])
            /\ UNCHANGED edits
         \/ /\ call[c].found = "USER"               \* nothing to write
            /\ Continue(c, elevated)
            /\ UNCHANGED <<record, tokens>>
         \/ /\ call[c].found \in Role \ {"USER"}
            /\ WriteRow("USER", [call EXCEPT ![c] = elevated])
            /\ UNCHANGED edits
      /\ UNCHANGED <<default, last_check, Organizations>>

\* The elevation fails safe.
RoleAfterFailure(c) == call[c].role

\* Somebody inserted the row, or deleted the one that was found, or the
\* database fails.
UpsertFails(c) ==
  /\ At(c, "persist")
  /\ Continue(c, Answered(call[c], RoleAfterFailure(c)))
  /\ UNCHANGED <<Roles, last_check, Organizations>>

\* PUT and DELETE /user-roles/{username}, by an administrator.
\* What comes between the two statements of the first is
\* overwritten, or makes it fail.
Edit(row) ==
  /\ edits < MaxEdits
  /\ edits' = edits + 1
  /\ WriteRow(row, call)
  /\ UNCHANGED <<default, last_check, Organizations>>

upsert_user_role == \E role \in Role \ {record} : Edit(role)

delete_user_role == record # None /\ Edit(None)

-----------------------------------------------------------------------------
(* Sign-in, and who the caller of a request is. *)

\* POST /token: Tapis took the password, and the role is resolved.
login(c) ==
  /\ \E user \in resolve_user_role :
       Begin(c, Elevate([Blank("login", "check", user.role) EXCEPT !.overtaken = user.stale]))
  /\ UNCHANGED <<Roles, last_check, Organizations>>

\* Membership in CKAN's organization is granted when it can be, and the
\* token is signed.
create_token(c) ==
  LET s == call[c]
  IN  /\ At(c, "sign")
      /\ tokens' = tokens \union {[role |-> s.role, stale |-> s.overtaken]}
      /\ Continue(c, Done(s))
      /\ \/ UNCHANGED <<member, since>>
         \/ /\ _role_allows(s.role, "USER")     \* ensure_ckan_membership
            /\ ~member
            /\ member' = TRUE /\ since' = 0
      /\ UNCHANGED <<record, default, last_check, org_cache, lag>>

\* get_current_user: the role of one of the application's tokens, or, with a
\* token of Tapis, the role that there is now.
Caller == resolve_user_role \union tokens

\* GET /user-roles/me: the role is read, and TAS is not asked again within
\* CheckTTL.
Lookup(session, user) ==
  LET s == [session EXCEPT !.role = user.role, !.overtaken = user.stale,
              !.without = IF session.op = "discover" /\ "NONE" \in {user.role, RoleOf(record)}
                          THEN @ \union {Primary} ELSE @]
  IN  IF last_check < CheckTTL THEN Answered(s, user.role) ELSE [s EXCEPT !.pc = "stamp"]

get_my_role(c) ==
  /\ \E user \in Caller : Begin(c, Lookup(Blank("me", "stamp", user.role), user))
  /\ UNCHANGED <<Roles, last_check, Organizations>>

\* The time is set before TAS is asked; calls on other threads may have
\* looked for it by then.
Stamp(c) ==
  /\ At(c, "stamp")
  /\ last_check' = 0
  /\ Continue(c, Elevate(call[c]))
  /\ UNCHANGED <<Roles, Organizations>>

-----------------------------------------------------------------------------
(* Discovery: every instance is asked with the caller's own token.         *)

discover_project_instances(c) ==
  /\ Begin(c, [Blank("discover", "ask", "NONE") EXCEPT !.todo = Instance])
  /\ UNCHANGED <<Roles, last_check, Organizations>>

\* The primary instance is asked who the caller is, as in get_my_role. It
\* answers when it can take the request.
AskPrimary(c) ==
  /\ At(c, "ask")
  /\ Primary \in call[c].todo
  /\ Free
  /\ \E user \in Caller :
       Continue(c, Lookup([call[c] EXCEPT !.todo = @ \ {Primary}], user))
  /\ UNCHANGED <<Roles, last_check, Organizations>>

\* The others answer with a role of their own: no role, or one that is listed.
AskOther(c) ==
  /\ At(c, "ask")
  /\ \E i \in call[c].todo \ {Primary}, role \in {"NONE", "READ"} :
       Continue(c, [call[c] EXCEPT !.todo = @ \ {i},
         !.answers[i] = IF role = "NONE" THEN None ELSE role,
         !.without = IF role = "NONE" THEN @ \union {i} ELSE @])
  /\ UNCHANGED <<Roles, last_check, Organizations>>

\* A variant of Skipped: the discovery ends there.
SkippedAll(session, i) ==
  [session EXCEPT !.pc = "done", !.failed = @ \union {i}, !.todo = {}]

\* An instance that refuses or does not answer is skipped.
Skipped(session, i) ==
  [session EXCEPT !.pc = "ask", !.failed = @ \union {i}, !.todo = @ \ {i}]

InstanceFails(c) ==
  /\ At(c, "ask")
  /\ \E i \in call[c].todo : Continue(c, Skipped(call[c], i))
  /\ UNCHANGED <<Roles, last_check, Organizations>>

Discovered(c) ==
  /\ At(c, "ask")
  /\ call[c].todo = {}
  /\ Continue(c, [call[c] EXCEPT !.pc = "done"])
  /\ UNCHANGED <<Roles, last_check, Organizations>>

-----------------------------------------------------------------------------
(* Requests about a campaign. *)

\* A variant of Remember: a failure is remembered as no organization.
RememberFailure(answered, listed) == org_cache' = [age |-> 0, allocations |-> answered /\ listed]

Remember(answered, listed) ==
  org_cache' = IF answered THEN [age |-> 0, allocations |-> listed] ELSE None

\* get_user_allocations and its optional variant: the organizations, from the
\* memory or from CKAN. When CKAN fails a read goes on without restrictions,
\* and a write is refused.
_fetch_user_organizations(c, session) ==
  \/ /\ org_cache # None
     /\ Begin(c, [session EXCEPT !.pc = "allocation", !.allocations = org_cache.allocations])
     /\ UNCHANGED org_cache
  \/ /\ org_cache = None
     /\ Begin(c, [session EXCEPT !.pc = "keep", !.allocations = member])
     /\ UNCHANGED org_cache
  \/ /\ org_cache = None
     /\ session.op = "read"
     /\ Remember(FALSE, member)
     /\ Begin(c, [session EXCEPT !.pc = "allocation"])
  \/ /\ org_cache = None                       \* 502
     /\ session.op = "write"
     /\ Remember(FALSE, member)
     /\ Begin(c, [session EXCEPT !.pc = "done"])

get_user_allocations(c) ==
  \E op \in {"read", "write"}, user \in Caller :
    /\ _role_allows(user.role, IF op = "read" THEN "READ" ELSE "USER")
    /\ _fetch_user_organizations(c, Blank(op, "keep", "NONE"))
    /\ UNCHANGED <<Roles, last_check, member, lag, since>>

\* CKAN's answer has arrived, and is kept from now on.
CacheOrganizations(c) ==
  /\ At(c, "keep")
  /\ Remember(TRUE, call[c].allocations)
  /\ lag' = 0
  /\ Continue(c, [call[c] EXCEPT !.pc = "allocation"])
  /\ UNCHANGED <<Roles, last_check, member, since>>

\* No organization is no restriction; else the campaign's has to be one of them.
check_allocation_permission(c) ==
  /\ At(c, "allocation")
  /\ \E owner \in BOOLEAN :           \* whether the campaign is that organization's
       Continue(c, [call[c] EXCEPT !.pc = IF call[c].allocations => owner
                                          THEN "serve" ELSE "done"])
  /\ UNCHANGED <<Roles, last_check, Organizations>>

-----------------------------------------------------------------------------
(* The rest. *)

Return(c) ==
  /\ At(c, "done") \/ At(c, "serve")
  /\ Continue(c, None)
  /\ UNCHANGED <<Roles, last_check, Organizations>>

Older(age, most) == IF age < most THEN age + 1 ELSE most

Tick ==
  /\ last_check' = Older(last_check, CheckTTL)
  /\ org_cache' = IF org_cache = None \/ org_cache.age + 1 = TTL THEN None
                  ELSE [org_cache EXCEPT !.age = @ + 1]
  /\ \/ Free /\ UNCHANGED lag
     \/ ~Free /\ lag < MaxLag /\ lag' = lag + 1
  /\ since' = Older(since, Long)
  /\ UNCHANGED <<Roles, member, call, begun, edits>>

\* In CKAN.
MembershipChanges ==
  /\ edits < MaxEdits
  /\ edits' = edits + 1
  /\ member' = ~member
  /\ since' = 0
  /\ UNCHANGED <<Roles, last_check, org_cache, lag, call, begun>>

Next ==
  \/ \E c \in Call :
       \/ login(c) \/ get_my_role(c) \/ discover_project_instances(c)
       \/ get_user_allocations(c) \/ CacheOrganizations(c) \/ Stamp(c)
       \/ elevate_role_for_tas_allocation(c) \/ get_by_username(c)
       \/ upsert_role(c) \/ UpsertFails(c)
       \/ create_token(c) \/ AskPrimary(c) \/ AskOther(c) \/ InstanceFails(c) \/ Discovered(c)
       \/ check_allocation_permission(c) \/ Return(c)
  \/ upsert_user_role \/ delete_user_role
  \/ Tick \/ MembershipChanges

Spec == Init /\ [][Next]_vars

-----------------------------------------------------------------------------
(* Properties. *)

\* An elevation never lowers the user's role, unless the user was given a
\* higher one after the role that it goes by was read, for the call or for
\* its token, or that role could not be read.
NeverDowngrades ==
  [][\A c \in Running :
       (At(c, "persist") /\ call'[c].pc # "persist" /\ ~call[c].overtaken)
       => ROLE_RANK[RoleOf(record')] >= ROLE_RANK[RoleOf(record)]]_vars

\* A discovery that is done lists every instance that answered and at which
\* the user had a role of READ or more all the time it was asked.
DiscoveryIsWhole ==
  \A c \in Running, i \in Instance :
    (call[c].op = "discover" /\ call[c].pc = "done")
    => \/ call[c].answers[i] # None
       \/ i \in call[c].failed \union call[c].without

\* The organizations that a write goes by were the user's less than TTL, and
\* the time that CKAN's answer took, ago, whatever CKAN did meanwhile.
ListsAreRecent ==
  [][\A c \in Call :
       /\ call[c] = None \/ At(c, "keep")
       /\ call'[c] # None /\ call'[c].op = "write" /\ call'[c].pc = "allocation"
       => call'[c].allocations = member \/ since < Long]_vars

=============================================================================
