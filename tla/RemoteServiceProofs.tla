------------------------ MODULE RemoteServiceProofs ------------------------
(***************************************************************************)
(* Theorems about the two components that work against TAS and CKAN, one   *)
(* call at a time: Access, for any number of instances, calls, edits by    *)
(* administrators, and lifetimes of the memories; and Publication, for any *)
(* sensors, requests, tasks, retries, unanswered calls and restarts.       *)
(***************************************************************************)
EXTENDS Access, Publication, SequenceTheorems, TLAPS

Asking == {"stamp", "check", "find", "persist"}

\* An instance that a discovery has asked answered, or need not be listed.
Heard(s, i) == s.answers[i] # None \/ i \in s.failed \/ i \in s.without

\* What a call's session looks like, whatever the row is.
Shape(s) ==
  /\ s \in Session
  /\ s.pc \in Asking \union {"sign"} => s.op \in {"login", "me", "discover"}
  /\ s.pc = "ask" => s.op = "discover"
  /\ s.op = "discover" => s.pc \in Asking \union {"ask", "done"}
  /\ s.op = "discover" /\ s.pc = "done" => s.todo = {}
  /\ s.pc \in Asking \ {"stamp"} => s.role \in {"NONE", "READ"}
  /\ s.op = "discover" /\ s.pc \in Asking /\ s.role = "NONE" => Primary \in s.without
  /\ s.op = "discover" =>
       \A i \in Instance \ s.todo : Heard(s, i) \/ (i = Primary /\ s.pc \in Asking)

\* The row gives no more than its role, unless it is known to be overtaken.
Current(s) == s.pc \in Asking \union {"sign"} /\ ~s.overtaken => ~Beats(record, s.role)

AccessInv ==
  /\ TypeOK
  /\ \A c \in Running : Shape(call[c]) /\ Current(call[c])
  /\ \A t \in tokens : ~t.stale => ~Beats(record, t.role)

LEMMA RunningType ==
  ASSUME TypeOK, NEW c \in Running
  PROVE  c \in Call /\ call[c] \in Session
BY DEF Running, TypeOK

LEMMA RoleOfType ==
  ASSUME TypeOK
  PROVE  RoleOf(record) \in Role
BY DEF TypeOK, RoleOf, Role

LEMMA BeatsMeans ==
  ASSUME TypeOK, NEW row \in Role \union {None}, NEW role \in Role
  PROVE  Beats(row, role) \in BOOLEAN /\ ~Beats(row, RoleOf(row)) /\ ~Beats(None, default)
<1>1. default \in Role /\ RoleOf(row) \in Role /\ RoleOf(None) = default
  BY DEF TypeOK, RoleOf, Role
<1>2. \A r \in Role : ROLE_RANK[r] \in Nat
  BY DEF ROLE_RANK, Role
<1> QED
  BY <1>1, <1>2 DEF Beats

LEMMA CallerType ==
  ASSUME AccessInv, NEW user \in Caller
  PROVE  user \in Token /\ (~user.stale => ~Beats(record, user.role))
<1>1. ASSUME NEW u \in resolve_user_role
      PROVE  u \in Token /\ (~u.stale => ~Beats(record, u.role))
  <2>1. PICK role \in {RoleOf(record), default} :
          u = [role |-> role, stale |-> Beats(record, role)]
    BY <1>1 DEF resolve_user_role
  <2>2. role \in Role
    BY <2>1, RoleOfType DEF AccessInv, TypeOK, Role
  <2>3. Beats(record, role) \in BOOLEAN
    BY <2>2, BeatsMeans DEF AccessInv, TypeOK
  <2> QED
    BY <2>1, <2>2, <2>3 DEF Token
<1> QED
  BY <1>1 DEF Caller, AccessInv, TypeOK

LEMMA NeedsCheckMeans ==
  ASSUME NEW role \in Role
  PROVE  /\ NeedsCheck(role) <=> role \in {"NONE", "READ"}
         /\ _role_allows(role, "READ") <=> role # "NONE"
BY DEF NeedsCheck, _role_allows, ROLE_RANK, Role

\* A row that does not beat a role does not beat a higher one.
LEMMA UserBeats ==
  ASSUME TypeOK, NEW role \in {"NONE", "READ"}, ~Beats(record, role)
  PROVE  ~Beats(record, "USER")
<1>1. ROLE_RANK[role] < 2 /\ ROLE_RANK["USER"] = 2 /\ ROLE_RANK[role] \in Nat
  BY DEF ROLE_RANK, Role
<1>2. ROLE_RANK[RoleOf(record)] \in Nat
  BY RoleOfType DEF ROLE_RANK, Role
<1> QED
  BY <1>1, <1>2 DEF Beats

-----------------------------------------------------------------------------
(* Sessions. *)

LEMMA BlankType ==
  ASSUME NEW op \in {"login", "me", "discover", "read", "write"},
         NEW pc \in Asking \union {"ask", "sign", "keep", "allocation", "serve", "done"},
         NEW role \in Role
  PROVE  /\ Blank(op, pc, role) \in Session
         /\ Blank(op, pc, role).op = op
         /\ Blank(op, pc, role).pc = pc
         /\ Blank(op, pc, role).role = role
         /\ Blank(op, pc, role).todo = {}
<1>1. [j \in Instance |-> None] \in [Instance -> Role \union {None}]
  OBVIOUS
<1> QED
  BY <1>1 DEF Blank, Session, Asking

\* A session that is about to get its answer.
Base(s) ==
  /\ s \in Session
  /\ s.op \in {"login", "me", "discover"}
  /\ s.op = "discover" =>
       \A i \in (Instance \ s.todo) \ {Primary} : Heard(s, i)

LEMMA DoneType ==
  ASSUME NEW s \in Session
  PROVE  /\ Done(s) \in Session
         /\ Done(s).op = s.op /\ Done(s).pc = "done" /\ Done(s).answers = s.answers
         /\ Done(s).todo = s.todo /\ Done(s).failed = s.failed
         /\ Done(s).without = s.without
BY DEF Done, Session, Role

LEMMA AnsweredShape ==
  ASSUME NEW s, Base(s), NEW role \in Role,
         s.op = "discover" /\ role = "NONE" => Primary \in s.without
  PROVE  Shape(Answered(s, role))
<1> DEFINE new == Answered(s, role)
<1>s. s \in Session
  BY DEF Base
<1>1. CASE s.op = "login"
  <2>1. new = [s EXCEPT !.pc = "sign", !.role = role]
    BY <1>1 DEF Answered
  <2>2. /\ new \in Session /\ new.op = "login" /\ new.pc = "sign"
    BY <1>1, <1>s, <2>1 DEF Session
  <2> HIDE DEF new
  <2>3. Shape(new)
    BY <2>2 DEF Shape, Asking
  <2> QED
    BY <2>3 DEF new
<1>2. CASE s.op = "me"
  <2>1. new = Done(s)
    BY <1>2 DEF Answered
  <2>2. /\ new \in Session /\ new.op = "me" /\ new.pc = "done"
    BY <1>2, <1>s, <2>1, DoneType
  <2> HIDE DEF new
  <2>3. Shape(new)
    BY <2>2 DEF Shape, Asking
  <2> QED
    BY <2>3 DEF new
<1>3. CASE s.op = "discover"
  <2> DEFINE a == IF _role_allows(role, "READ") THEN role ELSE None
             old == Done(s)
  <2>1. new = [old EXCEPT !.pc = "ask", !.answers[Primary] = a]
    BY <1>3 DEF Answered
  <2>2. /\ old \in Session /\ old.op = "discover" /\ old.answers = s.answers
        /\ old.todo = s.todo /\ old.failed = s.failed /\ old.without = s.without
    BY <1>3, <1>s, DoneType
  <2>3. a \in Role \union {None} /\ (a = None => Primary \in s.without)
    BY <1>3, NeedsCheckMeans, NoneAssumption DEF Role
  <2> HIDE DEF a, old
  <2>4. [old.answers EXCEPT ![Primary] = a] \in [Instance -> Role \union {None}]
    BY <2>2, <2>3 DEF Session
  <2>5. /\ new \in Session /\ new.op = "discover" /\ new.pc = "ask"
        /\ new.answers = [s.answers EXCEPT ![Primary] = a]
        /\ new.todo = s.todo /\ new.failed = s.failed /\ new.without = s.without
    BY <2>1, <2>2, <2>4 DEF Session
  <2>6. s.answers \in [Instance -> Role \union {None}]
    BY <1>s DEF Session
  <2> HIDE DEF new
  <2>7. ASSUME NEW i \in Instance \ new.todo
        PROVE  Heard(new, i)
    <3>1. CASE i = Primary
      <4>1. new.answers[Primary] = a
        BY <2>5, <2>6, InstanceAssumption
      <4> QED
        BY <2>3, <2>5, <3>1, <4>1 DEF Heard
    <3>2. CASE i # Primary
      <4>1. Heard(s, i)
        BY <1>3, <2>5, <3>2 DEF Base
      <4>2. new.answers[i] = s.answers[i]
        BY <2>5, <2>6, <3>2
      <4> QED
        BY <2>5, <4>1, <4>2 DEF Heard
    <3> QED
      BY <3>1, <3>2
  <2>8. Shape(new)
    BY <2>5, <2>7 DEF Shape, Asking
  <2> QED
    BY <2>8 DEF new
<1> QED
  BY <1>1, <1>2, <1>3 DEF Base

LEMMA AnsweredCurrent ==
  ASSUME NEW s, Base(s), NEW role \in Role, s.overtaken \/ ~Beats(record, role)
  PROVE  Current(Answered(s, role))
<1> DEFINE new == Answered(s, role)
<1>s. s \in Session
  BY DEF Base
<1>1. CASE s.op = "login"
  <2>1. new.pc = "sign" /\ new.role = role /\ new.overtaken = s.overtaken
    BY <1>1, <1>s DEF Answered, Session
  <2> HIDE DEF new
  <2>2. Current(new)
    BY <2>1 DEF Current
  <2> QED
    BY <2>2 DEF new
<1>2. CASE s.op \in {"me", "discover"}
  <2>1. new.pc \in {"ask", "done"}
    BY <1>2, <1>s, DoneType DEF Answered, Session
  <2> HIDE DEF new
  <2>2. Current(new)
    BY <2>1 DEF Current, Asking
  <2> QED
    BY <2>2 DEF new
<1> QED
  BY <1>1, <1>2 DEF Base

\* Sent on to a question, or answered at once, with the role that it has.
LEMMA ToAsking ==
  ASSUME NEW s, Base(s), NEW pc \in Asking, pc # "stamp" => s.role \in {"NONE", "READ"},
         s.op = "discover" /\ s.role = "NONE" => Primary \in s.without,
         s.overtaken \/ ~Beats(record, s.role)
  PROVE  Shape([s EXCEPT !.pc = pc]) /\ Current([s EXCEPT !.pc = pc])
<1>s. s \in Session /\ s.role \in Role
  BY DEF Base, Session
<1> DEFINE new == [s EXCEPT !.pc = pc]
<1>1. /\ new \in Session /\ new.op = s.op /\ new.pc = pc /\ new.role = s.role
      /\ new.without = s.without /\ new.answers = s.answers /\ new.todo = s.todo
      /\ new.failed = s.failed /\ new.overtaken = s.overtaken
  BY <1>s DEF Session, Asking
<1> HIDE DEF new
<1>2. new.op = "discover" =>
        \A i \in Instance \ new.todo : Heard(new, i) \/ (i = Primary /\ new.pc \in Asking)
  BY <1>1 DEF Base, Heard
<1>3. Shape(new)
  BY <1>s, <1>1, <1>2 DEF Shape, Base, Asking
<1>4. Current(new)
  BY <1>1 DEF Current
<1> QED
  BY <1>3, <1>4 DEF new

LEMMA ElevateShape ==
  ASSUME NEW s, Base(s), s.op = "discover" /\ s.role = "NONE" => Primary \in s.without,
         s.overtaken \/ ~Beats(record, s.role)
  PROVE  Shape(Elevate(s)) /\ Current(Elevate(s))
<1>s. s \in Session /\ s.role \in Role
  BY DEF Base, Session
<1>1. CASE NeedsCheck(s.role)
  BY <1>s, <1>1, ToAsking, NeedsCheckMeans DEF Elevate, Asking
<1>2. CASE ~NeedsCheck(s.role)
  BY <1>2, <1>s, AnsweredShape, AnsweredCurrent DEF Elevate
<1> QED
  BY <1>1, <1>2

LEMMA LookupShape ==
  ASSUME AccessInv, NEW old, Base(old), NEW user \in Caller
  PROVE  Shape(Lookup(old, user)) /\ Current(Lookup(old, user))
<1> DEFINE w == IF old.op = "discover" /\ "NONE" \in {user.role, RoleOf(record)}
                THEN old.without \union {Primary} ELSE old.without
           s == [old EXCEPT !.role = user.role, !.overtaken = user.stale, !.without = w]
<1>1. user.role \in Role /\ user.stale \in BOOLEAN /\ (~user.stale => ~Beats(record, user.role))
  BY CallerType DEF Token
<1>2. old \in Session /\ w \in SUBSET Instance /\ old.without \subseteq w
  BY InstanceAssumption DEF Base, Session
<1>3. old.op = "discover" /\ user.role = "NONE" => Primary \in w
  OBVIOUS
<1>4. Lookup(old, user) = IF last_check < CheckTTL THEN Answered(s, user.role)
                          ELSE [s EXCEPT !.pc = "stamp"]
  BY DEF Lookup
<1> HIDE DEF w
<1>5. /\ s \in Session /\ s.op = old.op /\ s.role = user.role /\ s.overtaken = user.stale
      /\ s.without = w /\ s.answers = old.answers
      /\ s.todo = old.todo /\ s.failed = old.failed
  BY <1>1, <1>2 DEF Session
<1> HIDE DEF s
<1>6. Base(s)
  BY <1>2, <1>5 DEF Base, Heard
<1>7. LET new == [s EXCEPT !.pc = "stamp"] IN Shape(new) /\ Current(new)
  BY <1>1, <1>3, <1>5, <1>6, ToAsking DEF Asking
<1>8. Shape(Answered(s, user.role)) /\ Current(Answered(s, user.role))
  BY <1>1, <1>3, <1>5, <1>6, AnsweredShape, AnsweredCurrent
<1> QED
  BY <1>4, <1>7, <1>8

-----------------------------------------------------------------------------
(* Steps. *)

\* The memories, the counters and the default do not enter the invariant.
RestTypes ==
  /\ default \in {"NONE", "ADMIN"}
  /\ last_check \in 0..CheckTTL
  /\ org_cache \in [age : 0..(TTL - 1), allocations : BOOLEAN] \union {None}
  /\ member \in BOOLEAN
  /\ lag \in 0..MaxLag
  /\ begun \in 0..MaxCalls /\ edits \in 0..MaxEdits
  /\ since \in 0..Long

\* A step of one call that leaves the row.
LEMMA CallStep ==
  ASSUME AccessInv, NEW c \in Call, NEW s,
         s = None \/ (Shape(s) /\ Current(s)),
         call' = [call EXCEPT ![c] = s], UNCHANGED <<record, default>>, RestTypes',
         tokens' \subseteq Token, \A t \in tokens' : ~t.stale => ~Beats(record, t.role)
  PROVE  AccessInv'
<1>1. call' \in [Call -> Session \union {None}]
  BY DEF AccessInv, TypeOK, Shape
<1>2. ASSUME NEW d \in Running' PROVE Shape(call'[d]) /\ Current(call'[d])
  <2>1. d \in Call /\ call'[d] # None
    BY <1>2 DEF Running
  <2>2. CASE d = c
    BY <2>1, <2>2 DEF AccessInv, TypeOK
  <2>3. CASE d # c
    BY <2>1, <2>3 DEF AccessInv, TypeOK, Running
  <2> QED
    BY <2>2, <2>3
<1>3. \A d \in Running' : (Shape(call[d]) /\ Current(call[d]))'
  BY <1>2 DEF Shape, Heard, Current, Beats, RoleOf
<1>4. TypeOK'
  BY <1>1 DEF AccessInv, TypeOK, RestTypes
<1>5. \A t \in tokens' : ~t.stale => ~Beats(record, t.role)'
  BY DEF Beats, RoleOf
<1> QED
  BY <1>3, <1>4, <1>5 DEF AccessInv

\* A step that leaves the calls, the row and the tokens.
LEMMA QuietStep ==
  ASSUME AccessInv, UNCHANGED <<record, default, tokens, call>>, RestTypes'
  PROVE  AccessInv'
<1>1. Running' = Running
  BY DEF Running
<1>2. TypeOK'
  BY DEF AccessInv, TypeOK, RestTypes
<1> QED
  BY <1>1, <1>2 DEF AccessInv, Shape, Heard, Current, Beats, RoleOf

LEMMA ContinueStep ==
  ASSUME AccessInv, NEW c \in Call, NEW s, s = None \/ (Shape(s) /\ Current(s)),
         Continue(c, s), UNCHANGED Roles, RestTypes'
  PROVE  AccessInv'
BY CallStep DEF Continue, Roles, AccessInv, TypeOK

LEMMA BeginStep ==
  ASSUME AccessInv, NEW c \in Call, NEW s, Shape(s) /\ Current(s),
         Begin(c, s), UNCHANGED Roles, RestTypes'
  PROVE  AccessInv'
BY CallStep DEF Begin, Roles, AccessInv, TypeOK

LEMMA BeginCounts ==
  ASSUME TypeOK, NEW c, NEW s, Begin(c, s)
  PROVE  begun' \in 0..MaxCalls /\ edits' \in 0..MaxEdits
BY BoundAssumption DEF Begin, TypeOK

LEMMA ContinueCounts ==
  ASSUME TypeOK, NEW c, NEW s, Continue(c, s)
  PROVE  begun' \in 0..MaxCalls /\ edits' \in 0..MaxEdits
BY DEF Continue, TypeOK

\* A session that forgets its row, as it is about to be answered.
LEMMA ForgetFound ==
  ASSUME NEW s \in Session
  PROVE  /\ [s EXCEPT !.found = None] \in Session
         /\ [s EXCEPT !.found = None].op = s.op
         /\ [s EXCEPT !.found = None].todo = s.todo
         /\ [s EXCEPT !.found = None].answers = s.answers
         /\ [s EXCEPT !.found = None].failed = s.failed
         /\ [s EXCEPT !.found = None].without = s.without
         /\ [s EXCEPT !.found = None].overtaken = s.overtaken
BY DEF Session

LEMMA AskingIsBase ==
  ASSUME NEW s, Shape(s), s.pc \in Asking
  PROVE  /\ Base(s) /\ s.role \in Role
         /\ s.op = "discover" /\ s.role = "NONE" => Primary \in s.without
BY DEF Shape, Base, Asking, Session

\* The row is written: every call on its way is marked.
LEMMA MarkedShape ==
  ASSUME TypeOK, NEW s, Shape(s), NEW row \in Role \union {None}
  PROVE  /\ Shape(Marked(s, row)) /\ Marked(s, row).pc = s.pc
         /\ Marked(s, row).overtaken \/ ~Beats(row, Marked(s, row).role)
<1> DEFINE f == IF row = None /\ s.found \in Role THEN Gone ELSE s.found
           w == IF s.op = "discover" /\ RoleOf(row) = "NONE" THEN s.without \union {Primary}
                ELSE s.without
           o == s.overtaken \/ Beats(row, s.role)
           new == [s EXCEPT !.overtaken = o, !.without = w, !.found = f]
<1>1. s \in Session /\ s.role \in Role
  BY DEF Shape, Session
<1>2. f \in Role \union {None, Gone}
  BY <1>1 DEF Session
<1>3. w \in SUBSET Instance /\ s.without \subseteq w
  BY <1>1, InstanceAssumption DEF Session
<1>4. o \in BOOLEAN
  BY <1>1, BeatsMeans DEF Session
<1>5. Marked(s, row) = new
  BY DEF Marked
<1>6. o \/ ~Beats(row, s.role)
  OBVIOUS
<1> HIDE DEF f, w, o
<1>7. /\ new \in Session /\ new.op = s.op /\ new.pc = s.pc /\ new.role = s.role
      /\ new.without = w /\ new.answers = s.answers /\ new.todo = s.todo
      /\ new.failed = s.failed /\ new.overtaken = o
  BY <1>1, <1>2, <1>3, <1>4 DEF Session
<1> HIDE DEF new
<1>8. Shape(new)
  BY <1>3, <1>7 DEF Shape, Heard
<1> QED
  BY <1>5, <1>6, <1>7, <1>8

\* The calls as they are before the marks: sound, but for their roles.
LEMMA WriteStep ==
  ASSUME AccessInv, NEW row \in Role \union {None}, NEW calls, WriteRow(row, calls),
         calls \in [Call -> Session \union {None}],
         \A d \in Call : calls[d] # None => Shape(calls[d]),
         UNCHANGED <<default, last_check, org_cache, member, lag, since>>,
         edits' \in 0..MaxEdits
  PROVE  AccessInv'
<1> DEFINE marked == {d \in Call : calls[d] # None /\ calls[d].pc \in Way}
<1>1. \A d \in Call : call'[d] = IF d \in marked THEN Marked(calls[d], row) ELSE calls[d]
  BY DEF WriteRow
<1>2. ASSUME NEW d \in marked
      PROVE  /\ Shape(Marked(calls[d], row)) /\ Marked(calls[d], row) \in Session
             /\ Marked(calls[d], row).overtaken \/ ~Beats(row, Marked(calls[d], row).role)
  BY ZenonT(60), MarkedShape DEF AccessInv, Shape
<1>3. call' \in [Call -> Session \union {None}]
  BY <1>1, <1>2 DEF WriteRow
<1>4. ASSUME NEW d \in Running'
      PROVE  /\ Shape(call'[d])
             /\ call'[d].pc \in Way => call'[d].overtaken \/ ~Beats(row, call'[d].role)
  <2>1. d \in Call /\ call'[d] # None
    BY DEF Running
  <2>2. CASE d \in marked
    BY <1>1, <1>2, <2>2
  <2>3. CASE d \notin marked
    BY <1>1, <2>1, <2>3
  <2> QED
    BY <2>2, <2>3
<1>r. record' = row /\ default' = default
  BY DEF WriteRow
<1>5. \A d \in Running' : (Shape(call[d]) /\ Current(call[d]))'
  BY <1>4, <1>r DEF Shape, Heard, Current, Beats, RoleOf, Asking, Way
<1>6. tokens' \subseteq Token /\ \A t \in tokens' : ~t.stale => ~Beats(row, t.role)
  <2> DEFINE New(t) == [t EXCEPT !.stale = @ \/ Beats(row, t.role)]
  <2>1. ASSUME NEW t \in tokens
        PROVE  New(t) \in Token /\ (~New(t).stale => ~Beats(row, New(t).role))
    <3>1. t \in Token /\ t.role \in Role /\ t.stale \in BOOLEAN
      BY DEF AccessInv, TypeOK, Token
    <3>2. Beats(row, t.role) \in BOOLEAN
      BY <3>1, BeatsMeans DEF AccessInv
    <3> QED
      BY <3>1, <3>2 DEF Token
  <2>2. tokens' = {New(t) : t \in tokens}
    BY DEF WriteRow
  <2> HIDE DEF New
  <2> QED
    BY <2>1, <2>2
<1>7. TypeOK'
  BY <1>3, <1>6 DEF AccessInv, TypeOK, WriteRow
<1>8. \A t \in tokens' : ~t.stale => ~Beats(record, t.role)'
  BY <1>6, <1>r DEF Beats, RoleOf
<1> QED
  BY <1>5, <1>7, <1>8 DEF AccessInv

-----------------------------------------------------------------------------
(***************************************************************************)
(* The invariant.                                                          *)
(***************************************************************************)
LEMMA InvInit == Init => AccessInv
<1> SUFFICES ASSUME Init PROVE AccessInv
  OBVIOUS
<1>1. Running = {} /\ tokens = {}
  BY DEF Init, Running
<1>2. TypeOK
  BY BoundAssumption DEF Init, TypeOK, Long
<1> QED
  BY <1>1, <1>2 DEF AccessInv

LEMMA RestKept ==
  ASSUME AccessInv, UNCHANGED <<default, last_check, org_cache, member, lag, since>>,
         begun' \in 0..MaxCalls, edits' \in 0..MaxEdits
  PROVE  RestTypes'
BY DEF AccessInv, TypeOK, RestTypes, Long

LEMMA ElevationStep ==
  ASSUME AccessInv, NEW c \in Call,
         \/ elevate_role_for_tas_allocation(c) \/ get_by_username(c) \/ UpsertFails(c)
  PROVE  AccessInv'
<1> DEFINE s == call[c]
<1>1. c \in Running /\ s \in Session /\ Shape(s) /\ Current(s) /\ s.pc \in Asking
  BY RunningType DEF elevate_role_for_tas_allocation, get_by_username, UpsertFails, At, AccessInv,
     Asking
<1>2. UNCHANGED <<Roles, last_check, Organizations>>
  BY DEF elevate_role_for_tas_allocation, get_by_username, UpsertFails
<1>3. /\ Base(s) /\ s.role \in Role
      /\ s.op = "discover" /\ s.role = "NONE" => Primary \in s.without
      /\ s.overtaken \/ ~Beats(record, s.role)
  BY <1>1, AskingIsBase DEF Current
<1>4. Shape(Answered(s, s.role)) /\ Current(Answered(s, s.role))
  BY <1>3, AnsweredShape, AnsweredCurrent
<1>5. ASSUME NEW new, Shape(new) /\ Current(new), Continue(c, new)
      PROVE  AccessInv'
  BY <1>2, <1>5, ContinueCounts, RestKept, ContinueStep DEF Roles, Organizations, AccessInv
<1>6. CASE elevate_role_for_tas_allocation(c)
  <2> DEFINE new == [s EXCEPT !.pc = "find"]
  <2>1. Continue(c, new) \/ Continue(c, Answered(s, s.role))
    BY <1>6 DEF elevate_role_for_tas_allocation
  <2>2. s.role \in {"NONE", "READ"}
    BY <1>1, <1>6 DEF Shape, elevate_role_for_tas_allocation, At, Asking
  <2>3. Shape(new) /\ Current(new)
    BY <1>3, <2>2, ToAsking DEF Asking
  <2> QED
    BY <1>4, <1>5, <2>1, <2>3
<1>7. CASE get_by_username(c)
  <2> DEFINE new == [s EXCEPT !.pc = "persist", !.found = record]
  <2>1. Continue(c, new)
    BY <1>7 DEF get_by_username
  <2>2. /\ new \in Session /\ new.op = s.op /\ new.pc = "persist" /\ new.role = s.role
        /\ new.without = s.without /\ new.answers = s.answers /\ new.todo = s.todo
        /\ new.failed = s.failed /\ new.overtaken = s.overtaken
    BY <1>1 DEF Session, AccessInv, TypeOK
  <2>r. s.role \in {"NONE", "READ"}
    BY <1>1, <1>7 DEF Shape, get_by_username, At, Asking
  <2> HIDE DEF new, s
  <2>3. Shape(new) /\ Current(new)
    BY <1>1, <2>2, <2>r DEF Shape, Heard, Current, Asking
  <2> QED
    BY <1>5, <2>1, <2>3
<1>8. CASE UpsertFails(c)
  BY <1>4, <1>5, <1>8 DEF UpsertFails, RoleAfterFailure
<1> QED
  BY <1>6, <1>7, <1>8

LEMMA UpsertStep ==
  ASSUME AccessInv, NEW c \in Call, upsert_role(c)
  PROVE  AccessInv'
<1> DEFINE s == call[c]
           f == [s EXCEPT !.found = None]
           elevated == Answered(f, "USER")
<1>1. c \in Running /\ s \in Session /\ Shape(s) /\ Current(s) /\ s.pc = "persist"
  BY RunningType DEF upsert_role, At, AccessInv
<1>2. Base(f)
  BY <1>1, ForgetFound, AskingIsBase DEF Base, Heard, Asking
<1>3. Shape(elevated)
  BY <1>2, AnsweredShape DEF Role
<1>4. /\ \/ WriteRow("USER", [call EXCEPT ![c] = elevated]) /\ UNCHANGED edits
         \/ /\ Continue(c, elevated)
            /\ UNCHANGED <<record, tokens>>
      /\ UNCHANGED <<default, last_check, Organizations>>
  BY DEF upsert_role
<1>5. elevated \in Session
  BY <1>3 DEF Shape
<1>6. CASE WriteRow("USER", [call EXCEPT ![c] = elevated]) /\ UNCHANGED edits
  <2> DEFINE calls == [call EXCEPT ![c] = elevated]
  <2> HIDE DEF elevated
  <2>1. calls \in [Call -> Session \union {None}]
    BY <1>5 DEF AccessInv, TypeOK
  <2>2. \A d \in Call : calls[d] # None => Shape(calls[d])
    BY <1>3 DEF AccessInv, TypeOK, Running
  <2>3. WriteRow("USER", calls) /\ edits' \in 0..MaxEdits
    BY <1>6 DEF AccessInv, TypeOK
  <2> HIDE DEF calls
  <2> QED
    BY <1>4, <2>1, <2>2, <2>3, WriteStep DEF Organizations, Role
<1>7. CASE Continue(c, elevated) /\ UNCHANGED <<record, tokens>>
  <2>1. s.role \in {"NONE", "READ"} /\ (s.overtaken \/ ~Beats(record, s.role))
    BY <1>1 DEF Shape, Current, Asking
  <2>2. s.overtaken \/ ~Beats(record, "USER")
    BY <2>1, UserBeats DEF AccessInv
  <2>3. f.overtaken \/ ~Beats(record, "USER")
    BY <1>1, <2>2, ForgetFound
  <2>4. Current(elevated)
    BY <1>2, <2>3, AnsweredCurrent DEF Role
  <2> HIDE DEF elevated
  <2> QED
    BY <1>3, <1>4, <1>7, <2>4, ContinueCounts, RestKept, ContinueStep
    DEF Roles, Organizations, AccessInv
<1> QED
  BY <1>4, <1>6, <1>7

LEMMA EditStep ==
  ASSUME AccessInv, upsert_user_role \/ delete_user_role
  PROVE  AccessInv'
<1>1. PICK row \in Role \union {None} :
        /\ edits < MaxEdits /\ edits' = edits + 1
        /\ WriteRow(row, call)
        /\ UNCHANGED <<default, last_check, Organizations>>
  BY DEF upsert_user_role, delete_user_role, Edit
<1>2. edits' \in 0..MaxEdits
  BY <1>1, BoundAssumption DEF AccessInv, TypeOK
<1>3. \A d \in Call : call[d] # None => Shape(call[d])
  BY DEF AccessInv, Running
<1>4. call \in [Call -> Session \union {None}]
  BY DEF AccessInv, TypeOK
<1> QED
  BY <1>1, <1>2, <1>3, <1>4, WriteStep DEF Organizations

LEMMA SignInStep ==
  ASSUME AccessInv, NEW c \in Call, login(c) \/ get_my_role(c) \/ discover_project_instances(c)
  PROVE  AccessInv'
<1>t. TypeOK
  BY DEF AccessInv
<1>1. CASE login(c)
  <2>1. PICK user \in resolve_user_role :
          Begin(c, Elevate([Blank("login", "check", user.role) EXCEPT !.overtaken = user.stale]))
    BY <1>1 DEF login
  <2>2. user \in Token /\ (~user.stale => ~Beats(record, user.role))
    BY CallerType DEF Caller
  <2>3. user.role \in Role /\ user.stale \in BOOLEAN
    BY <2>2 DEF Token
  <2> DEFINE old == Blank("login", "check", user.role)
             s == [old EXCEPT !.overtaken = user.stale]
  <2>4. old \in Session /\ old.op = "login" /\ old.role = user.role
    BY <2>3, BlankType DEF Asking
  <2>5. Begin(c, Elevate(s))
    BY <2>1
  <2> HIDE DEF old
  <2>6. /\ s \in Session /\ s.op = "login" /\ s.role = user.role
        /\ s.overtaken = user.stale
    BY <2>3, <2>4 DEF Session
  <2> HIDE DEF s
  <2>7. Shape(Elevate(s)) /\ Current(Elevate(s))
    BY <2>2, <2>4, <2>6, ElevateShape DEF Base
  <2> QED
    BY <1>1, <1>t, <2>5, <2>7, BeginCounts, RestKept, BeginStep DEF login, Roles, Organizations
<1>2. CASE get_my_role(c)
  <2>1. PICK user \in Caller :
          Begin(c, Lookup(Blank("me", "stamp", user.role), user))
    BY <1>2 DEF get_my_role
  <2>2. user.role \in Role
    BY <2>1, CallerType DEF Token
  <2> DEFINE s == Blank("me", "stamp", user.role)
  <2>3. Base(s)
    BY <2>2, BlankType DEF Asking, Base
  <2>4. Begin(c, Lookup(s, user))
    BY <2>1
  <2> HIDE DEF s
  <2>5. Shape(Lookup(s, user)) /\ Current(Lookup(s, user))
    BY <2>3, LookupShape
  <2> QED
    BY <1>2, <1>t, <2>4, <2>5, BeginCounts, RestKept, BeginStep
    DEF get_my_role, Roles, Organizations
<1>3. CASE discover_project_instances(c)
  <2> DEFINE old == Blank("discover", "ask", "NONE")
             s == [old EXCEPT !.todo = Instance]
  <2>1. old \in Session /\ old.op = "discover" /\ old.pc = "ask"
    BY BlankType DEF Asking, Role
  <2>2. Begin(c, s)
    BY <1>3 DEF discover_project_instances
  <2> HIDE DEF old
  <2>3. s \in Session /\ s.op = "discover" /\ s.pc = "ask" /\ s.todo = Instance
    BY <2>1 DEF Session
  <2> HIDE DEF s
  <2>4. Shape(s) /\ Current(s)
    BY <2>3 DEF Shape, Current, Asking
  <2> QED
    BY <1>3, <1>t, <2>2, <2>4, BeginCounts, RestKept, BeginStep
    DEF discover_project_instances, Roles, Organizations
<1> QED
  BY <1>1, <1>2, <1>3

LEMMA TokenStep ==
  ASSUME AccessInv, NEW c \in Call, create_token(c)
  PROVE  AccessInv'
<1> DEFINE s == call[c]
           old == Done(s)
           t == [role |-> s.role, stale |-> s.overtaken]
<1>t. TypeOK
  BY DEF AccessInv
<1>1. /\ c \in Running /\ s \in Session /\ Shape(s) /\ Current(s) /\ s.pc = "sign"
      /\ s.role \in Role /\ s.overtaken \in BOOLEAN
  BY RunningType DEF create_token, At, AccessInv, Session
<1>2. tokens' = tokens \union {t} /\ Continue(c, old) /\ UNCHANGED <<record, default>>
  BY DEF create_token
<1>3. s.op # "discover"
  BY <1>1 DEF Shape, Asking
<1>4. t \in Token /\ (~t.stale => ~Beats(record, t.role))
  BY <1>1 DEF Token, Current
<1>5. old \in Session /\ old.op = s.op /\ old.pc = "done"
  BY <1>1, DoneType
<1> HIDE DEF old, s
<1>7. Shape(old) /\ Current(old)
  BY <1>3, <1>5 DEF Shape, Current, Asking
<1> HIDE DEF t
<1>8. tokens' \subseteq Token /\ \A u \in tokens' : ~u.stale => ~Beats(record, u.role)
  BY <1>2, <1>4 DEF AccessInv, TypeOK
<1>9. RestTypes'
  <2>1. begun' \in 0..MaxCalls /\ edits' \in 0..MaxEdits
    BY <1>2, ContinueCounts DEF AccessInv
  <2>2. /\ UNCHANGED <<default, last_check, org_cache, lag>>
        /\ UNCHANGED <<member, since>> \/ (member' = TRUE /\ since' = 0)
    BY DEF create_token
  <2>3. 0 \in 0..Long
    BY BoundAssumption DEF Long
  <2>4. member \in BOOLEAN /\ since \in 0..Long
    BY <1>t DEF TypeOK
  <2>5. member' \in BOOLEAN /\ since' \in 0..Long
    BY <2>2, <2>3, <2>4
  <2>6. /\ default' \in {"NONE", "ADMIN"}
        /\ last_check' \in 0..CheckTTL /\ lag' \in 0..MaxLag
        /\ org_cache' \in [age : 0..(TTL - 1), allocations : BOOLEAN] \union {None}
    BY <1>t, <1>2, <2>2 DEF TypeOK
  <2> QED
    BY <2>1, <2>5, <2>6 DEF RestTypes
<1> QED
  BY <1>2, <1>7, <1>8, <1>9, CallStep DEF Continue

LEMMA DiscoveryStep ==
  ASSUME AccessInv, NEW c \in Call,
         AskPrimary(c) \/ AskOther(c) \/ InstanceFails(c) \/ Discovered(c)
  PROVE  AccessInv'
<1> DEFINE s == call[c]
<1>t. TypeOK
  BY DEF AccessInv
<1>1. c \in Running /\ s \in Session /\ Shape(s) /\ s.pc = "ask" /\ s.op = "discover"
  BY RunningType DEF AskPrimary, AskOther, InstanceFails, Discovered, At, AccessInv, Shape
<1>2. \A i \in Instance \ s.todo : Heard(s, i)
  BY <1>1 DEF Shape, Asking
<1>3. ASSUME NEW new, new \in Session, new.op = "discover", new.pc \in {"ask", "done"},
             \A i \in Instance \ new.todo : Heard(new, i),
             Continue(c, new), UNCHANGED <<Roles, last_check, Organizations>>,
             new.pc = "done" => new.todo = {}
      PROVE  AccessInv'
  <2>1. Shape(new) /\ Current(new)
    BY <1>3 DEF Shape, Current, Asking
  <2> QED
    BY <1>3, <1>t, <2>1, ContinueCounts, RestKept, ContinueStep DEF Roles, Organizations
<1>4. CASE AskPrimary(c)
  <2>1. PICK user \in Caller :
          Continue(c, Lookup([call[c] EXCEPT !.todo = @ \ {Primary}], user))
    BY <1>4 DEF AskPrimary
  <2> DEFINE old == [s EXCEPT !.todo = @ \ {Primary}]
  <2>2. Continue(c, Lookup(old, user))
    BY <2>1
  <2>3. /\ old \in Session /\ old.op = "discover" /\ old.todo = s.todo \ {Primary}
        /\ old.answers = s.answers /\ old.failed = s.failed /\ old.without = s.without
    BY <1>1 DEF Session
  <2> HIDE DEF old, s
  <2>4. Base(old)
    BY <1>2, <2>3 DEF Base, Heard
  <2>5. Shape(Lookup(old, user)) /\ Current(Lookup(old, user))
    BY <2>1, <2>4, LookupShape
  <2> QED
    BY <1>4, <1>t, <2>2, <2>5, ContinueCounts, RestKept, ContinueStep
    DEF AskPrimary, Roles, Organizations
<1>5. CASE AskOther(c)
  <2>1. PICK i \in s.todo \ {Primary}, role \in {"NONE", "READ"} :
          Continue(c, [s EXCEPT !.todo = @ \ {i},
            !.answers[i] = IF role = "NONE" THEN None ELSE role,
            !.without = IF role = "NONE" THEN @ \union {i} ELSE @])
    BY <1>5 DEF AskOther
  <2> DEFINE a == IF role = "NONE" THEN None ELSE role
             w == IF role = "NONE" THEN s.without \union {i} ELSE s.without
             new == [s EXCEPT !.todo = @ \ {i}, !.answers[i] = a, !.without = w]
  <2>2. s.answers \in [Instance -> Role \union {None}] /\ s.todo \subseteq Instance /\ i \in Instance
    BY <1>1, <2>1 DEF Session
  <2>3. /\ a \in Role \union {None} /\ w \in SUBSET Instance /\ s.without \subseteq w
        /\ a # None \/ i \in w
    BY <1>1, <2>2, NoneAssumption DEF Session, Role
  <2>5. Continue(c, new)
    BY <2>1
  <2> HIDE DEF a, w
  <2>r. [s.answers EXCEPT ![i] = a] \in [Instance -> Role \union {None}]
    BY <2>2, <2>3
  <2>4. /\ new \in Session /\ new.op = "discover" /\ new.pc = "ask" /\ new.todo = s.todo \ {i}
        /\ new.answers = [s.answers EXCEPT ![i] = a]
        /\ new.failed = s.failed /\ new.without = w
    BY <1>1, <2>3, <2>r DEF Session
  <2> HIDE DEF new, s
  <2>6. ASSUME NEW j \in Instance \ new.todo
        PROVE  Heard(new, j)
    <3>1. CASE j = i
      BY <2>2, <2>3, <2>4, <3>1 DEF Heard
    <3>2. CASE j # i
      <4>1. new.answers[j] = s.answers[j] /\ Heard(s, j)
        BY <1>2, <2>2, <2>4, <3>2
      <4> QED
        BY <2>3, <2>4, <4>1 DEF Heard
    <3> QED
      BY <3>1, <3>2
  <2> QED
    BY <1>3, <1>5, <2>4, <2>5, <2>6 DEF AskOther
<1>6. CASE InstanceFails(c)
  <2>1. PICK i \in s.todo : Continue(c, Skipped(s, i))
    BY <1>6 DEF InstanceFails
  <2> DEFINE new == Skipped(s, i)
  <2>2. /\ new \in Session /\ new.op = "discover" /\ new.pc = "ask" /\ new.todo = s.todo \ {i}
        /\ new.answers = s.answers /\ new.failed = s.failed \union {i} /\ new.without = s.without
    BY <1>1, <2>1 DEF Skipped, Session
  <2>3. Continue(c, new)
    BY <2>1
  <2> HIDE DEF new, s
  <2>4. \A j \in Instance \ new.todo : Heard(new, j)
    BY <1>2, <2>2 DEF Heard
  <2> QED
    BY <1>3, <1>6, <2>2, <2>3, <2>4 DEF InstanceFails
<1>7. CASE Discovered(c)
  <2> DEFINE new == [s EXCEPT !.pc = "done"]
  <2>1. /\ new \in Session /\ new.op = "discover" /\ new.pc = "done" /\ new.todo = s.todo
        /\ new.answers = s.answers /\ new.failed = s.failed /\ new.without = s.without
    BY <1>1 DEF Session
  <2>2. Continue(c, new) /\ s.todo = {}
    BY <1>7 DEF Discovered
  <2> HIDE DEF new, s
  <2> QED
    BY <1>2, <1>3, <1>7, <2>1, <2>2 DEF Discovered, Heard
<1> QED
  BY <1>4, <1>5, <1>6, <1>7

LEMMA RequestStep ==
  ASSUME AccessInv, NEW c \in Call,
         get_user_allocations(c) \/ CacheOrganizations(c) \/ Stamp(c)
         \/ check_allocation_permission(c) \/ Return(c)
  PROVE  AccessInv'
<1>t. TypeOK
  BY DEF AccessInv
<1>1. CASE get_user_allocations(c)
  <2>1. PICK op \in {"read", "write"} :
          /\ _fetch_user_organizations(c, Blank(op, "keep", "NONE"))
          /\ UNCHANGED <<Roles, last_check, member, lag, since>>
    BY <1>1 DEF get_user_allocations
  <2> DEFINE s == Blank(op, "keep", "NONE")
  <2>2. s \in Session /\ s.op = op
    BY BlankType DEF Asking, Role
  <2>3. _fetch_user_organizations(c, s)
    BY <2>1
  <2> HIDE DEF s
  <2>4. ASSUME NEW b \in BOOLEAN, NEW pc \in {"keep", "allocation", "done"}
        PROVE  /\ [s EXCEPT !.pc = pc, !.allocations = b] \in Session
               /\ [s EXCEPT !.pc = pc, !.allocations = b].op = op
               /\ [s EXCEPT !.pc = pc, !.allocations = b].pc = pc
               /\ [s EXCEPT !.pc = pc] \in Session
               /\ [s EXCEPT !.pc = pc].op = op
               /\ [s EXCEPT !.pc = pc].pc = pc
    BY <2>2 DEF Session
  <2>6. /\ member \in BOOLEAN
        /\ org_cache # None => org_cache.allocations \in BOOLEAN
    BY <1>t DEF TypeOK
  <2>8. PICK new \in Session :
          Begin(c, new) /\ new.op = op /\ new.pc \in {"keep", "allocation", "done"}
    BY <2>2, <2>3, <2>4, <2>6 DEF _fetch_user_organizations
  <2>9. Shape(new) /\ Current(new)
    BY <2>8 DEF Shape, Current, Asking
  <2>10. org_cache' = org_cache \/ org_cache' = None
    BY <2>3 DEF _fetch_user_organizations, Remember
  <2>11. RestTypes'
    BY <1>t, <2>1, <2>8, <2>10, BeginCounts DEF Roles, RestTypes, TypeOK, Long
  <2> QED
    BY <2>1, <2>8, <2>9, <2>11, BeginStep
<1>4. CASE CacheOrganizations(c)
  <2> DEFINE s == call[c]
             new == [s EXCEPT !.pc = "allocation"]
  <2>1. s \in Session /\ Shape(s) /\ s.pc = "keep" /\ s.allocations \in BOOLEAN /\ c \in Call
    BY <1>4, <1>t, RunningType DEF CacheOrganizations, At, AccessInv, Session
  <2>2. /\ Continue(c, new) /\ lag' = 0
        /\ org_cache' = [age |-> 0, allocations |-> s.allocations]
        /\ UNCHANGED <<Roles, last_check, member, since>>
    BY <1>4 DEF CacheOrganizations, Remember
  <2>3. new \in Session /\ new.op = s.op /\ new.pc = "allocation" /\ s.op # "discover"
    BY <2>1 DEF Session, Shape, Asking
  <2> HIDE DEF new, s
  <2>4. Shape(new) /\ Current(new)
    BY <2>3 DEF Shape, Current, Asking
  <2>5. /\ org_cache' \in [age : 0..(TTL - 1), allocations : BOOLEAN] \union {None}
        /\ lag' \in 0..MaxLag
    BY <2>1, <2>2, BoundAssumption
  <2>6. begun' \in 0..MaxCalls /\ edits' \in 0..MaxEdits
    BY <1>t, <2>2, ContinueCounts
  <2>7. RestTypes'
    BY <1>t, <2>2, <2>5, <2>6 DEF Roles, RestTypes, TypeOK, Long
  <2> QED
    BY <2>2, <2>4, <2>7, ContinueStep
<1>5. CASE Stamp(c)
  <2> DEFINE s == call[c]
  <2>1. c \in Call /\ Shape(s) /\ Current(s) /\ s.pc = "stamp"
    BY <1>5, <1>t, RunningType DEF Stamp, At, AccessInv
  <2>2. Base(s) /\ (s.op = "discover" /\ s.role = "NONE" => Primary \in s.without)
    BY <2>1, AskingIsBase DEF Asking
  <2>3. Shape(Elevate(s)) /\ Current(Elevate(s))
    BY <2>1, <2>2, ElevateShape DEF Current, Asking
  <2>4. Continue(c, Elevate(s)) /\ last_check' = 0 /\ UNCHANGED <<Roles, Organizations>>
    BY <1>5 DEF Stamp
  <2>5. begun' \in 0..MaxCalls /\ edits' \in 0..MaxEdits /\ 0 \in 0..CheckTTL
    BY <1>t, <2>4, ContinueCounts, BoundAssumption
  <2>6. RestTypes'
    BY <1>t, <2>4, <2>5 DEF Roles, Organizations, RestTypes, TypeOK, Long
  <2> QED
    BY <2>1, <2>3, <2>4, <2>6, ContinueStep
<1>2. CASE check_allocation_permission(c)
  <2>1. c \in Running /\ call[c] \in Session /\ Shape(call[c]) /\ call[c].pc = "allocation"
    BY <1>2, <1>t, RunningType DEF check_allocation_permission, At, AccessInv
  <2>2. PICK pc \in {"serve", "done"} : Continue(c, [call[c] EXCEPT !.pc = pc])
    BY <1>2 DEF check_allocation_permission
  <2> DEFINE s == call[c]
             new == [s EXCEPT !.pc = pc]
  <2>3. /\ new \in Session /\ new.op = s.op /\ new.pc = pc
    BY <2>1 DEF Session
  <2>4. Continue(c, new) /\ s.op # "discover"
    BY <2>1, <2>2 DEF Shape, Asking
  <2> HIDE DEF new, s
  <2>5. Shape(new) /\ Current(new)
    BY <2>3, <2>4 DEF Shape, Current, Asking
  <2> QED
    BY <1>2, <1>t, <2>4, <2>5, ContinueCounts, RestKept, ContinueStep
    DEF check_allocation_permission, Roles, Organizations
<1>3. CASE Return(c)
  BY <1>3, <1>t, ContinueCounts, RestKept, ContinueStep DEF Return, Roles, Organizations
<1> QED
  BY <1>1, <1>2, <1>3, <1>4, <1>5

LEMMA OlderType ==
  ASSUME NEW most \in Nat, NEW age \in 0..most
  PROVE  Older(age, most) \in 0..most /\ Older(age, most) <= age + 1
BY DEF Older

LEMMA TickTypes ==
  ASSUME TypeOK, Tick
  PROVE  RestTypes'
<1>1. org_cache' \in [age : 0..(TTL - 1), allocations : BOOLEAN] \union {None}
  <2>1. CASE org_cache # None /\ org_cache.age + 1 # TTL
    <3>1. org_cache \in [age : 0..(TTL - 1), allocations : BOOLEAN]
      BY <2>1 DEF TypeOK
    <3>2. org_cache.age + 1 \in 0..(TTL - 1)
      BY <2>1, <3>1, BoundAssumption
    <3>3. org_cache' = [org_cache EXCEPT !.age = @ + 1]
      BY <2>1 DEF Tick
    <3> QED
      BY <3>1, <3>2, <3>3
  <2>2. CASE org_cache = None \/ org_cache.age + 1 = TTL
    BY <2>2 DEF Tick
  <2> QED
    BY <2>1, <2>2
<1>2. CheckTTL \in Nat /\ Long \in Nat
  BY BoundAssumption DEF Long
<1>3. Older(last_check, CheckTTL) \in 0..CheckTTL /\ Older(since, Long) \in 0..Long
  BY <1>2, OlderType DEF TypeOK
<1>4. lag' \in 0..MaxLag
  BY BoundAssumption DEF Tick, TypeOK
<1>5. /\ last_check' = Older(last_check, CheckTTL) /\ since' = Older(since, Long)
      /\ UNCHANGED <<Roles, member, call, begun, edits>>
  BY DEF Tick
<1> QED
  BY <1>1, <1>3, <1>4, <1>5 DEF Roles, RestTypes, TypeOK, Long

LEMMA InvStep == AccessInv /\ [Next]_vars => AccessInv'
<1> SUFFICES ASSUME AccessInv, [Next]_vars PROVE AccessInv'
  OBVIOUS
<1>1. CASE Tick
  BY <1>1, TickTypes, QuietStep DEF Tick, Roles, AccessInv
<1>2. CASE MembershipChanges
  <2>1. RestTypes'
    BY <1>2, BoundAssumption DEF MembershipChanges, Roles, RestTypes, AccessInv, TypeOK, Long
  <2> QED
    BY <1>2, <2>1, QuietStep DEF MembershipChanges, Roles
<1>3. CASE UNCHANGED vars
  <2>1. RestTypes'
    BY <1>3 DEF vars, RestTypes, AccessInv, TypeOK, Long
  <2> QED
    BY <1>3, <2>1, QuietStep DEF vars
<1> QED
  BY <1>1, <1>2, <1>3, SignInStep, RequestStep, ElevationStep, UpsertStep, TokenStep,
     DiscoveryStep, EditStep DEF Next

LEMMA InvCorrect == Spec => []AccessInv
BY InvInit, InvStep, PTL DEF Spec

(***************************************************************************)
(* The roles, tokens, memories and calls keep their types.                 *)
(***************************************************************************)
THEOREM TypeCorrect == Spec => []TypeOK
<1>1. AccessInv => TypeOK
  BY DEF AccessInv
<1> QED
  BY <1>1, InvCorrect, PTL

(***************************************************************************)
(* For any instances, calls and edits: a discovery that is done lists      *)
(* every instance that answered, unless the user had no role there         *)
(* meanwhile.                                                              *)
(***************************************************************************)
THEOREM DiscoveriesAreWhole == Spec => []DiscoveryIsWhole
<1>1. AccessInv => DiscoveryIsWhole
  <2> SUFFICES ASSUME AccessInv, NEW c \in Running, NEW i \in Instance,
                      call[c].op = "discover", call[c].pc = "done"
               PROVE  \/ call[c].answers[i] # None
                      \/ i \in call[c].failed \union call[c].without
    BY DEF DiscoveryIsWhole
  <2> QED
    BY DEF AccessInv, Shape, Heard, Asking
<1> QED
  BY <1>1, InvCorrect, PTL

-----------------------------------------------------------------------------
(* Elevations. *)

LEMMA RankMeans ==
  ASSUME NEW role \in Role
  PROVE  /\ ROLE_RANK[role] \in 0..3
         /\ role \in {"NONE", "READ"} => ROLE_RANK[role] < 2
         /\ ROLE_RANK["USER"] = 2
BY DEF ROLE_RANK, Role

\* A written row marks every other call that is about to write it too.
LEMMA MarkedStays ==
  ASSUME TypeOK, NEW row, NEW calls, WriteRow(row, calls), NEW c \in Running,
         calls[c] = call[c], call[c].pc = "persist"
  PROVE  call'[c].pc = "persist"
<1>1. c \in Call /\ call[c] \in Session /\ call[c] # None
  BY RunningType DEF Running
<1>2. call'[c] = Marked(call[c], row)
  BY <1>1 DEF WriteRow, Way
<1>3. Marked(call[c], row).pc = call[c].pc
  BY <1>1 DEF Marked, Session
<1> QED
  BY <1>2, <1>3

\* The row stays, is written by this call, or the call is still about to write.
LEMMA RowStep ==
  ASSUME TypeOK, Next, NEW c \in Running, At(c, "persist"), call'[c].pc # "persist"
  PROVE  UNCHANGED <<record, default>> \/ (record' = "USER" /\ default' = default)
<1>1. CASE upsert_user_role \/ delete_user_role
  <2>1. PICK row : WriteRow(row, call)
    BY <1>1 DEF upsert_user_role, delete_user_role, Edit
  <2> QED
    BY <2>1, MarkedStays DEF At
<1>2. ASSUME NEW d \in Call, upsert_role(d)
      PROVE  UNCHANGED <<record, default>> \/ (record' = "USER" /\ default' = default)
  <2>1. default' = default
    BY <1>2 DEF upsert_role
  <2>2. record' = record \/ record' = "USER"
    BY <1>2 DEF upsert_role, WriteRow
  <2> QED
    BY <2>1, <2>2
<1>3. CASE Tick \/ MembershipChanges
  BY <1>3 DEF Tick, MembershipChanges, Roles
<1>4. ASSUME NEW d \in Call,
             \/ login(d) \/ get_my_role(d) \/ discover_project_instances(d)
             \/ get_user_allocations(d) \/ CacheOrganizations(d) \/ Stamp(d)
             \/ elevate_role_for_tas_allocation(d) \/ get_by_username(d)
             \/ UpsertFails(d)
             \/ create_token(d) \/ AskPrimary(d) \/ AskOther(d) \/ InstanceFails(d)
             \/ Discovered(d) \/ check_allocation_permission(d) \/ Return(d)
      PROVE  UNCHANGED <<record, default>>
  BY <1>4 DEF login, get_my_role, discover_project_instances, get_user_allocations,
     CacheOrganizations, Stamp, elevate_role_for_tas_allocation, get_by_username, UpsertFails, create_token, AskPrimary,
     AskOther, InstanceFails, Discovered, check_allocation_permission, Return, Roles
<1> QED
  BY <1>1, <1>2, <1>3, <1>4 DEF Next

(***************************************************************************)
(* For any calls and edits: an elevation never lowers the user's role,     *)
(* unless it goes by a lower one than the user had by then.                *)
(***************************************************************************)
THEOREM ElevationsOnlyRaise == Spec => NeverDowngrades
<1> DEFINE Raised == \A c \in Running :
             (At(c, "persist") /\ call'[c].pc # "persist" /\ ~call[c].overtaken)
             => ROLE_RANK[RoleOf(record')] >= ROLE_RANK[RoleOf(record)]
<1>1. AccessInv /\ [Next]_vars => [Raised]_vars
  <2> SUFFICES ASSUME AccessInv, Next, NEW c \in Running,
                      At(c, "persist"), call'[c].pc # "persist", ~call[c].overtaken
               PROVE  ROLE_RANK[RoleOf(record')] >= ROLE_RANK[RoleOf(record)]
    OBVIOUS
  <2>1. TypeOK /\ Shape(call[c]) /\ Current(call[c]) /\ call[c].pc = "persist"
    BY DEF AccessInv, At
  <2>2. RoleOf(record) \in Role /\ call[c].role \in {"NONE", "READ"} /\ ~Beats(record, call[c].role)
    BY <2>1, RoleOfType DEF Shape, Current, Asking
  <2>r. ~Beats(record, "USER")
    BY <2>1, <2>2, UserBeats
  <2>3. record' = record \/ record' = "USER"
    BY <2>1, RowStep
  <2>4. CASE record' = record
    BY <2>2, <2>4, RankMeans
  <2>5. CASE record' = "USER"
    <3>1. RoleOf(record') = "USER"
      BY <2>5, NoneAssumption DEF RoleOf
    <3>2. "USER" \in Role
      BY DEF Role
    <3> QED
      BY <2>2, <2>r, <3>1, <3>2, RankMeans DEF Beats
  <2> QED
    BY <2>3, <2>4, <2>5
<1> QED
  BY <1>1, InvCorrect, PTL DEF Spec, NeverDowngrades

-----------------------------------------------------------------------------
(* Organizations. *)

\* No step but its own moves a call to, or from, its organizations.
LEMMA ElevatedElsewhere ==
  ASSUME NEW s \in Session, s.op \in {"login", "me", "discover"}
  PROVE  /\ Elevate(s).pc \notin {"keep", "allocation"}
         /\ \A role : Answered(s, role).pc \notin {"keep", "allocation"}
<1>1. \A role : Answered(s, role).pc \notin {"keep", "allocation"}
  <2> TAKE role
  <2>1. CASE s.op = "login"
    BY <2>1 DEF Answered, Session
  <2>2. CASE s.op \in {"me", "discover"}
    BY <2>2, DoneType DEF Answered, Session
  <2> QED
    BY <2>1, <2>2
<1>2. [s EXCEPT !.pc = "check"].pc = "check"
  BY DEF Session
<1> QED
  BY <1>1, <1>2 DEF Elevate

LEMMA LookedUpElsewhere ==
  ASSUME AccessInv, NEW old, Base(old), NEW user \in Caller
  PROVE  Lookup(old, user).pc \notin {"keep", "allocation"}
<1> DEFINE w == IF old.op = "discover" /\ "NONE" \in {user.role, RoleOf(record)}
                THEN old.without \union {Primary} ELSE old.without
           s == [old EXCEPT !.role = user.role, !.overtaken = user.stale, !.without = w]
<1>1. user.role \in Role /\ user.stale \in BOOLEAN
  BY CallerType DEF Token
<1>2. old \in Session /\ w \in SUBSET Instance
  BY InstanceAssumption DEF Base, Session
<1>3. Lookup(old, user) = IF last_check < CheckTTL THEN Answered(s, user.role)
                          ELSE [s EXCEPT !.pc = "stamp"]
  BY DEF Lookup
<1> HIDE DEF w
<1>4. s \in Session /\ s.op = old.op
  BY <1>1, <1>2 DEF Session
<1> HIDE DEF s
<1>5. Answered(s, user.role).pc \notin {"keep", "allocation"}
  BY <1>4, ElevatedElsewhere DEF Base
<1>6. [s EXCEPT !.pc = "stamp"].pc = "stamp"
  BY <1>4 DEF Session
<1> QED
  BY <1>3, <1>5, <1>6

LEMMA OrganizationStep ==
  ASSUME AccessInv, NEW c \in Running', call'[c].pc \in {"keep", "allocation"},
         \/ upsert_user_role \/ delete_user_role
         \/ \E d \in Call :
              \/ login(d) \/ get_my_role(d) \/ discover_project_instances(d) \/ Stamp(d)
              \/ elevate_role_for_tas_allocation(d) \/ get_by_username(d)
              \/ upsert_role(d) \/ UpsertFails(d) \/ create_token(d)
              \/ AskPrimary(d) \/ AskOther(d) \/ InstanceFails(d) \/ Discovered(d)
              \/ check_allocation_permission(d) \/ Return(d)
  PROVE  c \in Running /\ call'[c] = call[c]
<1> DEFINE Elsewhere(s) == s = None \/ s.pc \notin {"keep", "allocation"}
<1>t. TypeOK /\ call \in [Call -> Session \union {None}] /\ c \in Call /\ call'[c] # None
  BY DEF AccessInv, TypeOK, Running
<1>0. call'[c] = call[c] => c \in Running
  BY <1>t DEF Running
<1>1. ASSUME NEW d \in Call, NEW s, Begin(d, s) \/ Continue(d, s), Elsewhere(s)
      PROVE  call'[c] = call[c]
  BY <1>t, <1>1 DEF Begin, Continue
<1>2. ASSUME NEW d \in Call, login(d) PROVE call'[c] = call[c]
  <2>1. PICK user \in resolve_user_role :
          Begin(d, Elevate([Blank("login", "check", user.role) EXCEPT !.overtaken = user.stale]))
    BY <1>2 DEF login
  <2>2. user.role \in Role /\ user.stale \in BOOLEAN
    BY CallerType DEF Caller, Token
  <2> DEFINE old == Blank("login", "check", user.role)
             s == [old EXCEPT !.overtaken = user.stale]
  <2>3. old \in Session /\ old.op = "login"
    BY <2>2, BlankType DEF Asking
  <2>4. Begin(d, Elevate(s))
    BY <2>1
  <2> HIDE DEF old
  <2>5. s \in Session /\ s.op = "login"
    BY <2>2, <2>3 DEF Session
  <2> HIDE DEF s
  <2> QED
    BY <1>1, <2>4, <2>5, ElevatedElsewhere
<1>3. ASSUME NEW d \in Call, get_my_role(d) PROVE call'[c] = call[c]
  <2>1. PICK user \in Caller : Begin(d, Lookup(Blank("me", "stamp", user.role), user))
    BY <1>3 DEF get_my_role
  <2>2. user.role \in Role
    BY CallerType DEF Token
  <2> DEFINE s == Blank("me", "stamp", user.role)
  <2>3. Base(s)
    BY <2>2, BlankType DEF Asking, Base
  <2>4. Begin(d, Lookup(s, user))
    BY <2>1
  <2> HIDE DEF s
  <2> QED
    BY <1>1, <2>3, <2>4, LookedUpElsewhere
<1>4. ASSUME NEW d \in Call, discover_project_instances(d) PROVE call'[c] = call[c]
  <2> DEFINE old == Blank("discover", "ask", "NONE")
             s == [old EXCEPT !.todo = Instance]
  <2>1. old \in Session /\ old.pc = "ask"
    BY BlankType DEF Asking, Role
  <2>2. s.pc = "ask"
    BY <2>1 DEF Session
  <2>3. Begin(d, s)
    BY <1>4 DEF discover_project_instances
  <2> HIDE DEF s
  <2> QED
    BY <1>1, <2>2, <2>3
<1>5. ASSUME NEW d \in Call,
             \/ Stamp(d) \/ elevate_role_for_tas_allocation(d) \/ get_by_username(d)
             \/ UpsertFails(d) \/ create_token(d)
      PROVE  call'[c] = call[c]
  <2> DEFINE s == call[d]
  <2>1. s \in Session /\ s.op \in {"login", "me", "discover"}
    BY <1>5, <1>t, RunningType DEF Stamp, elevate_role_for_tas_allocation, get_by_username,
       UpsertFails, create_token, At, AccessInv, Shape, Asking
  <2>2. /\ [s EXCEPT !.pc = "find"].pc = "find"
        /\ [s EXCEPT !.pc = "persist", !.found = record].pc = "persist"
        /\ Done(s).pc = "done"
    BY <2>1, DoneType DEF Session
  <2>3. \/ Continue(d, Elevate(s)) \/ Continue(d, [s EXCEPT !.pc = "find"])
        \/ Continue(d, Answered(s, s.role)) \/ Continue(d, Done(s))
        \/ Continue(d, [s EXCEPT !.pc = "persist", !.found = record])
    BY <1>5 DEF Stamp, elevate_role_for_tas_allocation, get_by_username, UpsertFails,
       RoleAfterFailure, create_token
  <2> HIDE DEF s
  <2> QED
    BY <1>1, <2>1, <2>2, <2>3, ElevatedElsewhere
<1>6. ASSUME NEW d \in Call, AskPrimary(d) PROVE call'[c] = call[c]
  <2>1. PICK user \in Caller : Continue(d, Lookup([call[d] EXCEPT !.todo = @ \ {Primary}], user))
    BY <1>6 DEF AskPrimary
  <2> DEFINE old == call[d]
             s == [old EXCEPT !.todo = @ \ {Primary}]
  <2>2. old \in Session /\ Shape(old) /\ old.pc = "ask"
    BY <1>6, <1>t, RunningType DEF AskPrimary, At, AccessInv
  <2>3. Continue(d, Lookup(s, user))
    BY <2>1
  <2> HIDE DEF old
  <2>4. /\ s \in Session /\ s.op = old.op /\ s.todo = old.todo \ {Primary}
        /\ s.answers = old.answers /\ s.failed = old.failed /\ s.without = old.without
    BY <2>2 DEF Session
  <2> HIDE DEF s
  <2>5. Base(s)
    BY <2>2, <2>4 DEF Base, Shape, Heard, Asking
  <2> QED
    BY <1>1, <2>1, <2>3, <2>5, LookedUpElsewhere
<1>7. ASSUME NEW d \in Call, AskOther(d) \/ InstanceFails(d) \/ Discovered(d)
                            \/ check_allocation_permission(d) \/ Return(d)
      PROVE  call'[c] = call[c]
  <2> DEFINE s == call[d]
  <2>1. s \in Session /\ (AskOther(d) => s.pc = "ask")
    BY <1>7, <1>t, RunningType DEF AskOther, InstanceFails, Discovered,
       check_allocation_permission, Return, At
  <2>2. ASSUME AskOther(d) PROVE \E new : Continue(d, new) /\ Elsewhere(new)
    <3>1. PICK i \in s.todo \ {Primary}, role \in {"NONE", "READ"} :
            Continue(d, [s EXCEPT !.todo = @ \ {i},
              !.answers[i] = IF role = "NONE" THEN None ELSE role,
              !.without = IF role = "NONE" THEN @ \union {i} ELSE @])
      BY <2>2 DEF AskOther
    <3>2. [s EXCEPT !.todo = @ \ {i},
              !.answers[i] = IF role = "NONE" THEN None ELSE role,
              !.without = IF role = "NONE" THEN @ \union {i} ELSE @].pc = "ask"
      BY <2>1, <2>2 DEF Session
    <3> QED
      BY <3>1, <3>2
  <2>3. ASSUME InstanceFails(d) PROVE \E new : Continue(d, new) /\ Elsewhere(new)
    <3>1. PICK i \in s.todo : Continue(d, Skipped(s, i))
      BY <2>3 DEF InstanceFails
    <3>2. Skipped(s, i).pc = "ask"
      BY <2>1 DEF Skipped, Session
    <3> QED
      BY <3>1, <3>2
  <2>4. ASSUME Discovered(d) \/ check_allocation_permission(d) \/ Return(d)
        PROVE  \E new : Continue(d, new) /\ Elsewhere(new)
    <3>1. \/ Continue(d, None) \/ Continue(d, [s EXCEPT !.pc = "done"])
          \/ Continue(d, [s EXCEPT !.pc = "serve"])
      BY <2>4 DEF Discovered, check_allocation_permission, Return
    <3>2. [s EXCEPT !.pc = "done"].pc = "done" /\ [s EXCEPT !.pc = "serve"].pc = "serve"
      BY <2>1 DEF Session
    <3> QED
      BY <3>1, <3>2
  <2> QED
    BY <1>1, <1>7, <2>2, <2>3, <2>4
<1>8. ASSUME NEW row, NEW calls, WriteRow(row, calls), calls \in [Call -> Session \union {None}]
      PROVE  call'[c] = calls[c]
  <2>1. call'[c] = IF calls[c] # None /\ calls[c].pc \in Way THEN Marked(calls[c], row)
                   ELSE calls[c]
    BY <1>8, <1>t DEF WriteRow
  <2>2. ASSUME calls[c] # None, calls[c].pc \in Way PROVE FALSE
    <3>1. calls[c] \in Session
      BY <1>8, <1>t, <2>2
    <3>2. Marked(calls[c], row).pc = calls[c].pc
      BY <3>1 DEF Marked, Session
    <3> QED
      BY <2>1, <2>2, <3>2 DEF Way
  <2> QED
    BY <2>1, <2>2
<1>9. ASSUME NEW d \in Call, upsert_role(d) PROVE call'[c] = call[c]
  <2> DEFINE f == [call[d] EXCEPT !.found = None]
             elevated == Answered(f, "USER")
  <2>1. call[d] \in Session /\ Shape(call[d]) /\ call[d].pc = "persist"
    BY <1>9, <1>t, RunningType DEF upsert_role, At, AccessInv
  <2>2. Base(f)
    BY <2>1, ForgetFound, AskingIsBase DEF Base, Heard, Asking
  <2>3. elevated \in Session /\ Elsewhere(elevated)
    BY <2>2, AnsweredShape, ElevatedElsewhere DEF Shape, Base, Role
  <2>4. Continue(d, elevated) \/ WriteRow("USER", [call EXCEPT ![d] = elevated])
    BY <1>9 DEF upsert_role
  <2> HIDE DEF elevated
  <2>5. ASSUME WriteRow("USER", [call EXCEPT ![d] = elevated]) PROVE call'[c] = call[c]
    <3>1. [call EXCEPT ![d] = elevated] \in [Call -> Session \union {None}]
      BY <1>t, <2>3
    <3>2. call'[c] = [call EXCEPT ![d] = elevated][c]
      BY <1>8, <2>5, <3>1
    <3> QED
      BY <1>t, <2>3, <3>2
  <2> QED
    BY <1>1, <2>3, <2>4, <2>5
<1>10. ASSUME upsert_user_role \/ delete_user_role PROVE call'[c] = call[c]
  BY <1>8, <1>10, <1>t DEF upsert_user_role, delete_user_role, Edit
<1> QED
  BY <1>0, <1>2, <1>3, <1>4, <1>5, <1>6, <1>7, <1>9, <1>10

\* What is remembered, or on its way, was so when CKAN gave it: it is no older
\* than the last change, and CKAN is asked once at a time.
RecentInv ==
  /\ TypeOK
  /\ org_cache # None =>
       org_cache.allocations = member \/ since <= org_cache.age + MaxLag
  /\ \A c \in Running : call[c].pc = "keep" => call[c].allocations = member \/ since <= lag
  /\ \A c, d \in Running : call[c].pc = "keep" /\ call[d].pc = "keep" => c = d

LEMMA RecentTypes ==
  ASSUME TypeOK
  PROVE  /\ member \in BOOLEAN /\ since \in Nat /\ lag \in Nat /\ lag <= MaxLag /\ MaxLag \in Nat
         /\ org_cache # None =>
              /\ org_cache \in [age : 0..(TTL - 1), allocations : BOOLEAN]
              /\ org_cache.age \in Nat /\ org_cache.age < TTL
         /\ TTL \in Nat \ {0} /\ Long = TTL + MaxLag /\ Long \in Nat
BY BoundAssumption DEF TypeOK, Long

LEMMA RecentKept ==
  ASSUME RecentInv, TypeOK', UNCHANGED <<org_cache, lag>>,
         UNCHANGED <<member, since>> \/ since' = 0,
         \A c \in Running' : call'[c].pc = "keep" => c \in Running /\ call'[c] = call[c]
  PROVE  RecentInv'
<1>t. TypeOK
  BY DEF RecentInv
<1>1. org_cache' # None =>
        org_cache'.allocations = member' \/ since' <= org_cache'.age + MaxLag
  BY <1>t, RecentTypes DEF RecentInv
<1>2. \A c \in Running' :
        call'[c].pc = "keep" => call'[c].allocations = member' \/ since' <= lag'
  BY <1>t, RecentTypes DEF RecentInv
<1>3. \A c, d \in Running' : call'[c].pc = "keep" /\ call'[d].pc = "keep" => c = d
  BY DEF RecentInv
<1> QED
  BY <1>1, <1>2, <1>3 DEF RecentInv

\* What a call has of its organizations when it begins.
Fetched(new) ==
  \/ /\ org_cache # None /\ UNCHANGED org_cache
     /\ new.pc = "allocation" /\ new.allocations = org_cache.allocations
  \/ UNCHANGED org_cache /\ new.pc = "keep" /\ new.allocations = member
  \/ org_cache' = None /\ new.pc = "done"
  \/ org_cache' = None /\ new.pc = "allocation" /\ new.op = "read"

LEMMA FetchStep ==
  ASSUME AccessInv, NEW c \in Call, get_user_allocations(c)
  PROVE  /\ call[c] = None /\ Free
         /\ UNCHANGED <<member, lag, since>>
         /\ \E new \in Session :
              /\ call' = [call EXCEPT ![c] = new]
              /\ Fetched(new)
<1>t. TypeOK
  BY DEF AccessInv
<1>1. PICK op \in {"read", "write"} :
        /\ _fetch_user_organizations(c, Blank(op, "keep", "NONE"))
        /\ UNCHANGED <<Roles, last_check, member, lag, since>>
  BY DEF get_user_allocations
<1> DEFINE s == Blank(op, "keep", "NONE")
<1>2. s \in Session /\ s.op = op
  BY BlankType DEF Asking, Role
<1>3. _fetch_user_organizations(c, s)
  BY <1>1
<1> HIDE DEF s
<1>4. ASSUME NEW b \in BOOLEAN, NEW pc \in {"keep", "allocation"}
      PROVE  /\ [s EXCEPT !.pc = pc, !.allocations = b] \in Session
             /\ [s EXCEPT !.pc = pc, !.allocations = b].pc = pc
             /\ [s EXCEPT !.pc = pc, !.allocations = b].allocations = b
  BY <1>2 DEF Session
<1>5. ASSUME NEW pc \in {"done", "allocation"}
      PROVE  /\ [s EXCEPT !.pc = pc] \in Session
             /\ [s EXCEPT !.pc = pc].pc = pc /\ [s EXCEPT !.pc = pc].op = op
  BY <1>2 DEF Session
<1>6. member \in BOOLEAN /\ (org_cache # None => org_cache.allocations \in BOOLEAN)
  BY <1>t DEF TypeOK
<1>7. \E new \in Session :
        Begin(c, new) /\ Fetched(new)
  <2>1. CASE org_cache # None
    <3> DEFINE new == [s EXCEPT !.pc = "allocation", !.allocations = org_cache.allocations]
    <3>1. Begin(c, new) /\ UNCHANGED org_cache
      BY <1>3, <2>1 DEF _fetch_user_organizations
    <3> QED
      BY <1>4, <1>6, <2>1, <3>1 DEF Fetched
  <2>2. CASE org_cache = None
    <3>1. \/ Begin(c, [s EXCEPT !.pc = "keep", !.allocations = member]) /\ UNCHANGED org_cache
          \/ s.op = "read" /\ org_cache' = None /\ Begin(c, [s EXCEPT !.pc = "allocation"])
          \/ org_cache' = None /\ Begin(c, [s EXCEPT !.pc = "done"])
      BY <1>3, <2>2 DEF _fetch_user_organizations, Remember
    <3>2. CASE Begin(c, [s EXCEPT !.pc = "keep", !.allocations = member]) /\ UNCHANGED org_cache
      BY <1>4, <1>6, <3>2 DEF Fetched
    <3>3. CASE s.op = "read" /\ org_cache' = None /\ Begin(c, [s EXCEPT !.pc = "allocation"])
      BY <1>2, <1>5, <3>3 DEF Fetched
    <3>4. CASE org_cache' = None /\ Begin(c, [s EXCEPT !.pc = "done"])
      BY <1>5, <3>4 DEF Fetched
    <3> QED
      BY <3>1, <3>2, <3>3, <3>4
  <2> QED
    BY <2>1, <2>2
<1>8. ASSUME NEW new, Begin(c, new)
      PROVE  call[c] = None /\ Free /\ call' = [call EXCEPT ![c] = new]
  BY <1>8 DEF Begin
<1>9. UNCHANGED <<member, lag, since>>
  BY <1>1
<1>10. PICK new \in Session :
         Begin(c, new) /\ Fetched(new)
  BY <1>7
<1>11. call[c] = None /\ Free /\ call' = [call EXCEPT ![c] = new]
  BY <1>8, <1>10
<1> QED
  BY <1>9, <1>10, <1>11

LEMMA RecentStep ==
  ASSUME AccessInv, RecentInv, [Next]_vars, TypeOK'
  PROVE  RecentInv'
<1>t. TypeOK /\ call \in [Call -> Session \union {None}]
  BY DEF RecentInv, TypeOK
<1>1. CASE Tick
  <2>1. /\ since' = Older(since, Long) /\ member' = member /\ call' = call /\ Running' = Running
        /\ Free \/ lag' = lag + 1
    BY <1>1 DEF Tick, Running
  <2>2. since' \in Nat /\ since' <= since + 1
    <3>1. Long \in Nat /\ since \in 0..Long
      BY <1>t, RecentTypes DEF TypeOK
    <3>2. Older(since, Long) \in 0..Long /\ Older(since, Long) <= since + 1
      BY <3>1, OlderType
    <3> QED
      BY <2>1, <3>1, <3>2
  <2>3. org_cache' # None =>
          org_cache'.allocations = member' \/ since' <= org_cache'.age + MaxLag
    <3>1. CASE org_cache' # None
      <4>1. org_cache # None /\ org_cache' = [org_cache EXCEPT !.age = @ + 1]
        BY <1>1, <3>1 DEF Tick
      <4>2. org_cache'.age = org_cache.age + 1 /\ org_cache'.allocations = org_cache.allocations
        BY <1>t, <4>1, RecentTypes
      <4> QED
        BY <1>t, <2>1, <2>2, <4>1, <4>2, RecentTypes DEF RecentInv
    <3> QED
      BY <3>1
  <2>4. ASSUME NEW c \in Running, call[c].pc = "keep"
        PROVE  call[c].allocations = member \/ since' <= lag'
    <3>1. lag' = lag + 1
      BY <2>1, <2>4 DEF Free
    <3> QED
      BY <1>t, <2>2, <2>4, <3>1, RecentTypes DEF RecentInv
  <2> QED
    BY <2>1, <2>3, <2>4 DEF RecentInv
<1>2. ASSUME NEW c \in Call, get_user_allocations(c)
      PROVE  RecentInv'
  <2>1. /\ call[c] = None /\ Free
        /\ UNCHANGED <<member, lag, since>>
    BY <1>2, FetchStep
  <2>2. PICK new \in Session :
          /\ call' = [call EXCEPT ![c] = new]
          /\ org_cache' = org_cache \/ org_cache' = None
          /\ new.pc = "keep" => new.allocations = member
    BY <1>2, FetchStep DEF Fetched
  <2>3. \A d \in Running' : call'[d].pc = "keep" => d = c /\ call'[d].allocations = member
    BY <1>t, <2>1, <2>2 DEF Running, Free
  <2> QED
    BY <2>1, <2>2, <2>3 DEF RecentInv
<1>3. ASSUME NEW c \in Call, CacheOrganizations(c)
      PROVE  RecentInv'
  <2>1. /\ c \in Running /\ call[c] \in Session /\ call[c].pc = "keep"
        /\ UNCHANGED <<member, since>>
        /\ org_cache' = [age |-> 0, allocations |-> call[c].allocations]
        /\ call' = [call EXCEPT ![c] = [call[c] EXCEPT !.pc = "allocation"]]
    BY <1>3, <1>t, RunningType DEF CacheOrganizations, At, Remember, Continue
  <2>2. [call[c] EXCEPT !.pc = "allocation"].pc = "allocation"
    BY <2>1 DEF Session
  <2>3. \A d \in Running' : call'[d].pc # "keep"
    BY <1>t, <2>1, <2>2 DEF Running, RecentInv
  <2>4. call[c].allocations = member \/ since <= lag
    BY <2>1 DEF RecentInv
  <2>5. org_cache'.allocations = member' \/ since' <= org_cache'.age + MaxLag
    BY <1>t, <2>1, <2>4, RecentTypes
  <2> QED
    BY <2>3, <2>5 DEF RecentInv
<1>4. CASE MembershipChanges \/ UNCHANGED vars
  BY <1>4, RecentKept DEF MembershipChanges, vars, Running
<1>5. ASSUME \/ upsert_user_role \/ delete_user_role
             \/ \E d \in Call :
                  \/ login(d) \/ get_my_role(d) \/ discover_project_instances(d) \/ Stamp(d)
                  \/ elevate_role_for_tas_allocation(d) \/ get_by_username(d)
                  \/ upsert_role(d) \/ UpsertFails(d) \/ create_token(d)
                  \/ AskPrimary(d) \/ AskOther(d) \/ InstanceFails(d) \/ Discovered(d)
                  \/ check_allocation_permission(d) \/ Return(d)
      PROVE  RecentInv'
  <2>1. UNCHANGED <<org_cache, lag>> /\ (UNCHANGED <<member, since>> \/ since' = 0)
    BY <1>5 DEF upsert_user_role, delete_user_role, Edit, login, get_my_role,
       discover_project_instances, Stamp, upsert_role, elevate_role_for_tas_allocation,
       get_by_username, UpsertFails, create_token, AskPrimary, AskOther, InstanceFails,
       Discovered, check_allocation_permission, Return, Organizations
  <2>2. ASSUME NEW c \in Running', call'[c].pc = "keep"
        PROVE  c \in Running /\ call'[c] = call[c]
    BY <1>5, <2>2, OrganizationStep
  <2> QED
    BY <2>1, <2>2, RecentKept
<1> QED
  BY <1>1, <1>2, <1>3, <1>4, <1>5 DEF Next

LEMMA RecentCorrect == Spec => []RecentInv
<1>1. Init => RecentInv
  <2> SUFFICES ASSUME Init PROVE RecentInv
    OBVIOUS
  <2>1. TypeOK
    BY InvInit DEF AccessInv
  <2> QED
    BY <2>1 DEF Init, RecentInv, Running
<1> QED
  BY <1>1, InvCorrect, TypeCorrect, RecentStep, PTL DEF Spec

(***************************************************************************)
(* For any calls, changes in CKAN, and delays of its answers: the          *)
(* organizations that a write goes by were the user's less than the        *)
(* memory's lifetime, and the time that the answer took, ago.              *)
(***************************************************************************)
THEOREM WritesGoByRecentLists == Spec => ListsAreRecent
<1> DEFINE Lists == \A c \in Call :
             /\ call[c] = None \/ At(c, "keep")
             /\ call'[c] # None /\ call'[c].op = "write" /\ call'[c].pc = "allocation"
             => call'[c].allocations = member \/ since < Long
<1>1. AccessInv /\ RecentInv /\ [Next]_vars => [Lists]_vars
  <2> SUFFICES ASSUME AccessInv, RecentInv, Next, NEW c \in Call,
                      call[c] = None \/ At(c, "keep"),
                      call'[c] # None, call'[c].op = "write", call'[c].pc = "allocation"
               PROVE  call'[c].allocations = member \/ since < Long
    OBVIOUS
  <2>t. TypeOK /\ call \in [Call -> Session \union {None}]
    BY DEF AccessInv, TypeOK
  <2>1. call'[c] # call[c]
    BY DEF At, Running
  <2>2. c \in Running'
    BY DEF Running
  <2>3. PICK d \in Call : get_user_allocations(d) \/ CacheOrganizations(d)
    BY <2>1, <2>2, OrganizationStep DEF Next, Tick, MembershipChanges
  <2>4. CASE get_user_allocations(d)
    <3>1. PICK new \in Session :
            /\ call' = [call EXCEPT ![d] = new]
            /\ \/ org_cache # None /\ new.allocations = org_cache.allocations
               \/ new.pc # "allocation"
               \/ new.op = "read"
      BY <2>4, FetchStep DEF Fetched
    <3>2. d = c /\ call'[c] = new
      BY <2>t, <2>1, <3>1
    <3>3. org_cache # None /\ call'[c].allocations = org_cache.allocations
      BY <3>1, <3>2
    <3> QED
      BY <2>t, <3>3, RecentTypes DEF RecentInv
  <2>5. CASE CacheOrganizations(d)
    <3>1. d \in Running /\ call[d].pc = "keep"
          /\ call' = [call EXCEPT ![d] = [call[d] EXCEPT !.pc = "allocation"]]
      BY <2>5 DEF CacheOrganizations, At, Continue
    <3>2. d = c /\ call'[c] = [call[c] EXCEPT !.pc = "allocation"]
      BY <2>t, <2>1, <3>1
    <3>3. call'[c].allocations = call[c].allocations
      BY <2>t, <3>1, <3>2, RunningType DEF Session
    <3> QED
      BY <2>t, <3>1, <3>2, <3>3, RecentTypes DEF RecentInv
  <2> QED
    BY <2>3, <2>4, <2>5
<1> QED
  BY <1>1, InvCorrect, RecentCorrect, PTL DEF Spec, ListsAreRecent

-----------------------------------------------------------------------------
(***************************************************************************)
(* Publication.                                                            *)
(*                                                                         *)
(* What a request that runs alone knows (PublishKnows, UnpublishKnows) of  *)
(* its dataset and of the database is kept by every step of its own, and   *)
(* no other job takes one (LoneJob). A call that is sent again, or fails,  *)
(* may have been executed: what it knows must hold either way.             *)
(***************************************************************************)
USE DEF IsAt, database

Label == Calls \union Transactions \union Ended

\* What is left of a job when it ends, or as its next step begins.
Left(r) == Settled([r EXCEPT !.tries = 0])

LEMMA IdleFacts ==
  ASSUME NEW kind \in Kind, NEW pc \in Label
  PROVE  Idle(kind, pc) \in Job
<1>1. <<>> \in Seq(Candidate) /\ {} \in SUBSET Sensor /\ 0 \in Nat /\ "own" \in Name
  BY DEF Name
<1> QED
  BY <1>1 DEF Idle, Job, Label

LEMMA TraceFacts ==
  ASSUME NEW r \in Job
  PROVE  /\ Trace(r) \in Job
         /\ Trace(r).pc = r.pc /\ Trace(r).kind = r.kind
         /\ Trace(r).faulty = r.faulty /\ Trace(r).overlapped = r.overlapped
<1>1. r.kind \in Kind /\ r.pc \in Label /\ r.faulty \in BOOLEAN /\ r.overlapped \in BOOLEAN
  BY DEF Job, Label
<1> DEFINE i == Idle(r.kind, r.pc)
<1>2. i \in Job
  BY <1>1, IdleFacts
<1>3. i.kind = r.kind /\ i.pc = r.pc
  BY DEF Idle
<1>4. Trace(r) = [i EXCEPT !.faulty = r.faulty, !.overlapped = r.overlapped]
  BY Zenon DEF Trace
<1> HIDE DEF i
<1> QED
  BY <1>1, <1>2, <1>3, <1>4 DEF Job

LEMMA LeftFacts ==
  ASSUME NEW r \in Job
  PROVE  /\ Left(r) \in Job
         /\ Left(r).pc = r.pc /\ Left(r).kind = r.kind
         /\ Left(r).faulty = r.faulty /\ Left(r).overlapped = r.overlapped
         /\ r.pc = "success" => /\ Left(r).token = r.token /\ Left(r).name = r.name
                                /\ Left(r).cascade = r.cascade
                                /\ Left(r).snapshot = r.snapshot
         /\ r.pc \notin Ended => Left(r) = [r EXCEPT !.tries = 0]
<1> DEFINE q == [r EXCEPT !.tries = 0]
<1>1. /\ q \in Job /\ q.pc = r.pc /\ q.kind = r.kind /\ q.faulty = r.faulty
      /\ q.overlapped = r.overlapped /\ q.token = r.token /\ q.name = r.name
      /\ q.cascade = r.cascade /\ q.snapshot = r.snapshot
  BY DEF Job
<1> HIDE DEF q
<1>2. /\ Trace(q) \in Job
      /\ Trace(q).pc = q.pc /\ Trace(q).kind = q.kind
      /\ Trace(q).faulty = q.faulty /\ Trace(q).overlapped = q.overlapped
  BY <1>1, TraceFacts
<1>0. Left(r) = Settled(q)
  BY DEF Left, q
<1>3. CASE r.pc \notin Ended
  <2>1. Left(r) = q
    BY <1>0, <1>1, <1>3 DEF Settled, Ended
  <2> QED
    BY <1>1, <1>3, <2>1 DEF q, Ended
<1>4. CASE r.pc = "success"
  <2>1. Left(r) = [Trace(q) EXCEPT !.token = q.token, !.name = q.name,
                                   !.cascade = q.cascade, !.snapshot = q.snapshot]
    BY <1>0, <1>1, <1>4 DEF Settled, Ended
  <2>2. /\ q.token \in BOOLEAN /\ q.name \in Name /\ q.cascade \in BOOLEAN
        /\ q.snapshot \in SUBSET Sensor
    BY <1>1 DEF Job
  <2> DEFINE t == Trace(q)
             u == [t EXCEPT !.token = q.token, !.name = q.name]
             v == [u EXCEPT !.cascade = q.cascade, !.snapshot = q.snapshot]
  <2>3. t \in Job /\ t.pc = q.pc /\ t.kind = q.kind /\ t.faulty = q.faulty
        /\ t.overlapped = q.overlapped
    BY <1>2
  <2> HIDE DEF t
  <2>4. u \in Job /\ u.pc = q.pc /\ u.kind = q.kind /\ u.faulty = q.faulty
        /\ u.overlapped = q.overlapped /\ u.token = q.token /\ u.name = q.name
    BY <2>2, <2>3 DEF Job
  <2> HIDE DEF u
  <2>5. v \in Job /\ v.pc = q.pc /\ v.kind = q.kind /\ v.faulty = q.faulty
        /\ v.overlapped = q.overlapped /\ v.token = q.token /\ v.name = q.name
        /\ v.cascade = q.cascade /\ v.snapshot = q.snapshot
    BY <2>2, <2>4 DEF Job
  <2>6. v = Left(r)
    BY <2>1 DEF t, u, v
  <2> HIDE DEF v
  <2> QED
    BY <1>1, <1>4, <2>5, <2>6 DEF Ended
<1>5. CASE r.pc \in Ended \ {"success"}
  BY <1>0, <1>1, <1>2, <1>5 DEF Settled, Ended
<1> QED
  BY <1>3, <1>4, <1>5 DEF Ended

-----------------------------------------------------------------------------
\* A record that a step may give the job: of its kind, and overlapped as it was.
Follows(j, r) ==
  /\ r \in Job /\ r.kind = job[j].kind /\ r.overlapped = job[j].overlapped
  /\ r.pc = "remove" => r.candidates # <<>>

LEMMA ToFacts ==
  ASSUME NEW j, job[j] \in Job, NEW pc \in Label \ {"remove"}
  PROVE  /\ Follows(j, To(j, pc)) /\ Follows(j, Failing(j, pc))
         /\ To(j, pc).pc = pc /\ Failing(j, pc).pc = pc
BY DEF Follows, To, Failing, Job, Label

LEMMA FaultyFacts ==
  ASSUME NEW r \in Job
  PROVE  /\ Faulty(r) \in Job /\ Faulty(r).faulty
         /\ Faulty(r).kind = r.kind /\ Faulty(r).overlapped = r.overlapped
         /\ Faulty(r).pc = r.pc /\ Faulty(r).candidates = r.candidates
BY DEF Faulty, Job

LEMMA SyncFacts ==
  ASSUME NEW r \in Job
  PROVE  /\ Sync(r) \in Job /\ Sync(r).kind = r.kind /\ Sync(r).overlapped = r.overlapped
         /\ Sync(r).pc \in {"resources", "flag", "success"}
<1> DEFINE next == IF r.kind # "create" /\ r.handled # r.snapshot THEN "resources"
                   ELSE IF r.kind = "publish" THEN "flag" ELSE "success"
<1>1. next \in {"resources", "flag", "success"}
  OBVIOUS
<1>2. Sync(r) = [r EXCEPT !.pc = next]
  BY Zenon DEF Sync
<1> HIDE DEF next
<1> QED
  BY <1>1, <1>2 DEF Job, Calls, Transactions, Ended

LEMMA CascadeFacts ==
  ASSUME NEW r \in Job
  PROVE  /\ Cascade(r) \in Job /\ Cascade(r).kind = r.kind
         /\ Cascade(r).overlapped = r.overlapped
         /\ Cascade(r).pc = IF r.todo = {} THEN "success" ELSE "cascade"
BY DEF Cascade, Job, Transactions, Ended

Repeats(j) == Faulty([job[j] EXCEPT !.tries = @ + 1])

LEMMA FollowsOn ==
  ASSUME NEW j, NEW r, Follows(j, r)
  PROVE  Follows(j, Left(r)) /\ Follows(j, Left(Faulty(r)))
<1>1. ASSUME NEW q, Follows(j, q) PROVE Follows(j, Left(q))
  <2>1. q \in Job
    BY <1>1 DEF Follows
  <2>2. q.pc \notin Ended => Left(q).candidates = q.candidates
    BY <2>1, LeftFacts DEF Job
  <2> QED
    BY <1>1, <2>1, <2>2, LeftFacts DEF Follows, Ended
<1> QED
  BY <1>1, FaultyFacts DEF Follows

LEMMA RepeatsFacts ==
  ASSUME NEW j, Follows(j, job[j])
  PROVE  Follows(j, Repeats(j))
<1> DEFINE q == [job[j] EXCEPT !.tries = @ + 1]
<1>1. /\ q \in Job /\ q.kind = job[j].kind /\ q.overlapped = job[j].overlapped
      /\ q.pc = job[j].pc /\ q.candidates = job[j].candidates
  BY DEF Job, Follows
<1>2. Repeats(j) = Faulty(q)
  BY DEF Repeats
<1> HIDE DEF q
<1> QED
  BY <1>1, <1>2, FaultyFacts DEF Follows

\* What a call leaves of its job.
Called(j, answered, rejected, failed) ==
  \/ job' = [job EXCEPT ![j] = Left(answered)]
  \/ job' = [job EXCEPT ![j] = Left(rejected)]
  \/ job' = [job EXCEPT ![j] = Left(Faulty(failed))]
  \/ job' = [job EXCEPT ![j] = Repeats(j)]

Moved(j) == \E r : Follows(j, r) /\ job' = [job EXCEPT ![j] = r]

LEMMA CallMoves ==
  ASSUME NEW j, Follows(j, job[j]), NEW answered, NEW rejected, NEW failed,
         Follows(j, answered), Follows(j, rejected), Follows(j, failed),
         Called(j, answered, rejected, failed)
  PROVE  Moved(j)
BY FollowsOn, RepeatsFacts DEF Called, Moved

LEMMA StepMoves ==
  ASSUME PublicationTypes, NEW j \in Active, Step(j)
  PROVE  Moved(j)
<1>0. job[j] \in Job /\ Follows(j, job[j])
  BY DEF PublicationTypes, Active, Follows
<1> USE <1>0 DEF Label, Calls, Transactions, Ended
<1>d. Follows(j, DatasetFails(j))
  BY ToFacts DEF DatasetFails
<1>f. Follows(j, Found(j))
  BY <1>d, ToFacts DEF Found
<1>h. ASSUME NEW n \in Name, Present(n) PROVE Follows(j, Shown(j, n))
  <2>1. dataset[n].id \in Nat
    BY <1>h DEF PublicationTypes, Present, Dataset
  <2>2. Follows(j, To(j, "hide")) /\ To(j, "hide").pc = "hide"
    BY ToFacts
  <2> QED
    BY <2>1, <2>2 DEF Shown, Follows, Job
<1>1. ASSUME list_user_organizations(j) PROVE Moved(j)
  <2>1. PICK allowed \in BOOLEAN :
          Called(j, IF allowed THEN To(j, "show") ELSE Failing(j, "flag"),
                 Failing(j, "show"), Failing(j, "show"))
    BY <1>1 DEF list_user_organizations, _request, Goto, Called, Left, Repeats
  <2> QED
    BY <2>1, CallMoves, ToFacts
<1>2. ASSUME Show(j) PROVE Moved(j)
  <2>1. Called(j, Found(j), To(j, "package_create"), To(j, "package_create"))
    BY <1>2 DEF Show, _request, Goto, Called, Left, Repeats
  <2> QED
    BY <2>1, <1>f, CallMoves, ToFacts
<1>3. ASSUME package_create(j) PROVE Moved(j)
  <2> DEFINE answered == [To(j, "visibility") EXCEPT !.id = created]
  <2>1. Called(j, answered, To(j, "show_again"), DatasetFails(j))
    BY <1>3 DEF package_create, _request, Goto, Called, Left, Repeats
  <2>2. Follows(j, answered)
    <3>1. created \in Nat
      BY DEF PublicationTypes
    <3>2. Follows(j, To(j, "visibility")) /\ To(j, "visibility").pc = "visibility"
      BY ToFacts
    <3> QED
      BY <3>1, <3>2 DEF Follows, Job
  <2> QED
    BY <2>1, <2>2, <1>d, CallMoves, ToFacts
<1>4. ASSUME ShowAgain(j) PROVE Moved(j)
  <2>1. Called(j, Found(j), DatasetFails(j), DatasetFails(j))
    BY <1>4 DEF ShowAgain, _request, Goto, Called, Left, Repeats
  <2> QED
    BY <2>1, <1>d, <1>f, CallMoves
<1>5. ASSUME _patch_dataset(j) PROVE Moved(j)
  <2> DEFINE n == job[j].name
             d == dataset[n]
             q == To(j, "visibility")
             answered == [q EXCEPT !.id = d.id, !.known = Registered(d)]
  <2>1. \/ Present(n) /\ job' = [job EXCEPT ![j] = Left(answered)]
        \/ Called(j, DatasetFails(j), DatasetFails(j), DatasetFails(j))
    BY <1>5 DEF _patch_dataset, _request, Goto, Called, Left, Repeats
  <2>2. ASSUME Present(n) PROVE Follows(j, answered)
    <3>1. d \in Dataset
      BY <1>0, <2>2 DEF PublicationTypes, Present, Job
    <3>2. d.id \in Nat /\ Registered(d) \in SUBSET Sensor
      BY <3>1 DEF Dataset, Registered
    <3>3. Follows(j, q) /\ q.pc = "visibility"
      BY ToFacts
    <3> HIDE DEF d, q
    <3> QED
      BY <3>2, <3>3 DEF Follows, Job
  <2> QED
    BY <2>1, <2>2, <1>d, CallMoves, FollowsOn DEF Moved
<1>6. ASSUME ensure_dataset_visibility(j) PROVE Moved(j)
  <2>1. Called(j, Sync(job[j]), VisibilityFails(j), VisibilityFails(j))
    BY <1>6 DEF ensure_dataset_visibility, _request, Goto, Called, Left, Repeats
  <2>2. Follows(j, Sync(job[j])) /\ Follows(j, VisibilityFails(j))
    BY <1>d, ToFacts, SyncFacts DEF Follows, VisibilityFails
  <2> QED
    BY <2>1, <2>2, CallMoves
<1>7. ASSUME ensure_resource(j) PROVE Moved(j)
  <2>1. PICK s \in job[j].snapshot \ job[j].handled :
          Called(j, Sync([job[j] EXCEPT !.handled = @ \union {s}, !.known = @ \union {s}]),
                 ResourceFails(j, s), ResourceFails(j, s))
    BY <1>7 DEF ensure_resource, _request, Goto, Called, Left, Repeats
  <2> DEFINE p == [job[j] EXCEPT !.handled = @ \union {s}, !.known = @ \union {s}]
             q == [job[j] EXCEPT !.errors = TRUE, !.handled = @ \union {s}]
  <2>2. Follows(j, p)
    <3>1. /\ job[j].handled \union {s} \in SUBSET Sensor
          /\ job[j].known \union {s} \in SUBSET Sensor
      BY DEF Job
    <3> QED
      BY <3>1 DEF Follows, Job
  <2>6. Follows(j, q)
    <3>1. job[j].handled \union {s} \in SUBSET Sensor
      BY DEF Job
    <3> QED
      BY <3>1 DEF Follows, Job
  <2>3. Follows(j, Sync(p)) /\ Follows(j, Sync(q))
    BY <2>2, <2>6, SyncFacts DEF Follows
  <2>4. Follows(j, ResourceFails(j, s))
    BY <2>3, ToFacts DEF ResourceFails
  <2> HIDE DEF p, q
  <2>5. Called(j, Sync(p), ResourceFails(j, s), ResourceFails(j, s))
    BY <2>1 DEF p
  <2> QED
    BY <2>3, <2>4, <2>5, CallMoves
<1>8. ASSUME PublishFails(j) PROVE Moved(j)
  BY <1>8, ToFacts, FollowsOn DEF PublishFails, Goto, Left, Moved
<1>9. ASSUME set_publish_state(j) PROVE Moved(j)
  <2>1. PICK pc \in {"failure", "list", "success"} :
          job' = [job EXCEPT ![j] = Left(To(j, pc))]
    BY <1>9 DEF set_publish_state, Goto, Left
  <2> QED
    BY <2>1, ToFacts, FollowsOn DEF Moved
<1>10. ASSUME get_sensors_by_station_chunked(j) PROVE Moved(j)
  <2> DEFINE q == [job[j] EXCEPT !.todo = sensors]
  <2>1. job' = [job EXCEPT ![j] = Left(Cascade(q))]
    BY <1>10 DEF get_sensors_by_station_chunked, Goto, Left
  <2>2. Follows(j, q)
    <3>1. sensors \in SUBSET Sensor
      BY DEF PublicationTypes
    <3> QED
      BY <3>1 DEF Follows, Job
  <2> HIDE DEF q
  <2>3. Follows(j, Cascade(q))
    BY <2>2, CascadeFacts DEF Follows
  <2> QED
    BY <2>1, <2>3, FollowsOn DEF Moved
<1>11. ASSUME PublishNextSensor(j) PROVE Moved(j)
  <2>0. PICK s \in job[j].todo :
          \/ job' = [job EXCEPT ![j] = Left(Cascade([job[j] EXCEPT !.todo = @ \ {s}]))]
          \/ job' = [job EXCEPT ![j] = Left(To(j, "failure"))]
    BY <1>11 DEF PublishNextSensor, Goto, Left
  <2>f. CASE job' = [job EXCEPT ![j] = Left(To(j, "failure"))]
    BY <2>f, ToFacts, FollowsOn DEF Moved
  <2>1. CASE job' = [job EXCEPT ![j] = Left(Cascade([job[j] EXCEPT !.todo = @ \ {s}]))]
    <3> DEFINE q == [job[j] EXCEPT !.todo = @ \ {s}]
    <3>2. Follows(j, q)
      BY DEF Follows, Job
    <3> HIDE DEF q
    <3>3. Follows(j, Cascade(q))
      BY <3>2, CascadeFacts DEF Follows
    <3> QED
      BY <2>1, <3>3, FollowsOn DEF Moved, q
  <2> QED
    BY <2>0, <2>f, <2>1
<1>12. ASSUME ShowOwn(j) PROVE Moved(j)
  <2>1. \/ Present("own") /\ job' = [job EXCEPT ![j] = Left(Shown(j, "own"))]
        \/ Called(j, To(j, "show_legacy"), To(j, "show_legacy"), To(j, "show_legacy"))
    BY <1>12 DEF ShowOwn, _request, Goto, Called, Left, Repeats
  <2>2. Present("own") => Follows(j, Shown(j, "own"))
    BY <1>h DEF Name
  <2>3. Follows(j, To(j, "show_legacy"))
    BY ToFacts
  <2> QED
    BY <2>1, <2>2, <2>3, CallMoves, FollowsOn DEF Moved
<1>13. ASSUME ShowLegacy(j) PROVE Moved(j)
  <2>1. \/ Present("legacy") /\ job' = [job EXCEPT ![j] = Left(Shown(j, "legacy"))]
        \/ Called(j, To(j, "unflag"), To(j, "unflag"), To(j, "unflag"))
    BY <1>13 DEF ShowLegacy, _request, Goto, Called, Left, Repeats
  <2> QED
    BY <2>1, <1>h, CallMoves, ToFacts, FollowsOn DEF Moved, Name
<1>14. ASSUME Hide(j) PROVE Moved(j)
  <2>1. Called(j, To(j, "unflag"), To(j, "unflag"), To(j, "unflag"))
    BY <1>14 DEF Hide, _request, Goto, Called, Left, Repeats
  <2> QED
    BY <2>1, CallMoves, ToFacts
<1>15. ASSUME clear_publish_state(j) PROVE Moved(j)
  BY <1>15, ToFacts, FollowsOn DEF clear_publish_state, Goto, Left, Moved
<1>16. ASSUME find_datasets_by_extra(j) PROVE Moved(j)
  <2> DEFINE With(found) == [To(j, "remove") EXCEPT !.candidates = Candidates(found)]
  <2>1. Called(j, With(TRUE), With(FALSE), With(FALSE))
    BY <1>16 DEF find_datasets_by_extra, _request, Goto, Called, Left, Repeats
  <2>2. ASSUME NEW found \in BOOLEAN PROVE Follows(j, With(found))
    <3>1. Candidates(found) \in Seq(Candidate) /\ Candidates(found) # <<>>
      <4> DEFINE own == [name |-> "own", id |-> Nil]
                 legacy == [name |-> "legacy", id |-> Nil]
                 other == [name |-> "other", id |-> dataset["other"].id]
      <4>1. own \in Candidate /\ legacy \in Candidate
        BY DEF Candidate, Name
      <4>2. Present("other") => other \in Candidate
        BY DEF PublicationTypes, Present, Dataset, Candidate, Name
      <4> HIDE DEF own, legacy, other
      <4>3. CASE Present("other") /\ dataset["other"].ours /\ found
        <5>1. Candidates(found) = <<own, legacy>> \o <<other>>
          BY <4>3 DEF Candidates, own, legacy, other
        <5>2. <<own, legacy>> \in Seq(Candidate) /\ <<other>> \in Seq(Candidate)
          BY <4>1, <4>2, <4>3
        <5>3. Candidates(found) \in Seq(Candidate) /\ Len(Candidates(found)) = 3
          BY <5>1, <5>2
        <5> QED
          BY <5>3
      <4>4. CASE ~(Present("other") /\ dataset["other"].ours /\ found)
        <5>1. Candidates(found) = <<own, legacy>> \o <<>>
          BY <4>4 DEF Candidates, own, legacy
        <5> QED
          BY <4>1, <5>1
      <4> QED
        BY <4>3, <4>4
    <3>2. To(j, "remove") \in Job /\ To(j, "remove").kind = job[j].kind
          /\ To(j, "remove").overlapped = job[j].overlapped
      BY DEF To, Job
    <3> QED
      BY <3>1, <3>2 DEF Follows, Job
  <2> HIDE DEF With
  <2> QED
    BY <2>1, <2>2, CallMoves
<1>17. ASSUME _delete_station_dataset(j) PROVE Moved(j)
  <2> DEFINE rest == Tail(job[j].candidates)
             next == IF rest = <<>> THEN "delete_sensors" ELSE "remove"
             q == To(j, next)
             rejected == [q EXCEPT !.candidates = rest]
  <2>1. Called(j, To(j, "delete_sensors"), rejected, To(j, "delete_sensors"))
    BY <1>17 DEF _delete_station_dataset, _request, Goto, Called, Left, Repeats
  <2>2. Follows(j, rejected)
    <3>1. rest \in Seq(Candidate)
      <4>1. job[j].candidates \in Seq(Candidate)
        BY <1>0 DEF Job
      <4>2. job[j].candidates # <<>>
        BY <1>0, <1>17 DEF _delete_station_dataset, Follows
      <4> QED
        BY <4>1, <4>2
    <3>2. /\ q \in Job /\ q.kind = job[j].kind /\ q.overlapped = job[j].overlapped
          /\ q.pc = next
      BY DEF To, Job
    <3>3. q.pc = "remove" => rest # <<>>
      BY <3>2
    <3> HIDE DEF rest, q
    <3>4. rejected \in Job
      BY <3>1, <3>2 DEF Job
    <3>5. /\ rejected.kind = q.kind /\ rejected.overlapped = q.overlapped
          /\ rejected.pc = q.pc /\ rejected.candidates = rest
      BY <3>2 DEF Job
    <3> QED
      BY <3>2, <3>3, <3>4, <3>5 DEF Follows
  <2> QED
    BY <2>1, <2>2, ToFacts, CallMoves
<1>18. ASSUME delete_station_sensors(j) PROVE Moved(j)
  BY <1>18, ToFacts, FollowsOn DEF delete_station_sensors, Goto, Left, Moved
<1>19. ASSUME DeleteRow(j) PROVE Moved(j)
  <2>1. PICK pc \in {"failure", "success"} : job' = [job EXCEPT ![j] = Left(To(j, pc))]
    BY <1>19 DEF DeleteRow, Goto, Left
  <2> QED
    BY <2>1, ToFacts, FollowsOn DEF Moved
<1> QED
  BY <1>1, <1>2, <1>3, <1>4, <1>5, <1>6, <1>7, <1>8, <1>9, <1>10, <1>11, <1>12,
     <1>13, <1>14, <1>15, <1>16, <1>17, <1>18, <1>19 DEF Step

-----------------------------------------------------------------------------
(* Types. *)

LEMMA MoveTypes ==
  ASSUME job \in Seq(Job), NEW j \in DOMAIN job, NEW r, Follows(j, r),
         \A i \in DOMAIN job : job[i].pc = "remove" => job[i].candidates # <<>>,
         job' = [job EXCEPT ![j] = r]
  PROVE  /\ job' \in Seq(Job) /\ Len(job') = Len(job) /\ job'[j] = r
         /\ \A i \in DOMAIN job' : job'[i].pc = "remove" => job'[i].candidates # <<>>
         /\ \A i \in DOMAIN job' : i # j => job'[i] = job[i]
BY DEF Follows

\* Types of the datasets: those there are have the ids that were given, and each its own.
DatasetTypes ==
  /\ dataset \in [Name -> Dataset \union {Nil}]
  /\ \A m, n \in Name : m # n /\ Nil \notin {dataset[m], dataset[n]}
                          => dataset[m].id # dataset[n].id
  /\ \A n \in Name : dataset[n] # Nil => dataset[n].id < created
  /\ created \in Nat

\* A call that changes the dataset of one name, or makes it, or removes it.
LEMMA SameIds ==
  ASSUME DatasetTypes, NEW n \in Name, NEW d \in Dataset \union {Nil},
         d # Nil /\ dataset[n] # Nil => d.id = dataset[n].id,
         d # Nil /\ dataset[n] = Nil => d.id = created,
         dataset' = [dataset EXCEPT ![n] = d],
         created' = IF \E m \in Name : dataset[m] = Nil /\ dataset'[m] # Nil
                    THEN created + 1 ELSE created
  PROVE  DatasetTypes'
<1>1. created' \in Nat /\ created <= created'
  BY DEF DatasetTypes
<1>2. d # Nil => d.id < created'
  <2>1. CASE dataset[n] = Nil /\ d # Nil
    BY <2>1 DEF DatasetTypes
  <2>2. CASE dataset[n] # Nil /\ d # Nil
    BY <1>1, <2>2 DEF DatasetTypes, Dataset
  <2> QED
    BY <2>1, <2>2
<1>3. \A m \in Name : m # n /\ d # Nil /\ dataset[m] # Nil => dataset[m].id # d.id
  BY DEF DatasetTypes, Dataset
<1>4. \A m \in Name : m # n /\ dataset[m] # Nil => dataset[m].id < created'
  BY <1>1 DEF DatasetTypes, Dataset
<1> QED
  BY <1>1, <1>2, <1>3, <1>4 DEF DatasetTypes

LEMMA StillTyped == DatasetTypes /\ UNCHANGED <<dataset, created>> => DatasetTypes'
BY DEF DatasetTypes

LEMMA PrivateDatasets ==
  ASSUME DatasetTypes, NEW n \in Name, dataset[n] # Nil, NEW private \in BOOLEAN
  PROVE  LET d == [dataset[n] EXCEPT !.private = private] IN
         /\ d \in Dataset /\ d.id = dataset[n].id /\ d.ours = dataset[n].ours
         /\ d.private = private /\ d.resources = dataset[n].resources
         /\ WithPrivate(n, private) = [dataset EXCEPT ![n] = d]
BY DEF DatasetTypes, Dataset, WithPrivate

LEMMA PrivateAnswers ==
  ASSUME DatasetTypes, NEW n \in Name, NEW private \in BOOLEAN,
         \/ dataset' = dataset
         \/ dataset[n] # Nil /\ dataset' = WithPrivate(n, private),
         created' = IF \E m \in Name : dataset[m] = Nil /\ dataset'[m] # Nil
                    THEN created + 1 ELSE created
  PROVE  DatasetTypes'
<1>1. CASE dataset' = dataset
  BY <1>1 DEF DatasetTypes
<1>2. CASE dataset[n] # Nil /\ dataset' = WithPrivate(n, private)
  <2> DEFINE d == [dataset[n] EXCEPT !.private = private]
  <2>1. d \in Dataset /\ d.id = dataset[n].id /\ WithPrivate(n, private) = [dataset EXCEPT ![n] = d]
    BY <1>2, PrivateDatasets
  <2> HIDE DEF d
  <2>2. d \in Dataset \union {Nil} /\ dataset' = [dataset EXCEPT ![n] = d] /\ dataset[n] # Nil
    BY <1>2, <2>1
  <2> QED
    BY <2>1, <2>2, SameIds
<1> QED
  BY <1>1, <1>2

LEMMA StepDatasets ==
  ASSUME PublicationTypes, NEW j \in Active, Step(j)
  PROVE  DatasetTypes'
<1>a. job[j] \in Job
  BY DEF PublicationTypes, Active
<1>0. DatasetTypes /\ job[j].name \in Name
  BY <1>a DEF PublicationTypes, DatasetTypes, Job
<1> DEFINE Grown == created' = IF \E m \in Name : dataset[m] = Nil /\ dataset'[m] # Nil
                               THEN created + 1 ELSE created
<1>1. ASSUME \/ list_user_organizations(j) \/ Show(j) \/ ShowAgain(j)
             \/ ShowOwn(j) \/ ShowLegacy(j) \/ find_datasets_by_extra(j)
      PROVE  DatasetTypes'
  <2>1. dataset' = dataset /\ Grown
    BY <1>1 DEF list_user_organizations, Show, ShowAgain, ShowOwn, ShowLegacy,
       find_datasets_by_extra, _request
  <2> QED
    BY <1>0, <2>1 DEF DatasetTypes
<1>2. ASSUME package_create(j) PROVE DatasetTypes'
  <2> DEFINE n == job[j].name
             d == NewDataset(created, Private(j))
  <2>1. /\ Grown
        /\ dataset' = dataset \/ (~Present(n) /\ dataset' = [dataset EXCEPT ![n] = d])
    BY <1>2 DEF package_create, _request, Goto
  <2>2. d \in Dataset /\ d.id = created
    BY <1>0 DEF NewDataset, Private, Dataset, DatasetTypes
  <2>3. d # Nil
    BY <2>2, NilAssumption
  <2> HIDE DEF d
  <2>4. CASE dataset' = dataset
    BY <1>0, <2>1, <2>4 DEF DatasetTypes
  <2>5. CASE dataset[n] = Nil /\ dataset' = [dataset EXCEPT ![n] = d]
    BY <1>0, <2>1, <2>2, <2>3, <2>5, SameIds
  <2> QED
    BY <2>1, <2>4, <2>5 DEF Present
<1>3. ASSUME _patch_dataset(j) PROVE DatasetTypes'
  <2>1. /\ Grown
        /\ \/ dataset' = dataset
           \/ Present(job[j].name) /\ dataset' = WithPrivate(job[j].name, Private(j))
    BY <1>3 DEF _patch_dataset, _request
  <2> QED
    BY <1>0, <2>1, PrivateAnswers DEF Present, Private
<1>4. ASSUME ensure_dataset_visibility(j) PROVE DatasetTypes'
  <2>1. /\ Grown
        /\ \/ dataset' = dataset
           \/ Same(j) /\ dataset' = WithPrivate(job[j].name, Private(j))
    BY <1>4 DEF ensure_dataset_visibility, _request
  <2> QED
    BY <1>0, <2>1, PrivateAnswers DEF Present, Private, Same
<1>5. ASSUME Hide(j) PROVE DatasetTypes'
  <2>1. /\ Grown
        /\ dataset' = dataset \/ (Same(j) /\ dataset' = WithPrivate(job[j].name, TRUE))
    BY <1>5 DEF Hide, _request, Goto
  <2> QED
    BY <1>0, <2>1, PrivateAnswers DEF Present, Same
<1>6. ASSUME ensure_resource(j) PROVE DatasetTypes'
  <2> DEFINE n == job[j].name
  <2>1. PICK s \in job[j].snapshot :
          /\ Grown
          /\ \/ dataset' = dataset
             \/ Same(j) /\ dataset' = [dataset EXCEPT ![n].resources[s] = @ + 1]
    BY <1>6 DEF ensure_resource, _request
  <2> DEFINE d == [dataset[n] EXCEPT !.resources[s] = @ + 1]
  <2>2. CASE dataset' = dataset
    BY <1>0, <2>1, <2>2 DEF DatasetTypes
  <2>3. CASE Same(j) /\ dataset' = [dataset EXCEPT ![n].resources[s] = @ + 1]
    <3>1. dataset[n] \in Dataset /\ s \in Sensor /\ dataset[n] # Nil
      BY <1>a, <1>0, <2>3 DEF Same, Present, DatasetTypes, Job
    <3>2. d \in Dataset /\ d.id = dataset[n].id
      BY <3>1 DEF Dataset
    <3>3. dataset' = [dataset EXCEPT ![n] = d]
      BY <2>3
    <3> HIDE DEF d
    <3> QED
      BY <1>0, <2>1, <3>1, <3>2, <3>3, SameIds
  <2> QED
    BY <2>1, <2>2, <2>3
<1>7. ASSUME _delete_station_dataset(j) PROVE DatasetTypes'
  <2> DEFINE c == Head(job[j].candidates)
  <2>1. Grown /\ (dataset' = dataset \/ dataset' = [dataset EXCEPT ![c.name] = Nil])
    BY <1>7 DEF _delete_station_dataset, _request
  <2>2. c.name \in Name
    <3>1. job[j].candidates \in Seq(Candidate) /\ job[j].candidates # <<>>
      BY <1>a, <1>7 DEF _delete_station_dataset, PublicationTypes, Active, Job
    <3>2. c \in Candidate
      BY <3>1
    <3> HIDE DEF c
    <3> QED
      BY <3>2 DEF Candidate
  <2> HIDE DEF c
  <2>3. CASE dataset' = dataset
    BY <1>0, <2>1, <2>3 DEF DatasetTypes
  <2>4. CASE dataset' = [dataset EXCEPT ![c.name] = Nil]
    BY <1>0, <2>1, <2>2, <2>4, SameIds
  <2> QED
    BY <2>1, <2>3, <2>4
<1>8. ASSUME \/ PublishFails(j) \/ set_publish_state(j) \/ get_sensors_by_station_chunked(j)
             \/ PublishNextSensor(j) \/ clear_publish_state(j) \/ delete_station_sensors(j)
             \/ DeleteRow(j)
      PROVE  DatasetTypes'
  <2>1. UNCHANGED <<dataset, created>>
    BY <1>8 DEF PublishFails, set_publish_state, get_sensors_by_station_chunked,
       PublishNextSensor, clear_publish_state, delete_station_sensors, DeleteRow
  <2> QED
    BY <1>0, <2>1, StillTyped
<1> QED
  BY <1>1, <1>2, <1>3, <1>4, <1>5, <1>6, <1>7, <1>8 DEF Step

DatabaseTypes ==
  /\ station \in {"absent", "private", "published", "deleted"}
  /\ sensors \subseteq Sensor
  /\ exposed \subseteq sensors
  /\ ~Exists => sensors = {}

JobTypes ==
  /\ job \in Seq(Job)
  /\ \A j \in DOMAIN job : job[j].pc = "remove" => job[j].candidates # <<>>

LEMMA TypesParts ==
  /\ PublicationTypes <=> DatabaseTypes /\ DatasetTypes /\ JobTypes /\ faults \in 0..MaxFaults
  /\ PublicationTypes' <=> DatabaseTypes' /\ DatasetTypes' /\ JobTypes' /\ faults' \in 0..MaxFaults
BY DEF PublicationTypes, DatabaseTypes, DatasetTypes, JobTypes

LEMMA StepDatabase ==
  ASSUME PublicationTypes, NEW j \in Active, Step(j)
  PROVE  DatabaseTypes'
<1> USE DEF DatabaseTypes, Exists
<1>0. DatabaseTypes
  BY DEF PublicationTypes
<1>1. ASSUME \/ list_user_organizations(j) \/ Show(j) \/ package_create(j) \/ ShowAgain(j)
             \/ _patch_dataset(j) \/ ensure_dataset_visibility(j) \/ ensure_resource(j)
             \/ ShowOwn(j) \/ ShowLegacy(j) \/ Hide(j) \/ find_datasets_by_extra(j)
             \/ _delete_station_dataset(j) \/ PublishFails(j)
             \/ get_sensors_by_station_chunked(j)
      PROVE  DatabaseTypes'
  <2>1. UNCHANGED database
    BY <1>1 DEF list_user_organizations, Show, package_create, ShowAgain, _patch_dataset,
       ensure_dataset_visibility, ensure_resource, ShowOwn, ShowLegacy, Hide,
       find_datasets_by_extra, _delete_station_dataset, PublishFails,
       get_sensors_by_station_chunked, _request
  <2> QED
    BY <1>0, <2>1
<1>2. ASSUME set_publish_state(j) PROVE DatabaseTypes'
  BY <1>0, <1>2 DEF set_publish_state
<1>3. ASSUME PublishNextSensor(j) PROVE DatabaseTypes'
  BY <1>0, <1>3 DEF PublishNextSensor
<1>4. ASSUME clear_publish_state(j) PROVE DatabaseTypes'
  BY <1>0, <1>4 DEF clear_publish_state
<1>5. ASSUME delete_station_sensors(j) PROVE DatabaseTypes'
  BY <1>0, <1>5 DEF delete_station_sensors
<1>6. ASSUME DeleteRow(j) PROVE DatabaseTypes'
  BY <1>0, <1>6 DEF DeleteRow
<1> QED
  BY <1>1, <1>2, <1>3, <1>4, <1>5, <1>6 DEF Step

LEMMA StepFaults ==
  ASSUME PublicationTypes, NEW j \in Active, Step(j)
  PROVE  faults' \in 0..MaxFaults
<1>1. \/ UNCHANGED faults
      \/ faults < MaxFaults /\ faults' = faults + 1
  BY DEF Step, list_user_organizations, Show, package_create, ShowAgain, _patch_dataset,
     ensure_dataset_visibility, ensure_resource, ShowOwn, ShowLegacy, Hide,
     find_datasets_by_extra, _delete_station_dataset, PublishFails, set_publish_state,
     get_sensors_by_station_chunked, PublishNextSensor, clear_publish_state,
     delete_station_sensors, DeleteRow, _request
<1> QED
  BY <1>1, JobsAssumption DEF PublicationTypes

\* What begins: a job at its first step.
LEMMA EnterTypes ==
  ASSUME JobTypes, NEW r \in Job, r.pc # "remove", Enter(r)
  PROVE  /\ JobTypes' /\ Len(job') = Len(job) + 1
         /\ job'[Len(job')] = [r EXCEPT !.overlapped = Active # {}]
         /\ \A j \in DOMAIN job : job'[j].pc = job[j].pc
         /\ UNCHANGED <<dataset, created, faults>>
<1> DEFINE new == [r EXCEPT !.overlapped = Active # {}]
           old(j) == IF j \in Active THEN [job[j] EXCEPT !.overlapped = TRUE] ELSE Trace(job[j])
           before == [j \in DOMAIN job |-> old(j)]
<1>1. new \in Job /\ new.pc # "remove"
  BY DEF Job
<1>2. ASSUME NEW j \in DOMAIN job
      PROVE  old(j) \in Job /\ old(j).pc = job[j].pc
             /\ (old(j).pc = "remove" => old(j).candidates # <<>>)
  <2>1. job[j] \in Job /\ (job[j].pc = "remove" => job[j].candidates # <<>>)
    BY DEF JobTypes
  <2>2. CASE j \in Active
    BY <2>1, <2>2 DEF Job
  <2>3. CASE j \notin Active
    BY <2>1, <2>3, TraceFacts DEF Active, Ended
  <2> QED
    BY <2>2, <2>3
<1>3. before \in Seq(Job) /\ Len(before) = Len(job) /\ DOMAIN before = DOMAIN job
  <2>1. job \in Seq(Job)
    BY DEF JobTypes
  <2>2. before \in [1..Len(job) -> Job] /\ Len(job) \in Nat
    BY <1>2, <2>1
  <2> HIDE DEF before
  <2> QED
    BY <2>1, <2>2
<1>4. job' = Append(before, new) /\ UNCHANGED <<dataset, created, faults>>
  BY DEF Enter
<1>5. \A j \in DOMAIN job : before[j] = old(j)
  OBVIOUS
<1>6. job \in Seq(Job)
  BY DEF JobTypes
<1> HIDE DEF before, new, old
<1>7. /\ job' \in Seq(Job) /\ Len(job') = Len(job) + 1 /\ job'[Len(job')] = new
      /\ \A j \in DOMAIN job : job'[j] = before[j]
      /\ DOMAIN job' = DOMAIN job \union {Len(job')}
  BY <1>1, <1>3, <1>4, <1>6
<1> QED
  BY <1>1, <1>2, <1>4, <1>5, <1>7 DEF JobTypes, new

-----------------------------------------------------------------------------
(* What a step leaves of the job, field by field. *)

Kept(q, r) ==
  /\ q.token = r.token /\ q.name = r.name /\ q.cascade = r.cascade
  /\ q.snapshot = r.snapshot /\ q.handled = r.handled /\ q.known = r.known
  /\ q.id = r.id /\ q.todo = r.todo

Like(q, r) == Kept(q, r) /\ q.pc = r.pc /\ q.errors = r.errors

Became(j, r)   == job' = [job EXCEPT ![j] = Left(r)]
Worsened(j, r) == job' = [job EXCEPT ![j] = Left(Faulty(r))]
Repeated(j)    == job' = [job EXCEPT ![j] = Repeats(j)]

LEMMA ToKeeps ==
  ASSUME NEW j, job[j] \in Job, NEW pc \in Label
  PROVE  /\ To(j, pc) \in Job /\ Failing(j, pc) \in Job
         /\ Kept(To(j, pc), job[j]) /\ Kept(Failing(j, pc), job[j])
         /\ To(j, pc).pc = pc /\ Failing(j, pc).pc = pc
         /\ To(j, pc).errors = job[j].errors /\ Failing(j, pc).errors
         /\ To(j, pc).faulty = job[j].faulty /\ Failing(j, pc).faulty = job[j].faulty
BY DEF Kept, To, Failing, Job, Label

LEMMA LeftKeeps ==
  ASSUME NEW r \in Job, r.pc \notin Ended
  PROVE  Like(Left(r), r) /\ Left(r).faulty = r.faulty
<1>1. Left(r) = [r EXCEPT !.tries = 0]
  BY LeftFacts
<1> QED
  BY <1>1 DEF Like, Kept, Job

LEMMA FaultyKeeps ==
  ASSUME NEW r \in Job
  PROVE  Like(Faulty(r), r)
BY DEF Faulty, Like, Kept, Job

LEMMA SyncKeeps ==
  ASSUME NEW r \in Job, r.kind = "publish"
  PROVE  /\ Kept(Sync(r), r) /\ Sync(r).errors = r.errors
         /\ Sync(r).pc = IF r.handled # r.snapshot THEN "resources" ELSE "flag"
BY DEF Sync, Kept, Job

LEMMA BecameFacts ==
  ASSUME PublicationTypes, NEW j \in Active, NEW r \in Job, r.pc \notin Ended, Became(j, r)
  PROVE  Like(job'[j], r) /\ job'[j].faulty = r.faulty
<1>1. job'[j] = Left(r)
  BY DEF PublicationTypes, Active, Became
<1> QED
  BY <1>1, LeftKeeps

LEMMA WorsenedFacts ==
  ASSUME PublicationTypes, NEW j \in Active, NEW r \in Job, r.pc \notin Ended, Worsened(j, r)
  PROVE  Like(job'[j], r) /\ job'[j].faulty
<1>1. job'[j] = Left(Faulty(r))
  BY DEF PublicationTypes, Active, Worsened
<1>2. Faulty(r) \in Job /\ Faulty(r).faulty /\ Faulty(r).pc \notin Ended
  BY FaultyFacts
<1> QED
  BY <1>1, <1>2, LeftKeeps, FaultyKeeps DEF Like, Kept

LEMMA RepeatedFacts ==
  ASSUME PublicationTypes, NEW j \in Active, Repeated(j)
  PROVE  Like(job'[j], job[j]) /\ job'[j].faulty
<1> DEFINE q == [job[j] EXCEPT !.tries = @ + 1]
<1>1. job'[j] = Faulty(q)
  BY DEF PublicationTypes, Active, Repeated, Repeats
<1>2. q \in Job /\ Like(q, job[j])
  <2>1. job[j] \in Job
    BY DEF PublicationTypes, Active
  <2> QED
    BY <2>1 DEF Like, Kept, Job
<1> HIDE DEF q
<1> QED
  BY <1>1, <1>2, FaultyFacts, FaultyKeeps DEF Like, Kept

-----------------------------------------------------------------------------
(***************************************************************************)
(* What a publication that runs alone knows.                               *)
(***************************************************************************)
Before == {"organization", "show", "package_create", "show_again", "patch"}

Public(r) == Present(r.name) /\ dataset[r.name].ours /\ ~dataset[r.name].private

Serves(r) == Public(r) /\ r.snapshot \subseteq Registered(dataset[r.name])

\* From the visibility on, the dataset is this job's.
Provides(d, r) ==
  /\ d # Nil /\ d.ours /\ ~d.private /\ r.id = d.id
  /\ r.known \subseteq Registered(d)
  /\ r.errors \/ r.handled \subseteq Registered(d)

PublishKnows(r) ==
  /\ r.pc \in Before \union {"visibility", "resources", "flag", "list", "cascade"} \union Ended
  /\ r.pc \notin Ended => r.snapshot = sensors
  /\ r.pc \in Before => r.handled = {} /\ r.known = {}
  /\ r.pc = "patch" /\ Present(r.name) => dataset[r.name].ours
  /\ r.pc \in {"visibility", "resources"} => Provides(dataset[r.name], r)
  /\ r.pc = "flag" /\ r.token /\ ~r.errors => Serves(r)
  /\ r.pc \in {"list", "cascade", "success"} =>
       station = "published" /\ (r.token => Serves(r))
  /\ r.pc \in {"list", "cascade"} => r.cascade
  /\ r.pc = "cascade" => r.snapshot \subseteq exposed \union r.todo
  /\ r.pc = "success" /\ r.cascade => r.snapshot \subseteq exposed

LEMMA PublishStep ==
  ASSUME PublicationTypes, NEW j \in Active, job[j].kind = "publish",
         PublishKnows(job[j]), Step(j)
  PROVE  PublishKnows(job[j])'
<1>0. job[j] \in Job
  BY DEF PublicationTypes, Active
<1> DEFINE Labels == {"organization", "show", "package_create", "show_again", "patch",
                      "visibility", "resources", "flag", "list", "cascade"}
<1>t. ASSUME NEW pc \in Labels
      PROVE  /\ To(j, pc) \in Job /\ Failing(j, pc) \in Job
             /\ Kept(To(j, pc), job[j]) /\ Kept(Failing(j, pc), job[j])
             /\ To(j, pc).pc = pc /\ Failing(j, pc).pc = pc
             /\ To(j, pc).errors = job[j].errors /\ Failing(j, pc).errors
             /\ pc \notin Ended
  <2>1. pc \in Label /\ pc \notin Ended
    BY DEF Label, Calls, Transactions, Ended
  <2> QED
    BY <1>0, <2>1, ToKeeps
<1>d. DatasetFails(j) = Failing(j, "flag")
  BY DEF DatasetFails
<1>f. \/ Found(j) = To(j, "patch") /\ dataset[job[j].name].ours
      \/ Found(j) = Failing(j, "flag")
  BY <1>d DEF Found
\* A call before the job has the dataset, whatever it may change.
<1>b. ASSUME NEW r \in Job, Kept(r, job[j]), UNCHANGED sensors,
             job[j].pc \in Before \ {"patch"},
             Became(j, r) \/ Worsened(j, r) \/ Repeated(j),
             \/ r.pc \in Before \ {"patch"}
             \/ r.pc = "patch" /\ dataset[r.name].ours /\ UNCHANGED dataset
             \/ r.pc = "flag" /\ r.errors
      PROVE  PublishKnows(job[j])'
  <2>1. r.pc \notin Ended
    BY <1>b DEF Before, Ended
  <2>2. Like(job'[j], r) \/ Like(job'[j], job[j])
    BY <1>b, <2>1, BecameFacts, WorsenedFacts, RepeatedFacts
  <2> QED
    BY <1>b, <2>2 DEF PublishKnows, Like, Kept, Before, Ended, Present
\* A call of a job that has the dataset, and has it after the call.
<1>h. ASSUME NEW r \in Job, r.kind = "publish", r.name = job[j].name,
             r.snapshot = job[j].snapshot, UNCHANGED sensors,
             job[j].pc \in Before \union {"visibility", "resources"},
             \/ Provides(dataset'[r.name], r) /\ (Became(j, Sync(r)) \/ Worsened(j, Sync(r)))
             \/ Provides(dataset'[r.name], job[j]) /\ Repeated(j)
                  /\ job[j].pc \in {"visibility", "resources"}
      PROVE  PublishKnows(job[j])'
  <2>1. job[j].snapshot = sensors
    BY <1>h DEF PublishKnows, Before, Ended
  <2>2. ASSUME Provides(dataset'[r.name], r), Became(j, Sync(r)) \/ Worsened(j, Sync(r))
        PROVE  PublishKnows(job[j])'
    <3>1. /\ Kept(Sync(r), r) /\ Sync(r).errors = r.errors /\ Sync(r) \in Job
          /\ Sync(r).pc = IF r.handled # r.snapshot THEN "resources" ELSE "flag"
      BY <1>h, SyncKeeps, SyncFacts
    <3>2. Like(job'[j], Sync(r))
      BY <2>2, <3>1, BecameFacts, WorsenedFacts DEF Ended
    <3> QED
      BY <1>h, <2>1, <2>2, <3>1, <3>2
      DEF PublishKnows, Provides, Serves, Public, Present, Like, Kept, Before, Ended
  <2>3. ASSUME Provides(dataset'[r.name], job[j]), Repeated(j),
               job[j].pc \in {"visibility", "resources"}
        PROVE  PublishKnows(job[j])'
    <3>1. Like(job'[j], job[j])
      BY <2>3, RepeatedFacts
    <3> QED
      BY <1>h, <2>1, <2>3, <3>1 DEF PublishKnows, Provides, Like, Kept, Before, Ended
  <2> QED
    BY <1>h, <2>2, <2>3
<1>1. ASSUME list_user_organizations(j) PROVE PublishKnows(job[j])'
  <2>1. /\ UNCHANGED <<sensors, dataset>> /\ job[j].pc = "organization"
        /\ \E r \in {To(j, "show"), Failing(j, "flag"), Failing(j, "show")} :
             Became(j, r) \/ Worsened(j, r) \/ Repeated(j)
    BY <1>1 DEF list_user_organizations, _request, Goto, Became, Worsened, Repeated, Left, Repeats
  <2>2. PICK r \in {To(j, "show"), Failing(j, "flag"), Failing(j, "show")} :
          Became(j, r) \/ Worsened(j, r) \/ Repeated(j)
    BY <2>1
  <2>3. r \in Job /\ Kept(r, job[j]) /\ (r.pc = "show" \/ (r.pc = "flag" /\ r.errors))
    BY <1>t
  <2> QED
    BY <2>1, <2>2, <2>3, <1>b DEF Before
<1>2. ASSUME Show(j) PROVE PublishKnows(job[j])'
  <2>1. /\ UNCHANGED <<sensors, dataset>> /\ job[j].pc = "show"
        /\ \E r \in {Found(j), To(j, "package_create")} :
             Became(j, r) \/ Worsened(j, r) \/ Repeated(j)
    BY <1>2 DEF Show, _request, Goto, Became, Worsened, Repeated, Left, Repeats
  <2>2. PICK r \in {Found(j), To(j, "package_create")} :
          Became(j, r) \/ Worsened(j, r) \/ Repeated(j)
    BY <2>1
  <2>3. /\ r \in Job /\ Kept(r, job[j])
        /\ \/ r.pc = "package_create"
           \/ r.pc = "patch" /\ dataset[r.name].ours
           \/ r.pc = "flag" /\ r.errors
    BY <1>t, <1>f DEF Kept
  <2> QED
    BY <2>1, <2>2, <2>3, <1>b DEF Before
<1>3. ASSUME package_create(j) PROVE PublishKnows(job[j])'
  <2> DEFINE n == job[j].name
             d == NewDataset(created, Private(j))
             q == To(j, "visibility")
             answered == [q EXCEPT !.id = created]
  <2>1. /\ UNCHANGED sensors /\ job[j].pc = "package_create"
        /\ \/ dataset' = [dataset EXCEPT ![n] = d] /\ Became(j, answered)
           \/ \E r \in {To(j, "show_again"), Failing(j, "flag")} :
                Became(j, r) \/ Worsened(j, r) \/ Repeated(j)
    BY <1>3, <1>d DEF package_create, _request, Goto, Became, Worsened, Repeated, Left, Repeats
  <2>2. ASSUME dataset' = [dataset EXCEPT ![n] = d], Became(j, answered)
        PROVE  PublishKnows(job[j])'
    <3>1. /\ d # Nil /\ d.ours /\ ~d.private /\ d.id = created
      <4>1. d \in Dataset
        BY DEF NewDataset, Private, Dataset, PublicationTypes
      <4> QED
        BY <4>1, NilAssumption DEF NewDataset, Private
    <3>2. q \in Job /\ Kept(q, job[j]) /\ q.pc = "visibility" /\ q.errors = job[j].errors
      BY <1>t
    <3>3. created \in Nat /\ n \in Name /\ dataset \in [Name -> Dataset \union {Nil}]
      BY <1>0 DEF PublicationTypes, Job
    <3> HIDE DEF d, q
    <3>4. /\ answered \in Job /\ answered.pc = "visibility" /\ answered.id = created
          /\ answered.name = n /\ answered.handled = job[j].handled
          /\ answered.known = job[j].known /\ answered.snapshot = job[j].snapshot
      BY <3>2, <3>3 DEF Kept, Job
    <3> HIDE DEF answered
    <3>5. Like(job'[j], answered)
      BY <2>2, <3>4, BecameFacts DEF Ended
    <3>6. job[j].handled = {} /\ job[j].known = {} /\ job[j].snapshot = sensors
      BY <2>1 DEF PublishKnows, Before, Ended
    <3>7. dataset'[n] = d
      BY <2>2, <3>3
    <3> QED
      BY <2>1, <3>1, <3>4, <3>5, <3>6, <3>7
      DEF PublishKnows, Provides, Like, Kept, Before, Ended
  <2>3. ASSUME NEW r \in {To(j, "show_again"), Failing(j, "flag")},
               Became(j, r) \/ Worsened(j, r) \/ Repeated(j)
        PROVE  PublishKnows(job[j])'
    <3>1. r \in Job /\ Kept(r, job[j]) /\ (r.pc = "show_again" \/ (r.pc = "flag" /\ r.errors))
      BY <1>t
    <3> QED
      BY <2>1, <2>3, <3>1, <1>b DEF Before
  <2> HIDE DEF answered, d
  <2> QED
    BY <2>1, <2>2, <2>3
<1>4. ASSUME ShowAgain(j) PROVE PublishKnows(job[j])'
  <2>1. /\ UNCHANGED <<sensors, dataset>> /\ job[j].pc = "show_again"
        /\ \E r \in {Found(j), Failing(j, "flag")} :
             Became(j, r) \/ Worsened(j, r) \/ Repeated(j)
    BY <1>4, <1>d DEF ShowAgain, _request, Goto, Became, Worsened, Repeated, Left, Repeats
  <2>2. PICK r \in {Found(j), Failing(j, "flag")} :
          Became(j, r) \/ Worsened(j, r) \/ Repeated(j)
    BY <2>1
  <2>3. /\ r \in Job /\ Kept(r, job[j])
        /\ \/ r.pc = "patch" /\ dataset[r.name].ours
           \/ r.pc = "flag" /\ r.errors
    BY <1>t, <1>f DEF Kept
  <2> QED
    BY <2>1, <2>2, <2>3, <1>b DEF Before
<1>5. ASSUME _patch_dataset(j) PROVE PublishKnows(job[j])'
  <2> DEFINE n == job[j].name
             d == dataset[n]
             q == To(j, "visibility")
             answered == [q EXCEPT !.id = d.id, !.known = Registered(d)]
             Hidden == dataset' = WithPrivate(n, FALSE)
             e == [d EXCEPT !.private = FALSE]
  <2>1. /\ UNCHANGED sensors /\ job[j].pc = "patch"
        /\ \/ Present(n) /\ Hidden /\ Became(j, answered)
           \/ Became(j, Failing(j, "flag")) \/ Worsened(j, Failing(j, "flag"))
           \/ (dataset' = dataset \/ (Present(n) /\ Hidden)) /\ Repeated(j)
    BY <1>5, <1>d
    DEF _patch_dataset, _request, Goto, Became, Worsened, Repeated, Left, Repeats, Private
  <2>2. job[j].handled = {} /\ job[j].known = {} /\ job[j].snapshot = sensors
        /\ (Present(n) => d.ours) /\ n \in Name
    BY <1>0, <2>1 DEF PublishKnows, Before, Ended, Job
  <2>3. ASSUME Present(n), Hidden
        PROVE  /\ dataset'[n] = e /\ e # Nil /\ e.ours /\ ~e.private /\ e.id = d.id
               /\ Registered(e) = Registered(d) /\ d \in Dataset
    <3>1. DatasetTypes /\ n \in Name
      BY <2>2, TypesParts
    <3>2. /\ e \in Dataset /\ e.id = d.id /\ e.ours = d.ours /\ e.private = FALSE
          /\ e.resources = d.resources /\ WithPrivate(n, FALSE) = [dataset EXCEPT ![n] = e]
      BY <2>3, <3>1, PrivateDatasets DEF Present
    <3>3. d \in Dataset
      BY <2>3, <3>1 DEF Present, DatasetTypes
    <3> HIDE DEF e
    <3>4. dataset'[n] = e
      BY <2>3, <3>1, <3>2 DEF DatasetTypes
    <3> QED
      BY <2>2, <2>3, <3>2, <3>3, <3>4, NilAssumption DEF Registered
  <2>4. ASSUME Present(n), Hidden, Became(j, answered) PROVE PublishKnows(job[j])'
    <3>1. q \in Job /\ Kept(q, job[j]) /\ q.pc = "visibility"
      BY <1>t
    <3>2. d.id \in Nat /\ Registered(d) \in SUBSET Sensor
      BY <2>3, <2>4 DEF Dataset, Registered
    <3> HIDE DEF q
    <3>3. /\ answered \in Job /\ answered.pc = "visibility" /\ answered.id = d.id
          /\ answered.name = n /\ answered.handled = job[j].handled
          /\ answered.known = Registered(d) /\ answered.snapshot = job[j].snapshot
      BY <3>1, <3>2 DEF Kept, Job
    <3> HIDE DEF answered
    <3>4. Like(job'[j], answered)
      BY <2>4, <3>3, BecameFacts DEF Ended
    <3>5. /\ dataset'[n] # Nil /\ dataset'[n].ours /\ ~dataset'[n].private
          /\ dataset'[n].id = d.id /\ Registered(dataset'[n]) = Registered(d)
      BY <2>3, <2>4
    <3> HIDE DEF d
    <3>6. /\ job'[j].name = n /\ job'[j].pc = "visibility" /\ job'[j].id = d.id
          /\ job'[j].known = Registered(d) /\ job'[j].handled = {}
          /\ job'[j].snapshot = sensors
      BY <2>2, <3>3, <3>4 DEF Like, Kept
    <3>7. Provides(dataset'[job'[j].name], job'[j])
      BY <3>5, <3>6 DEF Provides
    <3> QED
      BY <2>1, <3>6, <3>7 DEF PublishKnows, Before, Ended
  <2>5. ASSUME Became(j, Failing(j, "flag")) \/ Worsened(j, Failing(j, "flag"))
        PROVE  PublishKnows(job[j])'
    <3>1. Like(job'[j], Failing(j, "flag"))
      BY <1>t, <2>5, BecameFacts, WorsenedFacts
    <3> QED
      BY <1>t, <2>1, <2>2, <3>1 DEF PublishKnows, Like, Kept, Before, Ended
  <2>6. ASSUME dataset' = dataset \/ (Present(n) /\ Hidden), Repeated(j)
        PROVE  PublishKnows(job[j])'
    <3>1. Like(job'[j], job[j])
      BY <2>6, RepeatedFacts
    <3>2. dataset'[n] # Nil => dataset'[n].ours
      BY <2>2, <2>3, <2>6 DEF Present
    <3> QED
      BY <2>1, <2>2, <3>1, <3>2 DEF PublishKnows, Like, Kept, Before, Ended, Present
  <2> HIDE DEF answered
  <2> QED
    BY <2>1, <2>4, <2>5, <2>6
<1>6. ASSUME ensure_dataset_visibility(j) PROVE PublishKnows(job[j])'
  <2> DEFINE n == job[j].name
             q == Failing(j, "visibility")
             Hidden == dataset' = WithPrivate(n, FALSE)
  <2>1. Provides(dataset[n], job[j]) /\ Same(j) /\ n \in Name /\ job[j].pc = "visibility"
    BY <1>0, <1>6 DEF ensure_dataset_visibility, PublishKnows, Provides, Same, Present, Job
  <2>2. /\ UNCHANGED sensors /\ (dataset' = dataset \/ Hidden)
        /\ \/ \E r \in {job[j], q} : Became(j, Sync(r)) \/ Worsened(j, Sync(r))
           \/ Repeated(j)
    BY <1>6, <2>1
    DEF ensure_dataset_visibility, _request, Goto, Became, Worsened, Repeated, Left, Repeats,
        Private, VisibilityFails
  <2>3. /\ dataset'[n] # Nil /\ dataset'[n].ours /\ ~dataset'[n].private
        /\ dataset'[n].id = dataset[n].id /\ Registered(dataset'[n]) = Registered(dataset[n])
    <3>1. CASE dataset' = dataset
      BY <2>1, <3>1 DEF Provides
    <3>2. CASE Hidden
      <4> DEFINE e == [dataset[n] EXCEPT !.private = FALSE]
      <4>1. DatasetTypes /\ dataset[n] # Nil
        BY <2>1, TypesParts DEF Provides
      <4>2. /\ e \in Dataset /\ e.id = dataset[n].id /\ e.ours = dataset[n].ours
            /\ e.private = FALSE /\ e.resources = dataset[n].resources
            /\ WithPrivate(n, FALSE) = [dataset EXCEPT ![n] = e]
        BY <2>1, <4>1, PrivateDatasets
      <4> HIDE DEF e
      <4>3. dataset'[n] = e
        BY <2>1, <3>2, <4>1, <4>2 DEF DatasetTypes
      <4> QED
        BY <2>1, <4>2, <4>3, NilAssumption DEF Provides, Registered
    <3> QED
      BY <2>2, <3>1, <3>2
  <2>4. Provides(dataset'[n], job[j])
    BY <2>1, <2>3 DEF Provides
  <2>5. q \in Job /\ Kept(q, job[j]) /\ q.errors /\ q.kind = "publish"
    <3>1. q \in Job /\ Kept(q, job[j]) /\ q.errors
      BY <1>t
    <3>2. q.kind = job[j].kind
      BY <1>0, ToFacts DEF Label, Calls, Follows
    <3> QED
      BY <3>1, <3>2
  <2> HIDE DEF q
  <2>6. Provides(dataset'[n], q)
    BY <2>4, <2>5 DEF Provides, Kept
  <2>7. CASE Repeated(j)
    BY <1>0, <2>1, <2>2, <2>4, <2>7, <1>h
  <2>8. ASSUME NEW r \in {job[j], q}, Became(j, Sync(r)) \/ Worsened(j, Sync(r))
        PROVE  PublishKnows(job[j])'
    <3>1. r \in Job /\ r.kind = "publish" /\ r.name = n /\ r.snapshot = job[j].snapshot
          /\ Provides(dataset'[n], r)
      BY <1>0, <2>4, <2>5, <2>6, <2>8 DEF Kept
    <3> QED
      BY <2>1, <2>2, <2>8, <3>1, <1>h
  <2> QED
    BY <2>2, <2>7, <2>8
<1>7. ASSUME ensure_resource(j) PROVE PublishKnows(job[j])'
  <2> DEFINE n == job[j].name
             d == dataset[n]
  <2>1. Provides(d, job[j]) /\ Same(j) /\ n \in Name /\ job[j].pc = "resources"
    BY <1>0, <1>7 DEF ensure_resource, PublishKnows, Provides, Same, Present, Job
  <2>2. PICK s \in job[j].snapshot \ job[j].handled :
          _request(j, Same(j),
                   IF s \in job[j].known THEN dataset
                   ELSE [dataset EXCEPT ![n].resources[s] = @ + 1],
                   Sync([job[j] EXCEPT !.handled = @ \union {s}, !.known = @ \union {s}]),
                   ResourceFails(j, s), ResourceFails(j, s))
    BY <1>7 DEF ensure_resource
  <2> DEFINE More == dataset' = [dataset EXCEPT ![n].resources[s] = @ + 1]
             good == [job[j] EXCEPT !.handled = @ \union {s}, !.known = @ \union {s}]
             bad == [job[j] EXCEPT !.errors = TRUE, !.handled = @ \union {s}]
  <2>3. /\ UNCHANGED sensors
        /\ \/ /\ IF s \in job[j].known THEN dataset' = dataset ELSE More
              /\ Became(j, Sync(good))
           \/ /\ dataset' = dataset \/ More
              /\ Worsened(j, Sync(bad)) \/ Repeated(j)
    BY <2>1, <2>2
    DEF _request, Goto, Became, Worsened, Repeated, Left, Repeats, ResourceFails
  <2>4. s \in Sensor /\ d \in Dataset
    BY <1>0, <2>1 DEF Provides, PublicationTypes, Job
  <2>5. ASSUME More
        PROVE  /\ dataset'[n] # Nil /\ dataset'[n].ours /\ ~dataset'[n].private
               /\ dataset'[n].id = d.id
               /\ Registered(d) \union {s} \subseteq Registered(dataset'[n])
    <3> DEFINE e == [d EXCEPT !.resources[s] = @ + 1]
    <3>1. /\ e \in Dataset /\ e.id = d.id /\ e.ours = d.ours /\ e.private = d.private
      BY <2>4 DEF Dataset
    <3>2. Registered(d) \union {s} \subseteq Registered(e)
      BY <2>4 DEF Dataset, Registered
    <3>3. dataset'[n] = e
      BY <2>1, <2>5 DEF PublicationTypes
    <3> HIDE DEF e
    <3> QED
      BY <2>1, <3>1, <3>2, <3>3, NilAssumption DEF Provides
  <2>6. ASSUME dataset' = dataset \/ More
        PROVE  /\ dataset'[n] # Nil /\ dataset'[n].ours /\ ~dataset'[n].private
               /\ dataset'[n].id = d.id /\ Registered(d) \subseteq Registered(dataset'[n])
    BY <2>1, <2>5, <2>6 DEF Provides
  <2>7. /\ good \in Job /\ good.kind = "publish" /\ good.name = n
        /\ good.snapshot = job[j].snapshot /\ good.id = job[j].id
        /\ good.handled = job[j].handled \union {s} /\ good.known = job[j].known \union {s}
        /\ good.errors = job[j].errors
    BY <1>0, <2>4 DEF Job
  <2>8. /\ bad \in Job /\ bad.kind = "publish" /\ bad.name = n
        /\ bad.snapshot = job[j].snapshot /\ bad.id = job[j].id
        /\ bad.handled = job[j].handled \union {s} /\ bad.known = job[j].known /\ bad.errors
    BY <1>0, <2>4 DEF Job
  <2> HIDE DEF good, bad
  <2>9. ASSUME IF s \in job[j].known THEN dataset' = dataset ELSE More, Became(j, Sync(good))
        PROVE  PublishKnows(job[j])'
    <3>1. s \in Registered(dataset'[n])
      BY <2>1, <2>5, <2>9 DEF Provides
    <3>2. Provides(dataset'[n], good)
      BY <2>1, <2>6, <2>7, <2>9, <3>1 DEF Provides
    <3> QED
      BY <2>1, <2>3, <2>7, <2>9, <3>2, <1>h
  <2>10. ASSUME dataset' = dataset \/ More, Worsened(j, Sync(bad))
         PROVE  PublishKnows(job[j])'
    <3>1. Provides(dataset'[n], bad)
      BY <2>1, <2>6, <2>8, <2>10 DEF Provides
    <3> QED
      BY <2>1, <2>3, <2>8, <2>10, <3>1, <1>h
  <2>11. ASSUME dataset' = dataset \/ More, Repeated(j)
         PROVE  PublishKnows(job[j])'
    <3>1. Provides(dataset'[n], job[j])
      BY <2>1, <2>6, <2>11 DEF Provides
    <3> QED
      BY <1>0, <2>1, <2>3, <2>11, <3>1, <1>h
  <2> HIDE DEF More
  <2> QED
    BY <2>3, <2>9, <2>10, <2>11
\* The answer, or the transaction that follows.
<1>8. ASSUME PublishFails(j) PROVE PublishKnows(job[j])'
  <2>1. job'[j] = Left(To(j, "failure")) /\ UNCHANGED <<station, sensors, exposed, dataset>>
    BY <1>8 DEF PublishFails, Goto, Left, PublicationTypes, Active
  <2>2. To(j, "failure") \in Job /\ To(j, "failure").pc = "failure"
    BY <1>0, ToKeeps DEF Label, Ended
  <2>3. job'[j].pc = "failure"
    BY <2>1, <2>2, LeftFacts
  <2> QED
    BY <2>3 DEF PublishKnows, Before, Ended
<1>9. ASSUME set_publish_state(j) PROVE PublishKnows(job[j])'
  <2> DEFINE pc == IF ~Exists THEN "failure" ELSE IF job[j].cascade THEN "list" ELSE "success"
             r == To(j, pc)
  <2>1. /\ job'[j] = Left(r) /\ UNCHANGED <<sensors, exposed, dataset>>
        /\ job[j].pc = "flag" /\ ~job[j].errors /\ (Exists => station' = "published")
    BY <1>9 DEF set_publish_state, Goto, Left, PublicationTypes, Active
  <2>2. /\ pc \in {"failure", "list", "success"} /\ (pc # "failure" => Exists)
        /\ (pc = "list" <=> Exists /\ job[j].cascade)
        /\ (pc = "success" => ~job[j].cascade)
    OBVIOUS
  <2> HIDE DEF pc
  <2>3. r \in Job /\ Kept(r, job[j]) /\ r.pc = pc
    BY <1>0, <2>2, ToKeeps DEF Label, Transactions, Ended
  <2> HIDE DEF r
  <2>4. job[j].snapshot = sensors /\ (job[j].token => Serves(job[j]))
    BY <2>1 DEF PublishKnows, Before, Ended
  <2>5. CASE pc = "failure"
    <3>1. job'[j].pc = "failure"
      BY <2>1, <2>3, <2>5, LeftFacts
    <3> QED
      BY <3>1 DEF PublishKnows, Before, Ended
  <2>6. CASE pc = "list"
    <3>1. Like(job'[j], r)
      BY <2>1, <2>3, <2>6, LeftKeeps DEF Ended
    <3> QED
      BY <2>1, <2>2, <2>3, <2>4, <2>6, <3>1
      DEF PublishKnows, Like, Kept, Before, Ended, Serves, Public, Present
  <2>7. CASE pc = "success"
    <3>1. /\ job'[j].pc = "success" /\ job'[j].token = job[j].token
          /\ job'[j].name = job[j].name /\ job'[j].cascade = job[j].cascade
          /\ job'[j].snapshot = job[j].snapshot
      BY <2>1, <2>3, <2>7, LeftFacts DEF Kept
    <3> QED
      BY <2>1, <2>2, <2>4, <2>7, <3>1
      DEF PublishKnows, Before, Ended, Serves, Public, Present
  <2> QED
    BY <2>2, <2>5, <2>6, <2>7
\* The cascade: its sensors are published or still to do.
<1>c. ASSUME NEW r \in Job, job'[j] = Left(Cascade(r)), UNCHANGED <<station, sensors, dataset>>,
             job[j].pc \in {"list", "cascade"}, r.token = job[j].token,
             r.name = job[j].name, r.cascade = job[j].cascade,
             r.snapshot = job[j].snapshot, r.snapshot \subseteq exposed' \union r.todo
      PROVE  PublishKnows(job[j])'
  <2> DEFINE q == Cascade(r)
  <2>1. /\ q \in Job /\ q.pc = (IF r.todo = {} THEN "success" ELSE "cascade")
        /\ q.token = r.token /\ q.name = r.name /\ q.cascade = r.cascade
        /\ q.snapshot = r.snapshot /\ q.todo = r.todo
    BY <1>c, CascadeFacts DEF Cascade, Job
  <2> HIDE DEF q
  <2>2. job[j].snapshot = sensors /\ station = "published" /\ job[j].cascade
        /\ (job[j].token => Serves(job[j]))
    BY <1>c DEF PublishKnows, Ended
  <2>3. CASE r.todo = {}
    <3>1. /\ job'[j].pc = "success" /\ job'[j].token = r.token
          /\ job'[j].name = r.name /\ job'[j].cascade = r.cascade
          /\ job'[j].snapshot = r.snapshot
      BY <1>c, <2>1, <2>3, LeftFacts DEF q
    <3> QED
      BY <1>c, <2>2, <2>3, <3>1 DEF PublishKnows, Before, Ended, Serves, Public, Present
  <2>4. CASE r.todo # {}
    <3>1. Like(job'[j], q)
      BY <1>c, <2>1, <2>4, LeftKeeps DEF Ended, q
    <3> QED
      BY <1>c, <2>1, <2>2, <2>4, <3>1
      DEF PublishKnows, Like, Kept, Before, Ended, Serves, Public, Present
  <2> QED
    BY <2>3, <2>4
<1>10. ASSUME get_sensors_by_station_chunked(j) PROVE PublishKnows(job[j])'
  <2> DEFINE r == [job[j] EXCEPT !.todo = sensors]
  <2>1. /\ job'[j] = Left(Cascade(r)) /\ UNCHANGED <<station, sensors, exposed, dataset>>
        /\ job[j].pc = "list"
    BY <1>10 DEF get_sensors_by_station_chunked, Goto, Left, PublicationTypes, Active
  <2>2. /\ r \in Job /\ r.token = job[j].token /\ r.name = job[j].name
        /\ r.cascade = job[j].cascade /\ r.snapshot = job[j].snapshot /\ r.todo = sensors
    BY <1>0 DEF PublicationTypes, Job
  <2> HIDE DEF r
  <2>3. r.snapshot \subseteq exposed' \union r.todo
    BY <2>1, <2>2 DEF PublishKnows, Ended
  <2> QED
    BY <2>1, <2>2, <2>3, <1>c
<1>11. ASSUME PublishNextSensor(j) PROVE PublishKnows(job[j])'
  <2>1. PICK s \in job[j].todo :
          /\ exposed' = exposed \union ({s} \intersect sensors)
          /\ \/ job'[j] = Left(Cascade([job[j] EXCEPT !.todo = @ \ {s}]))
             \/ job'[j] = Left(To(j, "failure"))
    BY <1>11 DEF PublishNextSensor, Goto, Left, PublicationTypes, Active
  <2>2. UNCHANGED <<station, sensors, dataset>> /\ job[j].pc = "cascade"
    BY <1>11 DEF PublishNextSensor, IsAt
  <2>3. CASE job'[j] = Left(To(j, "failure"))
    <3>1. To(j, "failure") \in Job /\ To(j, "failure").pc = "failure"
      BY <1>0, ToKeeps DEF Label, Ended
    <3>2. job'[j].pc = "failure"
      BY <2>3, <3>1, LeftFacts
    <3> QED
      BY <3>2 DEF PublishKnows, Before, Ended
  <2>4. CASE job'[j] = Left(Cascade([job[j] EXCEPT !.todo = @ \ {s}]))
    <3> DEFINE r == [job[j] EXCEPT !.todo = @ \ {s}]
    <3>3. /\ r \in Job /\ r.token = job[j].token /\ r.name = job[j].name
          /\ r.cascade = job[j].cascade /\ r.snapshot = job[j].snapshot
          /\ r.todo = job[j].todo \ {s}
      BY <1>0 DEF Job
    <3>4. job'[j] = Left(Cascade(r))
      BY <2>4
    <3> HIDE DEF r
    <3>5. r.snapshot \subseteq exposed' \union r.todo
      BY <2>1, <2>2, <3>3 DEF PublishKnows, Ended
    <3> QED
      BY <2>2, <3>3, <3>4, <3>5, <1>c
  <2> QED
    BY <2>1, <2>3, <2>4
<1>12. ~ (\/ ShowOwn(j) \/ ShowLegacy(j) \/ Hide(j) \/ clear_publish_state(j)
          \/ find_datasets_by_extra(j) \/ _delete_station_dataset(j)
          \/ delete_station_sensors(j) \/ DeleteRow(j))
  BY DEF PublishKnows, Before, Ended, ShowOwn, ShowLegacy, Hide, clear_publish_state,
     find_datasets_by_extra, _delete_station_dataset, delete_station_sensors, DeleteRow
<1> QED
  BY <1>1, <1>2, <1>3, <1>4, <1>5, <1>6, <1>7, <1>8, <1>9, <1>10, <1>11, <1>12 DEF Step
-----------------------------------------------------------------------------
(***************************************************************************)
(* What an unpublish request that runs alone knows, if no call of it was   *)
(* left unanswered or refused.                                             *)
(***************************************************************************)
Hidden ==
  IF Present("own") THEN dataset["own"].private
  ELSE Present("legacy") => dataset["legacy"].private

Shows == {"show_own", "show_legacy", "hide", "unflag"}

UnpublishKnows(r) ==
  /\ r.pc \in Shows \union Ended
  /\ r.pc = "success" => station = "private"
  /\ ~r.faulty =>
       /\ r.pc = "show_legacy" => ~Present("own")
       /\ r.pc = "hide" => /\ Present(r.name) /\ dataset[r.name].id = r.id
                           /\ r.name = "own" \/ (r.name = "legacy" /\ ~Present("own"))
       /\ r.pc \in {"unflag", "success"} /\ r.token => Hidden

LEMMA UnpublishStep ==
  ASSUME PublicationTypes, NEW j \in Active, job[j].kind = "unpublish",
         UnpublishKnows(job[j]), Step(j)
  PROVE  UnpublishKnows(job[j])'
<1>0. job[j] \in Job /\ job[j].pc \in Shows
  BY DEF PublicationTypes, Active, UnpublishKnows
<1>t. ASSUME NEW pc \in Shows
      PROVE  /\ To(j, pc) \in Job /\ Kept(To(j, pc), job[j]) /\ To(j, pc).pc = pc
             /\ To(j, pc).faulty = job[j].faulty /\ pc \notin Ended
  <2>1. pc \in Label /\ pc \notin Ended
    BY DEF Shows, Label, Calls, Transactions, Ended
  <2> QED
    BY <1>0, <2>1, ToKeeps
<1>h. ASSUME NEW n \in Name, Present(n)
      PROVE  /\ Shown(j, n) \in Job /\ Shown(j, n).pc = "hide" /\ Shown(j, n).name = n
             /\ Shown(j, n).id = dataset[n].id /\ Shown(j, n).faulty = job[j].faulty
  <2> DEFINE q == To(j, "hide")
  <2>1. dataset[n].id \in Nat
    BY <1>h DEF PublicationTypes, Present, Dataset
  <2>2. q \in Job /\ q.pc = "hide" /\ q.faulty = job[j].faulty
    BY <1>t DEF Shows
  <2>3. Shown(j, n) = [q EXCEPT !.name = n, !.id = dataset[n].id]
    BY DEF Shown
  <2> HIDE DEF q
  <2> QED
    BY <2>1, <2>2, <2>3 DEF Job
\* A call that was not answered, or was refused: nothing is claimed any more.
<1>w. ASSUME NEW pc \in Shows, Worsened(j, To(j, pc)) \/ Repeated(j)
      PROVE  UnpublishKnows(job[j])'
  <2>1. job'[j].faulty /\ job'[j].pc \in Shows
    BY <1>0, <1>t, <1>w, WorsenedFacts, RepeatedFacts DEF Like
  <2> QED
    BY <2>1 DEF UnpublishKnows, Shows, Ended
<1>1. ASSUME ShowOwn(j) PROVE UnpublishKnows(job[j])'
  <2>1. /\ dataset' = dataset
        /\ \/ Present("own") /\ Became(j, Shown(j, "own"))
           \/ ~Present("own") /\ Became(j, To(j, "show_legacy"))
           \/ Worsened(j, To(j, "show_legacy")) \/ Repeated(j)
    BY <1>1 DEF ShowOwn, _request, Goto, Became, Worsened, Repeated, Left, Repeats
  <2>2. CASE Present("own") /\ Became(j, Shown(j, "own"))
    <3>1. /\ job'[j].pc = "hide" /\ job'[j].name = "own" /\ job'[j].id = dataset["own"].id
      BY <2>2, <1>h, BecameFacts DEF Like, Kept, Name, Ended
    <3> QED
      BY <2>1, <2>2, <3>1 DEF UnpublishKnows, Shows, Present
  <2>3. CASE ~Present("own") /\ Became(j, To(j, "show_legacy"))
    <3>1. job'[j].pc = "show_legacy"
      BY <2>3, <1>t, BecameFacts DEF Like, Shows
    <3> QED
      BY <2>1, <2>3, <3>1 DEF UnpublishKnows, Shows, Present
  <2> QED
    BY <2>1, <2>2, <2>3, <1>w DEF Shows
<1>2. ASSUME ShowLegacy(j) PROVE UnpublishKnows(job[j])'
  <2>1. /\ dataset' = dataset /\ job[j].pc = "show_legacy"
        /\ \/ Present("legacy") /\ Became(j, Shown(j, "legacy"))
           \/ ~Present("legacy") /\ Became(j, To(j, "unflag"))
           \/ Worsened(j, To(j, "unflag")) \/ Repeated(j)
    BY <1>2 DEF ShowLegacy, _request, Goto, Became, Worsened, Repeated, Left, Repeats
  <2>2. ~job[j].faulty => ~Present("own")
    BY <2>1 DEF UnpublishKnows
  <2>3. CASE Present("legacy") /\ Became(j, Shown(j, "legacy"))
    <3>1. /\ job'[j].pc = "hide" /\ job'[j].name = "legacy"
          /\ job'[j].id = dataset["legacy"].id /\ job'[j].faulty = job[j].faulty
      BY <2>3, <1>h, BecameFacts DEF Like, Kept, Name, Ended
    <3> QED
      BY <2>1, <2>2, <2>3, <3>1 DEF UnpublishKnows, Shows, Present
  <2>4. CASE ~Present("legacy") /\ Became(j, To(j, "unflag"))
    <3>1. job'[j].pc = "unflag" /\ job'[j].faulty = job[j].faulty
      BY <2>4, <1>t, BecameFacts DEF Like, Shows
    <3> QED
      BY <2>1, <2>2, <2>4, <3>1 DEF UnpublishKnows, Shows, Present, Hidden
  <2> QED
    BY <2>1, <2>3, <2>4, <1>w DEF Shows
<1>3. ASSUME Hide(j) PROVE UnpublishKnows(job[j])'
  <2> DEFINE n == job[j].name
  <2>1. /\ job[j].pc = "hide"
        /\ \/ /\ IF Same(j) THEN dataset' = WithPrivate(n, TRUE) ELSE dataset' = dataset
              /\ Became(j, To(j, "unflag"))
           \/ Worsened(j, To(j, "unflag")) \/ Repeated(j)
    BY <1>3 DEF Hide, _request, Goto, Became, Worsened, Repeated, Left, Repeats
  <2>2. CASE /\ IF Same(j) THEN dataset' = WithPrivate(n, TRUE) ELSE dataset' = dataset
             /\ Became(j, To(j, "unflag"))
    <3>1. job'[j].pc = "unflag" /\ job'[j].faulty = job[j].faulty
      BY <2>2, <1>t, BecameFacts DEF Like, Shows
    <3>2. ASSUME ~job[j].faulty PROVE Hidden'
      <4> DEFINE e == [dataset[n] EXCEPT !.private = TRUE]
      <4>1. /\ Same(j) /\ n \in Name /\ DatasetTypes /\ dataset[n] # Nil
            /\ n = "own" \/ (n = "legacy" /\ dataset["own"] = Nil)
        BY <2>1, <3>2, <1>0, TypesParts DEF UnpublishKnows, Same, Present, Name
      <4>2. /\ e \in Dataset /\ e.private = TRUE
            /\ WithPrivate(n, TRUE) = [dataset EXCEPT ![n] = e]
        BY <4>1, PrivateDatasets
      <4> HIDE DEF e
      <4>3. dataset'[n] = e /\ \A m \in Name : m # n => dataset'[m] = dataset[m]
        BY <2>2, <4>1, <4>2 DEF DatasetTypes
      <4> QED
        BY <4>1, <4>2, <4>3, NilAssumption DEF Hidden, Present, Name
    <3> QED
      BY <3>1, <3>2 DEF UnpublishKnows, Shows
  <2> QED
    BY <2>1, <2>2, <1>w DEF Shows
<1>4. ASSUME clear_publish_state(j) PROVE UnpublishKnows(job[j])'
  <2> DEFINE pc == IF Exists THEN "success" ELSE "failure"
             r == To(j, pc)
  <2>1. /\ job'[j] = Left(r) /\ UNCHANGED dataset /\ job[j].pc = "unflag"
        /\ (Exists => station' = "private")
    BY <1>4 DEF clear_publish_state, Goto, Left, PublicationTypes, Active
  <2>2. pc \in {"success", "failure"} /\ (pc = "success" => Exists)
    OBVIOUS
  <2> HIDE DEF pc
  <2>3. r \in Job /\ Kept(r, job[j]) /\ r.pc = pc /\ r.faulty = job[j].faulty
    BY <1>0, <2>2, ToKeeps DEF Label, Ended
  <2> HIDE DEF r
  <2>4. /\ job'[j].pc = pc /\ job'[j].faulty = job[j].faulty
        /\ (pc = "success" => job'[j].token = job[j].token)
    BY <2>1, <2>3, LeftFacts DEF Kept
  <2>5. ~job[j].faulty /\ job[j].token => Hidden
    BY <2>1 DEF UnpublishKnows
  <2> QED
    BY <2>1, <2>2, <2>4, <2>5 DEF UnpublishKnows, Ended, Hidden, Present
<1>5. ~ (\/ list_user_organizations(j) \/ Show(j) \/ package_create(j) \/ ShowAgain(j)
         \/ _patch_dataset(j) \/ ensure_dataset_visibility(j) \/ ensure_resource(j)
         \/ PublishFails(j) \/ set_publish_state(j) \/ get_sensors_by_station_chunked(j)
         \/ PublishNextSensor(j) \/ find_datasets_by_extra(j) \/ _delete_station_dataset(j)
         \/ delete_station_sensors(j) \/ DeleteRow(j))
  BY <1>0 DEF Shows, list_user_organizations, Show, package_create, ShowAgain, _patch_dataset,
     ensure_dataset_visibility, ensure_resource, PublishFails, set_publish_state,
     get_sensors_by_station_chunked, PublishNextSensor, find_datasets_by_extra,
     _delete_station_dataset, delete_station_sensors, DeleteRow
<1> QED
  BY <1>1, <1>2, <1>3, <1>4, <1>5 DEF Step
-----------------------------------------------------------------------------
(***************************************************************************)
(* The next-state relation, and the theorems.                              *)
(***************************************************************************)
\* A publish or unpublish request as it begins.
Begins(r) ==
  /\ r.kind = "publish" =>
       /\ r.pc = "organization" \/ (r.pc = "flag" /\ ~r.token)
       /\ r.snapshot = sensors' /\ r.handled = {} /\ r.known = {}
  /\ r.kind = "unpublish" => r.pc = "show_own" \/ (r.pc = "unflag" /\ ~r.token)

LEMMA StartEnters ==
  ASSUME PublicationTypes, Starts
  PROVE  DatabaseTypes' /\ \E r \in Job : r.pc # "remove" /\ Begins(r) /\ Enter(r)
<1>i. ASSUME NEW kind \in Kind, NEW pc \in Label
      PROVE  /\ Idle(kind, pc) \in Job /\ Idle(kind, pc).kind = kind /\ Idle(kind, pc).pc = pc
             /\ Idle(kind, pc).handled = {} /\ Idle(kind, pc).known = {}
  BY <1>i, IdleFacts DEF Idle
<1>t. DatabaseTypes
  BY TypesParts
<1>l. /\ {"show", "success", "organization", "flag", "show_own", "unflag", "search"} \subseteq Label
      /\ Kind = {"create", "publish", "unpublish", "sensor", "sync", "delete"}
  BY DEF Label, Calls, Transactions, Ended, Kind, Async
<1>1. ASSUME create_station
      PROVE  DatabaseTypes' /\ \E r \in Job : r.pc # "remove" /\ Begins(r) /\ Enter(r)
  <2>1. PICK token \in BOOLEAN :
          Enter([Idle("create", IF token THEN "show" ELSE "success") EXCEPT !.token = token])
    BY <1>1 DEF create_station
  <2> DEFINE pc == IF token THEN "show" ELSE "success"
             i == Idle("create", pc)
             r == [i EXCEPT !.token = token]
  <2>2. pc \in {"show", "success"} /\ pc \in Label
    BY <1>l
  <2>3. i \in Job /\ i.kind = "create" /\ i.pc = pc
    BY <2>2, <1>i, <1>l
  <2>4. Enter(r)
    BY <2>1
  <2> HIDE DEF pc, i
  <2>5. r \in Job /\ r.kind = "create" /\ r.pc = pc
    BY <2>3 DEF Job
  <2>6. DatabaseTypes'
    BY <1>1, <1>t DEF create_station, DatabaseTypes, Exists
  <2> QED
    BY <2>2, <2>4, <2>5, <2>6 DEF Begins
<1>2. ASSUME publish_station \/ publish_campaign
      PROVE  DatabaseTypes' /\ \E r \in Job : r.pc # "remove" /\ Begins(r) /\ Enter(r)
  <2>1. PICK name \in {"own", "other"}, may_patch \in BOOLEAN, cascade \in BOOLEAN,
             token \in BOOLEAN : Publish(name, may_patch, cascade, token)
    BY <1>2 DEF publish_station, publish_campaign
  <2> DEFINE pc == IF token THEN "organization" ELSE "flag"
             i == Idle("publish", pc)
             q == [i EXCEPT !.token = token, !.name = name]
             p == [q EXCEPT !.may_patch = may_patch, !.cascade = cascade]
             r == [p EXCEPT !.snapshot = sensors]
  <2>2. pc \in Label /\ pc # "remove" /\ (pc = "organization" \/ (pc = "flag" /\ ~token))
    BY <1>l
  <2>3. i \in Job /\ i.kind = "publish" /\ i.pc = pc /\ i.handled = {} /\ i.known = {}
    BY <2>2, <1>i, <1>l
  <2>4. Enter(r) /\ UNCHANGED <<station, sensors, exposed>>
    BY <2>1 DEF Publish
  <2> HIDE DEF pc, i
  <2>5. /\ q \in Job /\ q.kind = "publish" /\ q.pc = pc /\ q.handled = {} /\ q.known = {}
        /\ q.token = token
    BY <2>3 DEF Job, Name
  <2> HIDE DEF q
  <2>6. /\ p \in Job /\ p.kind = "publish" /\ p.pc = pc /\ p.handled = {} /\ p.known = {}
        /\ p.token = token
    BY <2>5 DEF Job
  <2> HIDE DEF p
  <2>7. /\ r \in Job /\ r.kind = "publish" /\ r.pc = pc /\ r.handled = {} /\ r.known = {}
        /\ r.token = token /\ r.snapshot = sensors
    BY <2>6, <1>t DEF Job, DatabaseTypes
  <2> HIDE DEF r
  <2>8. DatabaseTypes'
    BY <2>4, <1>t DEF DatabaseTypes, Exists
  <2> QED
    BY <2>2, <2>4, <2>7, <2>8 DEF Begins
<1>3. ASSUME unpublish_station \/ unpublish_campaign
      PROVE  DatabaseTypes' /\ \E r \in Job : r.pc # "remove" /\ Begins(r) /\ Enter(r)
  <2>1. PICK token \in BOOLEAN : Unpublish(token)
    BY <1>3 DEF unpublish_station, unpublish_campaign
  <2> DEFINE pc == IF token THEN "show_own" ELSE "unflag"
             i == Idle("unpublish", pc)
             r == [i EXCEPT !.token = token]
  <2>2. pc \in Label /\ pc # "remove" /\ (pc = "show_own" \/ (pc = "unflag" /\ ~token))
    BY <1>l
  <2>3. i \in Job /\ i.kind = "unpublish" /\ i.pc = pc
    BY <2>2, <1>i, <1>l
  <2>4. Enter(r) /\ UNCHANGED <<station, sensors, exposed>>
    BY <2>1 DEF Unpublish
  <2> HIDE DEF pc, i
  <2>5. r \in Job /\ r.kind = "unpublish" /\ r.pc = pc /\ r.token = token
    BY <2>3 DEF Job
  <2> HIDE DEF r
  <2>6. DatabaseTypes'
    BY <2>4, <1>t DEF DatabaseTypes, Exists
  <2> QED
    BY <2>2, <2>4, <2>5, <2>6 DEF Begins
<1>4. ASSUME run_ckan_sync_upload
      PROVE  DatabaseTypes' /\ \E r \in Job : r.pc # "remove" /\ Begins(r) /\ Enter(r)
  <2>1. PICK uploaded \in SUBSET Sensor :
          /\ sensors' = sensors \union uploaded
          /\ Enter([Idle("sync", "show") EXCEPT !.snapshot = uploaded])
    BY <1>4 DEF run_ckan_sync_upload
  <2> DEFINE i == Idle("sync", "show")
             r == [i EXCEPT !.snapshot = uploaded]
  <2>2. i \in Job /\ i.kind = "sync" /\ i.pc = "show"
    BY <1>i, <1>l
  <2>3. Enter(r)
    BY <2>1
  <2> HIDE DEF i
  <2>4. r \in Job /\ r.kind = "sync" /\ r.pc = "show"
    BY <2>2 DEF Job
  <2> HIDE DEF r
  <2>5. DatabaseTypes'
    BY <1>4, <2>1, <1>t DEF run_ckan_sync_upload, DatabaseTypes, Exists
  <2> QED
    BY <2>3, <2>4, <2>5 DEF Begins
<1>5. ASSUME delete_station
      PROVE  DatabaseTypes' /\ \E r \in Job : r.pc # "remove" /\ Begins(r) /\ Enter(r)
  <2> DEFINE r == Idle("delete", "search")
  <2>1. r \in Job /\ r.kind = "delete" /\ r.pc = "search"
    BY <1>i, <1>l
  <2>2. Enter(r) /\ UNCHANGED <<station, sensors, exposed>>
    BY <1>5 DEF delete_station
  <2> HIDE DEF r
  <2>3. DatabaseTypes'
    BY <2>2, <1>t DEF DatabaseTypes, Exists
  <2> QED
    BY <2>1, <2>2, <2>3 DEF Begins
<1>6. ASSUME publish_sensor \/ unpublish_sensor
      PROVE  DatabaseTypes' /\ \E r \in Job : r.pc # "remove" /\ Begins(r) /\ Enter(r)
  <2> DEFINE r == Idle("sensor", "success")
  <2>1. r \in Job /\ r.kind = "sensor" /\ r.pc = "success"
    BY <1>i, <1>l
  <2>2. Enter(r) /\ DatabaseTypes'
    BY <1>6, <1>t DEF publish_sensor, unpublish_sensor, DatabaseTypes, Exists
  <2> HIDE DEF r
  <2> QED
    BY <2>1, <2>2 DEF Begins
<1> QED
  BY <1>1, <1>2, <1>3, <1>4, <1>5, <1>6 DEF Starts

LEMMA RestartLeaves ==
  ASSUME PublicationTypes, Restart
  PROVE  /\ JobTypes' /\ Len(job') = Len(job) /\ DOMAIN job' = DOMAIN job
         /\ UNCHANGED <<station, sensors, exposed, dataset, created>>
         /\ faults' \in 0..MaxFaults
         /\ \A j \in DOMAIN job :
              /\ job'[j].overlapped = job[j].overlapped /\ job'[j].kind = job[j].kind
              /\ IF j \in Active THEN job'[j].pc = "dead" ELSE job'[j] = job[j]
<1> DEFINE after == [j \in DOMAIN job |->
                       IF j \in Active THEN Trace(To(j, "dead")) ELSE job[j]]
<1>1. ASSUME NEW j \in DOMAIN job
      PROVE  /\ after[j] \in Job /\ after[j].kind = job[j].kind
             /\ after[j].overlapped = job[j].overlapped
             /\ IF j \in Active THEN after[j].pc = "dead" ELSE after[j] = job[j]
             /\ after[j].pc = "remove" => after[j].candidates # <<>>
  <2>0. job[j] \in Job /\ (job[j].pc = "remove" => job[j].candidates # <<>>)
    BY DEF PublicationTypes
  <2>1. CASE j \in Active
    <3>1. Follows(j, To(j, "dead")) /\ To(j, "dead").pc = "dead"
      BY <2>0, ToFacts DEF Label, Ended
    <3>2. after[j] = Trace(To(j, "dead"))
      BY <2>1
    <3> QED
      BY <2>1, <3>1, <3>2, TraceFacts DEF Follows
  <2>2. CASE j \notin Active
    BY <2>0, <2>2
  <2> QED
    BY <2>1, <2>2
<1>2. job \in Seq(Job) /\ DOMAIN after = DOMAIN job /\ DOMAIN job = 1..Len(job) /\ Len(job) \in Nat
  BY DEF PublicationTypes
<1>3. after \in Seq(Job) /\ Len(after) = Len(job)
  <2>1. after \in [1..Len(job) -> Job]
    BY <1>1, <1>2
  <2> HIDE DEF after
  <2> QED
    BY <1>2, <2>1
<1>4. job' = after /\ UNCHANGED <<station, sensors, exposed, dataset, created>>
  BY DEF Restart
<1>5. faults' \in 0..MaxFaults
  BY JobsAssumption DEF Restart, PublicationTypes
<1> HIDE DEF after
<1> QED
  BY <1>1, <1>2, <1>3, <1>4, <1>5 DEF JobTypes

LEMMA PublicationTypesInit == PublicationInit => PublicationTypes
<1> SUFFICES ASSUME PublicationInit PROVE PublicationTypes
  OBVIOUS
<1> DEFINE given == NewDataset(1, FALSE)
           asked == [given EXCEPT !.ours = FALSE]
           older == NewDataset(0, FALSE)
<1>1. given \in Dataset /\ given.id = 1 /\ older \in Dataset /\ older.id = 0
  BY DEF NewDataset, Dataset
<1>2. \E taken \in {Nil, asked} :
        dataset = [n \in Name |->
          CASE n = "own"    -> Nil
            [] n = "legacy" -> IF station = "absent" THEN Nil ELSE older
            [] n = "other"  -> taken]
  BY DEF PublicationInit
<1> HIDE DEF given, older
<1>3. asked \in Dataset /\ asked.id = 1
  BY <1>1 DEF Dataset
<1> HIDE DEF asked
<1>4. /\ dataset \in [Name -> Dataset \union {Nil}] /\ dataset["own"] = Nil
      /\ dataset["legacy"] \in {Nil, older} /\ dataset["other"] \in {Nil, asked}
  BY <1>1, <1>2, <1>3 DEF Name
<1>5. created = 2 /\ job = <<>> /\ faults = 0 /\ sensors = {} /\ exposed = {} /\ station \in Initially
  BY DEF PublicationInit
<1>6. DatasetTypes
  BY <1>1, <1>3, <1>4, <1>5 DEF DatasetTypes, Name
<1>7. DatabaseTypes
  BY <1>5, InitiallyAssumption DEF DatabaseTypes
<1>8. JobTypes /\ faults \in 0..MaxFaults
  BY <1>5, JobsAssumption DEF JobTypes
<1> QED
  BY <1>6, <1>7, <1>8, TypesParts

LEMMA PublicationTypesStep ==
  ASSUME PublicationTypes, [PublicationNext]_publicationVars
  PROVE  PublicationTypes'
<1>0. DatabaseTypes /\ DatasetTypes /\ JobTypes /\ faults \in 0..MaxFaults
  BY TypesParts
<1>1. CASE Starts
  <2>1. DatabaseTypes'
    BY <1>1, StartEnters
  <2>2. PICK r \in Job : r.pc # "remove" /\ Begins(r) /\ Enter(r)
    BY <1>1, StartEnters
  <2>3. JobTypes' /\ UNCHANGED <<dataset, created, faults>>
    BY <1>0, <2>2, EnterTypes
  <2> QED
    BY <1>0, <2>1, <2>3, StillTyped, TypesParts
<1>2. CASE Restart
  <2>1. /\ JobTypes' /\ faults' \in 0..MaxFaults
        /\ UNCHANGED <<station, sensors, exposed, dataset, created>>
    BY <1>2, RestartLeaves
  <2>2. DatabaseTypes'
    BY <1>0, <2>1 DEF DatabaseTypes, Exists
  <2> QED
    BY <1>0, <2>1, <2>2, StillTyped, TypesParts
<1>3. ASSUME NEW j \in Active, Step(j) PROVE PublicationTypes'
  <2>1. PICK r : Follows(j, r) /\ job' = [job EXCEPT ![j] = r]
    BY <1>3, StepMoves DEF Moved
  <2>2. JobTypes'
    BY <1>0, <2>1, MoveTypes DEF JobTypes, Active
  <2> QED
    BY <1>3, <2>2, StepDatabase, StepDatasets, StepFaults, TypesParts
<1>4. CASE UNCHANGED publicationVars
  <2>1. DatabaseTypes' /\ DatasetTypes' /\ JobTypes' /\ faults' \in 0..MaxFaults
    BY <1>0, <1>4 DEF publicationVars, DatabaseTypes, DatasetTypes, JobTypes, Exists
  <2> QED
    BY <2>1, TypesParts
<1> QED
  BY <1>1, <1>2, <1>3, <1>4 DEF PublicationNext

\* The types of the requests, the tasks, the database and CKAN's datasets
\* hold throughout: no dataset shares its id, no sensor outlives its station,
\* and no deletion runs out of names before it stops.
THEOREM PublicationTypesHold == PublicationSpec => []PublicationTypes
<1>1. PublicationTypes /\ [PublicationNext]_publicationVars => PublicationTypes'
  BY PublicationTypesStep
<1> QED
  BY PublicationTypesInit, <1>1, PTL DEF PublicationSpec

Knows(r) ==
  /\ r.kind = "publish" => PublishKnows(r)
  /\ r.kind = "unpublish" => UnpublishKnows(r)

\* Of the latest job, if nothing ran beside it: it is the only one that runs,
\* and what it knows is true.
LoneJob ==
  job # <<>> /\ ~job[Len(job)].overlapped =>
    /\ Active \subseteq {Len(job)}
    /\ Knows(job[Len(job)])

\* What is true of a record while nothing changes but the calls' history.
LEMMA StillKnows ==
  ASSUME UNCHANGED <<station, sensors, exposed, dataset>>, NEW r, Knows(r), NEW j,
         job'[j] = r
  PROVE  Knows(job[j])'
BY DEF Knows, PublishKnows, UnpublishKnows, Provides, Serves, Public, Hidden, Present

LEMMA LoneJobStep ==
  ASSUME PublicationTypes, LoneJob, [PublicationNext]_publicationVars
  PROVE  LoneJob'
<1> DEFINE l == Len(job)
<1>0. job \in Seq(Job) /\ l \in Nat /\ DOMAIN job = 1..l /\ Active \subseteq DOMAIN job
  BY DEF PublicationTypes, Active
<1>1. CASE Starts
  <2>1. PICK r \in Job : r.pc # "remove" /\ Begins(r) /\ Enter(r)
    BY <1>1, StartEnters
  <2> DEFINE q == [r EXCEPT !.overlapped = Active # {}]
  <2>2. /\ JobTypes' /\ Len(job') = l + 1 /\ job'[Len(job')] = q
        /\ \A j \in DOMAIN job : job'[j].pc = job[j].pc
    BY <2>1, EnterTypes, TypesParts
  <2>3. /\ q.overlapped = (Active # {}) /\ q.kind = r.kind /\ q.pc = r.pc /\ q.token = r.token
        /\ q.snapshot = r.snapshot /\ q.handled = r.handled /\ q.known = r.known
    BY <2>1 DEF Job
  <2> HIDE DEF q
  <2>4. ASSUME Active = {} PROVE Active' \subseteq {Len(job')}
    <3>1. DOMAIN job' = 1..(l + 1)
      BY <2>2 DEF JobTypes
    <3> QED
      BY <1>0, <2>2, <2>4, <3>1 DEF Active
  <2>5. Knows(job[Len(job)])'
    <3>1. q.kind = "publish" => PublishKnows(job[Len(job)])'
      BY <2>1, <2>2, <2>3 DEF Begins, PublishKnows, Before, Ended
    <3>2. q.kind = "unpublish" => UnpublishKnows(job[Len(job)])'
      BY <2>1, <2>2, <2>3 DEF Begins, UnpublishKnows, Shows, Ended
    <3> QED
      BY <2>2, <3>1, <3>2 DEF Knows
  <2> QED
    BY <2>2, <2>3, <2>4, <2>5 DEF LoneJob
<1>2. CASE Restart
  <2>1. /\ Len(job') = l /\ DOMAIN job' = DOMAIN job /\ JobTypes'
        /\ UNCHANGED <<station, sensors, exposed, dataset>>
        /\ \A j \in DOMAIN job :
             /\ job'[j].overlapped = job[j].overlapped /\ job'[j].kind = job[j].kind
             /\ IF j \in Active THEN job'[j].pc = "dead" ELSE job'[j] = job[j]
    BY <1>2, RestartLeaves
  <2> SUFFICES ASSUME job' # <<>>, ~job'[l].overlapped
               PROVE  Active' \subseteq {l} /\ Knows(job[l])'
    BY <2>1 DEF LoneJob
  <2>2. l \in DOMAIN job /\ job # <<>>
    BY <1>0, <2>1 DEF JobTypes
  <2>3. Active \subseteq {l} /\ Knows(job[l])
    BY <2>1, <2>2 DEF LoneJob
  <2>4. Active' = {}
    BY <2>1 DEF Active, Ended
  <2>5. CASE l \in Active
    <3>1. job'[l].pc = "dead"
      BY <2>1, <2>2, <2>5
    <3> QED
      BY <2>1, <2>4, <3>1 DEF Knows, PublishKnows, UnpublishKnows, Before, Ended
  <2>6. CASE l \notin Active
    <3>1. job'[l] = job[l]
      BY <2>1, <2>2, <2>6
    <3> QED
      BY <2>1, <2>3, <2>4, <3>1, StillKnows
  <2> QED
    BY <2>5, <2>6
<1>3. ASSUME NEW j \in Active, Step(j) PROVE LoneJob'
  <2>1. PICK r : Follows(j, r) /\ job' = [job EXCEPT ![j] = r]
    BY <1>3, StepMoves DEF Moved
  <2>2. /\ Len(job') = l /\ DOMAIN job' = DOMAIN job /\ job'[j] = r
        /\ \A i \in DOMAIN job : i # j => job'[i] = job[i]
    BY <1>0, <2>1
  <2> SUFFICES ASSUME ~job'[l].overlapped
               PROVE  Active' \subseteq {l} /\ Knows(job[l])'
    BY <2>2 DEF LoneJob
  <2>3. l \in DOMAIN job /\ job # <<>>
    BY <1>0
  <2>4. ~job[l].overlapped
    BY <2>1, <2>2, <2>3 DEF Follows
  <2>5. Active \subseteq {l} /\ Knows(job[l]) /\ j = l
    BY <2>3, <2>4 DEF LoneJob
  <2>6. Active' \subseteq {l}
    BY <2>2, <2>5 DEF Active
  <2>7. job'[l].kind = job[l].kind
    BY <2>1, <2>2, <2>5 DEF Follows
  <2>8. job[j].kind = "publish" => PublishKnows(job[j])'
    BY <1>3, <2>5, PublishStep DEF Knows
  <2>9. job[j].kind = "unpublish" => UnpublishKnows(job[j])'
    BY <1>3, <2>5, UnpublishStep DEF Knows
  <2>10. j' = l' => Knows(job[l])'
    BY <2>2, <2>5, <2>7, <2>8, <2>9 DEF Knows
  <2> QED
    BY <2>2, <2>5, <2>6, <2>10
<1>4. CASE UNCHANGED publicationVars
  BY <1>4, StillKnows DEF publicationVars, LoneJob, Active
<1> QED
  BY <1>1, <1>2, <1>3, <1>4 DEF PublicationNext

THEOREM LoneJobsKnow == PublicationSpec => []LoneJob
<1>1. PublicationInit => LoneJob
  BY DEF PublicationInit, LoneJob
<1>2. PublicationTypes /\ LoneJob /\ [PublicationNext]_publicationVars => LoneJob'
  BY LoneJobStep
<1> QED
  BY PublicationTypesHold, <1>1, <1>2, PTL DEF PublicationSpec

THEOREM PublicationsHold == PublicationSpec => []PublishHolds
<1>1. PublicationTypes /\ LoneJob => PublishHolds
  <2> SUFFICES ASSUME PublicationTypes, LoneJob, NEW j \in DOMAIN job, Undisturbed(j, "publish")
               PROVE  /\ station = "published"
                      /\ job[j].cascade => job[j].snapshot \subseteq exposed
                      /\ job[j].token =>
                           LET d == dataset[job[j].name] IN
                           /\ d # Nil
                           /\ d.ours /\ ~d.private
                           /\ job[j].snapshot \subseteq Registered(d)
    BY DEF PublishHolds
  <2>1. PublishKnows(job[j]) /\ job[j].pc = "success"
    BY DEF LoneJob, Knows, Undisturbed, PublicationTypes
  <2> QED
    BY <2>1 DEF PublishKnows, Serves, Public, Present
<1> QED
  BY <1>1, PublicationTypesHold, LoneJobsKnow, PTL

THEOREM UnpublicationsHold == PublicationSpec => []UnpublishHolds
<1>1. PublicationTypes /\ LoneJob => UnpublishHolds
  <2> SUFFICES ASSUME PublicationTypes, LoneJob, NEW j \in DOMAIN job,
                      Undisturbed(j, "unpublish"), job[j].token, ~job[j].faulty
               PROVE  station = "private" /\ Hidden
    BY DEF UnpublishHolds, Hidden
  <2>1. UnpublishKnows(job[j]) /\ job[j].pc = "success"
    BY DEF LoneJob, Knows, Undisturbed, PublicationTypes
  <2> QED
    BY <2>1 DEF UnpublishKnows
<1> QED
  BY <1>1, PublicationTypesHold, LoneJobsKnow, PTL
=============================================================================
