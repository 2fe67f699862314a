------------------------------- MODULE TeamProofs -------------------------------
(***************************************************************************)
(* Proofs about Team, for any users, handlers, plans and leavers.          *)
(*                                                                         *)
(* Nothing ties a handler's question to its write, so the shop keeps an    *)
(* owner only while handlers take turns.  What one handler alone has found *)
(* out and still may rely on when it writes is Knows; Quiet is that every  *)
(* handler knows it, for as long as nothing overlapped.                    *)
(*                                                                         *)
(* What a deletion leaves (Left) and who changes a role hold under any     *)
(* overlap: they rest on what the writes restate of the row they read, and *)
(* on the questions a handler has passed on its way to them (Route).       *)
(***************************************************************************)
EXTENDS Team, FiniteSetTheorems, TLAPS

MemberOps == TeamOps \cup {"accept", "decline", "leave"}
Invites == {"inviteStaff", "inviteAffiliate"}
Joins == Invites \cup {"accept", "decline"}
Ends(op, role) == op \in {"leave", "revoke", "remove"} \/ (op = "setRole" /\ role # "OWNER")

\* Which operations come to which statement, and that only an invitation comes to
\* its write without a row.
Route(row) ==
  /\ row.pc = "target" => row.op \in MemberOps
  /\ row.pc = "seat" => row.op \in Joins
  /\ row.pc = "owners" => row.op \notin Joins
  /\ row.pc \in {"work", "block"} => row.op = "sweep"
  /\ row.pc \in {"seat", "owners", "write"} /\ row.op \in MemberOps \ Invites => row.row.found

Routed == \A c \in Agents : Route(call[c])

\* A handler that was told there is a seat.
Promised(row) ==
  row.pc = "write" /\ (row.op = "inviteStaff" \/ (row.op = "accept" /\ ~row.row.lapsed))

\* The user may lose the row: they own nothing, or somebody else owns too.
MayEnd(u) == isOwner(u) => OthersOwn(u)

Knows(c) ==
  LET row == call[c] IN
  /\ row.pc \in {"seat", "write"} /\ row.op \in Joins => ~isActive(row.user)
  /\ row.pc = "write" /\ Ends(row.op, row.role) => MayEnd(row.user)
  /\ row.pc \in {"work", "write"} /\ row.op = "sweep" => MayEnd(row.user)

OneByOne == \A c, d \in Agents : ~Idle(c) /\ ~Idle(d) => c = d
SomeOwner == \E u \in Users : isOwner(u)

Quiet == OneByOne /\ SomeOwner /\ \A c \in Agents : Knows(c)

TeamInv == TeamTypeOK /\ Routed /\ (~overlapped => Quiet)
-----------------------------------------------------------------------------
(***************************************************************************)
(* Types.                                                                  *)
(***************************************************************************)
TablesOK == /\ member \in [Users -> MembershipRow]
            /\ deletion \in [Users -> DeletionRow]
            /\ gone \subseteq Users
            /\ work \subseteq Leavers
            /\ overlapped \in BOOLEAN
            /\ raced \subseteq Users
CallsOK == call \in [Agents -> CallRow]

LEMMA TeamTypeParts == TeamTypeOK <=> TablesOK /\ CallsOK
  BY DEF TeamTypeOK, TablesOK, CallsOK

LEMMA NoCallType == NoCall \in CallRow
  BY TeamAssumption DEF NoCall, CallRow, NotSeen, SeenRow, Roles

\* A step that gives one handler a row.
LEMMA CallSteps ==
  ASSUME CallsOK, NEW c \in Agents, NEW row \in CallRow, call' = [call EXCEPT ![c] = row]
  PROVE  CallsOK' /\ call'[c] = row /\ \A d \in Agents \ {c} : call'[d] = call[d]
  BY DEF CallsOK

LEMMA OverSteps ==
  ASSUME CallsOK, NEW c \in Agents, Over(c)
  PROVE  CallsOK' /\ call'[c] = NoCall /\ \A d \in Agents \ {c} : call'[d] = call[d]
  BY NoCallType, CallSteps DEF Over

LEMMA GotoSteps ==
  ASSUME CallsOK, NEW c \in Agents, NEW pc \in {"write", "block"}, Goto(c, pc)
  PROVE  /\ CallsOK' /\ call'[c] = [call[c] EXCEPT !.pc = pc]
         /\ \A d \in Agents \ {c} : call'[d] = call[d]
  <1>1. call[c] \in CallRow /\ [call[c] EXCEPT !.pc = pc] \in CallRow
    BY DEF CallsOK, CallRow
  <1>2. call' = [call EXCEPT ![c] = [call[c] EXCEPT !.pc = pc]]
    BY DEF Goto
  <1> QED
    BY <1>1, <1>2, CallSteps

\* The sweep goes on with what is left of its queue.
LEMMA NextRowSteps ==
  ASSUME CallsOK, NEW c \in Agents, NextRow(c)
  PROVE  /\ CallsOK'
         /\ call'[c].pc = "idle" \/ (call'[c].pc = "owners" /\ call'[c].op = "sweep")
         /\ \A d \in Agents \ {c} : call'[d] = call[d]
  <1> DEFINE rest == call[c].queue \ {call[c].user}
             row == IF rest = {} THEN NoCall
                    ELSE [NoCall EXCEPT !.op = "sweep", !.pc = "owners", !.queue = rest]
  <1>1. rest \in SUBSET Users
    BY DEF CallsOK, CallRow
  <1> HIDE DEF rest
  <1>2. /\ row \in CallRow
        /\ row.pc = "idle" \/ (row.pc = "owners" /\ row.op = "sweep")
    BY <1>1, NoCallType DEF CallRow, NoCall
  <1>3. call' = [call EXCEPT ![c] = row]
    BY DEF NextRow, rest
  <1> QED
    BY <1>2, <1>3, CallSteps

\* A handler begins.
LEMMA BeginSteps ==
  ASSUME CallsOK, NEW c \in Agents, NEW op \in TeamOps \cup OwnOps, NEW u \in Users,
         NEW role \in Roles, NEW pc \in {"target", "owners", "write"}, Begin(c, op, u, role, pc)
  PROVE  /\ CallsOK'
         /\ call'[c].op = op /\ call'[c].pc = pc /\ call'[c].user = u /\ call'[c].role = role
         /\ \A d \in Agents \ {c} : call'[d] = call[d]
  <1> DEFINE row == [NoCall EXCEPT !.op = op, !.pc = pc, !.user = u, !.role = role]
  <1>1. row \in CallRow /\ row.op = op /\ row.pc = pc /\ row.user = u /\ row.role = role
    BY NoCallType DEF CallRow, NoCall
  <1>2. call' = [call EXCEPT ![c] = row]
    BY DEF Begin
  <1> HIDE DEF row
  <1> QED
    BY <1>1, <1>2, CallSteps

\* What the read of a row leaves with the handler.
LEMMA ReadTargetSteps ==
  ASSUME TablesOK, CallsOK, NEW c \in Agents, ReadTarget(c)
  PROVE  LET old == call[c]
             new == call'[c]
             row == member[old.user]
         IN /\ CallsOK' /\ OnlyCall /\ old.pc = "target" /\ old.user \in Users
            /\ new.op = old.op /\ new.user = old.user /\ new.role = old.role
            /\ new.row.lapsed = row.lapsed /\ new.row.found = (row.status # "none")
            /\ new.pc = CASE old.op = "inviteStaff" \/ (old.op = "accept" /\ ~row.lapsed) -> "seat"
                          [] EndsOwner(old.op, row, old.role) -> "owners"
                          [] OTHER -> "write"
            /\ \A d \in Agents \ {c} : call'[d] = call[d]
  <1> DEFINE old == call[c]
             row == member[old.user]
             pc == CASE old.op = "inviteStaff" \/ (old.op = "accept" /\ ~row.lapsed) -> "seat"
                     [] EndsOwner(old.op, row, old.role) -> "owners"
                     [] OTHER -> "write"
             seen == [id |-> row.id, found |-> row.status # "none", lapsed |-> row.lapsed]
             new == [old EXCEPT !.row = seen, !.pc = pc]
  <1>1. old \in CallRow /\ old.user \in Users /\ row \in MembershipRow
    BY DEF CallsOK, CallRow, TablesOK
  <1>2. seen \in SeenRow
    BY <1>1 DEF SeenRow, MembershipRow
  <1>3. pc \in {"seat", "owners", "write"}
    OBVIOUS
  <1>4. call' = [call EXCEPT ![c].row = seen, ![c].pc = pc]
    BY DEF ReadTarget
  <1>5. At(c, "target") /\ OnlyCall
    BY DEF ReadTarget
  <1> HIDE DEF pc, seen
  <1>8. call' = [call EXCEPT ![c] = new]
    BY <1>4 DEF CallsOK
  <1>6. new \in CallRow /\ new.op = old.op /\ new.user = old.user /\ new.role = old.role
        /\ new.pc = pc /\ new.row = seen
    BY <1>1, <1>2, <1>3 DEF CallRow
  <1>9. seen.lapsed = row.lapsed /\ seen.found = (row.status # "none")
    BY DEF seen
  <1> HIDE DEF new
  <1>7. CallsOK' /\ call'[c] = new /\ \A d \in Agents \ {c} : call'[d] = call[d]
    BY <1>6, <1>8, CallSteps
  <1> QED
    BY <1>1, <1>5, <1>6, <1>7, <1>9 DEF At, pc

\* The row a handler writes.
LEMMA WriteEffect ==
  ASSUME TablesOK, CallsOK, NEW c \in Agents, WriteMember(c)
  PROVE  LET me == call[c]
             u == me.user
         IN /\ member' \in [Users -> MembershipRow]
            /\ me.pc = "write" /\ me.op \in MemberOps /\ u \in Users
            /\ \A v \in Users \ {u} : member'[v] = member[v]
            /\ me.op = "setRole" /\ me.role = "OWNER" /\ isOwner(u)
                 => member'[u].status = "ACTIVE" /\ member'[u].role = "OWNER"
            /\ member[u].status \in {"REVOKED", "EXPIRED"} /\ member'[u].status = "ACTIVE"
                 => me.op = "inviteStaff"
            /\ member[u].status # "ACTIVE" /\ member'[u].status = "ACTIVE" => Promised(me)
            /\ member[u].status = "ACTIVE" /\ member'[u].status = "ACTIVE"
                 /\ member'[u].role # member[u].role
                 => me.op = "setRole" /\ me.role = member'[u].role
  <1> DEFINE me == call[c]
             u == me.user
             old == member[u]
             inserts == ~me.row.found
  <1>1. /\ me \in CallRow /\ u \in Users /\ old \in MembershipRow
        /\ me.pc = "write" /\ me.op \in MemberOps /\ me.role \in Roles
    BY DEF CallsOK, CallRow, TablesOK, WriteMember, At, MemberOps
  <1>2. Written(c) \in MembershipRow
    <2> DEFINE status(s) == [old EXCEPT !.status = s, !.lapsed = FALSE]
    <2>1. \A s \in AffiliationStatuses : status(s) \in MembershipRow
      BY <1>1 DEF MembershipRow
    <2>2. /\ [status("ACTIVE") EXCEPT !.role = me.role] \in MembershipRow
          /\ [status("PENDING_USER_ACCEPTANCE") EXCEPT !.role = me.role] \in MembershipRow
          /\ [old EXCEPT !.role = me.role] \in MembershipRow
          /\ [NoMembership EXCEPT !.id = old.id] \in MembershipRow
      BY <1>1 DEF MembershipRow, AffiliationStatuses, NoMembership, Roles
    <2>3. \A lapsed : ending(me.op, lapsed) \in AffiliationStatuses
      BY DEF ending, AffiliationStatuses
    <2>4. "EXPIRED" \in AffiliationStatuses /\ "ACTIVE" \in AffiliationStatuses
      BY DEF AffiliationStatuses
    <2> HIDE DEF status
    <2>5. Written(c) =
            CASE me.op = "inviteStaff" -> [status("ACTIVE") EXCEPT !.role = me.role]
              [] me.op = "inviteAffiliate" ->
                   [status("PENDING_USER_ACCEPTANCE") EXCEPT !.role = me.role]
              [] me.op = "accept" /\ me.row.lapsed -> status("EXPIRED")
              [] me.op = "accept" /\ ~me.row.lapsed -> status("ACTIVE")
              [] me.op \in {"decline", "leave", "revoke"} ->
                   status(ending(me.op, me.row.lapsed))
              [] me.op = "setRole" -> [old EXCEPT !.role = me.role]
              [] me.op = "remove" -> [NoMembership EXCEPT !.id = old.id]
      BY DEF Written, status
    <2> QED
      BY <1>1, <2>1, <2>2, <2>3, <2>4, <2>5 DEF MemberOps, TeamOps
  <1>3. [Written(c) EXCEPT !.id = @ + 1] \in MembershipRow
        /\ [Written(c) EXCEPT !.id = @ + 1].status = Written(c).status
    BY <1>2 DEF MembershipRow
  <1>4. \/ member' = member
        \/ old.status = "none" /\ member' = [member EXCEPT ![u] = [Written(c) EXCEPT !.id = @ + 1]]
        \/ Matches(c) /\ member' = [member EXCEPT ![u] = Written(c)]
    BY DEF WriteMember
  <1>5. member' \in [Users -> MembershipRow] /\ \A v \in Users \ {u} : member'[v] = member[v]
    BY <1>1, <1>2, <1>3, <1>4 DEF TablesOK
  <1>6. ASSUME me.op = "setRole", me.role = "OWNER", isOwner(u)
        PROVE  member'[u].status = "ACTIVE" /\ member'[u].role = "OWNER"
    <2>1. Written(c) = [old EXCEPT !.role = "OWNER"] /\ old.status = "ACTIVE"
      BY <1>6 DEF Written, isOwner, isActive
    <2>2. member'[u] \in {old, Written(c)}
      BY <1>1, <1>4, <2>1 DEF TablesOK
    <2> QED
      BY <1>1, <1>6, <2>1, <2>2 DEF MembershipRow, isOwner
  <1>7. ASSUME old.status \in {"REVOKED", "EXPIRED"}, member'[u].status = "ACTIVE"
        PROVE  me.op = "inviteStaff"
    <2>1. Matches(c) /\ member'[u] = Written(c)
      BY <1>1, <1>4, <1>7 DEF TablesOK
    <2>2. CASE me.op \in {"accept", "setRole"}
      <3>1. Matches(c) => IF me.op = "setRole" THEN old.status = "ACTIVE"
                          ELSE me.row.lapsed \/ old.status = "PENDING_USER_ACCEPTANCE"
        BY <2>2 DEF Matches
      <3>2. me.op = "accept" /\ me.row.lapsed => Written(c).status = "EXPIRED"
        BY <1>1 DEF Written, MembershipRow
      <3> QED
        BY <1>7, <2>1, <2>2, <3>1, <3>2
    <2>3. CASE me.op \in {"inviteAffiliate", "decline", "leave", "revoke", "remove"}
      BY <1>1, <1>7, <2>1, <2>3 DEF Matches, Written, MembershipRow, NoMembership, ending
    <2> QED
      BY <1>1, <2>2, <2>3 DEF MemberOps, TeamOps
  <1>8. member'[u].status \in {old.status, Written(c).status}
    BY <1>1, <1>2, <1>3, <1>4 DEF TablesOK
  <1>9. ASSUME old.status # "ACTIVE", member'[u].status = "ACTIVE"
        PROVE  Promised(me)
    <2>1. Written(c).status = "ACTIVE"
      BY <1>8, <1>9
    <2>2. me.op \in {"inviteStaff", "accept"} \/ me.op = "setRole"
      BY <1>1, <2>1 DEF Written, MembershipRow, NoMembership, ending, MemberOps, TeamOps
    <2>3. me.op # "setRole"
      BY <1>1, <1>9, <2>1 DEF Written, MembershipRow
    <2>4. me.op = "accept" => ~me.row.lapsed
      <3> SUFFICES ASSUME me.op = "accept", me.row.lapsed PROVE FALSE
        OBVIOUS
      <3>1. Written(c) = [old EXCEPT !.status = "EXPIRED", !.lapsed = FALSE]
        BY DEF Written
      <3> QED
        BY <1>1, <2>1, <3>1 DEF MembershipRow
    <2> QED
      BY <1>1, <2>2, <2>3, <2>4 DEF Promised
  <1>10. ASSUME old.status = "ACTIVE", member'[u].status = "ACTIVE",
                member'[u].role # old.role
         PROVE  me.op = "setRole" /\ me.role = member'[u].role
    <2>1. Matches(c) /\ member'[u] = Written(c)
      BY <1>1, <1>4, <1>10 DEF TablesOK
    <2>2. CASE me.op = "inviteStaff"
      BY <1>10, <2>1, <2>2 DEF Matches
    <2>3. CASE me.op = "accept"
      <3>1. \E s \in {"EXPIRED", "ACTIVE"} :
              Written(c) = [old EXCEPT !.status = s, !.lapsed = FALSE]
        BY <2>3 DEF Written
      <3>2. Written(c).role = old.role
        BY <1>1, <3>1 DEF MembershipRow
      <3> QED
        BY <1>10, <2>1, <3>2
    <2>4. CASE me.op = "setRole"
      <3>1. Written(c) = [old EXCEPT !.role = me.role]
        BY <2>4 DEF Written
      <3> QED
        BY <1>1, <2>1, <2>4, <3>1 DEF MembershipRow
    <2>5. CASE me.op \in {"inviteAffiliate", "decline", "leave", "revoke", "remove"}
      BY <1>1, <1>10, <2>1, <2>5 DEF Written, MembershipRow, NoMembership, ending
    <2> QED
      BY <1>1, <2>2, <2>3, <2>4, <2>5 DEF MemberOps, TeamOps
  <1> QED
    BY <1>1, <1>5, <1>6, <1>7, <1>9, <1>10

\* What a handler that has just asked holds.
LEMMA AskSteps ==
  ASSUME CallsOK, NEW c \in Agents, Ask(c)
  PROVE  /\ CallsOK' /\ Idle(c) /\ overlapped' = (overlapped \/ Busy)
         /\ UNCHANGED <<member, deletion, gone, work, raced>>
         /\ \/ call'[c].pc = "target" /\ call'[c].op \in MemberOps
            \/ call'[c].pc = "owners" /\ call'[c].op = "request"
            \/ call'[c].pc = "write" /\ call'[c].op = "cancel"
         /\ \A d \in Agents \ {c} : call'[d] = call[d]
  <1>1. ASSUME NEW v \in Users, NEW u \in Users, NEW op \in TeamOps, NEW role \in Roles,
               Begin(c, op, u, role, "target")
        PROVE  /\ CallsOK' /\ call'[c].op = op /\ call'[c].pc = "target" /\ call'[c].user = u
               /\ \A d \in Agents \ {c} : call'[d] = call[d]
    BY <1>1, BeginSteps
  <1>2. ASSUME NEW u \in Users, NEW op \in OwnOps, NEW pc \in {"target", "owners", "write"},
               Begin(c, op, u, "MANAGER", pc)
        PROVE  /\ CallsOK' /\ call'[c].op = op /\ call'[c].pc = pc /\ call'[c].user = u
               /\ \A d \in Agents \ {c} : call'[d] = call[d]
    BY <1>2, BeginSteps DEF Roles
  <1>3. ASSUME NEW v \in Users, NEW u \in Users, NEW op \in TeamOps, NEW role \in Roles,
               AskTeam(c, v, op, u, role)
        PROVE  /\ CallsOK' /\ call'[c].op = op /\ call'[c].pc = "target"
               /\ \A d \in Agents \ {c} : call'[d] = call[d]
               /\ Begin(c, op, u, role, "target")
    <2>1. Begin(c, op, u, role, "target")
      BY <1>3 DEF AskTeam
    <2> QED
      BY <1>1, <2>1
  <1>4. ASSUME NEW u \in Users, NEW op \in OwnOps, AskOwn(c, op, u)
        PROVE  \E pc \in {"target", "owners", "write"} :
                 /\ CallsOK' /\ call'[c].op = op /\ call'[c].pc = pc /\ call'[c].user = u
                 /\ \A d \in Agents \ {c} : call'[d] = call[d]
                 /\ Begin(c, op, u, "MANAGER", pc) /\ u \notin gone
                 /\ pc = CASE op = "request" -> "owners"
                           [] op = "cancel" -> "write"
                           [] OTHER -> "target"
    <2> DEFINE pc == CASE op = "request" -> "owners" [] op = "cancel" -> "write"
                       [] OTHER -> "target"
    <2>1. Begin(c, op, u, "MANAGER", pc) /\ u \notin gone
      BY <1>4 DEF AskOwn
    <2>2. pc \in {"target", "owners", "write"}
      OBVIOUS
    <2>3. pc = CASE op = "request" -> "owners" [] op = "cancel" -> "write"
                       [] OTHER -> "target"
      OBVIOUS
    <2> HIDE DEF pc
    <2>4. /\ CallsOK' /\ call'[c].op = op /\ call'[c].pc = pc /\ call'[c].user = u
          /\ \A d \in Agents \ {c} : call'[d] = call[d]
      BY <1>2, <2>1, <2>2
    <2> QED
      BY <2>1, <2>2, <2>3, <2>4
  <1>5. CASE \E v, u \in Users, op \in TeamOps, role \in Roles : AskTeam(c, v, op, u, role)
    BY <1>3, <1>5 DEF Begin, MemberOps, TeamOps, OwnOps
  <1>6. CASE \E u \in Users, op \in OwnOps : AskOwn(c, op, u)
    BY <1>4, <1>6 DEF Begin, MemberOps, OwnOps
  <1> QED
    BY <1>5, <1>6 DEF Ask

LEMMA DeletionRows ==
  /\ NoDeletion \in DeletionRow
  /\ \A s \in {"SCHEDULED", "BLOCKED", "COMPLETED"} :
       [status |-> s, due |-> FALSE] \in DeletionRow
  BY DEF NoDeletion, DeletionRow

LEMMA TeamTypeNext == TeamTypeOK /\ [TeamNext]_teamVars => TeamTypeOK'
  <1> SUFFICES ASSUME TeamTypeOK, [TeamNext]_teamVars
               PROVE  TablesOK' /\ CallsOK'
    BY DEF TeamTypeOK, TablesOK, CallsOK
  <1>0. TablesOK /\ CallsOK
    BY TeamTypeParts
  <1>1. CASE UNCHANGED teamVars
    BY <1>0, <1>1 DEF teamVars, TablesOK, CallsOK
  <1>2. ASSUME NEW c \in Agents, Ask(c)
        PROVE  TablesOK' /\ CallsOK'
    <2>1. (overlapped \/ Busy) \in BOOLEAN
      OBVIOUS
    <2> QED
      BY <1>0, <1>2, <2>1, AskSteps DEF TablesOK
  <1>3. ASSUME NEW c \in Agents, HandlerStep(c)
        PROVE  TablesOK' /\ CallsOK'
    <2>1. CASE ReadTarget(c)
      BY <1>0, <2>1, ReadTargetSteps DEF OnlyCall, TablesOK
    <2>2. CASE CheckOwners(c) \/ CheckSeat(c)
      <3>1. Goto(c, "write") /\ OnlyCall
        BY <2>2 DEF CheckOwners, CheckSeat
      <3> QED
        BY <1>0, <3>1, GotoSteps DEF OnlyCall, TablesOK
    <2>3. CASE WriteMember(c)
      <3>1. member' \in [Users -> MembershipRow]
        BY <1>0, <2>3, WriteEffect
      <3>2. CallsOK'
        BY <1>0, <2>3, OverSteps DEF WriteMember
      <3> QED
        BY <1>0, <2>3, <3>1, <3>2 DEF WriteMember, TablesOK
    <2>4. CASE request(c) \/ cancel(c)
      <3>1. CallsOK'
        BY <1>0, <2>4, OverSteps DEF request, cancel
      <3>2. deletion' \in [Users -> DeletionRow]
        BY <1>0, <2>4, DeletionRows DEF request, cancel, TablesOK
      <3> QED
        BY <1>0, <2>4, <3>1, <3>2 DEF request, cancel, TablesOK
    <2> QED
      BY <1>3, <2>1, <2>2, <2>3, <2>4 DEF HandlerStep
  <1>4. ASSUME NEW c \in Agents, ReadDue(c)
        PROVE  TablesOK' /\ CallsOK'
    <2> DEFINE row == [NoCall EXCEPT !.op = "sweep", !.pc = "owners", !.queue = dueRequests]
    <2>1. dueRequests \in SUBSET Users
      BY DEF dueRequests
    <2>2. row \in CallRow
      BY <2>1, NoCallType DEF CallRow
    <2>3. call' = [call EXCEPT ![c] = row]
      BY <1>4 DEF ReadDue
    <2>4. CallsOK'
      BY <1>0, <2>2, <2>3, CallSteps
    <2>5. overlapped' \in BOOLEAN
      BY <1>4 DEF ReadDue
    <2> QED
      BY <1>0, <1>4, <2>4, <2>5 DEF ReadDue, TablesOK
  <1>5. ASSUME NEW c \in Agents, SweepStep(c)
        PROVE  TablesOK' /\ CallsOK'
    <2>1. ASSUME NEW u \in Users, SweepOwners(c, u)
          PROVE  TablesOK' /\ CallsOK'
      <3> DEFINE pc == IF isOwner(u) /\ ~OthersOwn(u) THEN "block" ELSE "work"
                 row == [call[c] EXCEPT !.user = u, !.pc = pc]
      <3>1. call' = [call EXCEPT ![c] = row]
        BY <1>0, <2>1 DEF SweepOwners, CallsOK
      <3>2. pc \in {"block", "work"}
        OBVIOUS
      <3> HIDE DEF pc
      <3>3. row \in CallRow
        BY <1>0, <3>2 DEF CallsOK, CallRow
      <3>4. CallsOK'
        BY <1>0, <3>1, <3>3, CallSteps
      <3> QED
        BY <1>0, <2>1, <3>4 DEF SweepOwners, OnlyCall, TablesOK
    <2>2. CASE SweepWork(c)
      <3>1. (Goto(c, "write") \/ Goto(c, "block")) /\ OnlyCall
        BY <2>2 DEF SweepWork
      <3> QED
        BY <1>0, <3>1, GotoSteps DEF OnlyCall, TablesOK
    <2>3. CASE Block(c) \/ anonymize(c)
      <3>1. CallsOK'
        BY <1>0, <2>3, NextRowSteps DEF Block, anonymize
      <3>2. call[c].user \in Users
        BY <1>0 DEF CallsOK, CallRow
      <3>3. deletion' \in [Users -> DeletionRow]
        BY <1>0, <2>3, <3>2, DeletionRows DEF Block, anonymize, TablesOK
      <3>4. member' \in [Users -> MembershipRow]
        <4>1. member[call[c].user].id \in Nat
          BY <1>0, <3>2 DEF TablesOK, MembershipRow
        <4>2. [NoMembership EXCEPT !.id = member[call[c].user].id] \in MembershipRow
          BY <4>1 DEF MembershipRow, NoMembership, Roles
        <4> QED
          BY <1>0, <2>3, <4>2 DEF Block, anonymize, TablesOK
      <3> QED
        BY <1>0, <2>3, <3>1, <3>2, <3>3, <3>4 DEF Block, anonymize, TablesOK
    <2> QED
      BY <1>5, <2>1, <2>2, <2>3 DEF SweepStep
  <1>6. ASSUME NEW c \in Agents, SweepFails(c) \/ Dies(c)
        PROVE  TablesOK' /\ CallsOK'
    <2>1. /\ Goto(c, "block") \/ Over(c)
          /\ UNCHANGED <<member, deletion, gone, work, overlapped>> /\ raced' \subseteq raced
      BY <1>6 DEF SweepFails, Dies, Escapes
    <2>2. CallsOK'
      BY <1>0, <2>1, GotoSteps, OverSteps
    <2> QED
      BY <1>0, <2>1, <2>2 DEF TablesOK
  <1>7. ASSUME NEW u \in Users, World(u)
        PROVE  TablesOK' /\ CallsOK'
    <2>1. CallsOK'
      BY <1>0, <1>7 DEF World, Lapse, FallsDue, TakeWork, EndWork, CallsOK
    <2>2. CASE Lapse(u)
      BY <1>0, <2>1, <2>2 DEF Lapse, TablesOK, MembershipRow
    <2>3. CASE FallsDue(u)
      BY <1>0, <2>1, <2>3 DEF FallsDue, TablesOK, DeletionRow
    <2>4. CASE TakeWork(u) \/ EndWork(u)
      BY <1>0, <2>1, <2>4 DEF TakeWork, EndWork, TablesOK
    <2> QED
      BY <1>7, <2>2, <2>3, <2>4 DEF World
  <1> QED
    BY <1>1, <1>2, <1>3, <1>4, <1>5, <1>6, <1>7 DEF TeamNext

LEMMA TeamTypeInit == TeamInit => TeamTypeOK
  <1>1. /\ NoMembership \in MembershipRow
        /\ [id |-> 1, status |-> "ACTIVE", role |-> "OWNER", lapsed |-> FALSE] \in MembershipRow
    BY DEF MembershipRow, NoMembership, Roles, AffiliationStatuses
  <1> QED
    BY <1>1, NoCallType, DeletionRows DEF TeamInit, TeamTypeOK

\* Every row, account and handler keeps its type.
THEOREM TeamTypesCorrect == TeamSpec => []TeamTypeOK
  BY TeamTypeInit, TeamTypeNext, PTL DEF TeamSpec

-----------------------------------------------------------------------------
(***************************************************************************)
(* What becomes of a membership, whatever interleaves.                     *)
(***************************************************************************)

\* The statements that write a membership.
LEMMA MemberSteps ==
  ASSUME TeamTypeOK, [TeamNext]_teamVars
  PROVE  \/ UNCHANGED member
         \/ \E c \in Agents : WriteMember(c)
         \/ \E u \in Users :
              /\ member'[u].status = "none" \/ member'[u].status = member[u].status
              /\ member'[u].role = member[u].role \/ member'[u].status = "none"
              /\ \A v \in Users \ {u} : member'[v] = member[v]
  <1>0. TablesOK /\ CallsOK
    BY TeamTypeParts
  <1>1. ASSUME NEW c \in Agents, anonymize(c)
        PROVE  \E u \in Users :
                 member'[u].status = "none" /\ \A v \in Users \ {u} : member'[v] = member[v]
    <2>1. call[c].user \in Users
      BY <1>0 DEF CallsOK, CallRow
    <2>2. PICK u \in Users : u = call[c].user
      BY <2>1
    <2>3. member' = [member EXCEPT ![u] = [NoMembership EXCEPT !.id = member[u].id]]
      BY <1>1, <2>2 DEF anonymize
    <2> QED
      BY <1>0, <2>3 DEF TablesOK, NoMembership
  <1>2. ASSUME NEW u \in Users, Lapse(u)
        PROVE  /\ member'[u].status = member[u].status /\ member'[u].role = member[u].role
               /\ \A v \in Users \ {u} : member'[v] = member[v]
    BY <1>0, <1>2 DEF Lapse, TablesOK, MembershipRow
  <1>3. ASSUME NEW c \in Agents,
               \/ Ask(c) \/ ReadTarget(c) \/ CheckOwners(c) \/ CheckSeat(c) \/ request(c)
               \/ cancel(c) \/ ReadDue(c) \/ SweepWork(c) \/ Block(c) \/ SweepFails(c)
               \/ Dies(c) \/ \E v \in Users : SweepOwners(c, v)
        PROVE  UNCHANGED member
    <2>1. CASE Ask(c)
      BY <1>0, <2>1, AskSteps
    <2> QED
      BY <1>3, <2>1 DEF ReadTarget, CheckOwners, CheckSeat, request, cancel, ReadDue,
         SweepWork, Block, SweepFails, Dies, SweepOwners, OnlyCall
  <1>4. ASSUME NEW v \in Users, FallsDue(v) \/ TakeWork(v) \/ EndWork(v)
        PROVE  UNCHANGED member
    BY <1>4 DEF FallsDue, TakeWork, EndWork
  <1>5. UNCHANGED teamVars => UNCHANGED member
    BY DEF teamVars
  <1> QED
    BY <1>1, <1>2, <1>3, <1>4, <1>5 DEF TeamNext, HandlerStep, SweepStep, World

(***************************************************************************)
(* A membership that ended comes back to life only by somebody of the shop *)
(* adding the person again, whatever interleaves.                          *)
(***************************************************************************)
THEOREM EndedMembershipsStayEnded == TeamSpec => EndedStaysEnded
  <1> DEFINE Added ==
        \A u \in Users :
          (member[u].status \in {"REVOKED", "EXPIRED"} /\ member'[u].status = "ACTIVE")
            => \E c \in Agents : call[c].op = "inviteStaff" /\ call[c].user = u
  <1>1. TeamTypeOK /\ [TeamNext]_teamVars => Added
    <2> SUFFICES ASSUME TeamTypeOK, [TeamNext]_teamVars, NEW u \in Users,
                        member[u].status \in {"REVOKED", "EXPIRED"},
                        member'[u].status = "ACTIVE"
                 PROVE  \E c \in Agents : call[c].op = "inviteStaff" /\ call[c].user = u
      OBVIOUS
    <2>1. PICK c \in Agents : WriteMember(c)
      BY MemberSteps
    <2> QED
      BY <2>1, TeamTypeParts, WriteEffect
  <1>2. Added => \A u \in Users :
          (member[u].status \in {"REVOKED", "EXPIRED"} /\ member'[u].status = "ACTIVE")
            => \E c \in Agents : /\ call[c].op = "inviteStaff"
                                /\ call[c].user = u
    OBVIOUS
  <1> QED
    BY <1>1, <1>2, TeamTypesCorrect, PTL DEF TeamSpec, EndedStaysEnded

(***************************************************************************)
(* A member's role changes only to what a role change under way asks for,  *)
(* whatever interleaves: an invitation that read the row before the member *)
(* accepted restates that it is not active, and misses.                    *)
(***************************************************************************)
THEOREM RolesAreChangedByRoleChanges == TeamSpec => MembersKeepTheirRole
  <1> DEFINE Asked ==
        \A u \in Users :
          isActive(u) /\ member'[u].status = "ACTIVE" /\ member'[u].role # member[u].role
            => \E c \in Agents : /\ At(c, "write") /\ call[c].op = "setRole"
                                /\ call[c].user = u /\ call[c].role = member'[u].role
  <1>1. TeamTypeOK /\ [TeamNext]_teamVars => Asked
    <2> SUFFICES ASSUME TeamTypeOK, [TeamNext]_teamVars, NEW u \in Users,
                        member[u].status = "ACTIVE", member'[u].status = "ACTIVE",
                        member'[u].role # member[u].role
                 PROVE  \E c \in Agents : /\ At(c, "write") /\ call[c].op = "setRole"
                                         /\ call[c].user = u /\ call[c].role = member'[u].role
      BY DEF isActive
    <2>1. PICK c \in Agents : WriteMember(c)
      BY MemberSteps
    <2> QED
      BY <2>1, TeamTypeParts, WriteEffect DEF At
  <1> QED
    BY <1>1, TeamTypesCorrect, PTL DEF TeamSpec, MembersKeepTheirRole

-----------------------------------------------------------------------------
(***************************************************************************)
(* The way of a handler to its write.                                      *)
(***************************************************************************)

\* A handler that is done, or has only its queue.
LEMMA NoRoute ==
  ASSUME NEW c \in Agents,
         call'[c].pc = "idle" \/ (call'[c].pc = "owners" /\ call'[c].op = "sweep")
  PROVE  /\ Route(call'[c])
         /\ \A u \in Users : ~Inviting(c, u)' /\ ~Anonymizing(c, u)'
  BY DEF Route, MemberOps, TeamOps, Joins, Invites, Inviting, Anonymizing, At

\* A handler's step: where it goes, and what it may then do to an account.
AgentStep(c) == Ask(c) \/ HandlerStep(c) \/ ReadDue(c) \/ SweepStep(c) \/ SweepFails(c) \/ Dies(c)

LEMMA AgentSteps ==
  ASSUME TeamTypeOK, Routed, NEW c \in Agents, AgentStep(c)
  PROVE  /\ \A d \in Agents \ {c} : call'[d] = call[d]
         /\ Route(call'[c])
         /\ \A u \in gone : Inviting(c, u)' => Inviting(c, u)
         /\ \A u \in Users : Anonymizing(c, u)' => u \notin work
  <1> DEFINE old == call[c]
             new == call'[c]
             Goal == /\ \A d \in Agents \ {c} : call'[d] = call[d]
                     /\ Route(new)
                     /\ \A u \in gone : Inviting(c, u)' => Inviting(c, u)
                     /\ \A u \in Users : Anonymizing(c, u)' => u \notin work
  <1>0. TablesOK /\ CallsOK /\ old \in CallRow /\ Route(old) /\ gone \subseteq Users
    BY TeamTypeParts DEF CallsOK, Routed, TablesOK
  <1>1. CASE Ask(c)
    <2>1. /\ \/ new.pc = "target" /\ new.op \in MemberOps
             \/ new.pc = "owners" /\ new.op = "request"
             \/ new.pc = "write" /\ new.op = "cancel"
          /\ \A d \in Agents \ {c} : call'[d] = call[d]
      BY <1>0, <1>1, AskSteps
    <2>2. Route(new)
      BY <2>1 DEF Route, MemberOps, TeamOps, Joins, Invites
    <2>3. \A u \in Users : ~Inviting(c, u)' /\ ~Anonymizing(c, u)'
      BY <2>1 DEF Inviting, Anonymizing, At
    <2> QED
      BY <1>0, <2>1, <2>2, <2>3
  <1>2. CASE ReadTarget(c)
    <2> DEFINE row == member[old.user]
    <2>1. /\ old.pc = "target" /\ old.user \in Users
          /\ new.op = old.op /\ new.user = old.user
          /\ new.row.found = (row.status # "none")
          /\ new.pc = CASE old.op = "inviteStaff" \/ (old.op = "accept" /\ ~row.lapsed) -> "seat"
                        [] EndsOwner(old.op, row, old.role) -> "owners"
                        [] OTHER -> "write"
          /\ \A d \in Agents \ {c} : call'[d] = call[d]
      BY <1>0, <1>2, ReadTargetSteps
    <2>2. /\ old.op \in MemberOps /\ Reads(old.op, row)
          /\ old.op \in Invites => old.user \notin gone
      BY <1>0, <1>2, <2>1 DEF ReadTarget, Route, Invites
    <2>3. old.op \in MemberOps \ Invites => row.status # "none"
      BY <2>2 DEF Reads, MemberOps, TeamOps, Invites
    <2>4. /\ new.pc = "seat" => old.op \in Joins
          /\ new.pc = "owners" => old.op \notin Joins
          /\ new.pc \in {"seat", "owners", "write"}
      BY <2>1 DEF EndsOwner, Joins, Invites
    <2>5. Route(new)
      BY <2>1, <2>2, <2>3, <2>4 DEF Route
    <2>6. \A u \in gone : ~Inviting(c, u)'
      BY <2>1, <2>2 DEF Inviting, Invites
    <2>7. \A u \in Users : ~Anonymizing(c, u)'
      BY <2>1, <2>2 DEF Anonymizing, MemberOps, TeamOps
    <2> QED
      BY <2>1, <2>5, <2>6, <2>7
  <1>3. CASE CheckOwners(c) \/ CheckSeat(c) \/ SweepWork(c) \/ SweepFails(c)
    <2>1. PICK pc \in {"write", "block"} : Goto(c, pc)
      BY <1>3 DEF CheckOwners, CheckSeat, SweepWork, SweepFails
    <2>2. new = [old EXCEPT !.pc = pc] /\ \A d \in Agents \ {c} : call'[d] = call[d]
      BY <1>0, <2>1, GotoSteps
    <2>3. /\ new.pc = pc /\ new.op = old.op /\ new.row = old.row /\ new.user = old.user
      BY <1>0, <2>2 DEF CallRow
    <2>a. \A to : Goto(c, to) => new.pc = to
      BY <1>0 DEF Goto, CallsOK, CallRow
    <2>4. \/ old.pc = "owners" /\ old.op # "sweep" /\ pc = "write"
          \/ old.pc = "seat" /\ pc = "write"
          \/ old.pc = "work" /\ (pc = "block" \/ ~hasActiveWork(old.user))
          \/ old.op = "sweep" /\ pc = "block"
      <3>1. CASE CheckOwners(c)
        BY <2>a, <2>3, <3>1 DEF CheckOwners, At
      <3>2. CASE CheckSeat(c)
        BY <2>a, <2>3, <3>2 DEF CheckSeat, At
      <3>3. CASE SweepWork(c)
        BY <2>a, <2>3, <3>3 DEF SweepWork, At
      <3>4. CASE SweepFails(c)
        BY <2>a, <2>3, <3>4 DEF SweepFails, At
      <3> QED
        BY <1>3, <3>1, <3>2, <3>3, <3>4
    <2>5. Route(new)
      BY <1>0, <2>3, <2>4 DEF Route, MemberOps, TeamOps, Joins
    <2>6. \A u \in Users : Inviting(c, u)' => Inviting(c, u)
      BY <1>0, <2>3, <2>4 DEF Inviting, At, Route, Joins, Invites
    <2>7. \A u \in Users : Anonymizing(c, u)' => u \notin work
      BY <1>0, <2>3, <2>4 DEF Anonymizing, At, Route, Joins, Invites, hasActiveWork
    <2> QED
      BY <1>0, <2>2, <2>5, <2>6, <2>7
  <1>4. CASE WriteMember(c) \/ request(c) \/ cancel(c) \/ Dies(c)
    <2>1. Over(c)
      BY <1>4 DEF WriteMember, request, cancel, Dies
    <2>2. new.pc = "idle" /\ \A d \in Agents \ {c} : call'[d] = call[d]
      BY <1>0, <2>1, OverSteps DEF NoCall
    <2> QED
      BY <1>0, <2>2, NoRoute
  <1>5. CASE Block(c) \/ anonymize(c)
    <2>1. NextRow(c)
      BY <1>5 DEF Block, anonymize
    <2> QED
      BY <1>0, <2>1, NextRowSteps, NoRoute
  <1>6. CASE ReadDue(c)
    <2> DEFINE row == [NoCall EXCEPT !.op = "sweep", !.pc = "owners", !.queue = dueRequests]
    <2>1. call' = [call EXCEPT ![c] = row] /\ row.pc = "owners" /\ row.op = "sweep"
      BY <1>6 DEF ReadDue, NoCall
    <2> HIDE DEF row
    <2>2. new = row /\ \A d \in Agents \ {c} : call'[d] = call[d]
      BY <1>0, <2>1 DEF CallsOK
    <2> QED
      BY <1>0, <2>1, <2>2, NoRoute
  <1>7. ASSUME NEW u \in Users, SweepOwners(c, u)
        PROVE  Goal
    <2> DEFINE pc == IF isOwner(u) /\ ~OthersOwn(u) THEN "block" ELSE "work"
               row == [old EXCEPT !.user = u, !.pc = pc]
    <2>1. call' = [call EXCEPT ![c] = row] /\ old.op = "sweep"
      BY <1>0, <1>7 DEF SweepOwners, CallsOK
    <2>2. row.pc \in {"block", "work"} /\ row.op = "sweep"
      BY <1>0, <2>1 DEF CallRow
    <2> HIDE DEF row
    <2>3. new = row /\ \A d \in Agents \ {c} : call'[d] = call[d]
      BY <1>0, <2>1 DEF CallsOK
    <2>4. Route(new) /\ \A v \in Users : ~Inviting(c, v)' /\ ~Anonymizing(c, v)'
      BY <2>2, <2>3 DEF Route, Inviting, Anonymizing, At
    <2> QED
      BY <1>0, <2>3, <2>4
  <1> QED
    BY <1>1, <1>2, <1>3, <1>4, <1>5, <1>6, <1>7 DEF AgentStep, HandlerStep, SweepStep

LEMMA TeamSteps ==
  ASSUME [TeamNext]_teamVars
  PROVE  \/ UNCHANGED teamVars
         \/ \E c \in Agents : AgentStep(c)
         \/ \E u \in Users : World(u)
  BY DEF TeamNext, AgentStep

LEMMA RoutedInit == TeamInit => Routed
  <1> SUFFICES ASSUME TeamInit, NEW c \in Agents PROVE Route(call[c])
    BY DEF Routed
  <1>1. call[c].pc = "idle"
    BY DEF TeamInit, NoCall
  <1> QED
    BY <1>1 DEF Route

LEMMA RoutedNext == TeamTypeOK /\ Routed /\ [TeamNext]_teamVars => Routed'
  <1> SUFFICES ASSUME TeamTypeOK, Routed, [TeamNext]_teamVars PROVE Routed'
    OBVIOUS
  <1>1. ASSUME NEW c \in Agents, AgentStep(c) PROVE Routed'
    BY <1>1, AgentSteps DEF Routed
  <1>2. ASSUME call' = call PROVE Routed'
    BY <1>2 DEF Routed
  <1>3. ASSUME NEW u \in Users, World(u) PROVE call' = call
    BY <1>3 DEF World, Lapse, FallsDue, TakeWork, EndWork
  <1> QED
    BY <1>1, <1>2, <1>3, TeamSteps DEF teamVars

-----------------------------------------------------------------------------
(***************************************************************************)
(* What a deletion leaves.  An account that is gone is nobody's invitation *)
(* any more; and a sweep that is about to write found no order open, but   *)
(* for the accounts that were raced.                                       *)
(***************************************************************************)
Left == /\ DeletedIsGone
        /\ \A u \in gone \ raced, c \in Agents : ~Inviting(c, u)
        /\ \A u \in Users \ raced, c \in Agents : Anonymizing(c, u) => u \notin work

\* A write finds no row of an account that is gone.
LEMMA WritesNoneOfTheGone ==
  ASSUME TeamTypeOK, Routed, Left, NEW c \in Agents, WriteMember(c), NEW u \in gone \ raced
  PROVE  member'[u] = member[u]
  <1>0. /\ call[c].user \in Users /\ call[c].pc = "write" /\ call[c].op \in MemberOps
        /\ \A v \in Users \ {call[c].user} : member'[v] = member[v]
    BY TeamTypeParts, WriteEffect
  <1>1. u \in Users /\ member[u].status = "none" /\ ~Inviting(c, u)
    BY DEF Left, DeletedIsGone, TeamTypeOK
  <1>2. CASE call[c].user = u
    <2>1. call[c].row.found
      <3>1. call[c].op \in Invites => call[c].row.found
        BY <1>0, <1>1, <1>2 DEF Inviting, At, Invites
      <3>2. call[c].op \notin Invites => call[c].row.found
        BY <1>0 DEF Routed, Route
      <3> QED
        BY <3>1, <3>2
    <2>2. ~SameRow(c)
      BY <1>1, <1>2 DEF SameRow
    <2>3. ~Matches(c)
      BY <1>1, <1>2, <2>2 DEF Matches
    <2> QED
      BY <2>1, <2>3 DEF WriteMember
  <1> QED
    BY <1>0, <1>1, <1>2

LEMMA LeftNext == TeamTypeOK /\ Routed /\ Left /\ [TeamNext]_teamVars => Left'
  <1> SUFFICES ASSUME TeamTypeOK, Routed, Left, [TeamNext]_teamVars
               PROVE  Left'
    OBVIOUS
  <1>0. TablesOK /\ CallsOK /\ gone \subseteq Users
    BY TeamTypeParts DEF TablesOK
  <1>1. CASE UNCHANGED teamVars
    BY <1>1 DEF teamVars, Left, DeletedIsGone, Inviting, Anonymizing, At
  \* No account goes.  Of those that were raced only some are forgotten.
  <1>2. ASSUME NEW c \in Agents, AgentStep(c), gone' = gone, work' = work,
               \A u \in gone \ raced : member'[u].status = "none",
               raced' = raced \/ Escapes(c)
        PROVE  Left'
    <2>1. /\ \A d \in Agents \ {c} : call'[d] = call[d]
          /\ \A u \in gone : Inviting(c, u)' => Inviting(c, u)
          /\ \A u \in Users : Anonymizing(c, u)' => u \notin work
      BY <1>2, AgentSteps
    <2>2. gone' \ raced' \subseteq gone \ raced
      BY <1>2 DEF Escapes
    <2>3. DeletedIsGone'
      BY <1>2, <2>2 DEF Left, DeletedIsGone
    <2>4. ASSUME NEW u \in gone' \ raced', NEW d \in Agents PROVE ~Inviting(d, u)'
      BY <2>1, <2>2 DEF Left, Inviting, At
    <2>5. ASSUME NEW u \in Users \ raced', NEW d \in Agents, Anonymizing(d, u)'
          PROVE  u \notin work'
      <3>1. CASE d = c
        BY <1>2, <2>1, <2>5, <3>1
      <3>2. CASE d # c
        <4>1. Anonymizing(d, u)
          BY <2>1, <2>5, <3>2 DEF Anonymizing, At
        <4>2. u \notin raced
          BY <1>2, <3>2, <4>1 DEF Escapes
        <4> QED
          BY <1>2, <4>1, <4>2 DEF Left
      <3> QED
        BY <3>1, <3>2
    <2> QED
      BY <2>3, <2>4, <2>5 DEF Left
  <1>3. ASSUME NEW c \in Agents, WriteMember(c) PROVE Left'
    <2>1. \A u \in gone \ raced : member'[u].status = "none"
      BY <1>3, WritesNoneOfTheGone DEF Left, DeletedIsGone
    <2> QED
      BY <1>2, <1>3, <2>1 DEF WriteMember, AgentStep, HandlerStep
  <1>4. ASSUME NEW c \in Agents, AgentStep(c), ~WriteMember(c), ~anonymize(c) PROVE Left'
    <2>1. UNCHANGED <<member, gone, work>> /\ (raced' = raced \/ Escapes(c))
      <3>1. CASE Ask(c)
        BY <1>0, <3>1, AskSteps
      <3> QED
        BY <1>4, <3>1 DEF AgentStep, HandlerStep, SweepStep, ReadTarget, CheckOwners, CheckSeat,
           request, cancel, ReadDue, SweepWork, Block, SweepFails, Dies, SweepOwners, OnlyCall
    <2>2. \A u \in gone \ raced : member'[u].status = "none"
      BY <2>1 DEF Left, DeletedIsGone
    <2> QED
      BY <1>2, <1>4, <2>1, <2>2
  <1>5. ASSUME NEW c \in Agents, anonymize(c) PROVE Left'
    <2>0. call[c].user \in Users
      BY <1>0 DEF CallsOK, CallRow
    <2>1. PICK u \in Users : u = call[c].user
      BY <2>0
    <2>2. /\ gone' = gone \cup {u} /\ work' = work /\ Anonymizing(c, u)
          /\ raced' = raced \cup {v \in {u} : \E d \in Agents : Inviting(d, v)}
          /\ member' = [member EXCEPT ![u] = [NoMembership EXCEPT !.id = member[u].id]]
      BY <1>5, <2>1 DEF anonymize, Anonymizing
    <2>3. member'[u].status = "none" /\ \A v \in Users \ {u} : member'[v] = member[v]
      BY <1>0, <2>2 DEF TablesOK, NoMembership
    <2>4. /\ \A d \in Agents \ {c} : call'[d] = call[d]
          /\ \A v \in Users : ~Inviting(c, v)' /\ ~Anonymizing(c, v)'
      BY <1>0, <1>5, NextRowSteps, NoRoute DEF anonymize
    <2>5. raced \subseteq raced'
      BY <2>2
    <2>6. DeletedIsGone'
      <3> SUFFICES ASSUME NEW v \in gone' \ raced'
                   PROVE  member'[v].status = "none" /\ v \notin work'
        BY DEF DeletedIsGone
      <3>1. CASE v = u
        BY <2>2, <2>3, <2>5, <3>1 DEF Left
      <3>2. CASE v # u
        BY <1>0, <2>2, <2>3, <2>5, <3>2 DEF Left, DeletedIsGone
      <3> QED
        BY <3>1, <3>2
    <2>7. ASSUME NEW v \in gone' \ raced', NEW d \in Agents PROVE ~Inviting(d, v)'
      <3>1. CASE d = c
        BY <1>0, <2>2, <2>4, <3>1
      <3>2. CASE d # c
        <4>1. Inviting(d, v)' => Inviting(d, v)
          BY <2>4, <3>2 DEF Inviting, At
        <4>2. ~Inviting(d, v)
          BY <2>2, <2>5 DEF Left
        <4> QED
          BY <4>1, <4>2
      <3> QED
        BY <3>1, <3>2
    <2>8. ASSUME NEW v \in Users \ raced', NEW d \in Agents, Anonymizing(d, v)'
          PROVE  v \notin work'
      <3>1. d # c
        BY <2>4, <2>8
      <3>2. Anonymizing(d, v)
        BY <2>4, <2>8, <3>1 DEF Anonymizing, At
      <3> QED
        BY <2>2, <2>5, <3>2 DEF Left
    <2> QED
      BY <2>6, <2>7, <2>8 DEF Left
  <1>6. ASSUME NEW u \in Users, World(u) PROVE Left'
    <2>1. /\ call' = call /\ gone' = gone
          /\ \A v \in Users : member'[v].status = member[v].status
      BY <1>0, <1>6 DEF World, Lapse, FallsDue, TakeWork, EndWork, TablesOK, MembershipRow
    <2>2. \A v \in Users, c \in Agents :
            (Inviting(c, v)' <=> Inviting(c, v)) /\ (Anonymizing(c, v)' <=> Anonymizing(c, v))
      BY <2>1 DEF Inviting, Anonymizing, At
    <2>3. CASE TakeWork(u)
      <3>1. /\ u \notin gone /\ work' = work \cup {u}
            /\ raced' = raced \cup {v \in {u} : \E c \in Agents : Anonymizing(c, v)}
        BY <2>3 DEF TakeWork
      <3>2. DeletedIsGone'
        BY <1>0, <2>1, <3>1 DEF Left, DeletedIsGone
      <3>3. \A v \in gone' \ raced', c \in Agents : ~Inviting(c, v)'
        BY <1>0, <2>1, <2>2, <3>1 DEF Left
      <3>4. \A v \in Users \ raced', c \in Agents : Anonymizing(c, v)' => v \notin work'
        BY <2>2, <3>1 DEF Left
      <3> QED
        BY <3>2, <3>3, <3>4 DEF Left
    <2>4. CASE ~TakeWork(u)
      <3>1. raced' = raced /\ work' \subseteq work
        BY <1>6, <2>4 DEF World, Lapse, FallsDue, EndWork
      <3> QED
        BY <1>0, <2>1, <2>2, <3>1 DEF Left, DeletedIsGone
    <2> QED
      BY <2>3, <2>4
  <1> QED
    BY <1>1, <1>3, <1>4, <1>5, <1>6, TeamSteps

LEMMA LeftInit == TeamInit => Left
  <1> SUFFICES ASSUME TeamInit PROVE Left
    OBVIOUS
  <1>1. \A c \in Agents : call[c].pc = "idle"
    BY DEF TeamInit, NoCall
  <1> QED
    BY <1>1 DEF TeamInit, Left, DeletedIsGone, Anonymizing, At

(***************************************************************************)
(* An account that was anonymised holds nothing of the shop and has no     *)
(* order open ever after, unless an order or an invitation came between    *)
(* the sweep's questions and its batch, for any number of sweeps, retries  *)
(* and other handlers that overlap.                                        *)
(***************************************************************************)
THEOREM DeletedAccountsAreGone == TeamSpec => []DeletedIsGone
  <1>1. Left => DeletedIsGone
    BY DEF Left
  <1> QED
    BY <1>1, TeamTypeInit, TeamTypeNext, RoutedInit, RoutedNext, LeftInit, LeftNext, PTL
       DEF TeamSpec

-----------------------------------------------------------------------------
(***************************************************************************)
(* While handlers take turns.                                              *)
(***************************************************************************)

\* A step of one handler: what it must still know, and leave.
LEMMA OwnStep ==
  ASSUME Quiet, NEW c \in Agents, \A d \in Agents \ {c} : Idle(d) /\ call'[d] = call[d],
         Knows(c)', SomeOwner'
  PROVE  Quiet'
  <1>1. \A d \in Agents \ {c} : Idle(d)'
    BY DEF Idle, At
  <1>2. OneByOne'
    BY <1>1 DEF OneByOne
  <1>3. ASSUME NEW d \in Agents \ {c} PROVE Knows(d)'
    BY <1>1, <1>3 DEF Knows, Idle, At
  <1> QED
    BY <1>2, <1>3 DEF Quiet

\* A handler that is done, or has only its queue, relies on nothing.
LEMMA NothingToKnow ==
  ASSUME NEW c \in Agents,
         call'[c].pc = "idle" \/ (call'[c].pc = "owners" /\ call'[c].op = "sweep")
  PROVE  Knows(c)'
  BY DEF Knows

LEMMA SameTables ==
  ASSUME Quiet, UNCHANGED member
  PROVE  SomeOwner' /\ \A u \in Users : MayEnd(u) <=> MayEnd(u)'
  BY DEF Quiet, SomeOwner, MayEnd, OthersOwn, isOwner, isActive

\* A read and its question.
LEMMA QuietReads ==
  ASSUME TablesOK, CallsOK, Routed, Quiet, NEW c \in Agents, ReadTarget(c)
  PROVE  Knows(c)'
  <1> DEFINE old == call[c]
             new == call'[c]
             row == member[old.user]
  <1>1. /\ UNCHANGED member /\ old.pc = "target" /\ old.user \in Users
        /\ new.op = old.op /\ new.user = old.user /\ new.role = old.role
        /\ new.pc = CASE old.op = "inviteStaff" \/ (old.op = "accept" /\ ~row.lapsed) -> "seat"
                      [] EndsOwner(old.op, row, old.role) -> "owners"
                      [] OTHER -> "write"
    BY ReadTargetSteps DEF OnlyCall
  <1>2. old.op \in MemberOps /\ Reads(old.op, row)
    BY <1>1 DEF Routed, Route, ReadTarget
  <1>4. old.op \in Joins => row.status # "ACTIVE"
    BY <1>2 DEF Reads, Joins, Invites
  <1>5. /\ new.pc = "seat" => old.op \in Joins
        /\ new.pc = "owners" => old.op \notin Joins
        /\ new.pc \in {"seat", "owners", "write"}
    BY <1>1 DEF EndsOwner, Joins, Invites
  <1>6. new.pc = "write" /\ Ends(old.op, old.role) => ~(row.status = "ACTIVE" /\ row.role = "OWNER")
    BY <1>1 DEF EndsOwner, Ends
  <1>7. old.op # "sweep"
    BY <1>2 DEF MemberOps, TeamOps
  <1> QED
    BY <1>1, <1>4, <1>5, <1>6, <1>7 DEF Knows, MayEnd, isOwner, isActive

\* The write of a handler that knows: somebody else owns what it takes.
LEMMA QuietWrites ==
  ASSUME TablesOK, CallsOK, Quiet, NEW c \in Agents, WriteMember(c)
  PROVE  SomeOwner'
  <1>0. call[c].user \in Users
    BY WriteEffect
  <1>1. PICK u \in Users : u = call[c].user
    BY <1>0
  <1>2. /\ call[c].pc = "write" /\ call[c].op \in MemberOps
        /\ \A v \in Users \ {u} : member'[v] = member[v]
        /\ call[c].op = "setRole" /\ call[c].role = "OWNER" /\ isOwner(u)
             => member'[u].status = "ACTIVE" /\ member'[u].role = "OWNER"
    BY <1>1, WriteEffect
  <1>3. /\ call[c].op \in Joins => ~isActive(u)
        /\ Ends(call[c].op, call[c].role) => MayEnd(u)
    BY <1>1, <1>2 DEF Quiet, Knows
  <1>4. \A v \in Users \ {u} : isOwner(v) => isOwner(v)'
    BY <1>2 DEF isOwner, isActive
  <1>5. CASE isOwner(u)
    <2>1. call[c].op \notin Joins
      BY <1>3, <1>5 DEF isOwner
    <2>2. Ends(call[c].op, call[c].role) \/ (call[c].op = "setRole" /\ call[c].role = "OWNER")
      BY <1>2, <2>1 DEF MemberOps, TeamOps, Joins, Invites, Ends
    <2>3. CASE Ends(call[c].op, call[c].role)
      BY <1>3, <1>4, <1>5, <2>3 DEF MayEnd, OthersOwn, SomeOwner
    <2>4. CASE call[c].op = "setRole" /\ call[c].role = "OWNER"
      BY <1>2, <1>5, <2>4 DEF SomeOwner, isOwner, isActive
    <2> QED
      BY <2>2, <2>3, <2>4
  <1>6. CASE ~isOwner(u)
    BY <1>4, <1>6 DEF Quiet, SomeOwner
  <1> QED
    BY <1>5, <1>6

\* The sweep's last statement.
LEMMA QuietAnonymizes ==
  ASSUME TablesOK, CallsOK, Quiet, NEW c \in Agents, anonymize(c)
  PROVE  SomeOwner'
  <1>0. call[c].user \in Users
    BY DEF CallsOK, CallRow
  <1>1. PICK u \in Users : u = call[c].user
    BY <1>0
  <1>2. /\ member' = [member EXCEPT ![u] = [NoMembership EXCEPT !.id = member[u].id]]
        /\ call[c].pc = "write" /\ call[c].op = "sweep"
    BY <1>1 DEF anonymize, At
  <1>3. MayEnd(u)
    BY <1>1, <1>2 DEF Quiet, Knows
  <1>4. \A v \in Users \ {u} : isOwner(v) => isOwner(v)'
    BY <1>2 DEF isOwner, isActive, TablesOK
  <1> QED
    BY <1>3, <1>4 DEF Quiet, SomeOwner, MayEnd, OthersOwn

\* A handler between its questions.
LEMMA QuietAsks ==
  ASSUME TablesOK, CallsOK, Routed, Quiet, NEW c \in Agents,
         CheckOwners(c) \/ CheckSeat(c) \/ SweepWork(c) \/ SweepFails(c)
  PROVE  Knows(c)'
  <1> DEFINE old == call[c]
             new == call'[c]
  <1>0. PICK pc \in {"write", "block"} : Goto(c, pc) /\ UNCHANGED member
    BY DEF CheckOwners, CheckSeat, SweepWork, SweepFails, OnlyCall
  <1>1. old \in CallRow /\ new = [old EXCEPT !.pc = pc]
    BY <1>0, GotoSteps DEF CallsOK
  <1>a. old.user \in Users
    BY <1>1 DEF CallRow
  <1>b. PICK u \in Users : u = old.user
    BY <1>a
  <1>2. /\ new.pc = pc /\ new.op = old.op /\ new.role = old.role
        /\ old.user = u /\ new.user = u
    BY <1>1, <1>b DEF CallRow
  <1>3. UNCHANGED member
    BY <1>0
  <1>4. Knows(c) /\ Route(old) /\ (MayEnd(u) => MayEnd(u)') /\ (isActive(u)' => isActive(u))
    BY <1>2, <1>3 DEF Quiet, Routed, MayEnd, OthersOwn, isOwner, isActive
  <1>5. CASE CheckOwners(c)
    <2>1. /\ old.pc = "owners" /\ old.op # "sweep" /\ new.pc = "write"
          /\ OthersOwn(u) \/ old.op = "request"
      BY <1>1, <1>2, <1>5 DEF CheckOwners, At, Goto, CallsOK, CallRow
    <2>2. Ends(new.op, new.role) => MayEnd(u)
      BY <1>2, <2>1 DEF Ends, MayEnd
    <2> QED
      BY <1>2, <1>3, <1>4, <2>1, <2>2 DEF Knows, Route
  <1>6. CASE CheckSeat(c)
    <2>1. old.pc = "seat" /\ old.op \in Joins /\ new.pc = "write"
      BY <1>1, <1>4, <1>6 DEF CheckSeat, At, Goto, CallsOK, CallRow, Knows, Route
    <2>2. ~Ends(new.op, new.role) /\ new.op # "sweep"
      BY <1>2, <2>1 DEF Ends, Joins, Invites
    <2> QED
      BY <1>2, <1>3, <1>4, <2>1, <2>2 DEF Knows, Route
  <1>7. CASE SweepWork(c)
    <2>1. old.pc = "work" /\ old.op = "sweep" /\ MayEnd(u)
      BY <1>2, <1>4, <1>7 DEF SweepWork, At, Knows, Route
    <2>2. ~Ends(new.op, new.role) /\ new.op \notin MemberOps /\ new.op \notin Joins
      BY <1>2, <2>1 DEF Ends, MemberOps, TeamOps, Joins, Invites
    <2> QED
      BY <1>2, <1>3, <1>4, <2>1, <2>2 DEF Knows, Route
  <1>8. CASE SweepFails(c)
    <2>1. old.op = "sweep" /\ new.pc = "block"
      BY <1>1, <1>8 DEF SweepFails, Goto, CallsOK, CallRow
    <2> QED
      BY <1>2, <2>1 DEF Knows, Route
  <1> QED
    BY <1>5, <1>6, <1>7, <1>8

LEMMA QuietNext ==
  TeamTypeOK /\ Routed /\ Quiet /\ [TeamNext]_teamVars /\ ~overlapped' => Quiet'
  <1> SUFFICES ASSUME TeamTypeOK, Routed, Quiet, [TeamNext]_teamVars, ~overlapped'
               PROVE  Quiet'
    OBVIOUS
  <1>0. TablesOK /\ CallsOK
    BY TeamTypeParts
  <1>1. CASE UNCHANGED teamVars
    <2>1. \A c \in Agents : Knows(c)'
      BY <1>1 DEF teamVars, Quiet, Knows, MayEnd, OthersOwn, isOwner, isActive
    <2>2. OneByOne'
      BY <1>1 DEF teamVars, Quiet, OneByOne, Idle, At
    <2> QED
      BY <1>1, <2>1, <2>2, SameTables DEF teamVars, Quiet
  \* A handler begins where none was in flight.
  <1>2. ASSUME NEW c \in Agents, Ask(c) \/ ReadDue(c)
        PROVE  Quiet'
    <2>1. UNCHANGED member /\ ~Busy
      BY <1>0, <1>2, AskSteps DEF ReadDue
    <2>2. CASE Ask(c)
      <3>1. \A d \in Agents \ {c} : Idle(d) /\ call'[d] = call[d]
        BY <1>0, <2>1, <2>2, AskSteps DEF Busy
      <3>2. Knows(c)'
        BY <1>0, <2>2, AskSteps
           DEF Knows, Joins, Invites, Ends
      <3> QED
        BY <2>1, <3>1, <3>2, OwnStep, SameTables
    <2>3. CASE ReadDue(c)
      <3> DEFINE row == [NoCall EXCEPT !.op = "sweep", !.pc = "owners", !.queue = dueRequests]
      <3>1. call' = [call EXCEPT ![c] = row] /\ row.pc = "owners" /\ row.op = "sweep"
        BY <2>3 DEF ReadDue, NoCall
      <3> HIDE DEF row
      <3>2. \A d \in Agents \ {c} : Idle(d) /\ call'[d] = call[d]
        BY <1>0, <2>1, <3>1 DEF Busy, CallsOK
      <3>3. Knows(c)'
        BY <1>0, <3>1, NothingToKnow DEF CallsOK
      <3> QED
        BY <2>1, <3>2, <3>3, OwnStep, SameTables
    <2> QED
      BY <1>2, <2>2, <2>3
  \* It goes on alone.
  <1>3. ASSUME NEW c \in Agents, HandlerStep(c) \/ SweepStep(c) \/ SweepFails(c) \/ Dies(c)
        PROVE  Quiet'
    <2>1. ~Idle(c)
      BY <1>3 DEF HandlerStep, SweepStep, ReadTarget, CheckOwners, CheckSeat, WriteMember,
         request, cancel, SweepOwners, SweepWork, Block, anonymize, SweepFails, Dies, Idle, At
    <2>2. \A d \in Agents \ {c} : Idle(d)
      BY <2>1 DEF Quiet, OneByOne
    <2>3. CASE ReadTarget(c)
      <3>1. \A d \in Agents \ {c} : call'[d] = call[d]
        BY <1>0, <2>3, ReadTargetSteps
      <3>2. UNCHANGED member
        BY <2>3 DEF ReadTarget, OnlyCall
      <3> QED
        BY <1>0, <2>2, <2>3, <3>1, <3>2, QuietReads, OwnStep, SameTables
    <2>4. CASE CheckOwners(c) \/ CheckSeat(c) \/ SweepWork(c) \/ SweepFails(c)
      <3>1. (Goto(c, "write") \/ Goto(c, "block")) /\ UNCHANGED member
        BY <2>4 DEF CheckOwners, CheckSeat, SweepWork, SweepFails, OnlyCall
      <3>2. \A d \in Agents \ {c} : call'[d] = call[d]
        BY <1>0, <3>1, GotoSteps
      <3>3. UNCHANGED member
        BY <3>1 DEF OnlyCall
      <3> QED
        BY <1>0, <2>2, <2>4, <3>2, <3>3, QuietAsks, OwnStep, SameTables
    <2>5. CASE WriteMember(c) \/ request(c) \/ cancel(c) \/ Dies(c)
      <3>1. Over(c)
        BY <2>5 DEF WriteMember, request, cancel, Dies
      <3>2. call'[c].pc = "idle" /\ \A d \in Agents \ {c} : call'[d] = call[d]
        BY <1>0, <3>1, OverSteps DEF NoCall
      <3>3. SomeOwner'
        <4>1. CASE WriteMember(c)
          BY <1>0, <4>1, QuietWrites
        <4>2. CASE request(c) \/ cancel(c) \/ Dies(c)
          BY <4>2, SameTables DEF request, cancel, Dies, OnlyCall
        <4> QED
          BY <2>5, <4>1, <4>2
      <3> QED
        BY <2>2, <3>2, <3>3, NothingToKnow, OwnStep
    <2>6. ASSUME NEW u \in Users, SweepOwners(c, u)
          PROVE  Quiet'
      <3> DEFINE pc == IF isOwner(u) /\ ~OthersOwn(u) THEN "block" ELSE "work"
                 row == [call[c] EXCEPT !.user = u, !.pc = pc]
      <3>1. call' = [call EXCEPT ![c] = row] /\ call[c].op = "sweep" /\ OnlyCall
        BY <1>0, <2>6 DEF SweepOwners, CallsOK
      <3>2. row.pc = pc /\ row.user = u /\ row.op = "sweep"
        BY <1>0, <3>1 DEF CallsOK, CallRow
      <3>3. (pc = "block" \/ (pc = "work" /\ MayEnd(u)))
        BY DEF MayEnd
      <3> HIDE DEF row, pc
      <3>4. call'[c] = row /\ \A d \in Agents \ {c} : call'[d] = call[d]
        BY <1>0, <3>1 DEF CallsOK
      <3>5. UNCHANGED member
        BY <3>1 DEF OnlyCall
      <3>6. MayEnd(u) => MayEnd(u)'
        BY <3>5, SameTables
      <3>7. Knows(c)'
        <4>1. call'[c].user = u /\ call'[c].op = "sweep" /\ call'[c].pc = pc
          BY <3>2, <3>4
        <4> QED
          BY <3>3, <3>6, <4>1 DEF Knows, Route, MayEnd, OthersOwn, isOwner, isActive
      <3> QED
        BY <2>2, <3>4, <3>5, <3>7, OwnStep, SameTables
    <2>7. CASE Block(c) \/ anonymize(c)
      <3>1. NextRow(c)
        BY <2>7 DEF Block, anonymize
      <3>2. Knows(c)' /\ \A d \in Agents \ {c} : call'[d] = call[d]
        BY <1>0, <3>1, NextRowSteps, NothingToKnow
      <3>3. SomeOwner'
        BY <1>0, <2>7, QuietAnonymizes, SameTables DEF Block
      <3> QED
        BY <2>2, <3>2, <3>3, OwnStep
    <2> QED
      BY <1>3, <2>3, <2>4, <2>5, <2>6, <2>7 DEF HandlerStep, SweepStep
  \* The world around.
  <1>4. ASSUME NEW u \in Users, World(u)
        PROVE  Quiet'
    <2>0. call' = call
      BY <1>4 DEF World, Lapse, FallsDue, TakeWork, EndWork
    <2>1. OneByOne'
      BY <2>0 DEF Quiet, OneByOne, Idle, At
    <2>2. \A v \in Users : member'[v].status = member[v].status /\ member'[v].role = member[v].role
      BY <1>0, <1>4 DEF World, Lapse, FallsDue, TakeWork, EndWork, TablesOK, MembershipRow
    <2>3. \A v \in Users : (isOwner(v) <=> isOwner(v)') /\ (isActive(v) <=> isActive(v)')
      BY <2>2 DEF isOwner, isActive
    <2>4. SomeOwner' /\ \A v \in Users : MayEnd(v) <=> MayEnd(v)'
      BY <2>3 DEF Quiet, SomeOwner, MayEnd, OthersOwn
    <2>5. ASSUME NEW c \in Agents PROVE Knows(c)'
      <3>1. call[c].user \in Users
        BY <1>0 DEF CallsOK, CallRow
      <3>2. PICK v \in Users : v = call[c].user
        BY <3>1
      <3>3. call'[c] = call[c] /\ Knows(c)
        BY <2>0 DEF Quiet
      <3> QED
        BY <2>3, <2>4, <3>2, <3>3 DEF Knows, MayEnd, OthersOwn, isOwner, isActive
    <2> QED
      BY <2>1, <2>4, <2>5 DEF Quiet
  <1> QED
    BY <1>1, <1>2, <1>3, <1>4 DEF TeamNext

LEMMA TeamInvInit == TeamInit => TeamInv
  <1> SUFFICES ASSUME TeamInit PROVE Quiet
    BY TeamTypeInit, RoutedInit DEF TeamInv
  <1>1. \A c \in Agents : call[c].pc = "idle"
    BY DEF TeamInit, NoCall
  <1>2. OneByOne /\ \A c \in Agents : Knows(c)
    BY <1>1 DEF OneByOne, Idle, At, Knows
  <1>3. isOwner(Founder)
    BY TeamAssumption DEF TeamInit, isOwner, isActive
  <1> QED
    BY <1>2, <1>3, TeamAssumption DEF TeamInit, Quiet, SomeOwner

LEMMA TeamInvNext == TeamInv /\ [TeamNext]_teamVars => TeamInv'
  <1> SUFFICES ASSUME TeamInv, [TeamNext]_teamVars, ~overlapped'
               PROVE  Quiet'
    BY TeamTypeNext, RoutedNext DEF TeamInv
  <1>1. ~overlapped
    <2>1. ASSUME NEW c \in Agents, Ask(c) PROVE ~overlapped
      BY <2>1, AskSteps, TeamTypeParts DEF TeamInv
    <2> QED
      BY <2>1 DEF TeamNext, teamVars, HandlerStep, SweepStep, World, ReadTarget, CheckOwners,
         CheckSeat, WriteMember, request, cancel, ReadDue, SweepOwners, SweepWork, Block,
         anonymize, SweepFails, Dies, OnlyCall, Lapse, FallsDue, TakeWork, EndWork
  <1> QED
    BY <1>1, QuietNext DEF TeamInv

(***************************************************************************)
(* As long as no two handlers overlap the shop keeps an owner, for any     *)
(* number of users, invitations, endings and deletions.                    *)
(***************************************************************************)
THEOREM ShopsKeepAnOwner == TeamSpec => []OwnerRemains
  <1>1. TeamInv => OwnerRemains
    BY DEF TeamInv, Quiet, SomeOwner, OwnerRemains
  <1> QED
    BY <1>1, TeamInvInit, TeamInvNext, PTL DEF TeamSpec

-----------------------------------------------------------------------------
(***************************************************************************)
(* Seats.  The bound counts the members and the seats promised; it is      *)
(* inductive once every way to a write is known to pass the question.      *)
(***************************************************************************)
SeatInv == /\ IsFiniteSet(employees)
           /\ SeatsAreBounded

LEMMA AdmittedArePromised == admitted = {c \in Agents : Promised(call[c])}
  BY DEF admitted, Promised, At

\* Only one handler moved, and it holds no promise.
LEMMA NoNewPromise ==
  ASSUME NEW c \in Agents, \A d \in Agents \ {c} : call'[d] = call[d], ~Promised(call'[c])
  PROVE  admitted' \subseteq admitted \ {c}
  BY AdmittedArePromised DEF admitted, Promised, At

\* What a step does to the members and to the promises.
Eases == employees' \subseteq employees /\ admitted' \subseteq admitted
Promises(c) ==
  /\ employees' = employees /\ checkCount(Cardinality(employees))
  /\ ~Idle(c) /\ c \notin admitted /\ admitted' \subseteq admitted \cup {c}
TakesSeat(u, c) ==
  /\ c \in admitted
  /\ employees' \subseteq employees \cup {u} /\ admitted' \subseteq admitted \ {c}

LEMMA SeatSteps ==
  ASSUME TeamTypeOK, Routed, [TeamNext]_teamVars
  PROVE  /\ overlapped => overlapped'
         /\ \/ Eases
            \/ \E c \in Agents : Promises(c) /\ overlapped' = overlapped
            \/ \E u \in Users, c \in Agents : TakesSeat(u, c)
  <1>0. TablesOK /\ CallsOK
    BY TeamTypeParts
  <1>1. ASSUME member' = member PROVE employees' = employees
    BY <1>1 DEF employees, isActive
  <1>2. ASSUME NEW c \in Agents, AgentStep(c), ~Promised(call'[c])
        PROVE  admitted' \subseteq admitted \ {c}
    BY <1>2, AgentSteps, NoNewPromise
  <1>3. CASE UNCHANGED teamVars
    BY <1>1, <1>3 DEF teamVars, Eases, admitted, At
  <1>4. ASSUME NEW c \in Agents, Ask(c)
        PROVE  Eases /\ (overlapped => overlapped')
    <2>1. ~Promised(call'[c])
      BY <1>0, <1>4, AskSteps DEF Promised
    <2> QED
      BY <1>0, <1>1, <1>2, <1>4, <2>1, AskSteps DEF Eases, AgentStep
  <1>5. ASSUME NEW c \in Agents, ReadTarget(c)
        PROVE  Eases /\ overlapped' = overlapped
    <2>1. ~Promised(call'[c])
      BY <1>0, <1>5, ReadTargetSteps DEF Promised, EndsOwner
    <2> QED
      BY <1>1, <1>2, <1>5, <2>1 DEF Eases, ReadTarget, OnlyCall, AgentStep, HandlerStep
  <1>6. ASSUME NEW c \in Agents, CheckOwners(c) \/ SweepWork(c) \/ SweepFails(c)
        PROVE  Eases /\ overlapped' = overlapped
    <2>1. PICK pc \in {"write", "block"} : Goto(c, pc)
      BY <1>6 DEF CheckOwners, SweepWork, SweepFails
    <2>2. call[c].op \notin {"inviteStaff", "accept"}
      BY <1>6 DEF CheckOwners, SweepWork, SweepFails, At, Routed, Route, Joins, Invites
    <2>3. call[c] \in CallRow /\ call'[c] = [call[c] EXCEPT !.pc = pc]
      BY <1>0, <2>1, GotoSteps DEF CallsOK
    <2>4. ~Promised(call'[c])
      BY <2>2, <2>3 DEF Promised, CallRow
    <2>5. member' = member /\ overlapped' = overlapped
      BY <1>6 DEF CheckOwners, SweepWork, SweepFails, OnlyCall
    <2> QED
      BY <1>1, <1>2, <1>6, <2>4, <2>5 DEF Eases, AgentStep, HandlerStep, SweepStep
  <1>7. ASSUME NEW c \in Agents, CheckSeat(c)
        PROVE  Promises(c) /\ overlapped' = overlapped
    <2>1. Goto(c, "write") /\ OnlyCall /\ At(c, "seat") /\ checkCount(Cardinality(employees))
      BY <1>7 DEF CheckSeat
    <2>2. ~Idle(c) /\ c \notin admitted
      BY <2>1 DEF Idle, At, admitted
    <2>3. \A d \in Agents \ {c} : call'[d] = call[d]
      BY <1>0, <2>1, GotoSteps
    <2>4. admitted' \subseteq admitted \cup {c}
      BY <2>3 DEF admitted, At
    <2> QED
      BY <1>1, <2>1, <2>2, <2>4 DEF Promises, OnlyCall
  <1>8. ASSUME NEW c \in Agents, Over(c), AgentStep(c)
        PROVE  admitted' \subseteq admitted \ {c}
    <2>1. ~Promised(call'[c])
      BY <1>0, <1>8, OverSteps DEF NoCall, Promised
    <2> QED
      BY <1>2, <1>8, <2>1
  <1>9. ASSUME NEW c \in Agents, WriteMember(c)
        PROVE  overlapped' = overlapped /\ (Eases \/ \E u \in Users : TakesSeat(u, c))
    <2>1. Over(c) /\ overlapped' = overlapped /\ AgentStep(c)
      BY <1>9 DEF WriteMember, AgentStep, HandlerStep
    <2>2. PICK u \in Users : u = call[c].user
      BY <1>0, <1>9, WriteEffect
    <2>3. employees' \subseteq employees \cup {u}
      BY <1>0, <1>9, <2>2, WriteEffect DEF employees, isActive
    <2>4. CASE u \in employees' /\ u \notin employees
      <3>1. c \in admitted
        BY <1>0, <1>9, <2>2, <2>4, WriteEffect, AdmittedArePromised DEF employees, isActive
      <3> QED
        BY <1>8, <2>1, <2>3, <3>1 DEF TakesSeat
    <2>5. CASE ~(u \in employees' /\ u \notin employees)
      BY <1>8, <2>1, <2>3, <2>5 DEF Eases
    <2> QED
      BY <2>1, <2>4, <2>5
  <1>10. ASSUME NEW c \in Agents, request(c) \/ cancel(c) \/ Dies(c)
         PROVE  Eases /\ overlapped' = overlapped
    BY <1>1, <1>8, <1>10 DEF request, cancel, Dies, Eases, AgentStep, HandlerStep
  <1>11. ASSUME NEW c \in Agents, ReadDue(c)
         PROVE  Eases /\ (overlapped => overlapped')
    <2> DEFINE row == [NoCall EXCEPT !.op = "sweep", !.pc = "owners", !.queue = dueRequests]
    <2>1. call' = [call EXCEPT ![c] = row] /\ row.pc = "owners"
      BY <1>11 DEF ReadDue, NoCall
    <2> HIDE DEF row
    <2>2. ~Promised(call'[c])
      BY <1>0, <2>1 DEF CallsOK, Promised
    <2> QED
      BY <1>1, <1>2, <1>11, <2>2 DEF Eases, ReadDue, AgentStep
  <1>12. ASSUME NEW c \in Agents, NEW u \in Users, SweepOwners(c, u)
         PROVE  Eases /\ overlapped' = overlapped
    <2> DEFINE pc == IF isOwner(u) /\ ~OthersOwn(u) THEN "block" ELSE "work"
               row == [call[c] EXCEPT !.user = u, !.pc = pc]
    <2>1. call' = [call EXCEPT ![c] = row] /\ OnlyCall
      BY <1>0, <1>12 DEF SweepOwners, CallsOK
    <2>2. row.pc # "write"
      BY <1>0 DEF CallsOK, CallRow
    <2> HIDE DEF row
    <2>3. ~Promised(call'[c])
      BY <1>0, <2>1, <2>2 DEF CallsOK, Promised
    <2> QED
      BY <1>1, <1>2, <1>12, <2>1, <2>3 DEF Eases, OnlyCall, AgentStep, SweepStep
  <1>13. ASSUME NEW c \in Agents, Block(c) \/ anonymize(c)
         PROVE  Eases /\ overlapped' = overlapped
    <2>1. NextRow(c) /\ overlapped' = overlapped /\ AgentStep(c)
      BY <1>13 DEF Block, anonymize, AgentStep, SweepStep
    <2>2. ~Promised(call'[c])
      BY <1>0, <2>1, NextRowSteps DEF Promised
    <2>3. employees' \subseteq employees
      BY <1>0, <1>13 DEF Block, anonymize, employees, isActive, TablesOK, NoMembership
    <2> QED
      BY <1>2, <2>1, <2>2, <2>3 DEF Eases
  <1>14. ASSUME NEW u \in Users, World(u)
         PROVE  Eases /\ overlapped' = overlapped
    <2>1. call' = call /\ overlapped' = overlapped
      BY <1>14 DEF World, Lapse, FallsDue, TakeWork, EndWork
    <2>2. employees' \subseteq employees
      BY <1>0, <1>14 DEF World, Lapse, FallsDue, TakeWork, EndWork, employees, isActive,
         TablesOK, MembershipRow
    <2> QED
      BY <2>1, <2>2 DEF Eases, admitted, At
  <1> QED
    BY <1>3, <1>4, <1>5, <1>6, <1>7, <1>9, <1>10, <1>11, <1>12, <1>13, <1>14
       DEF TeamNext, HandlerStep, SweepStep, teamVars

\* A set that is part of a finite one.
LEMMA PartOf ==
  ASSUME NEW S, IsFiniteSet(S), NEW T, T \subseteq S
  PROVE  /\ IsFiniteSet(T) /\ Cardinality(T) \in Nat /\ Cardinality(S) \in Nat
         /\ Cardinality(T) <= Cardinality(S)
  BY FS_Subset, FS_CardinalityType

LEMMA SeatInvInit == TeamInit => SeatInv
  <1> SUFFICES ASSUME TeamInit PROVE SeatInv
    OBVIOUS
  <1>1. employees = {Founder}
    BY TeamAssumption DEF TeamInit, employees, isActive, NoMembership
  <1>2. \A c \in Agents : call[c].pc = "idle"
    BY DEF TeamInit, NoCall
  <1>3. admitted = {}
    BY <1>2 DEF admitted, At
  <1>4. IsFiniteSet(employees) /\ Cardinality(employees) = 1 /\ Cardinality(admitted) = 0
    BY <1>1, <1>3, FS_Singleton, FS_EmptySet
  <1> QED
    BY <1>3, <1>4, TeamAssumption DEF SeatInv, SeatsAreBounded, TeamInit

LEMMA SeatInvNext == TeamInv /\ SeatInv /\ [TeamNext]_teamVars => SeatInv'
  <1> SUFFICES ASSUME TeamInv, SeatInv, [TeamNext]_teamVars PROVE SeatInv'
    OBVIOUS
  <1> DEFINE e == Cardinality(employees)
             a == Cardinality(admitted)
             e2 == Cardinality(employees')
             a2 == Cardinality(admitted')
             n == Cardinality(Agents)
             Bound(o) == Seats + (IF o THEN n - 1 ELSE 0)
  <1>1. IsFiniteSet(Agents) /\ n \in Nat /\ n >= 1 /\ Seats \in Nat
    BY TeamAssumption, FS_CardinalityType, FS_EmptySet
  <1>2. admitted \subseteq Agents /\ admitted' \subseteq Agents
    BY DEF admitted
  <1>3. IsFiniteSet(admitted) /\ a \in Nat /\ a2 \in Nat /\ a2 <= n
    BY <1>1, <1>2, PartOf
  <1>4. IsFiniteSet(employees) /\ e \in Nat /\ e + a <= Bound(overlapped)
    BY FS_CardinalityType DEF SeatInv, SeatsAreBounded
  <1>5. TeamTypeOK /\ Routed
    BY DEF TeamInv
  <1>6. overlapped => overlapped'
    BY <1>5, SeatSteps
  <1>7. overlapped \in BOOLEAN /\ overlapped' \in BOOLEAN
    BY <1>5, TeamTypeNext DEF TeamTypeOK
  <1>8. SUFFICES IsFiniteSet(employees') /\ e2 + a2 <= Bound(overlapped')
    BY DEF SeatInv, SeatsAreBounded
  <1>9. ASSUME IsFiniteSet(employees'), e2 \in Nat, e2 + a2 <= e + a
        PROVE  e2 + a2 <= Bound(overlapped')
    BY <1>1, <1>3, <1>4, <1>6, <1>7, <1>9
  <1>10. CASE Eases
    <2>1. IsFiniteSet(employees') /\ e2 \in Nat /\ e2 <= e
      BY <1>4, <1>10, PartOf DEF Eases
    <2>2. a2 <= a
      BY <1>3, <1>10, PartOf DEF Eases
    <2> QED
      BY <1>3, <1>4, <1>9, <2>1, <2>2
  <1>11. ASSUME NEW c \in Agents, Promises(c), overlapped' = overlapped
         PROVE  IsFiniteSet(employees') /\ e2 + a2 <= Bound(overlapped')
    <2>1. e2 = e /\ e < Seats /\ IsFiniteSet(employees')
      BY <1>4, <1>11 DEF Promises, checkCount
    <2>2. CASE overlapped
      BY <1>1, <1>3, <1>4, <1>11, <2>1, <2>2
    <2>3. CASE ~overlapped
      <3>1. admitted \subseteq {c}
        BY <1>11, <2>3 DEF TeamInv, Quiet, OneByOne, Promises, admitted, Idle, At
      <3>2. admitted' \subseteq {c}
        BY <1>11, <3>1 DEF Promises
      <3>3. a2 <= 1
        <4>1. IsFiniteSet({c}) /\ Cardinality({c}) = 1
          BY FS_Singleton
        <4> QED
          BY <3>2, <4>1, PartOf
      <3> QED
        BY <1>1, <1>3, <1>4, <1>11, <2>1, <2>3, <3>3
    <2> QED
      BY <2>2, <2>3
  <1>12. ASSUME NEW u \in Users, NEW c \in Agents, TakesSeat(u, c)
         PROVE  IsFiniteSet(employees') /\ e2 + a2 <= Bound(overlapped')
    <2>1. IsFiniteSet(employees \cup {u}) /\ Cardinality(employees \cup {u}) <= e + 1
      BY <1>4, FS_AddElement
    <2>2. IsFiniteSet(employees') /\ e2 \in Nat /\ e2 <= e + 1
      BY <1>4, <1>12, <2>1, PartOf DEF TakesSeat
    <2>3. IsFiniteSet(admitted \ {c}) /\ Cardinality(admitted \ {c}) = a - 1
      BY <1>3, <1>12, FS_RemoveElement DEF TakesSeat
    <2>4. a2 <= a - 1
      BY <1>12, <2>3, PartOf DEF TakesSeat
    <2> QED
      BY <1>3, <1>4, <1>9, <2>2, <2>4
  <1> QED
    BY <1>5, <1>10, <1>11, <1>12, SeatSteps

(***************************************************************************)
(* The shop holds no more people than its plan has seats while handlers    *)
(* take turns, and at most one more for each further handler when they do  *)
(* not, for any plan and any number of people and handlers.                *)
(***************************************************************************)
THEOREM SeatsStayBounded == TeamSpec => []SeatsAreBounded
  <1>1. SeatInv => SeatsAreBounded
    BY DEF SeatInv
  <1> QED
    BY <1>1, TeamInvInit, TeamInvNext, SeatInvInit, SeatInvNext, PTL DEF TeamSpec

=============================================================================
