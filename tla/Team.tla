--------------------------------- MODULE Team ---------------------------------
(***************************************************************************)
(* The team of one business and the accounts behind it: the invitations    *)
(* and endings of affiliations.ts, inviteStaff, updateStaffRole and        *)
(* removeStaff of businesses.ts, and the delayed deletion of an account.   *)
(*                                                                         *)
(* Every handler reads a row, asks a question about the others (is there   *)
(* another owner, is there a seat, is there an order to finish) and writes *)
(* in a later statement; some writes restate what the read found in their  *)
(* WHERE, some go by the row's id alone.  D1 offers no transaction around  *)
(* the pair.                                                               *)
(*                                                                         *)
(* STAFF is left out (it may do less than MANAGER), and so are couriers,   *)
(* who hold no seat; so are link tokens, reasons and notifications.  The   *)
(* audit row rides in the batch of the write.                              *)
(***************************************************************************)
EXTENDS Naturals, FiniteSets

CONSTANTS Users,
          Founder,     \* who created the business
          Leavers,     \* who may ask for the deletion of their account
          Agents,      \* handlers in flight
          Seats,       \* staffAccounts of the shop's plan
          MaxRows      \* bound: membership rows ever inserted, per user

ASSUME TeamAssumption == /\ Founder \in Users
                         /\ Leavers \subseteq Users
                         /\ IsFiniteSet(Agents) /\ Agents # {}
                         /\ Seats \in Nat \ {0}
                         /\ MaxRows \in [Users -> Nat \ {0}]

VARIABLES member,      \* the membership of each user
          deletion,    \* account_deletion_request of each user
          gone,        \* accounts that were anonymised
          work,        \* leavers with an order that is not over
          call,        \* the handlers in flight
          overlapped,  \* history: two handlers overlapped
          raced        \* history: accounts that something came to as they were anonymised

teamVars == <<member, deletion, gone, work, call, overlapped, raced>>

-----------------------------------------------------------------------------
Roles == {"OWNER", "MANAGER"}
AffiliationStatuses == {"PENDING_USER_ACCEPTANCE", "ACTIVE", "REVOKED", "EXPIRED"}

\* id counts the rows of the pair; lapsed is expiresAt against the clock.
MembershipRow == [id : Nat, status : AffiliationStatuses \cup {"none"},
                  role : Roles, lapsed : BOOLEAN]
NoMembership == [id |-> 0, status |-> "none", role |-> "MANAGER", lapsed |-> FALSE]

\* due is scheduledFor against the clock.
DeletionRow == [status : {"none", "SCHEDULED", "BLOCKED", "COMPLETED"}, due : BOOLEAN]
NoDeletion == [status |-> "none", due |-> FALSE]

TeamOps == {"inviteStaff", "inviteAffiliate", "revoke", "setRole", "remove"}
OwnOps == {"accept", "decline", "leave", "request", "cancel"}

\* What a handler keeps of the row it read: which row, if there was one, and
\* whether it was an invitation that had lapsed.
SeenRow == [id : Nat, found : BOOLEAN, lapsed : BOOLEAN]
NotSeen == [id |-> 0, found |-> FALSE, lapsed |-> FALSE]

CallRow == [op : TeamOps \cup OwnOps \cup {"none", "sweep"},
            pc : {"idle", "target", "owners", "seat", "work", "block", "write"},
            user : Users, role : Roles, row : SeenRow, queue : SUBSET Users]
NoCall == [op |-> "none", pc |-> "idle", user |-> Founder, role |-> "MANAGER",
           row |-> NotSeen, queue |-> {}]

TeamInit ==
  /\ member = [u \in Users |->
       IF u = Founder
       THEN [id |-> 1, status |-> "ACTIVE", role |-> "OWNER", lapsed |-> FALSE]
       ELSE NoMembership]
  /\ deletion = [u \in Users |-> NoDeletion]
  /\ gone = {}
  /\ work = {}
  /\ call = [c \in Agents |-> NoCall]
  /\ overlapped = FALSE
  /\ raced = {}

-----------------------------------------------------------------------------
isActive(u) == member[u].status = "ACTIVE"
isOwner(u) == isActive(u) /\ member[u].role = "OWNER"
employees == {u \in Users : isActive(u)}

\* assertNotLastOwner: somebody else can administer the shop.
OthersOwn(u) == \E v \in Users \ {u} : isOwner(v)

At(c, pc) == call[c].pc = pc
Idle(c) == At(c, "idle")
Busy == \E c \in Agents : ~Idle(c)

Goto(c, pc) == call' = [call EXCEPT ![c].pc = pc]
Over(c) == call' = [call EXCEPT ![c] = NoCall]
OnlyCall == UNCHANGED <<member, deletion, gone, work, overlapped, raced>>

Begin(c, op, u, role, pc) ==
  /\ Idle(c)
  /\ call' = [call EXCEPT ![c] = [NoCall EXCEPT !.op = op, !.pc = pc, !.user = u,
                                                !.role = role]]
  /\ overlapped' = (overlapped \/ Busy)
  /\ UNCHANGED <<member, deletion, gone, work, raced>>

\* staff:manage, and an owner for what assertRole asks one for.
AskTeam(c, v, op, u, role) ==
  /\ isActive(v)
  /\ op \in {"revoke", "setRole", "remove"} \/ role = "OWNER" => member[v].role = "OWNER"
  /\ op \in {"revoke", "remove"} => role = "MANAGER"
  /\ Begin(c, op, u, role, "target")

\* A person about their own row: a session is all it takes.
AskOwn(c, op, u) ==
  /\ u \notin gone
  /\ op \in {"request", "cancel"} => u \in Leavers
  /\ Begin(c, op, u, "MANAGER",
           CASE op = "request" -> "owners"
             [] op = "cancel" -> "write"
             [] OTHER -> "target")

-----------------------------------------------------------------------------
(* What each handler makes of the row it reads.                            *)

\* Mutant: a demotion does not ask.
EndsOwnerButDemoted(op, row, role) ==
  row.status = "ACTIVE" /\ row.role = "OWNER" /\ op \in {"leave", "revoke", "remove"}

\* Whom the question is about, by the row as it was read.
EndsOwner(op, row, role) ==
  /\ row.status = "ACTIVE" /\ row.role = "OWNER"
  /\ op \in {"leave", "revoke", "remove"} \/ (op = "setRole" /\ role # "OWNER")

\* The rows a handler answers NOT_FOUND or a conflict for are not among these.
Reads(op, row) ==
  CASE op \in {"inviteStaff", "inviteAffiliate"} -> row.status # "ACTIVE"
    [] op \in {"accept", "decline"} -> row.status = "PENDING_USER_ACCEPTANCE"
    [] op = "revoke" -> row.status \in {"ACTIVE", "PENDING_USER_ACCEPTANCE"}
    [] op \in {"leave", "setRole", "remove"} -> row.status = "ACTIVE"

ReadTarget(c) ==
  LET op == call[c].op
      row == member[call[c].user]
  IN  /\ At(c, "target")
      /\ Reads(op, row)
      /\ op \in {"inviteStaff", "inviteAffiliate"} => call[c].user \notin gone
      /\ call' = [call EXCEPT
           ![c].row = [id |-> row.id, found |-> row.status # "none", lapsed |-> row.lapsed],
           ![c].pc = CASE op = "inviteStaff" \/ (op = "accept" /\ ~row.lapsed) -> "seat"
                       [] EndsOwner(op, row, call[c].role) -> "owners"
                       [] OTHER -> "write"]
      /\ OnlyCall

CheckOwners(c) ==
  LET u == call[c].user
  IN  /\ At(c, "owners") /\ call[c].op # "sweep"
      /\ OthersOwn(u) \/ (call[c].op = "request" /\ ~isOwner(u))
      /\ Goto(c, "write")
      /\ OnlyCall

checkCount(used) == used < Seats

CheckSeat(c) == /\ At(c, "seat")
                /\ checkCount(Cardinality(employees))
                /\ Goto(c, "write")
                /\ OnlyCall

-----------------------------------------------------------------------------
(* The writes.                                                             *)

\* The row read is still the row of the pair.
SameRow(c) == /\ call[c].row.found
              /\ member[call[c].user].id = call[c].row.id
              /\ member[call[c].user].status # "none"

\* Mutant: by id, the status is not restated.
MatchesById(c) == SameRow(c) \/ call[c].op = "setRole"

\* What each UPDATE or DELETE asks of the row besides its id.
Matches(c) ==
  LET now == member[call[c].user].status
      op == call[c].op
  IN  CASE op = "inviteStaff" -> SameRow(c) /\ now # "ACTIVE"
        [] op = "accept" /\ call[c].row.lapsed -> SameRow(c)
        [] op = "decline" \/ (op = "accept" /\ ~call[c].row.lapsed) ->
             SameRow(c) /\ now = "PENDING_USER_ACCEPTANCE"
        [] op = "leave" -> SameRow(c) /\ now = "ACTIVE"
        [] op = "revoke" -> SameRow(c) /\ now \in {"ACTIVE", "PENDING_USER_ACCEPTANCE"}
        [] op = "setRole" -> now = "ACTIVE"
        [] OTHER -> SameRow(c)

\* One terminal status, and the clock's.
ending(op, lapsed) == IF op = "revoke" /\ lapsed THEN "EXPIRED" ELSE "REVOKED"

\* The row as its handler leaves it; id is set where it is inserted.
Written(c) ==
  LET u == call[c].user
      op == call[c].op
      status(s) == [member[u] EXCEPT !.status = s, !.lapsed = FALSE]
  IN  CASE op = "inviteStaff" ->
             [status("ACTIVE") EXCEPT !.role = call[c].role]
        [] op = "inviteAffiliate" ->
             [status("PENDING_USER_ACCEPTANCE") EXCEPT !.role = call[c].role]
        [] op = "accept" /\ call[c].row.lapsed -> status("EXPIRED")
        [] op = "accept" /\ ~call[c].row.lapsed -> status("ACTIVE")
        [] op \in {"decline", "leave", "revoke"} -> status(ending(op, call[c].row.lapsed))
        [] op = "setRole" -> [member[u] EXCEPT !.role = call[c].role]
        [] op = "remove" -> [NoMembership EXCEPT !.id = member[u].id]

\* An insert meets the unique index when somebody invited the user meanwhile.
WriteMember(c) ==
  LET u == call[c].user
      inserts == ~call[c].row.found
  IN  /\ At(c, "write")
      /\ call[c].op \in TeamOps \cup {"accept", "decline", "leave"}
      /\ inserts => member[u].id < MaxRows[u]
      /\ member' =
           IF inserts /\ member[u].status = "none"
           THEN [member EXCEPT ![u] = [Written(c) EXCEPT !.id = @ + 1]]
           ELSE IF ~inserts /\ Matches(c)
           THEN [member EXCEPT ![u] = Written(c)]
           ELSE member
      /\ Over(c)
      /\ UNCHANGED <<deletion, gone, work, overlapped, raced>>

-----------------------------------------------------------------------------
(* The deletion of an account.                                             *)

request(c) ==
  /\ At(c, "write") /\ call[c].op = "request"
  /\ deletion' = [deletion EXCEPT ![call[c].user] = [status |-> "SCHEDULED", due |-> FALSE]]
  /\ Over(c)
  /\ UNCHANGED <<member, gone, work, overlapped, raced>>

cancel(c) ==
  LET u == call[c].user
  IN  /\ At(c, "write") /\ call[c].op = "cancel"
      /\ deletion' = IF deletion[u].status \in {"SCHEDULED", "BLOCKED"}
                     THEN [deletion EXCEPT ![u] = NoDeletion]
                     ELSE deletion
      /\ Over(c)
      /\ UNCHANGED <<member, gone, work, overlapped, raced>>

\* The cron's read; the rows are then taken one by one.
dueRequests == {u \in Users : /\ deletion[u].status \in {"SCHEDULED", "BLOCKED"}
                              /\ deletion[u].due}
ReadDue(c) ==
  /\ Idle(c)
  /\ dueRequests # {}
  /\ call' = [call EXCEPT ![c] = [NoCall EXCEPT !.op = "sweep", !.pc = "owners",
                                                !.queue = dueRequests]]
  /\ overlapped' = (overlapped \/ Busy)
  /\ UNCHANGED <<member, deletion, gone, work, raced>>

SweepOwners(c, u) ==
  /\ At(c, "owners") /\ call[c].op = "sweep"
  /\ u \in call[c].queue
  /\ call' = [call EXCEPT ![c].user = u,
                          ![c].pc = IF isOwner(u) /\ ~OthersOwn(u) THEN "block" ELSE "work"]
  /\ OnlyCall

\* Mutant: asked of the first attempt only.
hasActiveWorkOnce(u) == u \in work /\ deletion[u].status = "SCHEDULED"

hasActiveWork(u) == u \in work

SweepWork(c) == /\ At(c, "work")
                /\ Goto(c, IF hasActiveWork(call[c].user) THEN "block" ELSE "write")
                /\ OnlyCall

\* On with the next row, or the end of the sweep.
NextRow(c) ==
  LET rest == call[c].queue \ {call[c].user}
  IN  call' = [call EXCEPT ![c] = IF rest = {} THEN NoCall
                                  ELSE [NoCall EXCEPT !.op = "sweep", !.pc = "owners",
                                                      !.queue = rest]]

\* To be tried again a day later.
Block(c) ==
  LET u == call[c].user
  IN  /\ At(c, "block")
      /\ deletion' = IF deletion[u].status = "none" THEN deletion
                     ELSE [deletion EXCEPT ![u] = [status |-> "BLOCKED", due |-> FALSE]]
      /\ NextRow(c)
      /\ UNCHANGED <<member, gone, work, overlapped, raced>>

\* What comes between the sweep's questions and its batch: an order placed, and an
\* invitation that found no membership and is yet to be inserted.
Anonymizing(c, u) == At(c, "write") /\ call[c].op = "sweep" /\ call[c].user = u
Inviting(c, u) == /\ At(c, "seat") \/ At(c, "write")
                  /\ call[c].op \in {"inviteStaff", "inviteAffiliate"}
                  /\ call[c].user = u /\ ~call[c].row.found

\* An account whose batch does not come was not raced.
Escapes(c) ==
  raced' = {u \in raced : u \in gone \/ \E d \in Agents \ {c} : Anonymizing(d, u)}

\* One batch, by the user's id alone: whether the request still stands is not asked.
anonymize(c) ==
  LET u == call[c].user
  IN  /\ At(c, "write") /\ call[c].op = "sweep"
      /\ gone' = gone \cup {u}
      /\ member' = [member EXCEPT ![u] = [NoMembership EXCEPT !.id = member[u].id]]
      /\ deletion' = IF deletion[u].status = "none" THEN deletion
                     ELSE [deletion EXCEPT ![u] = [status |-> "COMPLETED", due |-> FALSE]]
      /\ raced' = raced \cup {v \in {u} : \E d \in Agents : Inviting(d, v)}
      /\ NextRow(c)
      /\ UNCHANGED <<work, overlapped>>

\* A statement that throws is caught and retried another day.
SweepFails(c) == /\ call[c].op = "sweep"
                 /\ At(c, "work") \/ At(c, "write")
                 /\ Goto(c, "block")
                 /\ Escapes(c)
                 /\ UNCHANGED <<member, deletion, gone, work, overlapped>>

\* A refusal, or a Worker that goes away.
Dies(c) == /\ ~Idle(c)
           /\ Over(c)
           /\ Escapes(c)
           /\ UNCHANGED <<member, deletion, gone, work, overlapped>>

-----------------------------------------------------------------------------
(* The world around: the clock, and the orders of a person.                *)

Lapse(u) == /\ member[u].status = "PENDING_USER_ACCEPTANCE" /\ ~member[u].lapsed
            /\ member' = [member EXCEPT ![u].lapsed = TRUE]
            /\ UNCHANGED <<deletion, gone, work, call, overlapped, raced>>

FallsDue(u) == /\ deletion[u].status \in {"SCHEDULED", "BLOCKED"} /\ ~deletion[u].due
               /\ deletion' = [deletion EXCEPT ![u].due = TRUE]
               /\ UNCHANGED <<member, gone, work, call, overlapped, raced>>

TakeWork(u) == /\ u \in Leavers \ (gone \cup work)
               /\ work' = work \cup {u}
               /\ raced' = raced \cup {v \in {u} : \E c \in Agents : Anonymizing(c, v)}
               /\ UNCHANGED <<member, deletion, gone, call, overlapped>>

EndWork(u) == /\ u \in work
              /\ work' = work \ {u}
              /\ UNCHANGED <<member, deletion, gone, call, overlapped, raced>>

-----------------------------------------------------------------------------
Ask(c) == \/ \E v, u \in Users, op \in TeamOps, role \in Roles : AskTeam(c, v, op, u, role)
          \/ \E u \in Users, op \in OwnOps : AskOwn(c, op, u)

HandlerStep(c) == \/ ReadTarget(c)
                  \/ CheckOwners(c)
                  \/ CheckSeat(c)
                  \/ WriteMember(c)
                  \/ request(c)
                  \/ cancel(c)

SweepStep(c) == \/ \E u \in Users : SweepOwners(c, u)
                \/ SweepWork(c)
                \/ Block(c)
                \/ anonymize(c)

World(u) == Lapse(u) \/ FallsDue(u) \/ TakeWork(u) \/ EndWork(u)

TeamNext == \/ \E c \in Agents : \/ Ask(c)
                                 \/ HandlerStep(c)
                                 \/ ReadDue(c)
                                 \/ SweepStep(c)
                                 \/ SweepFails(c)
                                 \/ Dies(c)
            \/ \E u \in Users : World(u)

TeamSpec == TeamInit /\ [][TeamNext]_teamVars

-----------------------------------------------------------------------------
\* Every row, account and handler holds a value of its type.
TeamTypeOK == /\ member \in [Users -> MembershipRow]
              /\ deletion \in [Users -> DeletionRow]
              /\ gone \subseteq Users
              /\ work \subseteq Leavers
              /\ call \in [Agents -> CallRow]
              /\ overlapped \in BOOLEAN
              /\ raced \subseteq Users

\* Two owners removed at once leave a shop without one, and removeStaff admits
\* it.  That gap is the only way: as long as no two handlers overlap, no
\* sequence of invitations, endings, demotions and deletions, with handlers
\* that die anywhere, takes the last owner away.
OwnerRemains == overlapped \/ \E u \in Users : isOwner(u)

\* An account that was anonymised holds nothing of the shop and has no order open,
\* ever after and whatever handlers overlap, but for two races that the sweep does
\* not see: an order placed after its last question, and an invitation that read
\* the account before its batch and is inserted after it.  Neither a retry of a
\* blocked sweep nor a second sweep is one.
DeletedIsGone == \A u \in gone \ raced : member[u].status = "none" /\ u \notin work

\* However handlers interleave, a membership that ended comes back to life only
\* by somebody of the shop adding the person again: an invitation withdrawn
\* while its acceptance was under way stays withdrawn.
EndedStaysEnded ==
  [][\A u \in Users :
       (member[u].status \in {"REVOKED", "EXPIRED"} /\ member'[u].status = "ACTIVE")
         => \E c \in Agents : /\ call[c].op = "inviteStaff"
                             /\ call[c].user = u]_teamVars

\* Handlers that were told there is a seat and have yet to take it.
admitted == {c \in Agents : /\ At(c, "write")
                            /\ \/ call[c].op = "inviteStaff"
                               \/ call[c].op = "accept" /\ ~call[c].row.lapsed}

\* A shop holds no more people than its plan has seats while handlers take
\* turns, whatever is accepted, revoked and accepted again.  checkCount and the
\* write are two statements, so handlers that overlap may pass it together: they
\* take the shop over its plan, by at most one seat for each beyond the first,
\* and a seat promised counts as taken.
SeatsAreBounded ==
  Cardinality(employees) + Cardinality(admitted)
    <= Seats + (IF overlapped THEN Cardinality(Agents) - 1 ELSE 0)

\* businesses.ts:1353 of inviteStaff: "a membership activated between them must not
\* be silently re-written by a stale invitation".  However handlers interleave, a
\* member's role changes only to what a role change under way asks for: not by an
\* invitation to another role, sent before the member accepted.
MembersKeepTheirRole ==
  [][\A u \in Users :
       isActive(u) /\ member'[u].status = "ACTIVE" /\ member'[u].role # member[u].role
         => \E c \in Agents : /\ At(c, "write") /\ call[c].op = "setRole"
                             /\ call[c].user = u /\ call[c].role = member'[u].role]_teamVars

\* The same of inviteAffiliate, which restates nothing: no member is turned back
\* into an invitation.
AcceptedIsNotRewritten ==
  [][\A u \in Users :
       isActive(u) => member'[u].status # "PENDING_USER_ACCEPTANCE"]_teamVars

=============================================================================
