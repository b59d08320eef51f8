----------------------------- MODULE Workspace -----------------------------
(***************************************************************************)
(* The requests on one workspace (tenant): its creation and deletion, its  *)
(* members and their roles, what is put into it, the saved source views    *)
(* and policy profiles, and the conversations (app/tenants.go,             *)
(* source_views.go, source_policy_profiles.go, conversations.go, audit.go  *)
(* behind the authorization of auth/auth.go and httpapi/router.go).        *)
(*                                                                         *)
(* A request is a sequence of repository calls, one action each; no        *)
(* transaction spans two of them, so the calls of overlapping requests     *)
(* interleave.  Every call of a request may fail, which ends it.           *)
(* AUTH_MODE is trusted-header: a request is authorized by its user's      *)
(* membership, read when it begins.                                        *)
(***************************************************************************)
EXTENDS Integers, FiniteSets

CONSTANTS
  Users,
  Requests,       \* the requests that can run at the same time
  Saved,          \* identifiers of saved views and profiles
  Conversations,  \* identifiers of conversations
  Asks,           \* identifiers of questions with their answers
  Grants,         \* the roles that requests give to members
  MaxSaved,       \* maxSourceViewsPerTenant, maxSourcePolicyProfilesPerTenant
  Setups,         \* which routes are used, on which repository, see setup
  Faults          \* whether repository calls fail

None == "none"
Roles == {"owner", "admin", "member", "viewer"}
Permissions == {"ManageTenant", "ManageUsers", "UseAI", "UploadDocuments",
                "ReadDocuments", "ManageSources", "ImportSources"}

\* What a workspace holds: documents that are not deleted and sources that are
\* not archived.  Bound: one of each at a time.
Items == {"document", "source"}
Kinds == {"view", "profile"}

Routes == {"createTenant", "deleteTenant", "addMember", "removeMember",
           "addItem", "dropItem", "createSaved", "updateSaved", "deleteSaved",
           "ask", "startConversation", "deleteConversation"}

ASSUME WorkspaceAssumption ==
  /\ IsFiniteSet(Requests) /\ IsFiniteSet(Saved)
  /\ MaxSaved \in Nat \ {0}
  /\ Grants \subseteq Roles
  /\ None \notin Users \cup Saved \cup Conversations \cup Asks
  /\ Setups \subseteq [routes : SUBSET Routes, backend : {"memory", "postgres"}, kind : Kinds]
  /\ Faults \in BOOLEAN

VARIABLES
  setup,     \* the routes in use, the repository and the kind of saved rows
  tenant,    \* the tenant row: "none", "present", "deleted"
  members,   \* user -> role or None
  items,     \* the items that are not deleted or archived
  saved,     \* the saved rows, all of them views or all of them profiles
  chats,     \* the conversation rows
  messages,  \* the message rows
  audit,     \* the routes that have left audit events
  request,   \* request -> what it does and its next call
  history    \* what earlier steps amounted to, see the properties

vars == <<setup, tenant, members, items, saved, chats, messages, audit, request, history>>
rows == <<tenant, members, items, saved, chats, messages, audit>>

----------------------------------------------------------------------------
(* Access. *)

Allows(role, permission) ==
  \/ role \in {"owner", "admin"}
  \/ role = "member" /\ permission \notin {"ManageTenant", "ManageUsers"}
  \/ role = "viewer" /\ permission = "ReadDocuments"

\* What the handler of the route requires first; asking requires UseAI, too.
Permission(route, on) ==
  CASE route = "deleteTenant" -> "ManageTenant"
    [] route \in {"addMember", "removeMember"} -> "ManageUsers"
    [] route \in {"addItem", "dropItem"} /\ on = "document" -> "UploadDocuments"
    [] route \in {"ask", "startConversation"} -> "ReadDocuments"
    [] route = "deleteConversation" -> "UseAI"
    [] OTHER -> "ManageSources"

\* Mutant: a call that no request makes.
FirstCallRead(route) == "read"

\* The first call after the authorization.
FirstCall(route) ==
  CASE route \in {"deleteTenant", "addMember", "removeMember"} -> "tenant"
    [] route \in {"addItem", "dropItem", "deleteSaved"} -> "write"
    [] route = "createSaved" -> "count"
    [] route \in {"updateSaved", "ask"} -> "get"
    [] route = "startConversation" -> "open"
    [] OTHER -> "find"

----------------------------------------------------------------------------
(* Requests. *)

Steps == {"idle", "saveTenant", "saveOwner", "authorize", "authorizeAI", "tenant",
          "documents", "sources", "delete", "saveMember", "members", "remove",
          "write", "count", "get", "save", "open", "question", "answer", "touch",
          "find", "clear", "audit"}

\* on is what the request is about; as is the role or the ask that goes with it;
\* stale tells that what it decided by has changed since.
Request ==
  [route : Routes \cup {None}, user : Users \cup {None}, at : Steps,
   on : Users \cup Items \cup Saved \cup Conversations \cup {None},
   as : Roles \cup Asks \cup {None}, stale : BOOLEAN]
Idle == [route |-> None, user |-> None, at |-> "idle", on |-> None, as |-> None, stale |-> FALSE]

Message == [on : Conversations, ask : Asks, role : {"user", "assistant"}]

Goto(r, step) == request' = [request EXCEPT ![r].at = step]
End(r) == request' = [request EXCEPT ![r] = Idle]
At(r, step) == request[r].at = step

\* An ask is audited when it fails, other requests are when they succeed; the
\* deletion of a document, members and conversations are not audited.
Failing(r) == IF request[r].route \in {"ask", "startConversation"} THEN Goto(r, "audit") ELSE End(r)
Succeed(r) ==
  IF request[r].route = "dropItem" /\ request[r].on = "document" THEN End(r) ELSE Goto(r, "audit")

\* Requests that are past their authorization.
Authorized(r) == request[r].at \notin {"idle", "saveTenant", "authorize", "authorizeAI"}

\* The requests of others that decided by what r is about to change.
Stale(r, steps) ==
  [q \in Requests |-> IF q # r /\ request[q].at \in steps
                      THEN [request[q] EXCEPT !.stale = TRUE] ELSE request[q]]

Owners == {u \in Users : members[u] = "owner"}

\* Identifiers are random: those in use are not drawn again.
Used ==
  {request[r].on : r \in Requests} \cup {request[r].as : r \in Requests}
    \cup saved \cup chats \cup history.cleared
    \cup {m.ask : m \in messages} \cup {m.on : m \in messages}

Targets(route) ==
  CASE route \in {"createTenant", "deleteTenant"} -> {None}
    [] route \in {"addMember", "removeMember"} -> Users
    [] route = "addItem" -> Items \ items
    [] route = "dropItem" -> items
    [] route = "createSaved" -> Saved \ Used
    [] route \in {"updateSaved", "deleteSaved"} -> Saved
    [] route = "startConversation" -> Conversations \ Used
    [] OTHER -> Conversations

Options(route) ==
  CASE route = "addMember" -> Grants
    [] route \in {"ask", "startConversation"} -> Asks \ Used
    [] OTHER -> {None}

Init ==
  /\ setup \in Setups
  /\ \/ tenant = "none" /\ members = [u \in Users |-> None]
     \/ tenant = "present" /\ members \in [Users -> Grants \cup {None}] /\ Owners # {}
  /\ items = {}
  /\ saved = {}
  /\ chats = {} /\ messages = {} /\ audit = {}
  /\ request = [r \in Requests |-> Idle]
  /\ history = [ownerless |-> FALSE, overlap |-> FALSE, cleared |-> {}, interrupted |-> {}]

\* A user's request for one of these routes reaches its handler.
Begin(r, routes, step) ==
  /\ At(r, "idle")
  /\ \E route \in routes \cap setup.routes :
       \E u \in Users, on \in Targets(route), as \in Options(route) :
         request' = [request EXCEPT ![r] =
           [Idle EXCEPT !.route = route, !.user = u, !.on = on, !.as = as, !.at = step]]
  /\ UNCHANGED <<setup, rows, history>>

\* Bound: one workspace is created.  This needs no permission.
HandleCreateTenant(r) ==
  /\ tenant = "none"
  /\ \A q \in Requests : request[q].route # "createTenant"
  /\ Begin(r, {"createTenant"}, "saveTenant")

\* The members of the workspace, and its deletion.
HandleMember(r) == Begin(r, {"addMember", "removeMember", "deleteTenant"}, "authorize")
HandleItem(r) == Begin(r, {"addItem", "dropItem"}, "authorize")

SavedRoutes == {"createSaved", "updateSaved", "deleteSaved"}
HandleSourceView(r) == setup.kind = "view" /\ Begin(r, SavedRoutes, "authorize")
HandlePolicyProfile(r) == setup.kind = "profile" /\ Begin(r, SavedRoutes, "authorize")

HandleAsk(r) == Begin(r, {"ask", "startConversation"}, "authorize")
HandleDeleteConversation(r) == Begin(r, {"deleteConversation"}, "authorize")

Handle(r) ==
  \/ HandleCreateTenant(r) \/ HandleMember(r) \/ HandleItem(r) \/ HandleSourceView(r)
  \/ HandlePolicyProfile(r) \/ HandleAsk(r) \/ HandleDeleteConversation(r)

\* The handler reads the memberships of the user, twice for an ask; after that,
\* the user decides nothing.
Authorize(r) ==
  /\ \E step \in {"authorize", "authorizeAI"} :
       LET q == request[r]
           asks == q.route \in {"ask", "startConversation"}
           permission == IF step = "authorize" THEN Permission(q.route, q.on) ELSE "UseAI"
       IN  /\ At(r, step)
           /\ \/ ~Allows(members[q.user], permission) /\ End(r)
              \/ /\ Allows(members[q.user], permission) /\ asks /\ step = "authorize"
                 /\ Goto(r, "authorizeAI")
              \/ /\ Allows(members[q.user], permission) /\ ~(asks /\ step = "authorize")
                 /\ request' = [request EXCEPT ![r].at = FirstCall(q.route), ![r].user = None]
  /\ UNCHANGED <<setup, rows, history>>

\* A call fails.  The request ends; a failed ask is audited if its caller is
\* still connected.  A new tenant may be left without its owner.
Fail(r) ==
  /\ Faults
  /\ ~At(r, "idle")
  /\ End(r) \/ (Authorized(r) /\ ~At(r, "audit") /\ Failing(r))
  /\ history' = [history EXCEPT !.ownerless = @ \/ At(r, "saveOwner")]
  /\ UNCHANGED <<setup, rows>>

\* recordAudit; a failure of it changes nothing (Fail).
Record(r) ==
  /\ At(r, "audit")
  /\ audit' = audit \cup {request[r].route}
  /\ End(r)
  /\ UNCHANGED <<setup, tenant, members, items, saved, chats, messages, history>>

----------------------------------------------------------------------------
(* The workspace and its members. *)

SaveTenant(r) ==
  /\ At(r, "saveTenant")
  /\ tenant' = "present"
  /\ Goto(r, "saveOwner")
  /\ UNCHANGED <<setup, members, items, saved, chats, messages, audit, history>>

SaveOwner(r) ==
  /\ At(r, "saveOwner")
  /\ members' = [members EXCEPT ![request[r].user] = "owner"]
  /\ End(r)
  /\ UNCHANGED <<setup, tenant, items, saved, chats, messages, audit, history>>

GetTenant(r) ==
  /\ At(r, "tenant")
  /\ IF tenant # "present" THEN End(r)
     ELSE Goto(r, CASE request[r].route = "deleteTenant" -> "documents"
                    [] request[r].route = "addMember" -> "saveMember"
                    [] OTHER -> "members")
  /\ UNCHANGED <<setup, rows, history>>

\* Creates a membership or changes its role, an owner's too.
SaveMember(r) ==
  /\ At(r, "saveMember")
  /\ LET q == request[r] IN
       /\ members' = [members EXCEPT ![q.on] = q.as]
       /\ request' = [Stale(r, {"remove"}) EXCEPT ![r] = Idle]
       /\ history' = [history EXCEPT !.ownerless = @ \/ (members[q.on] = "owner" /\ q.as # "owner")]
  /\ UNCHANGED <<setup, tenant, items, saved, chats, messages, audit>>

\* Mutant: the owners are not counted.
RemovableAny(u) == members[u] # None

Removable(u) == members[u] # None /\ (members[u] = "owner" => Cardinality(Owners) > 1)

ListMembers(r) ==
  /\ At(r, "members")
  /\ IF Removable(request[r].on) THEN Goto(r, "remove") ELSE End(r)
  /\ UNCHANGED <<setup, rows, history>>

RemoveMember(r) ==
  /\ At(r, "remove")
  /\ members' = [members EXCEPT ![request[r].on] = None]
  /\ request' = [Stale(r, {"remove"}) EXCEPT ![r] = Idle]
  /\ history' = [history EXCEPT !.ownerless = @ \/ request[r].stale]
  /\ UNCHANGED <<setup, tenant, items, saved, chats, messages, audit>>

\* The documents are listed, then the sources.
CheckEmpty(r) ==
  /\ \/ At(r, "documents") /\ (IF "document" \in items THEN End(r) ELSE Goto(r, "sources"))
     \/ At(r, "sources") /\ (IF "source" \in items THEN End(r) ELSE Goto(r, "delete"))
  /\ UNCHANGED <<setup, rows, history>>

\* Mutant: the memberships stay.
ClearedMembers == [u \in Users |-> members[u]]

\* Memberships after the deletion of the workspace.
NoMembers == [u \in Users |-> None]

\* All rows go, in one transaction (or under the lock of the memory store).
DeleteTenant(r) ==
  /\ At(r, "delete")
  /\ IF tenant # "present" THEN UNCHANGED <<rows, history>>
     ELSE /\ tenant' = "deleted"
          /\ members' = NoMembers
          /\ items' = {}
          /\ saved' = {}
          /\ chats' = {} /\ messages' = {} /\ audit' = {}
          /\ history' = [history EXCEPT !.overlap = \E q \in Requests \ {r} : Authorized(q)]
  /\ End(r)
  /\ UNCHANGED setup

----------------------------------------------------------------------------
(* What is put into it. *)

\* A document is uploaded or a source created.
AddItem(r) ==
  /\ At(r, "write") /\ request[r].route = "addItem"
  /\ items' = items \cup {request[r].on}
  /\ Succeed(r)
  /\ UNCHANGED <<setup, tenant, members, saved, chats, messages, audit, history>>

\* A document is deleted or a source archived.
DropItem(r) ==
  /\ At(r, "write") /\ request[r].route = "dropItem"
  /\ IF request[r].on \in items THEN items' = items \ {request[r].on} /\ Succeed(r)
     ELSE UNCHANGED items /\ End(r)
  /\ UNCHANGED <<setup, tenant, members, saved, chats, messages, audit, history>>

\* Mutant: one row too many.
BelowLimitOrAt == Cardinality(saved) <= MaxSaved

BelowLimit == Cardinality(saved) < MaxSaved

CountSaved(r) ==
  /\ At(r, "count")
  /\ IF BelowLimit THEN Goto(r, "save") ELSE End(r)
  /\ UNCHANGED <<setup, rows, history>>

GetSaved(r) ==
  /\ At(r, "get") /\ request[r].route = "updateSaved"
  /\ IF request[r].on \in saved THEN Goto(r, "save") ELSE End(r)
  /\ UNCHANGED <<setup, rows, history>>

\* Inserts or overwrites the row; in Postgres a view needs its tenant row.
SaveRow(r) ==
  /\ At(r, "save")
  /\ IF setup.backend = "postgres" /\ setup.kind = "view" /\ tenant # "present"
     THEN UNCHANGED saved /\ End(r)
     ELSE saved' = saved \cup {request[r].on} /\ Succeed(r)
  /\ UNCHANGED <<setup, tenant, members, items, chats, messages, audit, history>>

DeleteRow(r) ==
  /\ At(r, "write") /\ request[r].route = "deleteSaved"
  /\ IF request[r].on \in saved THEN saved' = saved \ {request[r].on} /\ Succeed(r)
     ELSE UNCHANGED saved /\ End(r)
  /\ UNCHANGED <<setup, tenant, members, items, chats, messages, audit, history>>

----------------------------------------------------------------------------
(* Conversations. *)

\* An ask goes on with a conversation, or starts one.
GetConversation(r) ==
  /\ At(r, "get") /\ request[r].route = "ask"
  /\ IF request[r].on \in chats THEN Goto(r, "question") ELSE Failing(r)
  /\ UNCHANGED <<setup, rows, history>>

OpenConversation(r) ==
  /\ At(r, "open")
  /\ chats' = chats \cup {request[r].on}
  /\ Goto(r, "question")
  /\ UNCHANGED <<setup, tenant, members, items, saved, messages, audit, history>>

\* In Postgres a message needs its conversation row.
SaveMessage(r, role, next) ==
  /\ LET q == request[r] IN
       IF setup.backend = "postgres" /\ q.on \notin chats
       THEN UNCHANGED messages /\ Failing(r)
       ELSE /\ messages' = messages \cup {[on |-> q.on, ask |-> q.as, role |-> role]}
            /\ Goto(r, next)
  /\ UNCHANGED <<setup, tenant, members, items, saved, chats, audit, history>>

\* Mutant: a question is not saved when it is asked.
SaveQuestionLater(r) ==
  At(r, "question") /\ Goto(r, "answer") /\ UNCHANGED <<setup, rows, history>>

\* After the retrieval and before the completion, each of which may fail.
SaveQuestion(r) == At(r, "question") /\ SaveMessage(r, "user", "answer")
SaveAnswer(r) == At(r, "answer") /\ SaveMessage(r, "assistant", "touch")

\* The conversation, as it was when the ask began, is saved with a new time.
SaveConversation(r) ==
  /\ At(r, "touch")
  /\ chats' = chats \cup {request[r].on}
  /\ Goto(r, "audit")
  /\ UNCHANGED <<setup, tenant, members, items, saved, messages, audit, history>>

FindConversation(r) ==
  /\ At(r, "find")
  /\ IF request[r].on \in chats THEN Goto(r, "clear") ELSE End(r)
  /\ UNCHANGED <<setup, rows, history>>

\* Mutant: the messages of the conversation stay.
OthersAll(c) == messages

\* The messages that a deletion of conversation c leaves.
Others(c) == {m \in messages : m.on # c}

\* The asks that have opened conversation c.
Asking(c) == {r \in Requests : request[r].on = c /\ request[r].at \in {"question", "answer", "touch"}}

DeleteConversation(r) ==
  /\ At(r, "clear")
  /\ LET c == request[r].on IN
       IF c \notin chats THEN UNCHANGED <<chats, messages, history>>
       ELSE /\ chats' = chats \ {c}
            /\ messages' = Others(c)
            /\ history' = [history EXCEPT !.cleared = @ \cup {c},
                 !.interrupted = IF Asking(c) = {} THEN @ ELSE @ \cup {c}]
  /\ End(r)
  /\ UNCHANGED <<setup, tenant, members, items, saved, audit>>

Step(r) ==
  \/ Handle(r) \/ Authorize(r) \/ Fail(r) \/ Record(r)
  \/ SaveTenant(r) \/ SaveOwner(r) \/ GetTenant(r) \/ SaveMember(r) \/ ListMembers(r)
  \/ RemoveMember(r) \/ CheckEmpty(r) \/ DeleteTenant(r)
  \/ AddItem(r) \/ DropItem(r) \/ CountSaved(r) \/ GetSaved(r) \/ SaveRow(r) \/ DeleteRow(r)
  \/ GetConversation(r) \/ OpenConversation(r) \/ SaveQuestion(r) \/ SaveAnswer(r)
  \/ SaveConversation(r) \/ FindConversation(r) \/ DeleteConversation(r)

Next == \E r \in Requests : Step(r)
Spec == Init /\ [][Next]_vars

----------------------------------------------------------------------------
(* Properties. *)

\* The variables are of their types.
TypeOK ==
  /\ setup \in Setups
  /\ tenant \in {"none", "present", "deleted"}
  /\ members \in [Users -> Roles \cup {None}]
  /\ items \subseteq Items
  /\ saved \subseteq Saved
  /\ chats \subseteq Conversations
  /\ messages \subseteq Message
  /\ audit \subseteq Routes
  /\ request \in [Requests -> Request]
  /\ history \in [ownerless : BOOLEAN, overlap : BOOLEAN,
                  cleared : SUBSET Conversations, interrupted : SUBSET Conversations]

\* A workspace keeps an owner (docs/backend-contracts.md:43 "protecting the last
\* owner"), unless its creation stopped half way, a request gave an owner
\* another role, or a member was removed after the memberships had changed that
\* DeleteTenantMember had counted.
OwnersProtected ==
  tenant = "present" /\ ~history.ownerless =>
    \/ Owners # {}
    \/ \E r \in Requests : At(r, "saveOwner")

\* A workspace that was deleted while no other authorized request was running
\* leaves no rows behind, and nobody can do anything in it from then on
\* (DeleteTenant of both repositories, and the memberships they remove).  Rows that
\* a background worker in flight may still save are not rows of this module.
QuietDeletionLeavesNothing ==
  tenant = "deleted" /\ ~history.overlap =>
    /\ \A u \in Users : members[u] = None
    /\ items = {} /\ saved = {} /\ chats = {} /\ messages = {} /\ audit = {}
    /\ \A r \in Requests : ~Authorized(r)

\* The saved views, and the profiles, exceed their limit by no more than the
\* requests that overlap: a creation counts the rows in one call and adds one
\* in another, and an update brings back a row that was deleted meanwhile.
SavedWithinLimit == Cardinality(saved) <= MaxSaved + Cardinality(Requests) - 1

\* A conversation that was deleted while no ask was running in it stays deleted
\* and has no messages, whichever requests began before or begin after.
QuietClearIsFinal ==
  \A c \in history.cleared \ history.interrupted :
    /\ c \notin chats
    /\ \A m \in messages : m.on # c

\* Every message has its conversation and every answer its question, in either
\* repository, unless the conversation or the workspace was deleted under an
\* ask.
TranscriptsAreWhole ==
  \A m \in messages : m.on \notin history.interrupted /\ ~history.overlap =>
    /\ m.on \in chats
    /\ m.role = "assistant" => [m EXCEPT !.role = "user"] \in messages

=============================================================================
