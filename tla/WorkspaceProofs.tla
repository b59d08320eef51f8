-------------------------- MODULE WorkspaceProofs --------------------------
(***************************************************************************)
(* Proofs about Workspace for any users, requests, rows and limits, any    *)
(* routes and both repositories.                                           *)
(***************************************************************************)
EXTENDS Workspace, FiniteSetTheorems, TLAPS

-----------------------------------------------------------------------------
(* What a request can be: the calls of its route, and what it is about. *)

Calls(route) ==
  CASE route = "createTenant" -> {"saveTenant", "saveOwner"}
    [] route = "deleteTenant" -> {"authorize", "tenant", "documents", "sources", "delete"}
    [] route = "addMember" -> {"authorize", "tenant", "saveMember"}
    [] route = "removeMember" -> {"authorize", "tenant", "members", "remove"}
    [] route \in {"addItem", "dropItem", "deleteSaved"} -> {"authorize", "write", "audit"}
    [] route = "createSaved" -> {"authorize", "count", "save", "audit"}
    [] route = "updateSaved" -> {"authorize", "get", "save", "audit"}
    [] route = "ask" ->
         {"authorize", "authorizeAI", "get", "question", "answer", "touch", "audit"}
    [] route = "startConversation" ->
         {"authorize", "authorizeAI", "open", "question", "answer", "touch", "audit"}
    [] OTHER -> {"authorize", "find", "clear"}

Subjects(route) ==
  CASE route \in {"createTenant", "deleteTenant"} -> {None}
    [] route \in {"addMember", "removeMember"} -> Users
    [] route \in {"addItem", "dropItem"} -> Items
    [] route \in SavedRoutes -> Saved
    [] OTHER -> Conversations

Companions(route) ==
  CASE route = "addMember" -> Roles
    [] route \in {"ask", "startConversation"} -> Asks
    [] OTHER -> {None}

Proper(q) ==
  /\ q.route \in Routes
  /\ q.at \in Calls(q.route)
  /\ q.on \in Subjects(q.route)
  /\ q.as \in Companions(q.route)
  /\ q.route = "createTenant" => q.user \in Users

TypeInv ==
  /\ TypeOK
  /\ \A r \in Requests : At(r, "idle") \/ Proper(request[r])

-----------------------------------------------------------------------------
(* What a step does to the requests: one of these. *)

\* A request enters with its first call.
Enters(r) ==
  /\ At(r, "idle")
  /\ \E new \in Request :
       /\ Proper(new)
       /\ IF new.route = "createTenant"
          THEN /\ new.at = "saveTenant" /\ tenant = "none"
               /\ \A q \in Requests : request[q].route # "createTenant"
          ELSE new.at = "authorize"
       /\ new.route \in {"ask", "startConversation"} => new.as \notin Used
       /\ new.route \in {"startConversation", "createSaved"} => new.on \notin Used
       /\ new.user \in Users
       /\ ~new.stale
       /\ request' = [request EXCEPT ![r] = new]
  /\ UNCHANGED <<setup, rows, history>>

\* The other requests remain as they are, except that they may become stale.
OthersRemain(r) ==
  \A q \in Requests \ {r} :
    /\ request'[q] \in Request
    /\ request'[q].route = request[q].route
    /\ request'[q].user = request[q].user
    /\ request'[q].at = request[q].at
    /\ request'[q].on = request[q].on
    /\ request'[q].as = request[q].as
    /\ request[q].stale => request'[q].stale

\* The request ends, or goes on with a call of its route.
Proceeds(r, calls) ==
  /\ request' \in [Requests -> Request]
  /\ OthersRemain(r)
  /\ \/ request'[r] = Idle
     \/ /\ request'[r].at \in calls
        /\ request'[r].route = request[r].route
        /\ request'[r].on = request[r].on
        /\ request'[r].as = request[r].as
        /\ request[r].route = "createTenant" => request'[r].user = request[r].user

LEMMA IdleRequest == Idle \in Request /\ Idle.at = "idle"
BY DEF Idle, Request, Steps

LEMMA CallsAreSteps == ASSUME NEW route PROVE Calls(route) \subseteq Steps \ {"idle"}
BY DEF Calls, Steps

LEMMA HandleEffect ==
  ASSUME WorkspaceAssumption, TypeInv, NEW r \in Requests, Handle(r)
  PROVE  Enters(r)
<1> DEFINE Makes(route, step) ==
      \E u \in Users, on \in Targets(route), as \in Options(route) :
        request' = [request EXCEPT ![r] =
          [Idle EXCEPT !.route = route, !.user = u, !.on = on, !.as = as, !.at = step]]
<1>0. ASSUME NEW routes, NEW step, Begin(r, routes, step)
      PROVE  /\ At(r, "idle")
             /\ \E route \in routes : Makes(route, step)
             /\ UNCHANGED <<setup, rows, history>>
  BY <1>0 DEF Begin
<1> HIDE DEF Makes
<1>1. PICK route \in Routes, step \in {"saveTenant", "authorize"} :
        /\ step = "saveTenant" <=> route = "createTenant"
        /\ step = "saveTenant" => /\ tenant = "none"
                                  /\ \A q \in Requests : request[q].route # "createTenant"
        /\ At(r, "idle")
        /\ Makes(route, step)
        /\ UNCHANGED <<setup, rows, history>>
  <2>1. CASE HandleCreateTenant(r)
    BY <2>1, <1>0 DEF HandleCreateTenant, Routes
  <2>2. CASE HandleMember(r)
    BY <2>2, <1>0 DEF HandleMember, Routes
  <2>3. CASE HandleItem(r)
    BY <2>3, <1>0 DEF HandleItem, Routes
  <2>4. CASE HandleSourceView(r)
    BY <2>4, <1>0 DEF HandleSourceView, Routes, SavedRoutes
  <2>5. CASE HandlePolicyProfile(r)
    BY <2>5, <1>0 DEF HandlePolicyProfile, Routes, SavedRoutes
  <2>6. CASE HandleAsk(r)
    BY <2>6, <1>0 DEF HandleAsk, Routes
  <2>7. CASE HandleDeleteConversation(r)
    BY <2>7, <1>0 DEF HandleDeleteConversation, Routes
  <2>. QED
    BY <2>1, <2>2, <2>3, <2>4, <2>5, <2>6, <2>7 DEF Handle
<1>10. PICK u \in Users, on \in Targets(route), as \in Options(route) :
        request' = [request EXCEPT ![r] =
          [Idle EXCEPT !.route = route, !.user = u, !.on = on, !.as = as, !.at = step]]
  BY <1>1 DEF Makes
<1> DEFINE new == [Idle EXCEPT !.route = route, !.user = u, !.on = on, !.as = as, !.at = step]
<1>2. /\ new.route = route /\ new.user = u /\ new.on = on /\ new.as = as /\ new.at = step
      /\ new.stale = FALSE
  BY DEF Idle
<1>3. on \in Subjects(route) /\ as \in Companions(route)
  BY WorkspaceAssumption
     DEF Targets, Options, Subjects, Companions, TypeInv, TypeOK, SavedRoutes, Routes,
         WorkspaceAssumption
<1>4. step \in Calls(route)
  BY <1>1 DEF Calls, Routes
<1>5. on \in Users \cup Items \cup Saved \cup Conversations \cup {None}
  BY <1>3 DEF Subjects
<1>6. as \in Roles \cup Asks \cup {None}
  BY <1>3 DEF Companions
<1>7. new \in Request
  BY <1>5, <1>6 DEF Request, Idle, Steps
<1>8. Proper(new)
  BY <1>2, <1>3, <1>4 DEF Proper
<1>9. /\ route \in {"ask", "startConversation"} => as \notin Used
      /\ route \in {"startConversation", "createSaved"} => on \notin Used
  BY DEF Targets, Options
<1>. QED
  BY <1>10, <1>1, <1>2, <1>7, <1>8, <1>9 DEF Enters

LEMMA GotoEffect ==
  ASSUME TypeInv, NEW r \in Requests, NEW step \in Steps, Goto(r, step)
  PROVE  Proceeds(r, {step})
<1>1. request \in [Requests -> Request]
  BY DEF TypeInv, TypeOK
<1> DEFINE new == [request[r] EXCEPT !.at = step]
<1>2. /\ new \in Request /\ new.at = step /\ new.route = request[r].route
      /\ new.user = request[r].user /\ new.on = request[r].on /\ new.as = request[r].as
  BY <1>1 DEF Request
<1>3. request' = [request EXCEPT ![r] = new]
  BY DEF Goto
<1> HIDE DEF new
<1>. QED
  BY <1>1, <1>2, <1>3 DEF Proceeds, OthersRemain

LEMMA EndEffect ==
  ASSUME TypeInv, NEW r \in Requests, End(r)
  PROVE  Proceeds(r, {})
<1>1. request \in [Requests -> Request]
  BY DEF TypeInv, TypeOK
<1>2. /\ request' \in [Requests -> Request]
      /\ request'[r] = Idle
      /\ \A q \in Requests \ {r} : request'[q] = request[q] /\ request'[q] \in Request
  BY <1>1, IdleRequest DEF End
<1>. QED
  BY <1>2 DEF Proceeds, OthersRemain

LEMMA StaleEffect ==
  ASSUME TypeInv, NEW r \in Requests, NEW steps,
         request' = [Stale(r, steps) EXCEPT ![r] = Idle]
  PROVE  /\ Proceeds(r, {})
         /\ request'[r] = Idle
         /\ \A q \in Requests \ {r} : request[q].at \in steps => request'[q].stale
<1>1. request \in [Requests -> Request]
  BY DEF TypeInv, TypeOK
<1>2. request' = [q \in Requests |-> IF q = r THEN Idle ELSE Stale(r, steps)[q]]
  BY DEF Stale
<1>3. ASSUME NEW q \in Requests \ {r}
      PROVE  /\ request'[q] \in Request
             /\ request'[q].route = request[q].route
             /\ request'[q].user = request[q].user
             /\ request'[q].at = request[q].at
             /\ request'[q].on = request[q].on
             /\ request'[q].as = request[q].as
             /\ request[q].at \in steps \/ request[q].stale => request'[q].stale
  <2>1. request'[q] = IF request[q].at \in steps
                      THEN [request[q] EXCEPT !.stale = TRUE] ELSE request[q]
    BY <1>2, <1>3 DEF Stale
  <2>2. request[q] \in Request
    BY <1>1
  <2> DEFINE new == [request[q] EXCEPT !.stale = TRUE]
  <2>3. /\ new.route = request[q].route /\ new.user = request[q].user /\ new.at = request[q].at
        /\ new.on = request[q].on /\ new.as = request[q].as /\ new \in Request
    BY <2>2 DEF Request
  <2>4. new.stale
    BY <2>2 DEF Request
  <2>5. request'[q] = new \/ (request'[q] = request[q] /\ request[q].at \notin steps)
    BY <2>1
  <2> HIDE DEF new
  <2>. QED
    BY <2>2, <2>3, <2>4, <2>5
<1>4. request'[r] = Idle
  BY <1>2
<1>5. request' \in [Requests -> Request]
  <2>1. request' = [q \in Requests |-> request'[q]]
    BY <1>2
  <2>2. \A q \in Requests : request'[q] \in Request
    BY <1>3, <1>4, IdleRequest
  <2>. QED
    BY <2>1, <2>2
<1>. QED
  BY <1>3, <1>4, <1>5 DEF Proceeds, OthersRemain

LEMMA FailingEffect ==
  ASSUME TypeInv, NEW r \in Requests, Failing(r)
  PROVE  Proceeds(r, IF request[r].route \in {"ask", "startConversation"} THEN {"audit"} ELSE {})
BY GotoEffect, EndEffect DEF Failing, Steps

LEMMA SucceedEffect ==
  ASSUME TypeInv, NEW r \in Requests, Succeed(r)
  PROVE  Proceeds(r, {"audit"})
<1>1. Goto(r, "audit") => Proceeds(r, {"audit"})
  BY GotoEffect DEF Steps
<1>2. End(r) => Proceeds(r, {"audit"})
  BY EndEffect DEF Proceeds
<1>. QED
  BY <1>1, <1>2 DEF Succeed

\* A request that proceeds to fewer calls proceeds to more.
LEMMA MoreCalls ==
  ASSUME NEW r, NEW few, NEW many, few \subseteq many, Proceeds(r, few)
  PROVE  Proceeds(r, many)
BY DEF Proceeds

-----------------------------------------------------------------------------
(* Types. *)

LEMMA RequestsStayProper ==
  ASSUME TypeInv, NEW r \in Requests,
         Enters(r) \/ (~At(r, "idle") /\ Proceeds(r, Calls(request[r].route)))
  PROVE  /\ request' \in [Requests -> Request]
         /\ \A q \in Requests : request'[q].at = "idle" \/ Proper(request'[q])
<1>1. /\ request \in [Requests -> Request]
      /\ \A q \in Requests : request[q].at = "idle" \/ Proper(request[q])
  BY DEF TypeInv, TypeOK, At
<1>2. CASE Enters(r)
  BY <1>1, <1>2 DEF Enters
<1>3. CASE ~At(r, "idle") /\ Proceeds(r, Calls(request[r].route))
  BY <1>1, <1>3, IdleRequest DEF Proceeds, OthersRemain, Proper, At
<1>. QED
  BY <1>2, <1>3

\* The routes of a call.
LEMMA RouteOfCall ==
  ASSUME NEW q, Proper(q)
  PROVE  /\ q.at \in {"saveTenant", "saveOwner"} <=> q.route = "createTenant"
         /\ q.at = "authorizeAI" => q.route \in {"ask", "startConversation"}
         /\ q.at = "tenant" => q.route \in {"deleteTenant", "addMember", "removeMember"}
         /\ q.at \in {"documents", "sources", "delete"} => q.route = "deleteTenant"
         /\ q.at = "saveMember" => q.route = "addMember"
         /\ q.at \in {"members", "remove"} => q.route = "removeMember"
         /\ q.at = "write" => q.route \in {"addItem", "dropItem", "deleteSaved"}
         /\ q.at = "count" => q.route = "createSaved"
         /\ q.at = "get" => q.route \in {"updateSaved", "ask"}
         /\ q.at = "save" => q.route \in {"createSaved", "updateSaved"}
         /\ q.at = "open" => q.route = "startConversation"
         /\ q.at \in {"question", "answer", "touch"} => q.route \in {"ask", "startConversation"}
         /\ q.at \in {"find", "clear"} => q.route = "deleteConversation"
         /\ q.at # "idle"
BY DEF Proper, Calls, Routes

\* What a request is about, by its route.
LEMMA SubjectOfRoute ==
  ASSUME NEW q, Proper(q)
  PROVE  /\ q.route \in {"addMember", "removeMember"} => q.on \in Users
         /\ q.route = "addMember" => q.as \in Roles
         /\ q.route \in {"addItem", "dropItem"} => q.on \in Items
         /\ q.route \in SavedRoutes => q.on \in Saved
         /\ q.route \in {"ask", "startConversation"} => q.on \in Conversations /\ q.as \in Asks
         /\ q.route = "deleteConversation" => q.on \in Conversations
BY DEF Proper, Subjects, Companions, SavedRoutes, Routes

LEMMA NextCalls ==
  ASSUME NEW q, Proper(q)
  PROVE  /\ q.at = "saveTenant" => "saveOwner" \in Calls(q.route)
         /\ q.at = "authorize" =>
              IF q.route \in {"ask", "startConversation"} THEN "authorizeAI" \in Calls(q.route)
              ELSE FirstCall(q.route) \in Calls(q.route)
         /\ q.at = "authorizeAI" => FirstCall(q.route) \in Calls(q.route)
         /\ q.at = "tenant" => (CASE q.route = "deleteTenant" -> "documents"
                                  [] q.route = "addMember" -> "saveMember"
                                  [] OTHER -> "members") \in Calls(q.route)
         /\ q.at = "members" => "remove" \in Calls(q.route)
         /\ q.at = "documents" => "sources" \in Calls(q.route)
         /\ q.at = "sources" => "delete" \in Calls(q.route)
         /\ q.at \in {"write", "save"} => "audit" \in Calls(q.route)
         /\ q.at = "count" => "save" \in Calls(q.route)
         /\ q.at = "get" /\ q.route = "updateSaved" => "save" \in Calls(q.route)
         /\ q.at = "get" /\ q.route = "ask" => "question" \in Calls(q.route)
         /\ q.at = "open" => "question" \in Calls(q.route)
         /\ q.at = "question" => "answer" \in Calls(q.route)
         /\ q.at = "answer" => "touch" \in Calls(q.route)
         /\ q.at = "touch" => "audit" \in Calls(q.route)
         /\ q.at = "find" => "clear" \in Calls(q.route)
         /\ q.route \in {"ask", "startConversation"} => "audit" \in Calls(q.route)
BY DEF Proper, Calls, Routes, FirstCall

LEMMA AuthorizeEffect ==
  ASSUME TypeInv, NEW r \in Requests, Authorize(r)
  PROVE  /\ At(r, "authorize") \/ At(r, "authorizeAI")
         /\ UNCHANGED <<setup, rows, history>>
         /\ \/ End(r) /\ Proceeds(r, {})
            \/ /\ members[request[r].user] # None
               /\ At(r, "authorize") /\ request[r].route \in {"ask", "startConversation"}
               /\ Goto(r, "authorizeAI") /\ Proceeds(r, {"authorizeAI"})
            \/ /\ members[request[r].user] # None
               /\ ~(At(r, "authorize") /\ request[r].route \in {"ask", "startConversation"})
               /\ request'[r].at = FirstCall(request[r].route)
               /\ Proceeds(r, {FirstCall(request[r].route)})
<1> DEFINE asks == request[r].route \in {"ask", "startConversation"}
           first == FirstCall(request[r].route)
<1>1. request \in [Requests -> Request]
  BY DEF TypeInv, TypeOK
<1>2. Proper(request[r]) \/ At(r, "idle")
  BY DEF TypeInv
<1>3. first \in Steps
  BY DEF FirstCall, Steps
<1>4. ASSUME NEW p, Allows(members[request[r].user], p)
      PROVE  members[request[r].user] # None
  BY <1>4 DEF Allows, None
<1>5. PICK step \in {"authorize", "authorizeAI"}, p \in {Permission(request[r].route, request[r].on), "UseAI"} :
        /\ At(r, step)
        /\ \/ End(r)
           \/ Allows(members[request[r].user], p) /\ asks /\ step = "authorize"
              /\ Goto(r, "authorizeAI")
           \/ Allows(members[request[r].user], p) /\ ~(asks /\ step = "authorize")
              /\ request' = [request EXCEPT ![r].at = first, ![r].user = None]
  BY DEF Authorize
<1>6. UNCHANGED <<setup, rows, history>>
  BY DEF Authorize
<1>7. CASE End(r)
  BY <1>5, <1>6, <1>7, EndEffect
<1>8. CASE Allows(members[request[r].user], p) /\ asks /\ step = "authorize"
           /\ Goto(r, "authorizeAI")
  BY <1>4, <1>5, <1>6, <1>8, GotoEffect DEF Steps
<1>9. CASE Allows(members[request[r].user], p) /\ ~(asks /\ step = "authorize")
           /\ request' = [request EXCEPT ![r].at = first, ![r].user = None]
  <2> DEFINE new == [request[r] EXCEPT !.at = first, !.user = None]
  <2> HIDE DEF first
  <2>1. /\ new \in Request /\ new.at = first /\ new.route = request[r].route
        /\ new.on = request[r].on /\ new.as = request[r].as
    BY <1>1, <1>3 DEF Request
  <2>2. request' = [request EXCEPT ![r] = new]
    BY <1>1, <1>9
  <2> HIDE DEF new
  <2>3. request[r].route # "createTenant"
    BY <1>2, <1>5, RouteOfCall DEF At
  <2>4. Proceeds(r, {first})
    BY <1>1, <2>1, <2>2, <2>3 DEF Proceeds, OthersRemain
  <2>. QED
    BY <1>1, <1>4, <1>5, <1>6, <1>9, <2>1, <2>2, <2>4 DEF first, At
<1>. QED
  BY <1>5, <1>7, <1>8, <1>9

\* The steps that only look at the rows.
LEMMA ReadEffect ==
  ASSUME TypeInv, NEW r \in Requests, Proper(request[r]),
         GetTenant(r) \/ ListMembers(r) \/ CheckEmpty(r) \/ CountSaved(r) \/ GetSaved(r)
           \/ GetConversation(r) \/ FindConversation(r)
  PROVE  /\ UNCHANGED <<setup, rows, history>>
         /\ Proceeds(r, Calls(request[r].route))
<1> DEFINE calls == Calls(request[r].route)
<1>1. calls \subseteq Steps
  BY CallsAreSteps
<1>2. ASSUME NEW step \in calls, Goto(r, step)
      PROVE  Proceeds(r, calls)
  <2>1. Proceeds(r, {step})
    BY <1>1, <1>2, GotoEffect
  <2>. QED
    BY <2>1 DEF Proceeds
<1>3. ASSUME End(r) PROVE Proceeds(r, calls)
  BY <1>3, EndEffect, MoreCalls
<1>4. ASSUME request[r].route \in {"ask", "startConversation"}, Failing(r)
      PROVE  Proceeds(r, calls)
  BY <1>2, <1>4, NextCalls DEF Failing
<1> HIDE DEF calls
<1> USE NextCalls DEF At
<1>5. CASE GetTenant(r)
  BY <1>2, <1>3, <1>5 DEF GetTenant, calls
<1>6. CASE ListMembers(r)
  BY <1>2, <1>3, <1>6 DEF ListMembers, calls
<1>7. CASE CheckEmpty(r)
  BY <1>2, <1>3, <1>7 DEF CheckEmpty, calls
<1>8. CASE CountSaved(r)
  BY <1>2, <1>3, <1>8 DEF CountSaved, calls
<1>9. CASE GetSaved(r)
  BY <1>2, <1>3, <1>9 DEF GetSaved, calls
<1>10. CASE GetConversation(r)
  BY <1>2, <1>4, <1>10 DEF GetConversation, calls
<1>11. CASE FindConversation(r)
  BY <1>2, <1>3, <1>11 DEF FindConversation, calls
<1>. QED
  BY <1>5, <1>6, <1>7, <1>8, <1>9, <1>10, <1>11 DEF calls

\* Every step is of one of two forms.
LEMMA StepEffect ==
  ASSUME WorkspaceAssumption, TypeInv, NEW r \in Requests, Step(r)
  PROVE  \/ Enters(r)
         \/ ~At(r, "idle") /\ Proper(request[r]) /\ Proceeds(r, Calls(request[r].route))
<1> DEFINE calls == Calls(request[r].route)
<1>1. calls \subseteq Steps /\ "audit" \in Steps
  BY CallsAreSteps DEF Steps
<1>2. ASSUME NEW step \in calls, Goto(r, step)
      PROVE  Proceeds(r, calls)
  <2>1. Proceeds(r, {step})
    BY <1>1, <1>2, GotoEffect
  <2>. QED
    BY <2>1 DEF Proceeds
<1>3. ASSUME End(r) PROVE Proceeds(r, calls)
  BY <1>3, EndEffect, MoreCalls
<1>4. ASSUME Proceeds(r, {}) PROVE Proceeds(r, calls)
  BY <1>4, MoreCalls
<1>5. ASSUME NEW step \in calls, Proceeds(r, {step}) PROVE Proceeds(r, calls)
  BY <1>5, MoreCalls
<1>6. ASSUME Proper(request[r]), Failing(r) PROVE Proceeds(r, calls)
  BY <1>2, <1>3, <1>6, NextCalls DEF Failing
<1>7. ASSUME "audit" \in calls, Succeed(r) PROVE Proceeds(r, calls)
  BY <1>2, <1>3, <1>7 DEF Succeed
<1>8. Proper(request[r]) \/ At(r, "idle")
  BY DEF TypeInv
<1>9. CASE Handle(r)
  BY <1>9, HandleEffect
<1>10. SUFFICES ASSUME ~Handle(r)
                PROVE  ~At(r, "idle") /\ Proceeds(r, calls)
  BY <1>8, <1>9
<1>11. ~At(r, "idle")
  BY <1>10, AuthorizeEffect
     DEF Step, Fail, Record, SaveTenant, SaveOwner, GetTenant, SaveMember, ListMembers,
         RemoveMember, CheckEmpty, DeleteTenant, AddItem, DropItem, CountSaved, GetSaved,
         SaveRow, DeleteRow, GetConversation, OpenConversation, SaveQuestion, SaveAnswer,
         SaveConversation, FindConversation, DeleteConversation, At
<1>12. Proper(request[r])
  BY <1>8, <1>11
<1>13. CASE Authorize(r)
  BY <1>4, <1>5, <1>12, <1>13, AuthorizeEffect, NextCalls DEF At
<1>14. CASE \/ GetTenant(r) \/ ListMembers(r) \/ CheckEmpty(r) \/ CountSaved(r) \/ GetSaved(r)
            \/ GetConversation(r) \/ FindConversation(r)
  BY <1>11, <1>12, <1>14, ReadEffect
<1> HIDE DEF calls
<1>15. CASE Fail(r)
  BY <1>3, <1>6, <1>12, <1>15 DEF Fail
<1>16. CASE Record(r) \/ SaveOwner(r) \/ DeleteTenant(r) \/ DeleteConversation(r)
  <2>1. End(r)
    BY <1>16 DEF Record, SaveOwner, DeleteTenant, DeleteConversation
  <2>. QED
    BY <1>3, <1>11, <2>1
<1>17. CASE SaveMember(r) \/ RemoveMember(r)
  <2>1. request' = [Stale(r, {"remove"}) EXCEPT ![r] = Idle]
    BY <1>17 DEF SaveMember, RemoveMember
  <2>2. Proceeds(r, {})
    BY <2>1, StaleEffect
  <2>. QED
    BY <1>4, <1>11, <2>2
<1>18. CASE SaveTenant(r) \/ OpenConversation(r) \/ SaveConversation(r)
  BY <1>2, <1>12, <1>18, NextCalls DEF SaveTenant, OpenConversation, SaveConversation, At, calls
<1>19. CASE AddItem(r) \/ DropItem(r) \/ DeleteRow(r)
  BY <1>3, <1>7, <1>12, <1>19, NextCalls DEF AddItem, DropItem, DeleteRow, At, calls
<1>20. CASE SaveRow(r)
  BY <1>3, <1>7, <1>12, <1>20, NextCalls DEF SaveRow, At, calls
<1>21. CASE SaveQuestion(r) \/ SaveAnswer(r)
  BY <1>2, <1>6, <1>12, <1>21, NextCalls DEF SaveQuestion, SaveAnswer, SaveMessage, At, calls
<1>. QED
  BY <1>10, <1>11, <1>13, <1>14, <1>15, <1>16, <1>17, <1>18, <1>19, <1>20, <1>21 DEF Step

LEMMA TypeInit == WorkspaceAssumption /\ Init => TypeInv
<1> SUFFICES ASSUME WorkspaceAssumption, Init PROVE TypeInv
  OBVIOUS
<1>1. request \in [Requests -> Request] /\ \A r \in Requests : At(r, "idle")
  BY IdleRequest DEF Init, At
<1>2. members \in [Users -> Roles \cup {None}]
  BY DEF Init, WorkspaceAssumption
<1>3. history \in [ownerless : BOOLEAN, overlap : BOOLEAN,
                   cleared : SUBSET Conversations, interrupted : SUBSET Conversations]
  BY DEF Init
<1>. QED
  BY <1>1, <1>2, <1>3 DEF Init, TypeInv, TypeOK

LEMMA TypeStep ==
  ASSUME WorkspaceAssumption, TypeInv, NEW r \in Requests, Step(r)
  PROVE  TypeInv'
<1>1. /\ setup \in Setups
      /\ tenant \in {"none", "present", "deleted"}
      /\ members \in [Users -> Roles \cup {None}]
      /\ items \subseteq Items
      /\ saved \subseteq Saved
      /\ chats \subseteq Conversations
      /\ messages \subseteq Message
      /\ audit \subseteq Routes
      /\ history \in [ownerless : BOOLEAN, overlap : BOOLEAN,
                      cleared : SUBSET Conversations, interrupted : SUBSET Conversations]
      /\ request \in [Requests -> Request]
  BY DEF TypeInv, TypeOK
<1> DEFINE Typed ==
      /\ setup' \in Setups
      /\ tenant' \in {"none", "present", "deleted"}
      /\ members' \in [Users -> Roles \cup {None}]
      /\ items' \subseteq Items
      /\ saved' \subseteq Saved
      /\ chats' \subseteq Conversations
      /\ messages' \subseteq Message
      /\ audit' \subseteq Routes
      /\ history' \in [ownerless : BOOLEAN, overlap : BOOLEAN,
                       cleared : SUBSET Conversations, interrupted : SUBSET Conversations]
<1>2. SUFFICES Typed
  BY StepEffect, RequestsStayProper DEF TypeInv, TypeOK, At
<1>3. CASE UNCHANGED <<setup, rows, history>>
  BY <1>1, <1>3 DEF rows
<1>4. CASE Enters(r)
  BY <1>3, <1>4 DEF Enters
<1>5. CASE ~Enters(r)
  <2>1. ~Handle(r)
    BY <1>5, HandleEffect
  <2>2. Proper(request[r]) /\ ~At(r, "idle")
    BY <1>5, StepEffect
  <2>3. CASE Authorize(r)
    BY <1>3, <2>3, AuthorizeEffect
  <2>4. CASE \/ GetTenant(r) \/ ListMembers(r) \/ CheckEmpty(r) \/ CountSaved(r) \/ GetSaved(r)
             \/ GetConversation(r) \/ FindConversation(r)
    BY <1>3, <2>2, <2>4, ReadEffect
  <2>5. CASE Fail(r)
    <3>1. UNCHANGED <<setup, rows>> /\ history' = [history EXCEPT !.ownerless = @ \/ At(r, "saveOwner")]
      BY <2>5 DEF Fail
    <3>. QED
      BY <1>1, <3>1 DEF rows
  <2>6. CASE Record(r)
    BY <1>1, <2>2, <2>6 DEF Record, Proper
  <2>7. CASE SaveTenant(r) \/ SaveOwner(r)
    BY <1>1, <2>7 DEF SaveTenant, SaveOwner, Roles
  <2>8. CASE SaveMember(r)
    <3>1. request[r].as \in Roles
      BY <2>2, <2>8, RouteOfCall, SubjectOfRoute DEF SaveMember, At
    <3>2. /\ members' = [members EXCEPT ![request[r].on] = request[r].as]
          /\ history' = [history EXCEPT !.ownerless =
               @ \/ (members[request[r].on] = "owner" /\ request[r].as # "owner")]
          /\ UNCHANGED <<setup, tenant, items, saved, chats, messages, audit>>
      BY <2>8 DEF SaveMember
    <3>. QED
      BY <1>1, <3>1, <3>2
  <2>9. CASE RemoveMember(r)
    <3>1. /\ members' = [members EXCEPT ![request[r].on] = None]
          /\ history' = [history EXCEPT !.ownerless = @ \/ request[r].stale]
          /\ UNCHANGED <<setup, tenant, items, saved, chats, messages, audit>>
      BY <2>9 DEF RemoveMember
    <3>2. request[r].stale \in BOOLEAN
      BY <1>1 DEF Request
    <3>. QED
      BY <1>1, <3>1, <3>2
  <2>10. CASE DeleteTenant(r)
    <3>1. CASE tenant # "present"
      BY <1>3, <2>10, <3>1 DEF DeleteTenant
    <3>2. CASE tenant = "present"
      BY <1>1, <2>10, <3>2 DEF DeleteTenant, NoMembers
    <3>. QED
      BY <3>1, <3>2
  <2>11. CASE AddItem(r) \/ DropItem(r) \/ SaveRow(r) \/ DeleteRow(r)
    <3>1. AddItem(r) => request[r].on \in Items
      BY <2>2, SubjectOfRoute DEF AddItem
    <3>2. SaveRow(r) => request[r].on \in Saved
      BY <2>2, RouteOfCall, SubjectOfRoute DEF SaveRow, At, SavedRoutes
    <3>. QED
      BY <1>1, <2>11, <3>1, <3>2 DEF AddItem, DropItem, SaveRow, DeleteRow
  <2>12. CASE OpenConversation(r) \/ SaveConversation(r) \/ SaveQuestion(r) \/ SaveAnswer(r)
    <3>1. request[r].on \in Conversations /\ request[r].as \in Asks
      BY <2>2, <2>12, RouteOfCall, SubjectOfRoute
         DEF OpenConversation, SaveConversation, SaveQuestion, SaveAnswer, At
    <3>2. \A role \in {"user", "assistant"} :
            [on |-> request[r].on, ask |-> request[r].as, role |-> role] \in Message
      BY <3>1 DEF Message
    <3>3. CASE OpenConversation(r) \/ SaveConversation(r)
      BY <1>1, <3>1, <3>3 DEF OpenConversation, SaveConversation
    <3>4. CASE SaveQuestion(r) \/ SaveAnswer(r)
      BY <1>1, <3>2, <3>4 DEF SaveQuestion, SaveAnswer, SaveMessage
    <3>. QED
      BY <2>12, <3>3, <3>4
  <2>13. CASE DeleteConversation(r)
    <3>1. request[r].on \in Conversations
      BY <2>2, <2>13, RouteOfCall, SubjectOfRoute DEF DeleteConversation, At
    <3>2. CASE request[r].on \notin chats
      BY <1>1, <2>13, <3>2 DEF DeleteConversation
    <3>3. CASE request[r].on \in chats
      <4>1. /\ chats' = chats \ {request[r].on}
            /\ messages' = Others(request[r].on)
            /\ history' = [history EXCEPT !.cleared = @ \cup {request[r].on},
                 !.interrupted = IF Asking(request[r].on) = {} THEN @ ELSE @ \cup {request[r].on}]
            /\ UNCHANGED <<setup, tenant, members, items, saved, audit>>
        BY <2>13, <3>3 DEF DeleteConversation
      <4>. QED
        BY <1>1, <3>1, <4>1 DEF Others
    <3>. QED
      BY <3>2, <3>3
  <2>. QED
    BY <2>1, <2>3, <2>4, <2>5, <2>6, <2>7, <2>8, <2>9, <2>10, <2>11, <2>12, <2>13 DEF Step
<1>. QED
  BY <1>4, <1>5

-----------------------------------------------------------------------------
(* Which step leads to which call. *)

Arrives(r) ==
  LET at == request'[r].at IN
    \/ at \in {"idle", "audit"}
    \/ /\ Authorize(r)
       /\ \/ at = "authorizeAI"
          \/ at = FirstCall(request[r].route) /\ at \in {"tenant", "write", "count", "get", "open", "find"}
    \/ SaveTenant(r) /\ at = "saveOwner"
    \/ GetTenant(r) /\ at \in {"documents", "saveMember", "members"}
    \/ ListMembers(r) /\ at = "remove"
    \/ CheckEmpty(r) /\ at \in {"sources", "delete"}
    \/ (CountSaved(r) \/ GetSaved(r)) /\ at = "save"
    \/ (GetConversation(r) \/ OpenConversation(r)) /\ at = "question"
    \/ SaveQuestion(r) /\ at = "answer"
    \/ SaveAnswer(r) /\ at = "touch"
    \/ FindConversation(r) /\ at = "clear"

LEMMA ArrivesAt ==
  ASSUME WorkspaceAssumption, TypeInv, NEW r \in Requests, Step(r), ~Enters(r)
  PROVE  Arrives(r)
<1> DEFINE at == request'[r].at
<1>1. request \in [Requests -> Request]
  BY DEF TypeInv, TypeOK
<1>2. ASSUME NEW step \in Steps, Goto(r, step) PROVE at = step
  BY <1>1, <1>2 DEF Goto, Request
<1>3. End(r) => at = "idle"
  BY <1>1 DEF End, Idle
<1>4. Failing(r) => at \in {"idle", "audit"}
  BY <1>2, <1>3 DEF Failing, Steps
<1>5. Succeed(r) => at \in {"idle", "audit"}
  BY <1>2, <1>3 DEF Succeed, Steps
<1>6. ~Handle(r)
  BY HandleEffect
<1> USE DEF Arrives, Steps
<1>7. CASE Authorize(r)
  <2>1. FirstCall(request[r].route) \in {"tenant", "write", "count", "get", "open", "find"}
    BY DEF FirstCall
  <2>. QED
    BY <1>2, <1>3, <1>7, <2>1, AuthorizeEffect
<1>8. CASE Fail(r) \/ Record(r) \/ SaveOwner(r) \/ DeleteTenant(r) \/ DeleteConversation(r)
  BY <1>3, <1>4, <1>8 DEF Fail, Record, SaveOwner, DeleteTenant, DeleteConversation
<1>9. CASE SaveTenant(r)
  BY <1>2, <1>9 DEF SaveTenant
<1>10. CASE GetTenant(r)
  BY <1>2, <1>3, <1>10 DEF GetTenant
<1>11. CASE SaveMember(r) \/ RemoveMember(r)
  <2>1. request' = [Stale(r, {"remove"}) EXCEPT ![r] = Idle]
    BY <1>11 DEF SaveMember, RemoveMember
  <2>2. request'[r] = Idle
    BY <2>1, StaleEffect
  <2>. QED
    BY <2>2, IdleRequest
<1>12. CASE ListMembers(r)
  BY <1>2, <1>3, <1>12 DEF ListMembers
<1>13. CASE CheckEmpty(r)
  BY <1>2, <1>3, <1>13 DEF CheckEmpty
<1>14. CASE AddItem(r) \/ DropItem(r) \/ SaveRow(r) \/ DeleteRow(r)
  BY <1>3, <1>5, <1>14 DEF AddItem, DropItem, SaveRow, DeleteRow
<1>15. CASE CountSaved(r) \/ GetSaved(r)
  BY <1>2, <1>3, <1>15 DEF CountSaved, GetSaved
<1>16. CASE GetConversation(r) \/ OpenConversation(r)
  BY <1>2, <1>4, <1>16 DEF GetConversation, OpenConversation
<1>17. CASE SaveQuestion(r)
  BY <1>2, <1>4, <1>17 DEF SaveQuestion, SaveMessage
<1>18. CASE SaveAnswer(r)
  BY <1>2, <1>4, <1>18 DEF SaveAnswer, SaveMessage
<1>19. CASE SaveConversation(r)
  BY <1>2, <1>19 DEF SaveConversation
<1>20. CASE FindConversation(r)
  BY <1>2, <1>3, <1>20 DEF FindConversation
<1>. QED
  BY <1>6, <1>7, <1>8, <1>9, <1>10, <1>11, <1>12, <1>13, <1>14, <1>15, <1>16, <1>17,
     <1>18, <1>19, <1>20 DEF Step

LEMMA OthersStay ==
  ASSUME WorkspaceAssumption, TypeInv, NEW r \in Requests, Step(r)
  PROVE  OthersRemain(r)
<1>1. request \in [Requests -> Request]
  BY DEF TypeInv, TypeOK
<1>2. CASE Enters(r)
  BY <1>1, <1>2 DEF Enters, OthersRemain
<1>3. CASE ~Enters(r)
  BY <1>3, StepEffect DEF Proceeds
<1>. QED
  BY <1>2, <1>3

\* A request that does not end remains what it was, if it had entered.
LEMMA StaysItself ==
  ASSUME WorkspaceAssumption, TypeInv, NEW r \in Requests, Step(r), ~Enters(r),
         request'[r].at # "idle"
  PROVE  /\ request'[r].route = request[r].route
         /\ request'[r].on = request[r].on
         /\ request'[r].as = request[r].as
         /\ request'[r].route = "createTenant" => request'[r].user = request[r].user
BY StepEffect, IdleRequest DEF Proceeds

-----------------------------------------------------------------------------
(***************************************************************************)
(* The creation of the workspace.  Until its first member is saved, nobody *)
(* else is a member and no other request is past its authorization.        *)
(***************************************************************************)

Newborn == tenant = "none" \/ \E r \in Requests : At(r, "saveOwner")

OneCreation ==
  \A q, r \in Requests :
    request[q].route = "createTenant" /\ request[r].route = "createTenant" => q = r

CreationCalls ==
  \A r \in Requests :
    /\ At(r, "saveTenant") => tenant = "none"
    /\ At(r, "saveOwner") => tenant = "present"

NobodyInNewborn ==
  Newborn =>
    /\ \A u \in Users : members[u] = None
    /\ \A r \in Requests : Authorized(r) => request[r].route = "createTenant"

Callers ==
  \A r \in Requests : request[r].at \in {"authorize", "authorizeAI"} => request[r].user \in Users

Creation == OneCreation /\ CreationCalls /\ NobodyInNewborn /\ Callers

LEMMA CreationInit == WorkspaceAssumption /\ Init => Creation
<1> SUFFICES ASSUME WorkspaceAssumption, Init PROVE Creation
  OBVIOUS
<1>1. \A r \in Requests : request[r].at = "idle" /\ request[r].route = "none"
  BY DEF Init, Idle, None
<1>2. OneCreation /\ CreationCalls /\ Callers
  BY <1>1 DEF OneCreation, CreationCalls, Callers, At
<1>3. NobodyInNewborn
  BY <1>1 DEF NobodyInNewborn, Newborn, Authorized, At, Init
<1>. QED
  BY <1>2, <1>3 DEF Creation

\* In a newborn workspace nothing happens but its creation, and requests that
\* come and are refused.
LEMMA NewbornSteps ==
  ASSUME WorkspaceAssumption, TypeInv, Creation, NEW r \in Requests, Step(r), Newborn
  PROVE  \/ Enters(r)
         \/ /\ UNCHANGED <<setup, rows>>
            /\ request'[r].at = "idle"
         \/ SaveTenant(r) /\ request'[r].at = "saveOwner"
         \/ SaveOwner(r) /\ request'[r].at = "idle"
<1> SUFFICES ASSUME ~Enters(r)
    PROVE  \/ /\ UNCHANGED <<setup, rows>>
              /\ request'[r].at = "idle"
           \/ SaveTenant(r) /\ request'[r].at = "saveOwner"
           \/ SaveOwner(r) /\ request'[r].at = "idle"
  OBVIOUS
<1>1. Proper(request[r]) /\ ~At(r, "idle") /\ Proceeds(r, Calls(request[r].route))
  BY StepEffect
<1>2. request \in [Requests -> Request]
  BY DEF TypeInv, TypeOK
<1>3. request[r].at \in {"saveTenant", "saveOwner", "authorize", "authorizeAI"}
  BY <1>1, RouteOfCall DEF Creation, NobodyInNewborn, Authorized, At
<1>4. End(r) => request'[r].at = "idle"
  BY <1>2 DEF End, Idle
<1>5. CASE Authorize(r)
  <2>1. members[request[r].user] = None
    BY <1>5, AuthorizeEffect DEF Creation, NobodyInNewborn, Callers, At
  <2>2. End(r) /\ UNCHANGED <<setup, rows>>
    BY <1>5, <2>1, AuthorizeEffect
  <2>. QED
    BY <1>4, <2>2
<1>6. CASE Fail(r)
  <2>1. /\ UNCHANGED <<setup, rows>>
        /\ End(r) \/ (Authorized(r) /\ Failing(r))
    BY <1>6 DEF Fail
  <2>2. Authorized(r) /\ Failing(r) => End(r)
    BY <1>1, <1>3, RouteOfCall DEF Authorized, Failing, At
  <2>. QED
    BY <1>4, <2>1, <2>2
<1>7. CASE SaveTenant(r)
  <2>1. request'[r].at = "saveOwner"
    BY <1>2, <1>7 DEF SaveTenant, Goto, Request
  <2>. QED
    BY <1>7, <2>1
<1>8. CASE SaveOwner(r)
  BY <1>4, <1>8 DEF SaveOwner
<1>9. Authorize(r) \/ Fail(r) \/ SaveTenant(r) \/ SaveOwner(r)
  <2>1. ~Handle(r)
    BY HandleEffect
  <2>. QED
    BY <1>3, <2>1
       DEF Step, Record, GetTenant, SaveMember, ListMembers, RemoveMember, CheckEmpty,
           DeleteTenant, AddItem, DropItem, CountSaved, GetSaved, SaveRow, DeleteRow,
           GetConversation, OpenConversation, SaveQuestion, SaveAnswer, SaveConversation,
           FindConversation, DeleteConversation, At
<1>. QED
  BY <1>5, <1>6, <1>7, <1>8, <1>9

LEMMA CreationStep ==
  ASSUME WorkspaceAssumption, TypeInv, Creation, NEW r \in Requests, Step(r)
  PROVE  Creation'
<1>1. \A q \in Requests \ {r} :
        /\ request'[q].at = request[q].at
        /\ request'[q].route = request[q].route
        /\ request'[q].user = request[q].user
  BY OthersStay DEF OthersRemain
<1>2. ASSUME ~Enters(r)
      PROVE  request'[r].at # "idle" => request'[r].route = request[r].route
  BY <1>2, StaysItself
<1>3. ASSUME Enters(r)
      PROVE  /\ request'[r].at \in {"saveTenant", "authorize"}
             /\ request'[r].at = "saveTenant" <=> request'[r].route = "createTenant"
             /\ request'[r].route = "createTenant" =>
                  tenant = "none" /\ \A q \in Requests : request[q].route # "createTenant"
             /\ request'[r].user \in Users
             /\ UNCHANGED <<rows, history>>
  <2>1. request \in [Requests -> Request]
    BY DEF TypeInv, TypeOK
  <2>. QED
    BY <1>3, <2>1 DEF Enters
<1>4. ASSUME ~Enters(r), request'[r].at = "idle" PROVE request'[r].route = "none"
  <2>1. request'[r] = Idle
    BY <1>4, StepEffect, CallsAreSteps DEF Proceeds
  <2>. QED
    BY <2>1 DEF Idle, None
<1>5. request'[r].at = "saveOwner" => SaveTenant(r)
  BY <1>3, ArrivesAt DEF Arrives
<1>6. OneCreation'
  BY <1>1, <1>2, <1>3, <1>4 DEF OneCreation, Creation
<1>7. Callers'
  <2>1. ASSUME ~Enters(r), request'[r].at \in {"authorize", "authorizeAI"}
        PROVE  request'[r].user \in Users
    <3>1. Authorize(r) /\ request'[r].at = "authorizeAI"
      BY <2>1, ArrivesAt DEF Arrives
    <3>2. request \in [Requests -> Request] /\ request[r].user \in Users
      BY <3>1, AuthorizeEffect DEF Creation, Callers, At, TypeInv, TypeOK
    <3>3. Goto(r, "authorizeAI")
      <4>1. FirstCall(request[r].route) # "authorizeAI"
        BY DEF FirstCall
      <4>2. End(r) => request'[r].at = "idle"
        BY <3>2, IdleRequest DEF End
      <4>. QED
        BY <3>1, <4>1, <4>2, AuthorizeEffect
    <3>. QED
      BY <3>2, <3>3 DEF Goto, Request
  <2>. QED
    BY <1>1, <1>3, <2>1 DEF Callers, Creation
<1>8. ASSUME ~Newborn PROVE ~Newborn' /\ CreationCalls'
  <2>1. ~SaveTenant(r)
    BY <1>8 DEF SaveTenant, Newborn, Creation, CreationCalls
  <2>2. \A q \in Requests : request'[q].at # "saveOwner"
    BY <1>1, <1>5, <1>8, <2>1 DEF Newborn, At
  <2>3. tenant' # "none"
    BY <1>8, <2>1
       DEF Newborn, Step, Handle, HandleCreateTenant, HandleMember, HandleItem, HandleSourceView,
         HandlePolicyProfile, HandleAsk, HandleDeleteConversation, Begin, rows, Authorize,
         Fail, Record, SaveOwner, GetTenant, SaveMember, ListMembers, RemoveMember, CheckEmpty,
         DeleteTenant, AddItem, DropItem, CountSaved, GetSaved, SaveRow, DeleteRow,
         GetConversation, OpenConversation, SaveQuestion, SaveAnswer, SaveMessage,
         SaveConversation, FindConversation, DeleteConversation
  <2>4. \A q \in Requests : request'[q].at # "saveTenant"
    BY <1>1, <1>3, <1>8, ArrivesAt DEF Arrives, Newborn, Creation, CreationCalls, At
  <2>. QED
    BY <2>2, <2>3, <2>4 DEF Newborn, CreationCalls, At
<1>9. ASSUME Newborn PROVE CreationCalls' /\ NobodyInNewborn'
  <2>1. CASE Enters(r)
    BY <1>1, <1>3, <1>9, <2>1 DEF Creation, CreationCalls, NobodyInNewborn, Newborn, Authorized, At, rows
  <2>2. CASE UNCHANGED <<setup, rows>> /\ request'[r].at = "idle"
    BY <1>1, <1>9, <2>2 DEF Creation, CreationCalls, NobodyInNewborn, Newborn, Authorized, At, rows
  <2>3. CASE SaveTenant(r) /\ request'[r].at = "saveOwner"
    <3>1. /\ tenant' = "present" /\ UNCHANGED members
          /\ request[r].at = "saveTenant"
      BY <2>3 DEF SaveTenant, At
    <3>2. request[r].route = "createTenant" /\ request'[r].route = "createTenant"
      <4>1. Proper(request[r])
        BY <3>1 DEF TypeInv, At
      <4>2. ~Enters(r)
        BY <3>1 DEF Enters, At
      <4>. QED
        BY <1>2, <2>3, <3>1, <4>1, <4>2, RouteOfCall
    <3>3. \A q \in Requests \ {r} : request[q].at \notin {"saveTenant", "saveOwner"}
      <4> SUFFICES ASSUME NEW q \in Requests \ {r}, request[q].at \in {"saveTenant", "saveOwner"}
                   PROVE  FALSE
        OBVIOUS
      <4>1. request[q].route = "createTenant"
        BY RouteOfCall DEF TypeInv, At
      <4>. QED
        BY <3>2, <4>1 DEF Creation, OneCreation
    <3>. QED
      BY <1>1, <1>9, <2>3, <3>1, <3>2, <3>3 DEF Creation, CreationCalls, NobodyInNewborn, Newborn, Authorized, At
  <2>4. CASE SaveOwner(r) /\ request'[r].at = "idle"
    <3>1. request[r].at = "saveOwner" /\ tenant = "present" /\ tenant' = "present"
      BY <2>4 DEF SaveOwner, At, Creation, CreationCalls
    <3>2. \A q \in Requests \ {r} : request[q].at \notin {"saveTenant", "saveOwner"}
      <4> SUFFICES ASSUME NEW q \in Requests \ {r}, request[q].at \in {"saveTenant", "saveOwner"}
                   PROVE  FALSE
        OBVIOUS
      <4>1. request[q].route = "createTenant" /\ request[r].route = "createTenant"
        BY <3>1, RouteOfCall DEF TypeInv, At
      <4>. QED
        BY <4>1 DEF Creation, OneCreation
    <3>. QED
      BY <1>1, <2>4, <3>1, <3>2 DEF CreationCalls, NobodyInNewborn, Newborn, At
  <2>. QED
    BY <1>9, <2>1, <2>2, <2>3, <2>4, NewbornSteps
<1>. QED
  BY <1>6, <1>7, <1>8, <1>9 DEF Creation, NobodyInNewborn

-----------------------------------------------------------------------------
\* Who changes which row.
LEMMA Writers ==
  ASSUME NEW r \in Requests, Step(r)
  PROVE  /\ UNCHANGED tenant \/ SaveTenant(r) \/ DeleteTenant(r)
         /\ UNCHANGED members \/ SaveOwner(r) \/ SaveMember(r) \/ RemoveMember(r) \/ DeleteTenant(r)
         /\ UNCHANGED items \/ AddItem(r) \/ DropItem(r) \/ DeleteTenant(r)
         /\ UNCHANGED saved \/ SaveRow(r) \/ DeleteRow(r) \/ DeleteTenant(r)
         /\ \/ UNCHANGED chats
            \/ OpenConversation(r) \/ SaveConversation(r) \/ DeleteConversation(r) \/ DeleteTenant(r)
         /\ \/ UNCHANGED messages
            \/ SaveQuestion(r) \/ SaveAnswer(r) \/ DeleteConversation(r) \/ DeleteTenant(r)
         /\ UNCHANGED audit \/ Record(r) \/ DeleteTenant(r)
         /\ \/ UNCHANGED history
            \/ Fail(r) \/ SaveMember(r) \/ RemoveMember(r) \/ DeleteTenant(r) \/ DeleteConversation(r)
<1>1. Handle(r) => UNCHANGED <<rows, history>>
  BY DEF Handle, HandleCreateTenant, HandleMember, HandleItem, HandleSourceView,
         HandlePolicyProfile, HandleAsk, HandleDeleteConversation, Begin
<1>2. Authorize(r) \/ GetTenant(r) \/ ListMembers(r) \/ CheckEmpty(r) \/ CountSaved(r) \/ GetSaved(r)
        \/ GetConversation(r) \/ FindConversation(r)
      => UNCHANGED <<rows, history>>
  BY DEF Authorize, GetTenant, ListMembers, CheckEmpty, CountSaved, GetSaved, GetConversation,
         FindConversation
<1> USE DEF rows
<1>3. CASE SaveTenant(r) \/ SaveOwner(r) \/ SaveMember(r) \/ RemoveMember(r)
  BY <1>3 DEF SaveTenant, SaveOwner, SaveMember, RemoveMember
<1>4. CASE AddItem(r) \/ DropItem(r) \/ SaveRow(r) \/ DeleteRow(r)
  BY <1>4 DEF AddItem, DropItem, SaveRow, DeleteRow
<1>5. CASE OpenConversation(r) \/ SaveQuestion(r) \/ SaveAnswer(r) \/ SaveConversation(r)
  BY <1>5 DEF OpenConversation, SaveQuestion, SaveAnswer, SaveMessage, SaveConversation
<1>6. CASE Fail(r) \/ Record(r)
  BY <1>6 DEF Fail, Record
<1>7. CASE DeleteTenant(r)
  BY <1>7
<1>8. CASE DeleteConversation(r)
  BY <1>8 DEF DeleteConversation
<1>. QED
  BY <1>1, <1>2, <1>3, <1>4, <1>5, <1>6, <1>7, <1>8 DEF Step

-----------------------------------------------------------------------------
(***************************************************************************)
(* The owners.  A removal that is about to be saved was decided while      *)
(* another owner was there, and as long as the memberships do not change   *)
(* (which makes the removal stale) that owner still is.                    *)
(***************************************************************************)

Removals ==
  \A r \in Requests :
    At(r, "remove") /\ ~request[r].stale /\ members[request[r].on] = "owner" =>
      \E v \in Users : v # request[r].on /\ members[v] = "owner"

LEMMA RemovableLeavesOwner ==
  ASSUME NEW u \in Users, Removable(u), members[u] = "owner"
  PROVE  \E v \in Users : v # u /\ members[v] = "owner"
<1> SUFFICES ASSUME \A v \in Users : v # u => members[v] # "owner" PROVE FALSE
  OBVIOUS
<1>1. Owners = {u}
  BY DEF Owners
<1>2. Cardinality(Owners) = 1
  BY <1>1, FS_Singleton
<1>. QED
  BY <1>2 DEF Removable

LEMMA RemovalsStep ==
  ASSUME WorkspaceAssumption, TypeInv, Creation, Removals, NEW r \in Requests, Step(r)
  PROVE  Removals'
<1> SUFFICES ASSUME NEW q \in Requests, request'[q].at = "remove", ~request'[q].stale,
                    members'[request'[q].on] = "owner"
             PROVE  \E v \in Users : v # request'[q].on /\ members'[v] = "owner"
  BY DEF Removals, At
<1>1. CASE q = r
  <2>1. ~Enters(r)
    <3>1. request \in [Requests -> Request]
      BY DEF TypeInv, TypeOK
    <3>. QED
      BY <1>1, <3>1 DEF Enters
  <2>2. ListMembers(r)
    BY <1>1, <2>1, ArrivesAt DEF Arrives
  <2>3. request'[r].on = request[r].on
    BY <1>1, <2>1, StaysItself
  <2>4. Removable(request[r].on)
    <3>1. End(r) => request'[r].at = "idle"
      BY IdleRequest DEF End, TypeInv, TypeOK
    <3>. QED
      BY <1>1, <2>2, <3>1 DEF ListMembers
  <2>5. request[r].on \in Users
    <3>1. Proper(request[r])
      BY <2>2 DEF TypeInv, ListMembers, At
    <3>. QED
      BY <2>2, <3>1, RouteOfCall, SubjectOfRoute DEF ListMembers, At
  <2>6. UNCHANGED members
    BY <2>2 DEF ListMembers, rows
  <2>. QED
    BY <1>1, <2>3, <2>4, <2>5, <2>6, RemovableLeavesOwner
<1>2. CASE q # r
  <2>1. /\ request[q].at = "remove" /\ ~request[q].stale
        /\ request'[q].on = request[q].on
    BY <1>2, OthersStay DEF OthersRemain
  <2>2. ~SaveMember(r) /\ ~RemoveMember(r)
    BY <1>2, <2>1, StaleEffect DEF SaveMember, RemoveMember
  <2>3. ~SaveOwner(r)
    <3> SUFFICES ASSUME SaveOwner(r) PROVE FALSE
      OBVIOUS
    <3>1. Newborn /\ Proper(request[q])
      BY <2>1 DEF SaveOwner, Newborn, TypeInv, At
    <3>. QED
      BY <2>1, <3>1, RouteOfCall DEF Creation, NobodyInNewborn, Authorized, At
  <2>4. ~DeleteTenant(r) \/ UNCHANGED members
    <3>1. request[q].on \in Users
      BY <2>1, RouteOfCall, SubjectOfRoute DEF TypeInv, At
    <3>. QED
      BY <2>1, <3>1 DEF DeleteTenant, NoMembers, rows, None
  <2>5. UNCHANGED members
    BY <2>2, <2>3, <2>4, Writers
  <2>. QED
    BY <2>1, <2>5 DEF Removals, At
<1>. QED
  BY <1>1, <1>2

\* The membership of the first owner is saved, or that fails.
LEMMA NewbornFails ==
  ASSUME NEW r \in Requests, Step(r), At(r, "saveOwner"), ~SaveOwner(r)
  PROVE  Fail(r)
BY DEF Step, Handle, HandleCreateTenant, HandleMember, HandleItem, HandleSourceView,
       HandlePolicyProfile, HandleAsk, HandleDeleteConversation, Begin, Authorize, Record,
       SaveTenant, GetTenant, SaveMember, ListMembers, RemoveMember, CheckEmpty,
       DeleteTenant, AddItem, DropItem, CountSaved, GetSaved, SaveRow, DeleteRow,
       GetConversation, OpenConversation, SaveQuestion, SaveAnswer, SaveConversation,
       FindConversation, DeleteConversation, At

LEMMA OwnersStep ==
  ASSUME WorkspaceAssumption, TypeInv, Creation, Removals, OwnersProtected,
         NEW r \in Requests, Step(r)
  PROVE  OwnersProtected'
<1> SUFFICES ASSUME tenant' = "present", ~history'.ownerless,
                    \A q \in Requests : request'[q].at # "saveOwner"
             PROVE  Owners' # {}
  BY DEF OwnersProtected, At
<1>1. request \in [Requests -> Request] /\ members \in [Users -> Roles \cup {None}]
  BY DEF TypeInv, TypeOK
<1>2. \A q \in Requests \ {r} : request[q].at # "saveOwner"
  BY OthersStay DEF OthersRemain
<1>3. CASE SaveTenant(r)
  <2>1. request'[r].at = "saveOwner"
    BY <1>1, <1>3 DEF SaveTenant, Goto, Request
  <2>. QED
    BY <2>1
<1>4. CASE SaveOwner(r)
  <2>1. request[r].user \in Users
    BY <1>4, RouteOfCall DEF SaveOwner, TypeInv, At, Proper
  <2>. QED
    BY <1>1, <1>4, <2>1 DEF SaveOwner, Owners
<1>5. CASE DeleteTenant(r) /\ tenant = "present"
  BY <1>5 DEF DeleteTenant
<1>6. CASE ~SaveTenant(r) /\ ~SaveOwner(r) /\ ~(DeleteTenant(r) /\ tenant = "present")
  <2>1. tenant = "present"
    BY <1>6, Writers DEF DeleteTenant, rows
  <2>2. ~history.ownerless
    <3>1. history \in [ownerless : BOOLEAN, overlap : BOOLEAN,
                      cleared : SUBSET Conversations, interrupted : SUBSET Conversations]
      BY DEF TypeInv, TypeOK
    <3>2. history'.ownerless = history.ownerless \/ history'.ownerless = TRUE
      BY <3>1, <1>6, <2>1, Writers
         DEF Fail, SaveMember, RemoveMember, DeleteConversation
    <3>. QED
      BY <3>2
  <2>3. Owners # {}
    <3>1. CASE At(r, "saveOwner")
      <4>1. Fail(r)
        BY <1>6, <3>1, NewbornFails
      <4>2. history' = [history EXCEPT !.ownerless = @ \/ At(r, "saveOwner")]
        BY <4>1 DEF Fail
      <4>. QED
        BY <3>1, <4>2 DEF TypeInv, TypeOK
    <3>2. CASE ~At(r, "saveOwner")
      BY <1>2, <2>1, <2>2, <3>2 DEF OwnersProtected, At
    <3>. QED
      BY <3>1, <3>2
  <2>4. CASE SaveMember(r)
    <3>1. /\ members' = [members EXCEPT ![request[r].on] = request[r].as]
          /\ history' = [history EXCEPT !.ownerless =
               @ \/ (members[request[r].on] = "owner" /\ request[r].as # "owner")]
      BY <2>4 DEF SaveMember
    <3>2. ~(members[request[r].on] = "owner" /\ request[r].as # "owner")
      BY <3>1 DEF TypeInv, TypeOK
    <3>. QED
      BY <1>1, <2>3, <3>1, <3>2 DEF Owners
  <2>5. CASE RemoveMember(r)
    <3>1. /\ members' = [members EXCEPT ![request[r].on] = None]
          /\ history' = [history EXCEPT !.ownerless = @ \/ request[r].stale]
          /\ At(r, "remove")
      BY <2>5 DEF RemoveMember
    <3>2. ~request[r].stale
      BY <3>1 DEF TypeInv, TypeOK
    <3>3. PICK o \in Users : members[o] = "owner"
      BY <2>3 DEF Owners
    <3>4. \E v \in Users : v # request[r].on /\ members[v] = "owner"
      BY <3>1, <3>2, <3>3 DEF Removals
    <3>. QED
      BY <1>1, <3>1, <3>4 DEF Owners
  <2>6. CASE UNCHANGED members
    BY <2>3, <2>6 DEF Owners
  <2>. QED
    BY <1>6, <2>1, <2>4, <2>5, <2>6, Writers
<1>. QED
  BY <1>3, <1>4, <1>5, <1>6

-----------------------------------------------------------------------------
(* The deletion of the workspace. *)

\* Where nobody is a member and nobody is past an authorization, nobody gets
\* past one.
LEMMA EmptyAdmitsNobody ==
  ASSUME WorkspaceAssumption, TypeInv, Creation, NEW r \in Requests, Step(r),
         tenant # "none", \A u \in Users : members[u] = None, ~Authorized(r)
  PROVE  ~Authorized(r)' /\ UNCHANGED rows
<1>1. request \in [Requests -> Request]
  BY DEF TypeInv, TypeOK
<1>2. CASE Enters(r)
  BY <1>1, <1>2 DEF Enters, Authorized, At
<1>3. CASE ~Enters(r)
  <2>1. ~At(r, "idle") /\ ~At(r, "saveTenant")
    BY <1>3, StepEffect DEF Creation, CreationCalls
  <2>2. At(r, "authorize") \/ At(r, "authorizeAI")
    BY <2>1 DEF Authorized, At
  <2>3. Authorize(r) \/ Fail(r)
    <3>1. ~Handle(r)
      BY <1>3, HandleEffect
    <3>. QED
      BY <2>2, <3>1
         DEF Step, Record, SaveTenant, SaveOwner, GetTenant, SaveMember, ListMembers,
             RemoveMember, CheckEmpty, DeleteTenant, AddItem, DropItem, CountSaved, GetSaved,
             SaveRow, DeleteRow, GetConversation, OpenConversation, SaveQuestion, SaveAnswer,
             SaveConversation, FindConversation, DeleteConversation, At
  <2>4. members[request[r].user] = None
    BY <2>2 DEF Creation, Callers, At
  <2>5. End(r) /\ UNCHANGED rows
    <3>1. CASE Authorize(r)
      BY <2>4, <3>1, AuthorizeEffect
    <3>2. CASE Fail(r)
      BY <2>2, <3>2 DEF Fail, Authorized, At
    <3>. QED
      BY <2>3, <3>1, <3>2
  <2>6. request'[r].at = "idle"
    BY <1>1, <2>5, IdleRequest DEF End
  <2>. QED
    BY <2>5, <2>6 DEF Authorized, At
<1>. QED
  BY <1>2, <1>3

LEMMA DeletionStep ==
  ASSUME WorkspaceAssumption, TypeInv, Creation, QuietDeletionLeavesNothing,
         NEW r \in Requests, Step(r)
  PROVE  QuietDeletionLeavesNothing'
<1> SUFFICES ASSUME tenant' = "deleted", ~history'.overlap
             PROVE  /\ \A u \in Users : members'[u] = None
                    /\ items' = {} /\ saved' = {} /\ chats' = {} /\ messages' = {} /\ audit' = {}
                    /\ \A q \in Requests : ~Authorized(q)'
  BY DEF QuietDeletionLeavesNothing
<1>1. \A q \in Requests \ {r} : request'[q].at = request[q].at
  BY OthersStay DEF OthersRemain
<1>2. CASE DeleteTenant(r) /\ tenant = "present"
  <2>1. history'.overlap = \E q \in Requests \ {r} : Authorized(q)
    BY <1>2 DEF DeleteTenant, TypeInv, TypeOK
  <2>2. \A q \in Requests \ {r} : ~Authorized(q)
    BY <2>1
  <2>3. request'[r].at = "idle"
    BY <1>2, IdleRequest DEF DeleteTenant, End, TypeInv, TypeOK
  <2>4. /\ \A u \in Users : members'[u] = None
        /\ items' = {} /\ saved' = {} /\ chats' = {} /\ messages' = {} /\ audit' = {}
    BY <1>2 DEF DeleteTenant, NoMembers
  <2>. QED
    BY <1>1, <2>2, <2>3, <2>4 DEF Authorized, At
<1>3. CASE ~(DeleteTenant(r) /\ tenant = "present")
  <2>1. tenant = "deleted"
    BY <1>3, Writers DEF SaveTenant, DeleteTenant, rows
  <2>2. ~history.overlap
    <3>1. history'.overlap = history.overlap
      BY <1>3, <2>1, Writers
         DEF Fail, SaveMember, RemoveMember, DeleteConversation, DeleteTenant, TypeInv, TypeOK
    <3>. QED
      BY <3>1
  <2>3. /\ \A u \in Users : members[u] = None
        /\ items = {} /\ saved = {} /\ chats = {} /\ messages = {} /\ audit = {}
        /\ \A q \in Requests : ~Authorized(q)
    BY <2>1, <2>2 DEF QuietDeletionLeavesNothing
  <2>4. ~Authorized(r)' /\ UNCHANGED rows
    BY <2>1, <2>3, EmptyAdmitsNobody
  <2>. QED
    BY <1>1, <2>3, <2>4 DEF rows, Authorized, At
<1>. QED
  BY <1>2, <1>3

-----------------------------------------------------------------------------
(***************************************************************************)
(* Conversations.  The conversation that a request is about to start is    *)
(* nobody else's; nobody has a question in a cleared conversation; who has *)
(* one in a conversation that was not interrupted finds it there.          *)
(***************************************************************************)

Starting(r) ==
  request[r].route = "startConversation" /\ request[r].at \in {"authorize", "authorizeAI", "open"}

InConversation(r) == request[r].at \in {"question", "answer", "touch"}

StartedAreNew ==
  \A r \in Requests : Starting(r) =>
    /\ request[r].on \notin chats \cup history.cleared
    /\ \A m \in messages : m.on # request[r].on
    /\ \A q \in Requests \ {r} :
         request[q].on = request[r].on => ~Starting(q) /\ ~InConversation(q)

NobodyInCleared ==
  \A r \in Requests : InConversation(r) =>
    request[r].on \notin history.cleared \ history.interrupted

AskersFindTheirs ==
  \A r \in Requests :
    InConversation(r) /\ request[r].on \notin history.interrupted /\ ~history.overlap =>
      /\ request[r].on \in chats
      /\ request[r].at \in {"answer", "touch"} =>
           [on |-> request[r].on, ask |-> request[r].as, role |-> "user"] \in messages

LEMMA ArrivesInConversation ==
  ASSUME WorkspaceAssumption, TypeInv, NEW r \in Requests, Step(r), InConversation(r)'
  PROVE  /\ ~Enters(r)
         /\ request'[r].on = request[r].on /\ request'[r].as = request[r].as
         /\ \/ GetConversation(r) /\ request[r].on \in chats /\ request'[r].at = "question"
            \/ OpenConversation(r) /\ Starting(r) /\ request'[r].at = "question"
            \/ SaveQuestion(r) /\ InConversation(r) /\ request'[r].at = "answer"
            \/ SaveAnswer(r) /\ request[r].at = "answer" /\ request'[r].at = "touch"
<1>1. request \in [Requests -> Request]
  BY DEF TypeInv, TypeOK
<1>2. ~Enters(r)
  BY <1>1 DEF Enters, InConversation
<1>3. request'[r].at # "idle"
  BY DEF InConversation
<1>4. Proper(request[r]) /\ request'[r].on = request[r].on /\ request'[r].as = request[r].as
  BY <1>2, <1>3, StaysItself, StepEffect
<1>5. \/ (GetConversation(r) \/ OpenConversation(r)) /\ request'[r].at = "question"
      \/ SaveQuestion(r) /\ request'[r].at = "answer"
      \/ SaveAnswer(r) /\ request'[r].at = "touch"
  BY <1>2, ArrivesAt DEF Arrives, InConversation
<1>6. GetConversation(r) /\ request'[r].at = "question" => request[r].on \in chats
  <2> SUFFICES ASSUME GetConversation(r), request'[r].at = "question", request[r].on \notin chats
               PROVE  FALSE
    OBVIOUS
  <2>1. Failing(r)
    BY DEF GetConversation
  <2>. QED
    BY <1>1, <2>1, IdleRequest DEF Failing, Goto, End, Request
<1>7. OpenConversation(r) => Starting(r)
  BY <1>4, RouteOfCall DEF OpenConversation, Starting, At
<1>. QED
  BY <1>2, <1>4, <1>5, <1>6, <1>7 DEF SaveQuestion, SaveAnswer, InConversation, At

LEMMA ClearsOnly ==
  ASSUME TypeInv, NEW r \in Requests, Step(r)
  PROVE  /\ \/ /\ history'.cleared = history.cleared
               /\ history'.interrupted = history.interrupted
            \/ /\ DeleteConversation(r) /\ request[r].on \in chats
               /\ history'.cleared = history.cleared \cup {request[r].on}
               /\ history'.interrupted = IF Asking(request[r].on) = {} THEN history.interrupted
                                         ELSE history.interrupted \cup {request[r].on}
         /\ history'.overlap = history.overlap \/ (DeleteTenant(r) /\ tenant = "present")
<1>1. history \in [ownerless : BOOLEAN, overlap : BOOLEAN,
                   cleared : SUBSET Conversations, interrupted : SUBSET Conversations]
  BY DEF TypeInv, TypeOK
<1>2. CASE UNCHANGED history
  BY <1>2
<1>3. CASE Fail(r) \/ SaveMember(r) \/ RemoveMember(r)
  BY <1>1, <1>3 DEF Fail, SaveMember, RemoveMember
<1>4. CASE DeleteTenant(r)
  BY <1>1, <1>4 DEF DeleteTenant, rows
<1>5. CASE DeleteConversation(r)
  <2>1. CASE request[r].on \notin chats
    BY <1>2, <1>5, <2>1 DEF DeleteConversation
  <2>2. CASE request[r].on \in chats
    BY <1>1, <1>5, <2>2 DEF DeleteConversation
  <2>. QED
    BY <2>1, <2>2
<1>. QED
  BY <1>2, <1>3, <1>4, <1>5, Writers

\* What a step does to the conversations: a request in one adds to it, the
\* others only delete.
LEMMA ConversationWriters ==
  ASSUME WorkspaceAssumption, TypeInv, NEW r \in Requests, Step(r)
  PROVE  /\ \/ chats' \subseteq chats
            \/ /\ Starting(r) \/ InConversation(r)
               /\ chats' = chats \cup {request[r].on}
         /\ \/ messages' \subseteq messages
            \/ /\ SaveQuestion(r) /\ InConversation(r)
               /\ messages' = messages \cup
                    {[on |-> request[r].on, ask |-> request[r].as, role |-> "user"]}
            \/ /\ SaveAnswer(r) /\ request[r].at = "answer"
               /\ messages' = messages \cup
                    {[on |-> request[r].on, ask |-> request[r].as, role |-> "assistant"]}
<1>1. OpenConversation(r) => Starting(r) /\ chats' = chats \cup {request[r].on}
  BY RouteOfCall DEF OpenConversation, Starting, At, TypeInv
<1>2. SaveConversation(r) => InConversation(r) /\ chats' = chats \cup {request[r].on}
  BY DEF SaveConversation, InConversation, At
<1>3. DeleteConversation(r) => chats' \subseteq chats /\ messages' \subseteq messages
  BY DEF DeleteConversation, Others
<1>4. DeleteTenant(r) => chats' \subseteq chats /\ messages' \subseteq messages
  BY DEF DeleteTenant, rows
<1>5. SaveQuestion(r) =>
        /\ InConversation(r)
        /\ \/ messages' = messages
           \/ messages' = messages \cup
                {[on |-> request[r].on, ask |-> request[r].as, role |-> "user"]}
  BY DEF SaveQuestion, SaveMessage, InConversation, At
<1>6. SaveAnswer(r) =>
        /\ request[r].at = "answer"
        /\ \/ messages' = messages
           \/ messages' = messages \cup
                {[on |-> request[r].on, ask |-> request[r].as, role |-> "assistant"]}
  BY DEF SaveAnswer, SaveMessage, At
<1>7. \/ chats' \subseteq chats
      \/ /\ Starting(r) \/ InConversation(r)
         /\ chats' = chats \cup {request[r].on}
  BY <1>1, <1>2, <1>3, <1>4, Writers
<1>8. \/ messages' \subseteq messages
      \/ /\ SaveQuestion(r) /\ InConversation(r)
         /\ messages' = messages \cup
              {[on |-> request[r].on, ask |-> request[r].as, role |-> "user"]}
      \/ /\ SaveAnswer(r) /\ request[r].at = "answer"
         /\ messages' = messages \cup
              {[on |-> request[r].on, ask |-> request[r].as, role |-> "assistant"]}
  BY <1>3, <1>4, <1>5, <1>6, Writers
<1>. QED
  BY <1>7, <1>8

LEMMA ArrivesStarting ==
  ASSUME WorkspaceAssumption, TypeInv, NEW r \in Requests, Step(r), Starting(r)'
  PROVE  /\ UNCHANGED <<rows, history>>
         /\ Enters(r) \/ (Starting(r) /\ request'[r].on = request[r].on)
<1>1. CASE Enters(r)
  BY <1>1 DEF Enters
<1>2. CASE ~Enters(r)
  <2>1. request'[r].route = request[r].route /\ request'[r].on = request[r].on
    BY <1>2, StaysItself DEF Starting
  <2>2. Authorize(r)
    BY <1>2, ArrivesAt DEF Arrives, Starting
  <2>. QED
    BY <2>1, <2>2, AuthorizeEffect DEF Starting, At
<1>. QED
  BY <1>1, <1>2

LEMMA StartedStep ==
  ASSUME WorkspaceAssumption, TypeInv, StartedAreNew, NEW r \in Requests, Step(r)
  PROVE  StartedAreNew'
<1> SUFFICES ASSUME NEW q \in Requests, Starting(q)'
             PROVE  /\ request'[q].on \notin chats' \cup history'.cleared
                    /\ \A m \in messages' : m.on # request'[q].on
                    /\ \A p \in Requests \ {q} :
                         request'[p].on = request'[q].on => ~Starting(p)' /\ ~InConversation(p)'
  BY DEF StartedAreNew
<1>1. \A p \in Requests \ {r} :
        /\ request'[p].at = request[p].at
        /\ request'[p].route = request[p].route
        /\ request'[p].on = request[p].on
  BY OthersStay DEF OthersRemain
<1>2. \A p \in Requests \ {r} :
        (Starting(p)' <=> Starting(p)) /\ (InConversation(p)' <=> InConversation(p))
  BY <1>1 DEF Starting, InConversation
<1>3. ASSUME Enters(r), Starting(r)'
      PROVE  request'[r].on \notin Used
  <2>1. request \in [Requests -> Request]
    BY DEF TypeInv, TypeOK
  <2>. QED
    BY <1>3, <2>1 DEF Enters, Starting
<1>4. CASE q = r /\ Enters(r)
  <2>1. UNCHANGED <<rows, history>> /\ request'[r].on \notin Used
    BY <1>3, <1>4, ArrivesStarting
  <2>. QED
    BY <1>1, <1>4, <2>1 DEF Used, rows
<1>5. CASE q = r /\ ~Enters(r)
  <2>1. UNCHANGED <<rows, history>> /\ Starting(r) /\ request'[r].on = request[r].on
    BY <1>5, ArrivesStarting
  <2>. QED
    BY <1>1, <1>2, <1>5, <2>1 DEF StartedAreNew, rows
<1>6. CASE q # r
  <2>1. Starting(q) /\ request'[q].on = request[q].on
    BY <1>1, <1>2, <1>6
  <2>2. request[r].on = request[q].on => ~Starting(r) /\ ~InConversation(r)
    BY <1>6, <2>1 DEF StartedAreNew
  <2>3. /\ request[q].on \notin chats \cup history.cleared
        /\ \A m \in messages : m.on # request[q].on
    BY <2>1 DEF StartedAreNew
  <2>4. request[q].on \notin chats'
    BY <2>2, <2>3, ConversationWriters
  <2>5. request[q].on \notin history'.cleared
    BY <2>3, ClearsOnly
  <2>6. \A m \in messages' : m.on # request[q].on
    <3>1. request[r].at = "answer" => InConversation(r)
      BY DEF InConversation
    <3>. QED
      BY <2>2, <2>3, <3>1, ConversationWriters
  <2>7. request'[r].on = request[q].on => ~Starting(r)' /\ ~InConversation(r)'
    <3>1. ASSUME Starting(r)', request'[r].on = request[q].on PROVE FALSE
      <4>1. CASE Enters(r)
        BY <1>3, <3>1, <4>1 DEF Used
      <4>2. CASE ~Enters(r)
        BY <2>2, <3>1, <4>2, ArrivesStarting
      <4>. QED
        BY <4>1, <4>2
    <3>2. ASSUME InConversation(r)', request'[r].on = request[q].on PROVE FALSE
      BY <2>2, <2>3, <3>2, ArrivesInConversation DEF InConversation
    <3>. QED
      BY <3>1, <3>2
  <2>8. \A p \in Requests \ {q, r} :
          request[p].on = request[q].on => ~Starting(p) /\ ~InConversation(p)
    BY <2>1 DEF StartedAreNew
  <2>. QED
    BY <1>1, <1>2, <1>6, <2>1, <2>4, <2>5, <2>6, <2>7, <2>8
<1>. QED
  BY <1>4, <1>5, <1>6

LEMMA ClearedStep ==
  ASSUME WorkspaceAssumption, TypeInv, StartedAreNew, NobodyInCleared, QuietClearIsFinal,
         NEW r \in Requests, Step(r)
  PROVE  NobodyInCleared' /\ QuietClearIsFinal'
<1> DEFINE quiet == history.cleared \ history.interrupted
<1>1. \A p \in Requests \ {r} :
        /\ InConversation(p)' <=> InConversation(p)
        /\ request'[p].on = request[p].on
  BY OthersStay DEF OthersRemain, InConversation
<1>2. \A c \in quiet :
        /\ c \notin chats
        /\ \A m \in messages : m.on # c
  BY DEF QuietClearIsFinal
\* A conversation newly cleared, with nobody in it.
<1>3. \A c \in (history'.cleared \ history'.interrupted) \ quiet :
        /\ DeleteConversation(r) /\ c = request[r].on /\ c \in chats
        /\ \A p \in Requests : InConversation(p) => request[p].on # c
  BY ClearsOnly DEF Asking, InConversation
<1>4. ASSUME NEW c \in history'.cleared \ history'.interrupted
      PROVE  /\ c \notin chats'
             /\ \A m \in messages' : m.on # c
  <2>1. CASE c \in quiet
    <3>1. request[r].on = c => ~Starting(r) /\ ~InConversation(r) /\ request[r].at # "answer"
      BY <2>1 DEF StartedAreNew, NobodyInCleared, InConversation
    <3>. QED
      BY <1>2, <2>1, <3>1, ConversationWriters
  <2>2. CASE c \notin quiet
    <3>1. DeleteConversation(r) /\ c = request[r].on /\ c \in chats
      BY <1>3, <1>4, <2>2
    <3>2. chats' = chats \ {c} /\ messages' = Others(c)
      BY <3>1 DEF DeleteConversation
    <3>. QED
      BY <3>2 DEF Others
  <2>. QED
    BY <2>1, <2>2
<1>5. ASSUME NEW p \in Requests, InConversation(p)',
             request'[p].on \in history'.cleared \ history'.interrupted
      PROVE  FALSE
  <2>1. CASE p = r
    <3>1. /\ request'[r].on = request[r].on
          /\ \/ GetConversation(r) /\ request[r].on \in chats
             \/ Starting(r)
             \/ InConversation(r)
      BY <1>5, <2>1, ArrivesInConversation DEF InConversation
    <3>2. ~DeleteConversation(r)
      BY <1>5, <2>1, ArrivesInConversation
         DEF DeleteConversation, GetConversation, OpenConversation, SaveQuestion, SaveAnswer, At
    <3>3. request[r].on \in quiet
      BY <1>3, <1>5, <2>1, <3>1, <3>2
    <3>. QED
      BY <1>2, <3>1, <3>3 DEF StartedAreNew, NobodyInCleared
  <2>2. CASE p # r
    BY <1>1, <1>3, <1>5, <2>2 DEF NobodyInCleared
  <2>. QED
    BY <2>1, <2>2
<1>. QED
  BY <1>4, <1>5 DEF NobodyInCleared, QuietClearIsFinal

LEMMA AskersStep ==
  ASSUME WorkspaceAssumption, TypeInv, AskersFindTheirs, NEW r \in Requests, Step(r)
  PROVE  AskersFindTheirs'
<1> SUFFICES ASSUME NEW q \in Requests, InConversation(q)',
                    request'[q].on \notin history'.interrupted, ~history'.overlap
             PROVE  /\ request'[q].on \in chats'
                    /\ request'[q].at \in {"answer", "touch"} =>
                         [on |-> request'[q].on, ask |-> request'[q].as, role |-> "user"]
                           \in messages'
  BY DEF AskersFindTheirs
<1>1. CASE q # r
  <2>1. /\ request'[q].at = request[q].at /\ request'[q].on = request[q].on
        /\ request'[q].as = request[q].as /\ InConversation(q)
    BY <1>1, OthersStay DEF OthersRemain, InConversation
  <2>2. ~(DeleteTenant(r) /\ tenant = "present")
    <3> SUFFICES ASSUME DeleteTenant(r), tenant = "present" PROVE FALSE
      OBVIOUS
    <3>1. history'.overlap = \E p \in Requests \ {r} : Authorized(p)
      BY DEF DeleteTenant, TypeInv, TypeOK
    <3>2. Authorized(q)
      BY <2>1 DEF InConversation, Authorized, At
    <3>. QED
      BY <1>1, <3>1, <3>2
  <2>3. request[q].on \notin history.interrupted /\ ~history.overlap
    BY <2>1, <2>2, ClearsOnly
  <2>4. /\ request[q].on \in chats
        /\ request[q].at \in {"answer", "touch"} =>
             [on |-> request[q].on, ask |-> request[q].as, role |-> "user"] \in messages
    BY <2>1, <2>3 DEF AskersFindTheirs
  <2>5. DeleteConversation(r) /\ request[r].on \in chats => request[r].on # request[q].on
    <3> SUFFICES ASSUME DeleteConversation(r), request[r].on \in chats,
                        request[r].on = request[q].on
                 PROVE  FALSE
      OBVIOUS
    <3>1. q \in Asking(request[r].on)
      BY <2>1 DEF Asking, InConversation
    <3>2. history'.interrupted = history.interrupted \cup {request[r].on}
      BY <3>1 DEF DeleteConversation, TypeInv, TypeOK
    <3>. QED
      BY <2>1, <3>2
  <2>6. /\ request[q].on \in chats'
        /\ request[q].at \in {"answer", "touch"} =>
             [on |-> request[q].on, ask |-> request[q].as, role |-> "user"] \in messages'
    <3>1. CASE DeleteConversation(r)
      BY <2>4, <2>5, <3>1 DEF DeleteConversation, Others
    <3>2. CASE ~DeleteConversation(r)
      BY <2>2, <2>4, <3>2, Writers
         DEF DeleteTenant, rows, OpenConversation, SaveConversation, SaveQuestion, SaveAnswer,
             SaveMessage
    <3>. QED
      BY <3>1, <3>2
  <2>. QED
    BY <2>1, <2>6
<1>2. CASE q = r
  <2>1. request'[r].on = request[r].on /\ request'[r].as = request[r].as
    BY <1>2, ArrivesInConversation
  <2>2. request[r].on \notin history.interrupted /\ (~history.overlap \/ DeleteTenant(r))
    BY <1>2, <2>1, ClearsOnly
  <2>3. CASE GetConversation(r) /\ request[r].on \in chats /\ request'[r].at = "question"
    BY <1>2, <2>1, <2>3 DEF GetConversation, rows
  <2>4. CASE OpenConversation(r) /\ request'[r].at = "question"
    BY <1>2, <2>1, <2>4 DEF OpenConversation
  <2>5. CASE SaveQuestion(r) /\ InConversation(r) /\ request'[r].at = "answer"
    <3>1. request[r].on \in chats /\ UNCHANGED chats
      BY <2>2, <2>5 DEF AskersFindTheirs, SaveQuestion, SaveMessage, DeleteTenant, At
    <3>2. messages' = messages \cup {[on |-> request[r].on, ask |-> request[r].as, role |-> "user"]}
      BY <2>5, <3>1 DEF SaveQuestion, SaveMessage
    <3>. QED
      BY <1>2, <2>1, <3>1, <3>2
  <2>6. CASE SaveAnswer(r) /\ request[r].at = "answer" /\ request'[r].at = "touch"
    <3>1. /\ request[r].on \in chats /\ UNCHANGED chats
          /\ [on |-> request[r].on, ask |-> request[r].as, role |-> "user"] \in messages
      BY <2>2, <2>6
         DEF AskersFindTheirs, InConversation, SaveAnswer, SaveMessage, DeleteTenant, At
    <3>2. messages \subseteq messages'
      BY <2>6, <3>1 DEF SaveAnswer, SaveMessage
    <3>. QED
      BY <1>2, <2>1, <3>1, <3>2
  <2>. QED
    BY <1>2, <2>3, <2>4, <2>5, <2>6, ArrivesInConversation
<1>. QED
  BY <1>1, <1>2

LEMMA TranscriptsStep ==
  ASSUME WorkspaceAssumption, TypeInv, AskersFindTheirs, TranscriptsAreWhole,
         NEW r \in Requests, Step(r)
  PROVE  TranscriptsAreWhole'
<1> SUFFICES ASSUME NEW m \in messages', m.on \notin history'.interrupted, ~history'.overlap
             PROVE  /\ m.on \in chats'
                    /\ m.role = "assistant" => [m EXCEPT !.role = "user"] \in messages'
  BY DEF TranscriptsAreWhole
<1>1. CASE DeleteTenant(r) /\ tenant = "present"
  BY <1>1 DEF DeleteTenant
<1>2. CASE ~(DeleteTenant(r) /\ tenant = "present")
  <2>1. m.on \notin history.interrupted /\ ~history.overlap
    BY <1>2, ClearsOnly
  <2>2. messages \subseteq Message /\ chats \subseteq Conversations
    BY DEF TypeInv, TypeOK
  <2>3. CASE m \in messages
    <3>1. /\ m.on \in chats
          /\ m.role = "assistant" => [m EXCEPT !.role = "user"] \in messages
      BY <2>1, <2>3 DEF TranscriptsAreWhole
    <3>2. [m EXCEPT !.role = "user"].on = m.on
      BY <2>2, <2>3 DEF Message
    <3>3. CASE DeleteConversation(r) /\ request[r].on \in chats
      <4>1. chats' = chats \ {request[r].on} /\ messages' = Others(request[r].on)
        BY <3>3 DEF DeleteConversation
      <4>. QED
        BY <3>1, <3>2, <4>1 DEF Others
    <3>4. CASE ~(DeleteConversation(r) /\ request[r].on \in chats)
      BY <1>2, <3>1, <3>4, Writers
         DEF DeleteTenant, DeleteConversation, rows, OpenConversation, SaveConversation,
             SaveQuestion, SaveAnswer, SaveMessage
    <3>. QED
      BY <3>3, <3>4
  <2>4. CASE m \notin messages
    <3>1. InConversation(r) /\ UNCHANGED chats
      BY <2>4, ConversationWriters DEF SaveQuestion, SaveAnswer, SaveMessage, InConversation
    <3>2. CASE m = [on |-> request[r].on, ask |-> request[r].as, role |-> "user"]
      BY <2>1, <3>1, <3>2 DEF AskersFindTheirs
    <3>3. CASE /\ m = [on |-> request[r].on, ask |-> request[r].as, role |-> "assistant"]
               /\ request[r].at = "answer"
               /\ messages \subseteq messages'
      <4>1. m.on = request[r].on
            /\ [m EXCEPT !.role = "user"]
                 = [on |-> request[r].on, ask |-> request[r].as, role |-> "user"]
        BY <3>3
      <4>. QED
        BY <2>1, <3>1, <3>3, <4>1 DEF AskersFindTheirs
    <3>. QED
      BY <2>4, <3>2, <3>3, ConversationWriters
  <2>. QED
    BY <2>3, <2>4
<1>. QED
  BY <1>1, <1>2

-----------------------------------------------------------------------------
(***************************************************************************)
(* The limit of saved rows.  Counted together with the rows that requests  *)
(* have decided to save, they exceed it by those requests but one: the     *)
(* last that counted found room.                                           *)
(***************************************************************************)

Savers == {r \in Requests : At(r, "save")}
Pending == {request[r].on : r \in Savers}
PendingWithinLimit ==
  Cardinality(saved \cup Pending) <= MaxSaved + Cardinality(Requests) - 1

LEMMA UnionIsSmall ==
  ASSUME WorkspaceAssumption, NEW S \in SUBSET Saved, NEW R \in SUBSET Requests,
         NEW T, NEW on \in Surjection(R, T)
  PROVE  /\ IsFiniteSet(S \cup T)
         /\ Cardinality(S) \in Nat
         /\ Cardinality(Requests) \in Nat
         /\ Cardinality(S \cup T) \in Nat
         /\ Cardinality(S \cup T) <= Cardinality(S) + Cardinality(Requests)
<1>1. IsFiniteSet(Requests) /\ IsFiniteSet(Saved)
  BY DEF WorkspaceAssumption
<1>2. IsFiniteSet(S)
  BY <1>1, FS_Subset
<1>3. IsFiniteSet(R) /\ Cardinality(R) <= Cardinality(Requests)
  BY <1>1, FS_Subset
<1>4. IsFiniteSet(T) /\ Cardinality(T) <= Cardinality(R)
  BY <1>3, FS_Surjection
<1>5. IsFiniteSet(S \cup T)
  BY <1>2, <1>4, FS_Union
<1>6. /\ Cardinality(S) \in Nat /\ Cardinality(T) \in Nat
      /\ Cardinality(R) \in Nat /\ Cardinality(Requests) \in Nat
      /\ Cardinality(S \cup T) \in Nat
      /\ Cardinality(S \cap T) \in Nat
  BY <1>1, <1>2, <1>3, <1>4, <1>5, FS_CardinalityType, FS_Intersection
<1>7. Cardinality(S \cup T) = Cardinality(S) + Cardinality(T) - Cardinality(S \cap T)
  BY <1>2, <1>4, FS_Union
<1>8. Cardinality(S \cup T) <= Cardinality(S) + Cardinality(Requests)
  BY <1>3, <1>4, <1>6, <1>7
<1>. QED
  BY <1>5, <1>6, <1>8

LEMMA PendingIsFinite ==
  ASSUME WorkspaceAssumption, TypeInv
  PROVE  IsFiniteSet(saved \cup Pending)
<1>1. saved \cup Pending \subseteq Saved
  BY RouteOfCall, SubjectOfRoute DEF TypeInv, TypeOK, Pending, Savers, SavedRoutes, At
<1>. QED
  BY <1>1, FS_Subset DEF WorkspaceAssumption

LEMMA PendingInit == WorkspaceAssumption /\ Init => PendingWithinLimit
<1> SUFFICES ASSUME WorkspaceAssumption, Init PROVE PendingWithinLimit
  OBVIOUS
<1>1. saved \cup Pending = {}
  BY IdleRequest DEF Init, Pending, Savers, At
<1>2. Cardinality(saved \cup Pending) = 0
  BY <1>1, FS_EmptySet
<1>3. Cardinality(Requests) \in Nat /\ MaxSaved \in Nat \ {0}
  BY FS_CardinalityType DEF WorkspaceAssumption
<1>. QED
  BY <1>2, <1>3 DEF PendingWithinLimit

LEMMA PendingStep ==
  ASSUME WorkspaceAssumption, TypeInv, PendingWithinLimit, NEW r \in Requests, Step(r)
  PROVE  PendingWithinLimit'
<1>1. \A p \in Requests \ {r} :
        request'[p].at = request[p].at /\ request'[p].on = request[p].on
  BY OthersStay DEF OthersRemain
<1>2. MaxSaved \in Nat /\ Cardinality(Requests) \in Nat
  BY FS_CardinalityType DEF WorkspaceAssumption
<1>3. ASSUME request'[r].at = "save"
      PROVE  /\ CountSaved(r) \/ GetSaved(r)
             /\ request'[r].on = request[r].on
  <2>1. ~Enters(r)
    BY <1>3 DEF Enters, TypeInv, TypeOK
  <2>. QED
    BY <1>3, <2>1, ArrivesAt, StaysItself DEF Arrives
<1>4. CASE CountSaved(r) /\ request'[r].at = "save"
  <2>1. saved' = saved /\ Cardinality(saved) < MaxSaved
    <3>1. End(r) => request'[r].at = "idle"
      BY IdleRequest DEF End, TypeInv, TypeOK
    <3>. QED
      BY <1>4, <3>1 DEF CountSaved, BelowLimit, rows
  <2>2. PICK S : S = saved
    OBVIOUS
  <2>3. PICK R : R = Savers'
    OBVIOUS
  <2>4. PICK T : T = Pending'
    OBVIOUS
  <2>5. PICK on : on = [q \in Savers' |-> request'[q].on]
    OBVIOUS
  <2>6. /\ S \in SUBSET Saved /\ R \in SUBSET Requests
        /\ on \in Surjection(R, T)
    BY <2>2, <2>3, <2>4, <2>5 DEF Savers, Pending, Surjection, TypeInv, TypeOK
  <2>7. /\ Cardinality(S \cup T) <= Cardinality(S) + Cardinality(Requests)
        /\ Cardinality(S) \in Nat /\ Cardinality(S \cup T) \in Nat
    BY <2>6, UnionIsSmall
  <2>8. Cardinality(S) < MaxSaved
    BY <2>1, <2>2
  <2>9. Cardinality(S \cup T) <= MaxSaved + Cardinality(Requests) - 1
    BY <1>2, <2>7, <2>8
  <2>. QED
    BY <2>1, <2>2, <2>4, <2>9 DEF PendingWithinLimit
<1>5. CASE ~(CountSaved(r) /\ request'[r].at = "save")
  <2>1. saved' \subseteq saved \/ (At(r, "save") /\ saved' = saved \cup {request[r].on})
    BY Writers DEF SaveRow, DeleteRow, DeleteTenant, rows
  <2>2. request'[r].at = "save" => request'[r].on \in saved
    <3>1. ASSUME GetSaved(r), request'[r].at = "save" PROVE request[r].on \in saved
      BY <3>1, IdleRequest DEF GetSaved, End, TypeInv, TypeOK
    <3>. QED
      BY <1>3, <1>5, <3>1
  <2>3. saved' \cup Pending' \subseteq saved \cup Pending
    BY <1>1, <2>1, <2>2 DEF Pending, Savers, At
  <2>4. PICK S : S = saved \cup Pending
    OBVIOUS
  <2>5. PICK T : T = saved' \cup Pending'
    OBVIOUS
  <2>6. IsFiniteSet(S) /\ T \in SUBSET S
    BY <2>3, <2>4, <2>5, PendingIsFinite
  <2>7. Cardinality(T) <= Cardinality(S) /\ Cardinality(T) \in Nat /\ Cardinality(S) \in Nat
    BY <2>6, FS_Subset, FS_CardinalityType
  <2>8. Cardinality(S) <= MaxSaved + Cardinality(Requests) - 1
    BY <2>4 DEF PendingWithinLimit
  <2>9. Cardinality(T) <= MaxSaved + Cardinality(Requests) - 1
    BY <1>2, <2>7, <2>8
  <2>. QED
    BY <2>5, <2>9 DEF PendingWithinLimit
<1>. QED
  BY <1>4, <1>5

LEMMA PendingBoundsSaved ==
  ASSUME WorkspaceAssumption, TypeInv, PendingWithinLimit
  PROVE  SavedWithinLimit
<1>1. PICK S : S = saved \cup Pending
  OBVIOUS
<1>2. PICK T : T = saved
  OBVIOUS
<1>3. Cardinality(T) <= Cardinality(S) /\ Cardinality(T) \in Nat /\ Cardinality(S) \in Nat
  <2>1. IsFiniteSet(S) /\ T \in SUBSET S
    BY <1>1, <1>2, PendingIsFinite
  <2>. QED
    BY <2>1, FS_Subset, FS_CardinalityType
<1>4. Cardinality(S) <= MaxSaved + Cardinality(Requests) - 1
  BY <1>1 DEF PendingWithinLimit
<1>5. MaxSaved \in Nat /\ Cardinality(Requests) \in Nat
  BY FS_CardinalityType DEF WorkspaceAssumption
<1>6. Cardinality(T) <= MaxSaved + Cardinality(Requests) - 1
  BY <1>3, <1>4, <1>5
<1>. QED
  BY <1>2, <1>6 DEF SavedWithinLimit

-----------------------------------------------------------------------------
(***************************************************************************)
(* The theorems.                                                           *)
(***************************************************************************)

IInv ==
  /\ TypeInv /\ Creation /\ Removals /\ OwnersProtected /\ QuietDeletionLeavesNothing
  /\ StartedAreNew /\ NobodyInCleared /\ QuietClearIsFinal
  /\ AskersFindTheirs /\ TranscriptsAreWhole
  /\ PendingWithinLimit

LEMMA IInvInit == WorkspaceAssumption /\ Init => IInv
<1> SUFFICES ASSUME WorkspaceAssumption, Init PROVE IInv
  OBVIOUS
<1>1. /\ \A r \in Requests : request[r] = Idle
      /\ chats = {} /\ messages = {}
      /\ history.cleared = {} /\ history.ownerless = FALSE
      /\ tenant # "deleted"
  BY DEF Init
<1>2. Removals /\ StartedAreNew /\ NobodyInCleared /\ AskersFindTheirs
  BY <1>1 DEF Removals, StartedAreNew, NobodyInCleared, AskersFindTheirs, Starting,
              InConversation, Idle, At
<1>3. OwnersProtected
  BY DEF Init, OwnersProtected
<1>4. QuietDeletionLeavesNothing /\ QuietClearIsFinal /\ TranscriptsAreWhole
  BY <1>1 DEF QuietDeletionLeavesNothing, QuietClearIsFinal, TranscriptsAreWhole
<1>. QED
  BY <1>2, <1>3, <1>4, TypeInit, CreationInit, PendingInit DEF IInv

LEMMA IInvStep == WorkspaceAssumption /\ IInv /\ [Next]_vars => IInv'
<1> SUFFICES ASSUME WorkspaceAssumption, IInv, [Next]_vars PROVE IInv'
  OBVIOUS
<1>1. ASSUME NEW r \in Requests, Step(r) PROVE IInv'
  BY <1>1, TypeStep, CreationStep, RemovalsStep, OwnersStep, DeletionStep, StartedStep,
     ClearedStep, AskersStep, TranscriptsStep, PendingStep DEF IInv
<1>2. CASE UNCHANGED vars
  <2>1. /\ TypeInv' /\ Creation' /\ Removals'
    BY <1>2 DEF IInv, vars, TypeInv, TypeOK, At, Creation, OneCreation, CreationCalls,
                NobodyInNewborn, Newborn, Authorized, Callers, Removals
  <2>2. OwnersProtected' /\ QuietDeletionLeavesNothing' /\ PendingWithinLimit'
    BY <1>2 DEF IInv, vars, OwnersProtected, Owners, QuietDeletionLeavesNothing, Authorized, At,
                PendingWithinLimit, Pending, Savers
  <2>3. StartedAreNew' /\ NobodyInCleared' /\ QuietClearIsFinal'
    BY <1>2 DEF IInv, vars, StartedAreNew, NobodyInCleared, QuietClearIsFinal, Starting,
                InConversation
  <2>4. AskersFindTheirs' /\ TranscriptsAreWhole'
    BY <1>2 DEF IInv, vars, AskersFindTheirs, TranscriptsAreWhole, InConversation
  <2>. QED
    BY <2>1, <2>2, <2>3, <2>4 DEF IInv
<1>. QED
  BY <1>1, <1>2 DEF Next

LEMMA IInvInvariance == Spec => []IInv
<1>1. Init => IInv
  BY IInvInit, WorkspaceAssumption
<1>2. IInv /\ [Next]_vars => IInv'
  BY IInvStep, WorkspaceAssumption
<1>. QED
  BY <1>1, <1>2, PTL DEF Spec

\* The variables are of their types.
THEOREM WorkspaceTypes == Spec => []TypeOK
<1>1. IInv => TypeOK
  BY DEF IInv, TypeInv
<1>. QED
  BY <1>1, IInvInvariance, PTL

\* However many users, requests and owners there are, the last owner is lost
\* in the three named ways only (DeleteTenantMember, AddTenantMember,
\* CreateTenant of app/tenants.go).
THEOREM OwnersAreProtected == Spec => []OwnersProtected
<1>1. IInv => OwnersProtected
  BY DEF IInv
<1>. QED
  BY <1>1, IInvInvariance, PTL

\* A deletion of the workspace that meets no authorized request leaves nothing
\* and lets nobody in again (DeleteTenant of app/tenants.go and both stores).
THEOREM QuietDeletionsLeaveNothing == Spec => []QuietDeletionLeavesNothing
<1>1. IInv => QuietDeletionLeavesNothing
  BY DEF IInv
<1>. QED
  BY <1>1, IInvInvariance, PTL

\* Whatever the limit of saved views and profiles is, it is exceeded by fewer
\* rows than there are requests (app/source_views.go,
\* app/source_policy_profiles.go).
THEOREM SavedStayWithinLimit == Spec => []SavedWithinLimit
<1>1. IInv => SavedWithinLimit
  BY PendingBoundsSaved, WorkspaceAssumption DEF IInv
<1>. QED
  BY <1>1, IInvInvariance, PTL

\* A conversation cleared while nobody asks in it stays cleared
\* (DeleteConversation of app/conversations.go).
THEOREM QuietClearsAreFinal == Spec => []QuietClearIsFinal
<1>1. IInv => QuietClearIsFinal
  BY DEF IInv
<1>. QED
  BY <1>1, IInvInvariance, PTL

\* Messages have their conversation and answers their question, in both
\* repositories (Ask and AskStream of app/conversations.go).
THEOREM TranscriptsStayWhole == Spec => []TranscriptsAreWhole
<1>1. IInv => TranscriptsAreWhole
  BY DEF IInv
<1>. QED
  BY <1>1, IInvInvariance, PTL

=============================================================================
