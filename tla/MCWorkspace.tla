---------------------------- MODULE MCWorkspace ----------------------------
(* Instances of Workspace: each uses one of these sets of routes. *)
EXTENDS Workspace, TLC

MemberRoutes == {"createTenant", "addMember", "removeMember", "deleteTenant"}
ItemRoutes == {"addItem", "dropItem", "deleteTenant"}
ChatRoutes == {"ask", "startConversation", "deleteConversation"}
ChatAndTenantRoutes == {"startConversation", "deleteTenant"}
MCSetups ==
  [routes : {MemberRoutes, ItemRoutes, ChatRoutes, ChatAndTenantRoutes},
   backend : {"memory", "postgres"}, kind : {"view"}]
  \cup
  [routes : {SavedRoutes \cup {"deleteTenant"}}, backend : {"memory", "postgres"}, kind : Kinds]

\* Only invariants are checked, and no identifier is told from another.
Symmetry ==
  Permutations(Users) \cup Permutations(Requests) \cup Permutations(Saved)
    \cup Permutations(Conversations) \cup Permutations(Asks)
=============================================================================
