---------------------------- MODULE MCPortalAccess ----------------------------
(***************************************************************************)
(* A partner (2) and the customer it creates (1), administered by the      *)
(* platform (3).  The engineer logs in through the central entry while two *)
(* requests at a time change or use what she may do.                       *)
(***************************************************************************)
EXTENDS PortalAccess, TLC

CONSTANTS eng, adm, b1, b2

Op(kind, target) == [kind |-> kind, target |-> target]
MCStaff == {<<eng, 2, "partner_admin">>, <<eng, 2, "partner_engineer">>, <<adm, 3, "pm">>}
MCSignedIn ==
  1 :> [NoSession EXCEPT !.live = TRUE, !.user = adm, !.tenant = 3]
  @@ 2 :> [NoSession EXCEPT !.live = TRUE, !.user = eng, !.tenant = 2, !.partner = 2,
                            !.browser = b1]
MCAdopted == 2 :> [status |-> "ACTIVE", verified |-> TRUE, tls |-> TRUE, version |-> 1]
MCEntry == {[host |-> 2, partner |-> 2, path |-> "partner", asked |-> None]}
MCAsks ==
  <<eng, FALSE>> :>
         {Op("create", 1), Op("enter", 1), Op("credits", 1),
          [kind |-> "domain", target |-> None, step |-> "disable", expected |-> 1],
          [kind |-> "access", target |-> 1, user |-> eng, roles |-> {"engineer"},
           active |-> TRUE, expected |-> 0],
          [kind |-> "access", target |-> 1, user |-> eng, roles |-> {"pm"},
           active |-> TRUE, expected |-> 1]}
  @@ <<eng, TRUE>> :> {Op("logout", None), Op("return", None)}
  @@ <<adm, FALSE>> :>
         {[kind |-> "status", target |-> 2, expected |-> "active", to |-> "suspended"],
          [kind |-> "feature", target |-> 2, code |-> "partner_portal", enabled |-> FALSE],
          [kind |-> "member", target |-> 2, user |-> eng, role |-> "partner_engineer",
           active |-> FALSE]}
  @@ <<adm, TRUE>> :> {}
Symmetry == Permutations(Request)

===============================================================================
