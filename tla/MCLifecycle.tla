------------------------------ MODULE MCLifecycle ------------------------------
(***************************************************************************)
(* Three procedures in which what was read, shown or planned is acted upon *)
(* later, and possibly again: the end of an organization, the onboarding   *)
(* of a zone, and form drafts.  They share nothing: a behaviour exercises  *)
(* one of them and `part' says which.                                      *)
(*                                                                         *)
(* Erasure: organization north still works when the model starts, south is *)
(* approved for erasure.  Both know u1; south knows u2, whom north may     *)
(* take on.                                                                *)
(*                                                                         *)
(* Onboarding: a zone of three records, one managed already, one to be     *)
(* removed, and one that belongs to nobody and may be adopted.             *)
(*                                                                         *)
(* Drafts: two windows of one person.                                      *)
(***************************************************************************)
EXTENDS Procedures, TLC

CONSTANTS north, south, u1, u2, ra, ma, fb,
          app, api, www, learn, old, new
VARIABLE part

MCOwnerOf == ra :> north @@ ma :> north
MCMembers == {<<u1, north>>, <<u1, south>>, <<u2, south>>}
MCInvitation == {<<u2, north>>}
MCStored == north :> {} @@ south :> {fb}

NoRecord == [name |-> None, content |-> None, owner |-> None]
Record(name, owner) == [name |-> name, content |-> old, owner |-> owner]
MCZone == [i \in 1..MaxId |-> CASE i = 1 -> Record(app, app) [] i = 2 -> Record(api, api)
                                [] i = 3 -> Record(www, None) [] OTHER -> NoRecord]
Item(key, state, adopt) ==
  [key |-> key, name |-> key, state |-> state, content |-> new, adopt |-> adopt]
MCConfig == {<<Item(app, "present", 0), Item(api, "absent", 0)>>,
             <<Item(www, "present", 3), Item(app, "absent", 0)>>,
             <<Item(learn, "present", 0), Item(app, "present", 0)>>}

dnsVars == <<zone, next, outside, quiet, snapshot, zonePlan, zoneReceipt, tool, undo>>
draftVars == <<row, rows, window, asked, late, edits, losses>>
all == <<part, vars, dnsVars, draftVars>>

OfErasure(step) == part = "erasure" /\ step /\ UNCHANGED <<part, dnsVars, draftVars>>
OfDns(step) == part = "dns" /\ step /\ UNCHANGED <<part, vars, draftVars>>
OfDrafts(step) == part = "drafts" /\ step /\ UNCHANGED <<part, vars, dnsVars>>

EachInit == part \in {"erasure", "dns", "drafts"} /\ Init /\ Dns!Init /\ Drafts!Init
EachNext == OfErasure(Next) \/ OfDns(Dns!Next) \/ OfDrafts(Drafts!Next)

\* The fairness of the parts: Lifecycle!Fairness and FormDrafts!Fairness.
EachFairness ==
  /\ \A t \in Tenant : WF_all(OfErasure(Cleanup(t)))
  /\ \A w \in Window : /\ WF_all(OfDrafts(Drafts!Autosave(w)))
                       /\ WF_all(OfDrafts(Drafts!Receive(w)))
                       /\ WF_all(OfDrafts(Drafts!Finish(w)))
EachSpec == EachInit /\ [][EachNext]_all /\ EachFairness
===============================================================================
