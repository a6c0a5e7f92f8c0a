------------------------------- MODULE Procedures -------------------------------
(***************************************************************************)
(* What was read, shown or planned is acted upon later, and possibly again:*)
(* the end of an organization (Lifecycle), the onboarding of a zone (Dns)  *)
(* and form drafts (Drafts).  They share no state; here each is given      *)
(* variables of its own.                                                   *)
(***************************************************************************)
EXTENDS Lifecycle, Sequences

CONSTANTS
  \* onboarding
  Zone, MaxId, Config, Content, MaxOutside,
  \* drafts
  Window, Text, Blank, MaxEdits, MaxLosses

VARIABLES
  zone, next, outside, quiet, snapshot, zonePlan, zoneReceipt, tool, undo,
  row, rows, window, asked, late, edits, losses

Dns == INSTANCE DnsOnboarding WITH plan <- zonePlan, receipt <- zoneReceipt
Drafts == INSTANCE FormDrafts

\* The provider numbers the records it has from one.  An item of a configuration may name
\* a record to adopt.
ASSUME OnboardingConstants ==
  /\ MaxId \in Nat
  /\ \E known \in 0..MaxId : \A i \in 1..MaxId : Zone[i] # Dns!Gone <=> i <= known
  /\ Zone = [i \in 1..MaxId |-> Zone[i]]
  /\ \A config \in Config :
       /\ Len(config) \in Nat /\ DOMAIN config = 1..Len(config)
       /\ \A n \in DOMAIN config :
            config[n].adopt \in 0..MaxId /\ config[n].state \in {"present", "absent"}

-----------------------------------------------------------------------------
\* The properties of the other parts, as these instances have them.
ActsAsReviewed == Dns!ActsAsReviewed
RollbackRestores == Dns!RollbackRestores
OverwritesWhatWasSeen == Drafts!OverwritesWhatWasSeen
TypedIsSaved == Drafts!TypedIsSaved
===============================================================================
