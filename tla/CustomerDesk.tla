----------------------------- MODULE CustomerDesk -----------------------------
(***************************************************************************)
(* A supplier questionnaire whose answers are edited by the customer and   *)
(* reviewed by staff, and a ticket both write to (operations_routes.py).   *)
(* A person decides from what was read earlier; a request is repeated      *)
(* under the same key when its answer is lost, possibly much later.        *)
(* Requests of one tenant are served one at a time.                        *)
(***************************************************************************)
EXTENDS Naturals, FiniteSets

CONSTANTS
  Answer,                \* the questions of the questionnaire
  Content,               \* answers that may be given
  Documented,            \* those that name evidence
  MaxRequests,           \* bound: requests sent, each with an idempotency key of its own
  None

Review == {"unreviewed", "reviewed", "needs_revision", "insufficient_evidence"}
TicketStatus == {"open", "in_progress", "closed"}

VARIABLES
  answer,                \* questions to the answer and its review
  questionnaire,         \* status of the questionnaire
  ticket,                \* status of the ticket
  messages,              \* messages of the ticket: the keys they came with, how often each
  notified,              \* notifications to the customer, likewise
  seen,                  \* what reviewer and author last read: answers, and the ticket's status
  sent,                  \* requests sent, which may be served any number of times
  receipts,              \* keys of requests that were carried out
  approved               \* history: the content the reviewer had read when approving
vars == <<answer, questionnaire, ticket, messages, notified, seen, sent, receipts, approved>>

Key == 1..MaxRequests
Fresh == {Cardinality(sent) + 1} \cap Key
Send(q) == sent' = sent \cup {q}
           /\ UNCHANGED <<answer, questionnaire, ticket, messages, notified, seen, receipts, approved>>

-----------------------------------------------------------------------------
\* People.

Read(who) ==
  /\ seen' = [seen EXCEPT ![who] = [answer |-> answer, ticket |-> ticket]]
  /\ UNCHANGED <<answer, questionnaire, ticket, messages, notified, sent, receipts, approved>>

AskAnswer(key, a, content) ==
  Send([kind |-> "answer", key |-> key, of |-> a, expected |-> seen["author"].answer[a],
        content |-> content])
AskReview(key, a, decision) ==
  Send([kind |-> "review", key |-> key, of |-> a, expected |-> seen["reviewer"].answer[a],
        decision |-> decision])
AskReply(key, internal, visibility) ==
  /\ ~internal => visibility = "customer"
  /\ Send([kind |-> "reply", key |-> key, internal |-> internal, visibility |-> visibility])
AskStatus(key, status) ==
  Send([kind |-> "status", key |-> key, expected |-> seen["reviewer"].ticket, status |-> status])

-----------------------------------------------------------------------------
\* The server.

\* Mutant: a repeated request is carried out again.
Unremembered(q) == FALSE
Remembered(q) == q.key \in receipts

\* Mutant: the revision that is compared leaves out the text of the answer.
RevisionOfReview(row) == row.review
Revision(row) == <<row.content, row.review>>
Matches(q) == Revision(q.expected) = Revision(answer[q.of])

StatusOf(answers) ==
  IF \A a \in Answer : answers[a].review = "reviewed" THEN "reviewed" ELSE "in_review"
ChangeAnswer(q, row) ==
  /\ Matches(q)
  /\ answer' = [answer EXCEPT ![q.of] = row]
  /\ questionnaire' = StatusOf(answer')
  /\ UNCHANGED <<ticket, messages, notified>>

AnswerQuestion(q) ==
  /\ q.kind = "answer"
  /\ ChangeAnswer(q, [content |-> q.content, review |-> "unreviewed"])
  /\ UNCHANGED approved
ReviewAnswer(q) ==
  /\ q.kind = "review"
  /\ q.decision = "reviewed" => answer[q.of].content \in Documented
  /\ ChangeAnswer(q, [answer[q.of] EXCEPT !.review = q.decision])
  /\ approved' = IF q.decision = "reviewed"
                 THEN [approved EXCEPT ![q.of] = q.expected.content] ELSE approved

SendTicketMessage(q) ==
  /\ q.kind = "reply" /\ ticket # "closed"
  /\ messages' = [messages EXCEPT ![q.key] = @ + 1]
  /\ notified' = IF q.internal /\ q.visibility = "customer"
                 THEN [notified EXCEPT ![q.key] = @ + 1] ELSE notified
  /\ UNCHANGED <<answer, questionnaire, ticket, approved>>
ChangeTicketStatus(q) ==
  /\ q.kind = "status" /\ ticket = q.expected
  /\ ticket' = q.status
  /\ UNCHANGED <<answer, questionnaire, messages, notified, approved>>

Serve(q) ==
  /\ ~Remembered(q)
  /\ AnswerQuestion(q) \/ ReviewAnswer(q) \/ SendTicketMessage(q) \/ ChangeTicketStatus(q)
  /\ receipts' = receipts \cup {q.key}
  /\ UNCHANGED <<seen, sent>>

-----------------------------------------------------------------------------

Init ==
  /\ answer = [a \in Answer |-> [content |-> None, review |-> "unreviewed"]]
  /\ questionnaire = "open" /\ ticket = "open"
  /\ messages = [k \in Key |-> 0] /\ notified = [k \in Key |-> 0]
  /\ seen = [who \in {"author", "reviewer"} |-> [answer |-> answer, ticket |-> "open"]]
  /\ sent = {} /\ receipts = {} /\ approved = [a \in Answer |-> None]

People ==
  \/ \E who \in {"author", "reviewer"} : Read(who)
  \/ \E key \in Fresh :
       \/ \E a \in Answer, content \in Content : AskAnswer(key, a, content)
       \/ \E a \in Answer, decision \in Review \ {"unreviewed"} : AskReview(key, a, decision)
       \/ \E internal \in BOOLEAN, visibility \in {"customer", "internal"} :
            AskReply(key, internal, visibility)
       \/ \E status \in TicketStatus : AskStatus(key, status)
Next == People \/ \E q \in sent : Serve(q)
Spec == Init /\ [][Next]_vars

-----------------------------------------------------------------------------
\* An answer counts as reviewed only with the text, and with the evidence, that the
\* reviewer had read when deciding, and the questionnaire is reviewed exactly when all its
\* answers are, however late or often requests arrive (operations_routes.py:98).
ReviewedAsRead ==
  /\ \A a \in Answer : answer[a].review = "reviewed" =>
       approved[a] = answer[a].content /\ answer[a].content \in Documented
  /\ questionnaire = "reviewed" <=> \A a \in Answer : answer[a].review = "reviewed"

\* A reply that is repeated is one message and at most one notification, and what it
\* did is on record as long as the message is (operations_routes.py:268).
RepliesOnce ==
  \A k \in Key : /\ messages[k] <= 1 /\ notified[k] <= messages[k]
                 /\ messages[k] = 1 => k \in receipts
===============================================================================
