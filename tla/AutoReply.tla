------------------------------ MODULE AutoReply -----------------------------
(***************************************************************************)
(* The reply the AI gives when nobody else has for 90 seconds:             *)
(* AiReplyScheduler arms a delayed job when an enquiry is created,         *)
(* AiReplyProcessor looks again when it fires, asks the AI service and     *)
(* adds the reply.  A restart loses events; a job that was running is      *)
(* found stalled and runs once more.                                       *)
(***************************************************************************)
EXTENDS Naturals, Sequences, FiniteSets

CONSTANTS
    Leads,  \* enquiries that may be created
    Limits  \* bounds on what happens

Happenings == {"created", "human", "customer", "closed", "restart"}

ASSUME LimitsAssumption == Limits \subseteq [Happenings -> Nat]

VARIABLES
    lead,    \* absent, open, won (CONVERTED), lost (CLOSED_LOST, up to 30 days)
    heard,   \* enquiries with an inbound message
    replies, \* senders of the outbound messages, in order
    created, \* enquiry.created events not yet handled
    timer,   \* the job ai-reply-<id>: none, delayed, waiting, active
    step,    \* of an active job: look, ask, add, end
    stalls,  \* times the job was found stalled
    raced,   \* enquiries answered by a human after the job had looked
    rest     \* what may still happen

vars == <<lead, heard, replies, created, timer, step, stalls, raced, rest>>

AutoReplyTypeOK ==
    /\ lead \in [Leads -> {"absent", "open", "won", "lost"}]
    /\ heard \subseteq Leads /\ created \subseteq Leads /\ raced \subseteq Leads
    /\ replies \in [Leads -> Seq({"human", "ai"})]
    /\ timer \in [Leads -> {"none", "delayed", "waiting", "active"}]
    /\ step \in [Leads -> {"none", "look", "ask", "add", "end"}]
    /\ \A e \in Leads : (step[e] # "none") = (timer[e] = "active")
    /\ stalls \in [Leads -> 0..1]
    /\ rest \in [Happenings -> Nat]

Init ==
    /\ rest \in Limits
    /\ lead = [e \in Leads |-> "absent"]
    /\ heard = {} /\ created = {} /\ raced = {}
    /\ replies = [e \in Leads |-> <<>>]
    /\ timer = [e \in Leads |-> "none"]
    /\ step = [e \in Leads |-> "none"]
    /\ stalls = [e \in Leads |-> 0]

Spend(what) == rest[what] > 0 /\ rest' = [rest EXCEPT ![what] = @ - 1]

(* handleQualified: the enquiry begins with the customer's message, and    *)
(* its creation is announced.                                              *)
Create(e) ==
    /\ lead[e] = "absent"
    /\ Spend("created")
    /\ lead' = [lead EXCEPT ![e] = "open"]
    /\ heard' = heard \cup {e}
    /\ created' = created \cup {e}
    /\ UNCHANGED <<replies, timer, step, stalls, raced>>
(* By staff, perhaps with a first message to the customer; announced to    *)
(* nobody, so no job is armed.                                             *)
CreateByStaff(e) ==
    /\ lead[e] = "absent"
    /\ Spend("created")
    /\ lead' = [lead EXCEPT ![e] = "open"]
    /\ \E first \in {<<>>, <<"human">>} : replies' = [replies EXCEPT ![e] = first]
    /\ UNCHANGED <<heard, created, timer, step, stalls, raced>>

(* The job id is the enquiry's: adding it twice adds it once.              *)
Arm(e) ==
    /\ e \in created
    /\ created' = created \ {e}
    /\ timer' = [timer EXCEPT ![e] = IF @ = "none" THEN "delayed" ELSE @]
    /\ UNCHANGED <<lead, heard, replies, step, stalls, raced, rest>>

Fire(e) ==
    /\ timer[e] = "delayed"
    /\ timer' = [timer EXCEPT ![e] = "waiting"]
    /\ UNCHANGED <<lead, heard, replies, created, step, stalls, raced, rest>>
Take(e) ==
    /\ timer[e] = "waiting"
    /\ timer' = [timer EXCEPT ![e] = "active"]
    /\ step' = [step EXCEPT ![e] = "look"]
    /\ UNCHANGED <<lead, heard, replies, created, stalls, raced, rest>>

(* Mutant of Unanswered: only a human's reply counts. *)
NoHumanYet(e) == \A i \in DOMAIN replies[e] : replies[e][i] # "human"
Unanswered(e) == replies[e] = <<>>
Look(e) ==
    /\ step[e] = "look"
    /\ step' = [step EXCEPT ![e] =
           IF lead[e] = "open" /\ Unanswered(e) /\ e \in heard THEN "ask" ELSE "end"]
    /\ UNCHANGED <<lead, heard, replies, created, timer, stalls, raced, rest>>

(* Held: escalated, no text, too little confidence, or the service failed. *)
AiAnswers(e) ==
    /\ step[e] = "ask"
    /\ \E next \in {"add", "end"} : step' = [step EXCEPT ![e] = next]
    /\ UNCHANGED <<lead, heard, replies, created, timer, stalls, raced, rest>>

(* addAiReply: the enquiry's state is not looked at again.                 *)
AddAiReply(e) ==
    /\ step[e] = "add"
    /\ replies' = [replies EXCEPT ![e] = Append(@, "ai")]
    /\ step' = [step EXCEPT ![e] = "end"]
    /\ UNCHANGED <<lead, heard, created, timer, stalls, raced, rest>>

(* removeOnComplete, removeOnFail; there is one attempt.                   *)
Remove(e) ==
    /\ timer' = [timer EXCEPT ![e] = "none"]
    /\ step' = [step EXCEPT ![e] = "none"]
EndJob(e) ==
    /\ step[e] = "end"
    /\ Remove(e)
    /\ UNCHANGED <<lead, heard, replies, created, stalls, raced, rest>>
FailJob(e) ==
    /\ step[e] \in {"look", "add"}
    /\ Remove(e)
    /\ UNCHANGED <<lead, heard, replies, created, stalls, raced, rest>>

HumanReplies(e) ==
    /\ lead[e] # "absent"
    /\ Spend("human")
    /\ replies' = [replies EXCEPT ![e] = Append(@, "human")]
    /\ raced' = IF step[e] \in {"ask", "add"} THEN raced \cup {e} ELSE raced
    /\ UNCHANGED <<lead, heard, created, timer, step, stalls>>
(* Appended to the open enquiry, or to one closed as lost, which it opens. *)
CustomerWrites(e) ==
    /\ lead[e] \in {"open", "lost"}
    /\ Spend("customer")
    /\ lead' = [lead EXCEPT ![e] = "open"]
    /\ heard' = heard \cup {e}
    /\ UNCHANGED <<replies, created, timer, step, stalls, raced>>
CloseLead(e) ==
    /\ lead[e] = "open"
    /\ Spend("closed")
    /\ \E end \in {"won", "lost"} : lead' = [lead EXCEPT ![e] = end]
    /\ UNCHANGED <<heard, replies, created, timer, step, stalls, raced>>

(* Events in memory are gone.  A running job goes back to wait, and is     *)
(* given up when it stalls a second time.                                  *)
Restart ==
    /\ Spend("restart")
    /\ created' = {}
    /\ timer' = [e \in Leads |-> IF timer[e] # "active" THEN timer[e]
                                 ELSE IF stalls[e] = 0 THEN "waiting" ELSE "none"]
    /\ step' = [e \in Leads |-> "none"]
    /\ stalls' = [e \in Leads |-> IF timer[e] = "active" THEN 1 ELSE stalls[e]]
    /\ UNCHANGED <<lead, heard, replies, raced>>

Next ==
    \/ \E e \in Leads :
        \/ Create(e) \/ CreateByStaff(e) \/ Arm(e) \/ Fire(e) \/ Take(e)
        \/ Look(e) \/ AiAnswers(e) \/ AddAiReply(e) \/ EndJob(e) \/ FailJob(e)
        \/ HumanReplies(e) \/ CustomerWrites(e) \/ CloseLead(e)
    \/ Restart

Spec == Init /\ [][Next]_vars

-----------------------------------------------------------------------------
(* Through restarts and repeated jobs an enquiry gets at most one reply of *)
(* the AI, and the AI is the first to answer unless a human answered while *)
(* it was being asked (AiReplyProcessor: "agent replied within 90s, once   *)
(* per enquiry, and idempotency").                                         *)
AiRepliesOnce ==
    \A e \in Leads : \A i \in DOMAIN replies[e] :
        replies[e][i] = "ai" =>
            /\ \A j \in DOMAIN replies[e] : replies[e][j] = "ai" => j = i
            /\ i = 1 \/ e \in raced
=============================================================================
