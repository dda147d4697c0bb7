--------------------------- MODULE RequestServer ---------------------------
(***************************************************************************)
(* What libthingplus promises the server about requests: they are taken    *)
(* one at a time; one that can be answered is answered before the next is  *)
(* taken; its callback runs once at most, after it arrived and before it   *)
(* is answered; and the answer says "result" if and only if that callback  *)
(* ran and returned true.  After mqtt_cleanup nothing happens any more.    *)
(*                                                                         *)
(* DeviceManagement implements this.                                       *)
(***************************************************************************)
EXTENDS Integers, Sequences

VARIABLES
    arrived,    \* how many requests arrived; they are numbered in order
    asked,      \* the numbers of those that must be answered
    did,        \* the callbacks that ran, and what they returned
    answers,    \* the answers published
    open        \* mqtt_cleanup has not returned

service == <<arrived, asked, did, answers, open>>

Init ==
    /\ arrived = 0 /\ asked = <<>> /\ did = {} /\ answers = <<>>
    /\ open = TRUE

Waiting == Len(asked) > Len(answers)

Asked == asked[Len(asked)]

(* A request arrives; one without an id, or that comes before the          *)
(* application has installed callbacks, is not answered.                   *)
Arrive ==
    /\ open /\ ~Waiting
    /\ arrived' = arrived + 1
    /\ asked' \in {asked, Append(asked, arrived')}
    /\ UNCHANGED <<did, answers, open>>

Do ==
    /\ open /\ Waiting
    /\ \A a \in did : a.id # Asked
    /\ \E ok \in BOOLEAN : did' = did \cup {[id |-> Asked, ok |-> ok]}
    /\ UNCHANGED <<arrived, asked, answers, open>>

Answer ==
    /\ open /\ Waiting
    /\ \E kind \in {"result", "-32601", "-32000"} :
          /\ kind = "result" <=> [id |-> Asked, ok |-> TRUE] \in did
          /\ answers' = Append(answers, [id |-> Asked, kind |-> kind])
    /\ UNCHANGED <<arrived, asked, did, open>>

Close ==
    /\ open /\ open' = FALSE
    /\ UNCHANGED <<arrived, asked, did, answers>>

Next == Arrive \/ Do \/ Answer \/ Close

Spec == Init /\ [][Next]_service
=============================================================================
