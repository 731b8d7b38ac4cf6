---------------------------- MODULE Conversation ----------------------------
(* What a thread promises its user: messages are added at the end, a rewind    *)
(* takes the conversation back to just before a message of the user, and a     *)
(* compression puts a summary in the place of the oldest messages.             *)
EXTENDS Naturals, Sequences

CONSTANT Message    \* messages, of which those of kind "human" are the user's
VARIABLE messages   \* the conversation the model will be shown next

Init == messages = <<>>

Say == \E m \in Message, n \in 1..Len(messages') : messages' = messages \o [k \in 1..n |-> m]

Rewind == \E i \in DOMAIN messages :
            /\ messages[i].kind = "human"
            /\ messages' = SubSeq(messages, 1, i - 1)

Compress == \E m \in Message, k \in 0..Len(messages) :
              messages' = <<m>> \o SubSeq(messages, k + 1, Len(messages))

Spec == Init /\ [][Say \/ Rewind \/ Compress]_messages
=============================================================================
