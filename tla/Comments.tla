------------------------------- MODULE Comments -------------------------------
(***************************************************************************)
(* Comments and the admins' replies (comments.service).  Every request     *)
(* reads the comment first and writes it in a second query.                *)
(***************************************************************************)
EXTENDS FiniteSets

CONSTANTS Comments, Requests, Replies, None

VARIABLES
  comments,   \* the Comment rows
  reply,      \* adminReply
  isReplied,  \* what makes a comment public
  pc, comment, text,
  overtaken   \* history: comments whose reply was removed while an update
              \* of the reply was past its check

commentVars == <<comments, reply, isReplied>>
vars == <<commentVars, pc, comment, text, overtaken>>

Init ==
  /\ comments = {}
  /\ reply = [c \in Comments |-> None]
  /\ isReplied = [c \in Comments |-> FALSE]
  /\ pc = [r \in Requests |-> "idle"]
  /\ comment = [r \in Requests |-> None]
  /\ text = [r \in Requests |-> None]
  /\ overtaken = {}

CreateComment(c) ==
  /\ c \notin comments
  /\ comments' = comments \cup {c}
  /\ UNCHANGED <<reply, isReplied, pc, comment, text, overtaken>>

Check(r, c, t, next) ==
  /\ pc[r] = "idle"
  /\ comment' = [comment EXCEPT ![r] = c]
  /\ text' = [text EXCEPT ![r] = t]
  /\ pc' = [pc EXCEPT ![r] = IF c \in comments THEN next ELSE "notFound"]
  /\ UNCHANGED <<commentVars, overtaken>>

ReadForReply(r, c, t) == Check(r, c, t, "reply")
\* Mutant: a comment without a reply can have it updated.
ReadUnchecked(r, c, t) == Check(r, c, t, "update")
\* Only a comment that has a reply can have it updated.
ReadForUpdate(r, c, t) == Check(r, c, t, IF isReplied[c] THEN "update" ELSE "notFound")
ReadForRemoval(r, c) == Check(r, c, None, "remove")

\* Requests past the check of an update of c.
Updating(c) == {r \in Requests : pc[r] = "update" /\ comment[r] = c}

Write(r, newReply, replied) ==
  /\ reply' = [reply EXCEPT ![comment[r]] = newReply]
  /\ isReplied' = [isReplied EXCEPT ![comment[r]] = replied]
  /\ pc' = [pc EXCEPT ![r] = "done"]
  /\ UNCHANGED <<comments, comment, text>>

Reply(r) ==
  /\ pc[r] = "reply"
  /\ Write(r, text[r], TRUE)
  /\ overtaken' = overtaken \ {comment[r]}

UpdateReply(r) ==
  /\ pc[r] = "update"
  /\ Write(r, text[r], isReplied[comment[r]])
  /\ UNCHANGED overtaken

RemoveReply(r) ==
  /\ pc[r] = "remove"
  /\ Write(r, None, FALSE)
  /\ overtaken' = IF Updating(comment[r]) # {} THEN overtaken \cup {comment[r]}
                  ELSE overtaken \ {comment[r]}

\* GET /comments
Public == {c \in Comments : isReplied[c]}

Next ==
  \/ \E c \in Comments : CreateComment(c)
  \/ \E r \in Requests :
       \/ \E c \in Comments, t \in Replies : ReadForReply(r, c, t) \/ ReadForUpdate(r, c, t)
       \/ \E c \in Comments : ReadForRemoval(r, c)
       \/ Reply(r) \/ UpdateReply(r) \/ RemoveReply(r)

Spec == Init /\ [][Next]_vars

-----------------------------------------------------------------------------
(* Properties *)

\* The comments shown in public are those with a reply, whatever admins answer,
\* correct and retract at once; only an update of a reply that was retracted
\* after its check leaves a reply nobody sees, until the next one is given or
\* retracted.
PublicHaveReplies ==
  \A c \in Comments :
    /\ c \in Public => reply[c] # None
    /\ reply[c] # None => c \in Public \cup overtaken
=============================================================================
