------------------------------- MODULE Rewind -------------------------------
(* The checkpoints of the session's thread: what LangGraph puts during a turn, *)
(* the message index the SQLite checkpointer keeps beside them                 *)
(* (checkpointer/impl/sqlite.py), /replay, which deletes the checkpoints after *)
(* a chosen message (cli/handlers/replay.py), /compress, which moves to a new  *)
(* thread (cli/handlers/compress.py), and the repair of unfinished tool calls  *)
(* (middlewares/pending_tool_result.py).  A checkpoint's id is its place in    *)
(* the order of puts; a message is named by the put that brought it.           *)
EXTENDS Naturals, Sequences, FiniteSets

CONSTANTS Savers,    \* checkpointers that may be configured: sqlite, memory
          Fan,       \* tool calls of a message that calls tools
          Keep,      \* messages_to_keep of a compression
          Cancels,   \* TRUE: a turn may be cancelled
          Faults,    \* TRUE: indexing may fail, or the process die before it
          MaxPuts    \* bound on the checkpoints ever put

ASSUME RewindAssumption ==
  /\ Fan \in Nat \ {0} /\ Keep \in Nat /\ MaxPuts \in Nat
  /\ Savers \subseteq {"sqlite", "memory"} /\ Cancels \in BOOLEAN /\ Faults \in BOOLEAN

VARIABLES saver,    \* the checkpointer in use
          cps,      \* checkpoints: id -> its messages and its parent, 0 for none
          index,    \* checkpoint_messages: id -> the number of messages indexed
          puts,     \* the last id given out
          turn,     \* the graph: idle, or the step it takes next
          screen    \* <<what the last replay left on the screen>>, until it is added to
vars == <<saver, cps, index, puts, turn, screen>>

Kinds == {"human", "ai", "call", "tool"}

Indexed == saver = "sqlite"

Init ==
  /\ saver \in Savers
  /\ cps = <<>>
  /\ index = <<>>
  /\ puts = 0
  /\ turn = "idle"
  /\ screen = <<>>

-----------------------------------------------------------------------------
(* Reading a thread *)

IsLatest(id) == \A other \in DOMAIN cps : other <= id

\* The messages of the latest checkpoint.
Messages == IF cps = <<>> THEN <<>> ELSE cps[CHOOSE id \in DOMAIN cps : IsLatest(id)].messages

\* The checkpoints the latest one goes back to by parent_config.
History ==
  LET up[id \in Nat] == IF id \in DOMAIN cps THEN {id} \cup up[cps[id].parent] ELSE {}
  IN {id \in DOMAIN cps : \E latest \in DOMAIN cps : IsLatest(latest) /\ id \in up[latest]}

Counted(ids) == [id \in ids |-> Len(cps[id].messages)]

\* What get_human_messages counts by: an index with any row in it is taken to be
\* complete, one with none is made first; the in-memory checkpointer counts itself.
LazyIndex ==
  IF index # <<>> THEN index
  ELSE Counted({id \in History : cps[id].messages # <<>>})
Counts == IF Indexed THEN LazyIndex ELSE Counted(History)

\* checkpoint_id of a message with n before it: 0 stands for None.
Target(n) ==
  LET found == {id \in DOMAIN Counts : Counts[id] = n}
  IN IF found = {} THEN 0 ELSE CHOOSE id \in found : \A other \in found : other <= id

AfterTarget(id) ==  \* mutant: only the checkpoints just after the target's count
  IF id = 0 THEN DOMAIN cps
  ELSE {other \in DOMAIN cps : Len(cps[other].messages) = Len(cps[id].messages) + 1}
AfterOthers(id) ==  \* mutant: # for > in the HAVING clause
  IF id = 0 THEN DOMAIN cps
  ELSE {other \in DOMAIN cps : Len(cps[other].messages) # Len(cps[id].messages)}
AfterFrom(id) ==  \* mutant: >= for > in the HAVING clause
  IF id = 0 THEN DOMAIN cps
  ELSE {other \in DOMAIN cps : Len(cps[other].messages) >= Len(cps[id].messages)}
\* The checkpoints delete_after deletes: all for None, those the index has with more
\* messages than the target, or those after it in the history.
After(id) ==
  IF id = 0 THEN DOMAIN cps
  ELSE IF Indexed /\ id \in DOMAIN LazyIndex
  THEN {other \in DOMAIN LazyIndex : LazyIndex[other] > LazyIndex[id]}
  ELSE {other \in History : id \in History /\ other > id}

Without(f, ids) == [id \in DOMAIN f \ ids |-> f[id]]
With(f, new, v) == [id \in DOMAIN f \cup {new} |-> IF id = new THEN v ELSE f[id]]

-----------------------------------------------------------------------------
(* A turn *)

\* _index_messages: nothing for a checkpoint without messages, and when it fails.  Its
\* rows are one insertion, which is done wholly or not at all.
IndexMessages(id, ms, done) ==
  index' = IF done /\ ms # <<>> THEN With(index, id, Len(ms)) ELSE index

\* aput: the checkpoint and then its index, unless that fails, or the process dies in
\* between and a new one resumes the thread.
Put(ms, next) ==
  /\ puts < MaxPuts
  /\ puts' = puts + 1
  /\ cps' = With(cps, puts',
                 [messages |-> ms,
                  parent |-> IF cps = <<>> THEN 0 ELSE CHOOSE id \in DOMAIN cps : IsLatest(id)])
  /\ screen' = <<>>
  /\ \/ IndexMessages(puts', ms, Indexed) /\ turn' = next
     \/ Faults /\ Indexed /\ IndexMessages(puts', ms, FALSE) /\ turn' \in {next, "idle"}
  /\ UNCHANGED saver

New(kind) == [kind |-> kind, put |-> puts + 1]

\* The input checkpoint, and then the one with the user's message.
Send == turn = "idle" /\ Put(Messages, "human")
Human == turn = "human" /\ Put(Append(Messages, New("human")), "agent")

\* The last AI message's calls without a result get one, right after it.
Repaired(ms) ==
  LET ai == {i \in DOMAIN ms : ms[i].kind \in {"ai", "call"}}
      last == CHOOSE i \in ai : \A j \in ai : j <= i
      have == {i \in DOMAIN ms : i > last /\ ms[i].kind = "tool"}
  IN IF ai = {} \/ ms[last].kind = "ai" \/ have # {} THEN ms
     ELSE SubSeq(ms, 1, last) \o [k \in 1..Fan |-> New("tool")]
                              \o SubSeq(ms, last + 1, Len(ms))

BeforeAgent == turn = "agent" /\ Put(Repaired(Messages), "model")

Model ==
  /\ turn = "model"
  /\ \/ Put(Append(Messages, New("ai")), "idle")
     \/ Put(Append(Messages, New("call")), "tools")

Tools == turn = "tools" /\ Put(Messages \o [k \in 1..Fan |-> New("tool")], "model")

\* Ctrl+C: the step that was running puts nothing.
Cancel ==
  /\ Cancels /\ turn # "idle"
  /\ turn' = "idle"
  /\ UNCHANGED <<saver, cps, index, puts, screen>>

-----------------------------------------------------------------------------
(* Commands, between turns *)

\* Listing the user's messages, and leaving it at that.
Browse ==
  /\ turn = "idle" /\ Indexed /\ index = <<>> /\ Messages # <<>>
  /\ index' = LazyIndex
  /\ UNCHANGED <<saver, cps, puts, turn, screen>>

ReplayKeepsIndex(i) ==  \* mutant: delete_after leaves checkpoint_messages alone
  /\ turn = "idle" /\ Messages[i].kind = "human"
  /\ screen' = <<SubSeq(Messages, 1, i - 1)>>
  /\ cps' = Without(cps, After(Target(i - 1)))
  /\ index' = IF Indexed THEN LazyIndex ELSE index
  /\ UNCHANGED <<saver, puts, turn>>
\* The screen shows the messages before the chosen one; the checkpoints after the
\* one that has as many messages are deleted, and their index with them.
Replay(i) ==
  /\ turn = "idle" /\ Messages[i].kind = "human"
  /\ screen' = <<SubSeq(Messages, 1, i - 1)>>
  /\ cps' = Without(cps, After(Target(i - 1)))
  /\ index' = IF Indexed THEN Without(LazyIndex, After(Target(i - 1))) ELSE index
  /\ UNCHANGED <<saver, puts, turn>>

\* A new thread with one checkpoint: a summary and the messages to keep.
Compress ==
  /\ turn = "idle" /\ puts < MaxPuts
  /\ LET cut == IF Len(Messages) > Keep THEN Len(Messages) - Keep ELSE 0
         ms == (IF cut = 0 THEN <<>> ELSE <<New("ai")>>)
               \o SubSeq(Messages, cut + 1, Len(Messages))
     IN /\ Messages # <<>>
        /\ puts' = puts + 1
        /\ cps' = With(<<>>, puts', [messages |-> ms, parent |-> 0])
        /\ \/ index' = IF Indexed THEN With(<<>>, puts', Len(ms)) ELSE <<>>
           \/ Faults /\ Indexed /\ index' = <<>>
  /\ screen' = <<>>
  /\ UNCHANGED <<saver, turn>>

Next ==
  \/ Send \/ Human \/ BeforeAgent \/ Model \/ Tools \/ Cancel
  \/ Browse \/ Compress
  \/ \E i \in DOMAIN Messages : Replay(i)

Spec == Init /\ [][Next]_vars

-----------------------------------------------------------------------------
(* Properties *)

Message == [kind : Kinds, put : 1..MaxPuts]

\* Every row of the index is about a checkpoint that is there, and counts its
\* messages, whatever fails between a checkpoint and its index.
IndexSound ==
  \A id \in DOMAIN index : id \in DOMAIN cps /\ index[id] = Len(cps[id].messages)

\* A checkpoint whose messages should be in the index and are not.
Unindexed(id) == Indexed /\ cps[id].messages # <<>> /\ id \notin DOMAIN index

\* Deleting by number of messages cuts no checkpoint off from its ancestors, unless
\* its own indexing failed: the history of a thread goes back to its beginning.
HistoryWhole ==
  \A id \in DOMAIN cps : cps[id].parent \in {0} \cup DOMAIN cps \/ Unindexed(id)

\* What a replay shows as the conversation is what the model will be shown next.
RewindShowsThread == screen # <<>> => Messages = screen[1]

\* The thread keeps the promise of a conversation.
Thread == INSTANCE Conversation WITH messages <- Messages
ThreadIsConversation == Thread!Spec
=============================================================================
